SPECIFICATION Spec
CONSTANTS
    Modes <- MCModes
    Displays = {"s1"}
    Viewers = {"v1", "v2"}
    Setups <- MCSetups
    Workers = 1
    MaxBacklog = 2
    MaxResets = 1
INVARIANTS
    PlaysFromStart
    ScreensCatchUp
PROPERTIES
    NewProductReachesScreens
    InferenceEnds
    ViewersSeeOn
    PressesAreServed
CHECK_DEADLOCK FALSE

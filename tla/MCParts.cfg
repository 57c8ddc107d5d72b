SPECIFICATION Spec
CONSTANTS
    Jobs <- MCJobs
    Recipes <- MCRecipes
    Configs <- MCConfigs
    ClassOf <- MCClassOf
    Places <- MCPlaces
    Lean <- MCLean
    BoxErrors <- MCBoxErrors
    Verdicts <- MCVerdicts
    MaxEvents = 5
    MaxMinutes = 2
    MaxFrames = 1
    Views <- MCViews
    Sessions <- MCSessions
    HoldFrames = 1
    Dt = 3
    NoAxis = NoAxis
    Segments <- MCSegments
    ErrorEvents <- MCErrorEvents
    Grace = 1
    FrameMs = 3
    MaxRows = 3
    MaxMissing = 1
    Rehearsed <- MCRehearsed
    BaseConfig <- MCBaseConfig
    Paces <- MCPaces
    MaxHeld = 600
    Photos <- MCPhotos
    Shows <- MCShows
    Unlabelled <- MCUnlabelled
    LOCAL_NAMES <- MCLocalNames
    SOURCES <- MCSources
    NameOrder <- MCNameOrder
    Groups <- MCGroups
    GroupOf <- MCGroupOf
    Albums <- MCAlbums
    SortedNames <- MCSortedNames
    ModelNames <- MCModelNames
    KFolds = {2, 3}
CHECK_DEADLOCK FALSE
INVARIANTS
    JudgedAsBuilt
    TurningChangesNothing
    MaterialsMakeTheProduct
    FinalCheckAgrees
    SummaryTellsTheEvents
    FramesAreCounted
    KeptIsOfThisProduct
    LogTellsTheRun
    ScoreIsTheTime
    RehearsalTellsItsStory
    ValidatedOnUnseen
    LabelsTellTheirPictures

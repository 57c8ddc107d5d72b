CONSTANTS
  MaterialShortages = {ms}
  MaterialErrors = {me}
  AssemblyShortages = {as}
  e1 = e1
  e2 = e2
  AssemblyErrors = {e1, e2}
  NoIssues = NoIssues
  None = None
  MaterialDuration = 3
  StableDuration = 1
  MaxFrameGap = 2
  MaxFrameId = 8
  MaxTimestamp = 8
SPECIFICATION MCSpec
SYMMETRY ErrorSymmetry
INVARIANTS TypeOK FilterMatchesTrail StableIffSupported VerdictIsLastSupported
PROPERTIES GateOpensOnReady ImplementsVerdict

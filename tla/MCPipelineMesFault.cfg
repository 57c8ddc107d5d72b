CONSTANTS
  c1 = c1
  c2 = c2
  r1 = r1
  r2 = r2
  o1 = o1
  o2 = o2
  Clients = {c1, c2}
  Recipes = {r1, r2}
  Orders = {o1, o2}
  RecipeOf <- MCRecipeOf
  Quantity = 1
  ClearFrames = 2
  ClearTime = 2
  MesMayFail = TRUE
  MaxRequests = 3
  Deviations = {"IN_PROGRESS"}
  None = None
SPECIFICATION PipelineSpec
SYMMETRY MCSymmetry
CHECK_DEADLOCK FALSE
INVARIANT LoopSurvives

SPECIFICATION M11Spec
CONSTANTS
  Beta = 2
  L0 = 1
  MaxScored = 6
  RBS = 2
  Representatives = 1
  Degree = 2
  ProjectionTopK = 2
  NumHeads = 2
  Vocabulary <- MCVocabulary
  Sampled = {1, 3}
  Key <- MCKey
  Query <- MCQuery
  Prompts <- MCPrompts
  NumRequests = 2
  MaxTokens = 3
  Capacity = 14
  Selectors = {"full", "exact_dipr", "top_k", "mean", "real", "knn_graph", "query_guided"}
  MaxSwitches = 1
  TopK = 1
  FirstTokens = 1
  QuerySamples = 2
  RecentWindows = {0, 2}
CHECK_DEADLOCK FALSE
INVARIANTS
  GathersOwnRows
  CriticalCovered
  IndexOfThisRequest
  RaisesOnlyAvoidably
  SearchComplete
  SearchSound
PROPERTIES
  SearchesEnd

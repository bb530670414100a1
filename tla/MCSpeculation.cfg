SPECIFICATION SpeculationSpec
CONSTANTS
  Tokens = {1, 2}
  N = 2
  NgramMaxK = 2
  Window = 4
  Margin = 1
  Ring = 5
  PrefillRows = 4
  MaxPosition = 10
  Drafters = {"ngram", "windowed", "static"}
  Prompts <- MCPrompts
  MaxK = 3
  MaxContext = 12
  MaxRequests = 2
INVARIANTS
  ProposesFromContext
  DraftSeesContext
  DraftWindowExact
CHECK_DEADLOCK FALSE

SPECIFICATION TPFairSpec
CONSTANTS
  w1 = w1
  w2 = w2
  w3 = w3
  Workers = {w1, w2, w3}
  MaxCalls = 3
INVARIANTS
  CommandsFollowed
PROPERTIES
  CallsReturn
CHECK_DEADLOCK FALSE

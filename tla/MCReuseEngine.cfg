SPECIFICATION ReuseSpec
CONSTANTS
  b1 = b1
  b2 = b2
  b3 = b3
  c1 = c1
  c2 = c2
  x = x
  y = y
  None = None
  Torn = Torn
  Nobody = Nobody
  Persister = Persister
  Seqs = {1, 2, 3}
  Blocks = {b1, b2, b3}
  Token = {x, y}
  EOS = y
  BlockSize = 2
  Prompts <- MCPrompts
  MaxTokens = 1
  MaxLen = 6
  MaxNumSeqs = 1
  MaxNumBatchedTokens = 3
  CpuCache = TRUE
  Slots = {c1, c2}
  MaxGeneration = 2
SYMMETRY Symmetry
VIEW View
PROPERTIES
  ImplementsEngine
  ImplementsContextDB
CHECK_DEADLOCK FALSE

SPECIFICATION TraceSpec
CONSTANTS
  b1 = b1
  b2 = b2
  b3 = b3
  b4 = b4
  x = x
  y = y
  Seqs = {1, 2, 3}
  Blocks = {b1, b2, b3, b4}
  Token = {x, y}
  EOS = y
  BlockSize = 2
  Prompts <- MCPrompts
  MaxTokens = 3
  MaxLen = 8
  MaxNumSeqs = 2
  MaxNumBatchedTokens = 3
  CpuCache = FALSE
SYMMETRY BlockSymmetry
INVARIANTS
  QueueDiscipline
  CallsWithinContract
  PayloadMatchesBatch
  CacheHonest
  TraceRight
PROPERTIES
  PreemptsYoungest
  ImplementsGeneration
CHECK_DEADLOCK FALSE

SPECIFICATION MetricsSpec
CONSTANTS
  b1 = b1
  b2 = b2
  b3 = b3
  x = x
  y = y
  Seqs = {1, 2}
  Blocks = {b1, b2, b3}
  Token = {x, y}
  EOS = y
  BlockSize = 2
  Prompts <- MCPrompts
  MaxTokens = 3
  MaxLen = 8
  MaxNumSeqs = 1
  MaxNumBatchedTokens = 3
  CpuCache = TRUE
INVARIANTS
  QueueDiscipline
  FailsOnlyOnOversized
  CacheHonest
  AllocatorSound
  MetricsHonest
PROPERTIES
  RequestsFinish
CHECK_DEADLOCK FALSE

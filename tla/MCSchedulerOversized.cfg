SPECIFICATION Spec
CONSTANTS
  b1 = b1
  b2 = b2
  b3 = b3
  b4 = b4
  x = x
  y = y
  Seqs = {1, 2, 3}
  Blocks = {b1, b2, b3}
  Token = {x, y}
  EOS = y
  BlockSize = 2
  Prompts <- MCOversizedPrompts
  MaxTokens = 2
  MaxLen = 9
  MaxNumSeqs = 1
  MaxNumBatchedTokens = 3
  CpuCache = FALSE
SYMMETRY BlockSymmetry
INVARIANTS
  AlwaysSchedulable
CHECK_DEADLOCK FALSE

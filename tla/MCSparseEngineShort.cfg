SPECIFICATION SparseFairSpec
CONSTANTS
  BlockSize = 2
  Sink = 2
  Recent = 6
  TopK = 2
  PrefillTopK = 1
  DecodeTopK = 2
  RelativeMax = 3
  UnionBlocks = 0
  MaxBlocks = 8
  Configs <- MCPlainConfig
  Requests = {1, 2}
  PromptLens = {3, 11, 13, 14}
  Chunk = 4
  MaxTokens = 4
  MaxQueries = 2
  MaxPasses = 1
INVARIANTS
  ReadsOneRequest
CHECK_DEADLOCK FALSE

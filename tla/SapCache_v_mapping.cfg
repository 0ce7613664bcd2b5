CONSTANTS
  PageSize = 1
  Chunks = 2
  MaxPostings = 4
  ChunkOf <- MCChunkOf
  AtFirst <- MCAtFirst
  MaxLedger = 3
  ToMap = {2}
  MaxActs = 1
  Versions = {1, 2, 3, 4, 5, 6, 7}
  Idle = Idle

SPECIFICATION Spec

PROPERTY
  MappingsStay

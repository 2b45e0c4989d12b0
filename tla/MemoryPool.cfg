SPECIFICATION PoolSpec
CONSTANTS
  HEAP_SIZE = 32
  HDR = 4
  SPLIT_MIN = 4
  SIZE_MOD = 256
  COUNT_MOD = 3
  Sizes <- MCSizes
  BlockSizes <- MCBlockSizes
  BlockCounts <- MCBlockCounts
  MaxOffset = 5
INVARIANTS HeapTypeOK Tiling Coalesced HeldIsAllocated StatsExact PoolExact PoolInsideHeap
PROPERTIES DoubleFreeIgnored

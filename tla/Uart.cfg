SPECIFICATION UartSpec
CONSTANTS
  HEAP_SIZE = 32
  HDR = 4
  SPLIT_MIN = 4
  SIZE_MOD = 256
  COUNT_MOD = 1
  Sizes <- MCSizes
  Uarts = {0, 1}
  Configs <- MCConfigs
  Lengths = {1, 2}
INVARIANT UartOwnsBuffers

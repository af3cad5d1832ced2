CONSTANTS
  WORD = 2
  WORDS = 2
  LS_SIZE = 32
  Registers = {Link, A, B, T, U, V}
  Link = Link
  A = A
  B = B
  T = T
  U = U
  V = V
  WordSample = {0, 1, 128, 255, 32767, 32768, 65535}
  Counts <- MCCounts
  MaxInsns = 16
  RAM = 8
  RAM_END = 20
  IO = 24
  IO_END = 36
  LS_MAP = 40
  LS_MAP_END = 80
  MAX_DMA = 8
  Transfers = {4, 8, 12}
SPECIFICATION Spec
CHECK_DEADLOCK FALSE
INVARIANT
  HalfwordStore

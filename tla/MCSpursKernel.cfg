CONSTANTS
  FIRST_SLOT = 1
  LAST_SLOT = 2
  ENTRY = 3
  GEOMETRY = 4
  BSS = 5
  IDLE = 6
  LAST_PC = 6
  BURST = 3
  TURNS = 2
SPECIFICATION FairSpec
PROPERTIES
  DispatchServed
  HaltIsFinal
  StartReturns
  ShutdownEnds
CHECK_DEADLOCK FALSE

CONSTANTS
  MAX_THREADS = 2
  AddressUnits = 65536
  StackCursor0 = 53247
  THREAD_STACK_SIZE = 16
  StackFloor = 53199
  MaxCreates = 3
  Stubs = {1}
SPECIFICATION FairSpec
INVARIANTS
  TypeOK
  StacksDisjoint
  HandleKept
  SettledThreadsExited
PROPERTIES
  ShutdownCompletes
CHECK_DEADLOCK FALSE

CONSTANTS
  MAX_THREADS = 2
  AddressUnits = 65536
  StackCursor0 = 53247
  THREAD_STACK_SIZE = 16
  StackFloor = 53199
  MaxCreates = 3
  Stubs = {1}
SPECIFICATION Spec
INVARIANTS
  AllThreadsFinished
CHECK_DEADLOCK FALSE

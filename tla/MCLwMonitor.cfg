CONSTANTS
  Threads = {w1, w2, w3, n1, n2}
  Waiters = {w1, w2, w3}
  Notifiers = {n1, n2}
  Others = {w1, w2, n1}
  Mutexes = {m1}
  Conds = {c1}
  mutex = m1
  cond = c1
  Sections = {s1, s2}
  Variables = {v1}
  MaxDepth = 2
  NULL = NULL
SPECIFICATION GameSpec
INVARIANTS
  TypeOK
  MutualExclusion
PROPERTIES
  WaitersProceed
CHECK_DEADLOCK FALSE

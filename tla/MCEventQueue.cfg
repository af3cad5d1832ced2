CONSTANTS
  Threads = {t1, t2, t3}
  EVQ_CAP = 2
  MaxSends = 5
SPECIFICATION FairSpec
INVARIANTS
  TypeOK
  ClaimsBacked
PROPERTIES
  Refinement
  NoLostWakeup
CHECK_DEADLOCK FALSE

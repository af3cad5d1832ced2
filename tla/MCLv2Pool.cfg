CONSTANTS
  MAX_LV2_OBJ = 5
  LV2_FREE = LV2_FREE
  Kinds = {SEM, EVQ}
SPECIFICATION Spec
INVARIANTS
  TypeOK
  WaitingFirst
PROPERTIES
  RoundRobin
  Refinement

CONSTANTS
  MAX_LV2_OBJ = 3
  LV2_FREE = "LV2_FREE"
  Kinds = {"LV2_SEM", "LV2_MUTEX", "LV2_COND", "LV2_EVQ", "LV2_EVPORT"}
  Threads = {t1, t2}
  NULL = NULL
  SemMax = 1
  EVQ_CAP = 1
  MaxDepth = 1
  MaxMisused = 1
SPECIFICATION ObjSpec
INVARIANTS
  BrokenOnlyByMisuse
  SemaphoreGrants
  MutexExcludes
  QueuesBacked
SYMMETRY Symmetry
CHECK_DEADLOCK FALSE

SPECIFICATION FairSpec
CONSTANTS
  Job = {j1, j2, j3}
  Videos <- Uneven
  Label = {}
  MaxObjects = 1
  STEP = 2
  MAX_SAMPLES = 2
  POOL_SIZE = 2
  MAX_JOBS = 1
CHECK_DEADLOCK FALSE
INVARIANTS
  TypeOK
  ShownIsSettled
PROPERTIES
  EvictedStaysOut
  EveryJobEnds

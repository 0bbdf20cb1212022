SPECIFICATION Spec
CONSTANTS
  Job = {j1, j2}
  Videos <- Short
  Label = {person}
  MaxObjects = 1
  STEP = 2
  MAX_SAMPLES = 1
  POOL_SIZE = 2
  MAX_JOBS = 1
CHECK_DEADLOCK FALSE
INVARIANT
  DeltaIsOwn

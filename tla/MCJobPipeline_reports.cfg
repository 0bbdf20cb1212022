SPECIFICATION Spec
CONSTANTS
  Job = {j1, j2}
  Videos <- Short
  Label = {person, car}
  MaxObjects = 1
  STEP = 2
  MAX_SAMPLES = 1
  POOL_SIZE = 2
  MAX_JOBS = 1
SYMMETRY JobSymmetry
CHECK_DEADLOCK FALSE
INVARIANTS
  
  ReportIsFresh

SPECIFICATION Spec
CONSTANTS
  Frame = {f1, f2}
  Worker = {local, w1}
  Capable = {local, w1}
  Local = local
  NoWorker = NoWorker
  CIRCUIT_BREAKER_THRESHOLD = 1
  MAX_RETRIES = 1
  MAX_PENDING = 1
  MaxRegistrations = 1
  MaxStragglers = 1
SYMMETRY FrameSymmetry
INVARIANTS
  NoSilentLoss
  CopiesBounded
PROPERTY
  ImplementsPool

SPECIFICATION Spec
CONSTANTS
  Frame = {f1}
  Worker = {local, w1}
  Capable = {local, w1}
  Local = local
  NoWorker = NoWorker
  CIRCUIT_BREAKER_THRESHOLD = 2
  MAX_RETRIES = 1
  MAX_PENDING = 1
  MaxRegistrations = 2
  MaxStragglers = 1
INVARIANTS
  TypeOK
  NoSilentLoss
  RetriesBounded
  CopiesBounded
  AttemptsBounded

SPECIFICATION HSpec
CONSTANTS
  Frame = {f1}
  Worker = {local, w1}
  Capable = {local, w1}
  Local = local
  NoWorker = NoWorker
  CIRCUIT_BREAKER_THRESHOLD = 3
  MAX_RETRIES = 1
  MAX_PENDING = 1
  MaxRegistrations = 1
  MaxStragglers = 0
INVARIANT
  FailuresLimited

SPECIFICATION FairSpec
CONSTANTS
  Worker = {w1}
  Capable = {w1}
  WORKER_ID = w1
  CIRCUIT_BREAKER_THRESHOLD = 2
  Thread = {t1, t2}
  MaxAttempts = 1
  HEARTBEAT_INTERVAL_SECS = 1
  CallTimeout = 1
  HEARTBEAT_TIMEOUT_SECS = 4
  MaxStarts = 2
  MaxRestarts = 1
  MaxLate = 1
INVARIANTS
  TypeOK
  HealthyStays
PROPERTIES
  Joins
  ServesAgain
  LeavesService

SPECIFICATION FairSpec
CONSTANTS
  worker = worker
  Control = Control
  Reporter = coordinator
  Camera = {coordinator, worker}
  Detection = {seen}
  Alert = {alert}
  CameraOf <- MCCameraOf
  Client = {k1, k2}
  MaxRequests = 2
  MAX_TIMELINE = 2
  MAX_ALERTS = 2
INVARIANTS
  TypeOK
  ShownIsRecorded
PROPERTIES
  NobodySkipped
  GhostsLeave
  ComesBack

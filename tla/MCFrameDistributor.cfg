SPECIFICATION FairSpec
CONSTANTS
  Pusher = {p1, p2}
  Client = {c1, c2}
  MaxPushes = 3
INVARIANTS
  TypeOK
  NoLostWakeup
PROPERTY
  ImplementsRegister

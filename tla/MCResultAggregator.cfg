SPECIFICATION Spec
CONSTANTS
  person = person
  car = car
  Frame = {f1, f2, f3}
  Worker = {w1, w2}
  Label <- MCLabel
  Findings <- MCFindings
  Latency = {0, 1}
  Alert = {a1}
  MAX_STORED_FRAMES = 2
  MAX_STORED_ALERTS = 1
  MAX_LATENCY_SAMPLES = 1
  MaxOrigin = 3
SYMMETRY ResultSymmetry
INVARIANTS
  TypeOK
  TotalsAreSums
  EntryIsConsensus
PROPERTY
  RedeliveryIsHarmless

\* A broken and an empty run before a sound one; two listings in flight; a restart; a load that fails once.
CONSTANTS
  r1 = r1
  r2 = r2
  r3 = r3
  q1 = q1
  q2 = q2
  Order <- SoundLast
  Total <- OneEmpty
  Broken = {r2}
  Requests = {q1, q2}
  ReviewParts = 2
  RunLimit = 2
  ReadyBuffer = 2
  LowWater = 0
  MaxRestarts = 1
  MaxFailures = 1
SPECIFICATION FairSpec
INVARIANTS
  TypeOK
  KeyIsTracked
  NeverStranded
PROPERTIES
  NoStarvation
  EverythingIsReviewed
\* A page with nothing left to show or to wait for stops.
CHECK_DEADLOCK FALSE

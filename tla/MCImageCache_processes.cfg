\* Two server processes, so no lock between the two threads; the tar stays.
CONSTANTS
  t1 = t1
  t2 = t2
  p1 = p1
  p2 = p2
  tar1 = tar1
  tar2 = tar2
  Threads = {t1, t2}
  Processes = {p1, p2}
  Home <- OwnHome
  Members = {1, 2, 3}
  Tars = {tar2}
  InTar <- ThreeImages
  NoTotal = NoTotal
  NoThread = NoThread
  Partial = Partial
  DefaultCount = 1
  ReviewParts = 2
  PrefetchMin = 2
  PrefetchMax = 3
  PrefetchParts = 2
  ChunkSize = 1
  Kinds = {"view", "append", "bootstrap", "next", "prefetch", "retarget"}
  MaxTarget = 2
  Imported = 0
  Environment = {}
SPECIFICATION Spec
INVARIANTS
  SampleIsDeterministic
  ServedFileIsItsRow

\* The prefetch worker, while a sync finds another tar for the run.
CONSTANTS
  t1 = t1
  t2 = t2
  p1 = p1
  p2 = p2
  tar1 = tar1
  tar2 = tar2
  Threads = {t1, t2}
  Processes = {p1}
  Home <- OneHome
  Members = {1, 2}
  Tars = {tar1, tar2}
  InTar <- TwoTars
  NoTotal = NoTotal
  NoThread = NoThread
  Partial = Partial
  DefaultCount = 1
  ReviewParts = 2
  PrefetchMin = 2
  PrefetchMax = 2
  PrefetchParts = 2
  ChunkSize = 1
  Kinds = {"prefetch"}
  MaxTarget = 2
  Imported = 1
  Environment = {"sync"}
SYMMETRY AnyThread
SPECIFICATION Spec
INVARIANTS
  ServedFileIsItsRow

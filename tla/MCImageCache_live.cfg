\* One server process; every operation that ends well delivers, and leaves the lock.
CONSTANTS
  t1 = t1
  t2 = t2
  p1 = p1
  p2 = p2
  tar1 = tar1
  tar2 = tar2
  Threads = {t1, t2}
  Processes = {p1}
  Home <- OneHome
  Members = {1, 2}
  Tars = {tar2}
  InTar <- TwoImages
  NoTotal = NoTotal
  NoThread = NoThread
  Partial = Partial
  DefaultCount = 1
  ReviewParts = 2
  PrefetchMin = 4
  PrefetchMax = 4
  PrefetchParts = 2
  ChunkSize = 1
  Kinds = {"append", "file", "next", "prefetch", "retarget", "view", "bootstrap"}
  MaxTarget = 3
  Imported = 1
  Environment = {}
SPECIFICATION FairSpec
PROPERTIES
  LockReleased
  EnsureDelivers

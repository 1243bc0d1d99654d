\* One machine: verdicts change, the sheet fails, the tar is replaced.
CONSTANTS
  w1 = w1
  w2 = w2
  m1 = m1
  Machines = {m1}
  Workers = {w1, w2}
  Home <- OneMachine
  Nobody = Nobody
  Null = Null
  DefaultCount = 1
  ApproveParts = 10
  MaxImages = 2
  Targets = {0, 1, 2}
  Validations = {""}
  Revise = TRUE
  SheetFails = TRUE
  TarMoves = TRUE
SPECIFICATION Spec
SYMMETRY AnyWorker
INVARIANTS
  TypeOK
  CompletionIsEarned
  MirrorFollowsSheet

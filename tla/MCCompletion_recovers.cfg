\* One machine, two workers; the sheet works, verdicts are final, syncs go on.
CONSTANTS
  w1 = w1
  w2 = w2
  m1 = m1
  Machines = {m1}
  Workers = {w1, w2}
  Home <- OneMachine
  Nobody = Nobody
  Null = Null
  DefaultCount = 1
  ApproveParts = 10
  MaxImages = 3
  Targets = {1, 3}
  Validations = {"approved"}
  Revise = FALSE
  SheetFails = FALSE
  TarMoves = FALSE
SPECIFICATION FairSpec
INVARIANTS
  SheetTellsTruth
PROPERTIES
  ResolvedRunsAreSkipped
  SheetRecovers

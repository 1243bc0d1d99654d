\* One machine, a resolved run, and a sheet that cannot be read once.
CONSTANTS
  w1 = w1
  w2 = w2
  m1 = m1
  Machines = {m1}
  Workers = {w1, w2}
  Home <- OneMachine
  Nobody = Nobody
  Null = Null
  DefaultCount = 1
  ApproveParts = 10
  MaxImages = 2
  Targets = {1, 2}
  Validations = {"approved"}
  Revise = FALSE
  SheetFails = TRUE
  TarMoves = FALSE
SPECIFICATION Spec
PROPERTIES
  ResolvedRunsAreSkipped

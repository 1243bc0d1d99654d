\* One run, one remote, both servers at work; a checkpoint may come during the copy.
CONSTANTS
  here = here
  there = there
  run1 = run1
  pass = pass
  fail = fail
  Local = here
  Remotes = {there}
  Runs = {run1}
  Verdicts = {pass, fail}
  Null = Null
  Absent = Absent
  DefaultCount = 1
  MaxImages = 2
  MaxTime = 0
SPECIFICATION Spec
SYMMETRY AnyVerdict
INVARIANTS
  TypeOK
  CompletionIsEarned
PROPERTIES
  MergeDelivers
  OwnVerdictsStay
  OwnFactsStay

\* Two writers, a run listed twice, one not listed yet, and edits by people.
CONSTANTS
  w1 = w1
  w2 = w2
  r1 = r1
  r2 = r2
  Writers = {w1, w2}
  Runs = {r1, r2}
  Listed <- OneTwice
  Width = 2
  Slack = 1
  MaxEdits = 2
SPECIFICATION Spec
SYMMETRY AnyWriter
CONSTRAINT StillClaimed
INVARIANTS
  TypeOK
  ResultsInPlace
  HeadersOnce
  ReportedIsRead
  NeverRefused

\* One image, two listings and two submissions in flight, one fault.
CONSTANTS
  i1 = i1
  l1 = l1
  l2 = l2
  s1 = s1
  s2 = s2
  NoVerdict = NoVerdict
  Images = {i1}
  Verdicts = {"pass", "fail"}
  Tabs = {"unreviewed", "all"}
  Listings = {l1, l2}
  Submissions = {s1, s2}
  Attempts = 2
  MaxFaults = 1
SPECIFICATION FairSpec
INVARIANTS
  TypeOK
  NoDecisionLost
PROPERTIES
  ListingFitsTab
  LoadEnds
  DecisionsAreStored

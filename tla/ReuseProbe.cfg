CONSTANTS
  Dispatchers = {d1, d2}
  Deaths = {c1, c2}
  Probers = {p1, p2, p3}
  MaxResets = 2
  DemoteLimit = 3
SPECIFICATION FairReuseSpec
INVARIANTS
  ReuseTypeOK
  ProbingMeansOneProbe
PROPERTIES
  ResetForgets
  ProbingEnds

CONSTANTS
  Configs <- OneConfig
  Offers <- MCOffers
  Compatible = compatible
  Selects = {s1, s2}
  Dials = {d1}
  None = None
  a = a
  b = b
  x = x
  y = y
  s1 = s1
  s2 = s2
  d1 = d1
SPECIFICATION FairSpec
CHECK_DEADLOCK FALSE
PROPERTIES DocInterrupted

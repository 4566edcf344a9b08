SPECIFICATION MCSpec
CONSTANTS
  i1 = i1
  i2 = i2
  shield = shield
  split = split
  agg = agg
  c1 = c1
  c2 = c2
  c3 = c3
  w1 = w1
  w2 = w2
  x1 = x1
  x2 = x2
  Indexers = {i1, i2}
  Ops = {shield, split, agg}
  KindOf <- MC_KindOf
  OutsOf <- MC_OutsOf
  Claims <- MC_Claims
  PAGE = 1
  MAX_PAGES = 4
  OVERLAP = 1
  Lag = 1
  MaxHeight = 4
  MaxIncidents = 1
CHECK_DEADLOCK FALSE
PROPERTY AllCommitmentsServed

SPECIFICATION MCSpec
CONSTANTS
  sh = sh
  sp = sp
  tr = tr
  mg = mg
  wd = wd
  g1 = g1
  g2 = g2
  n1 = n1
  n2 = n2
  n3 = n3
  n4 = n4
  r1 = r1
  s1 = s1
  Ops = {sh, sp, tr, mg, wd}
  Notes = {g1, g2, n1, n2, n3, n4, r1}
  KindOf <- MC_KindOf
  InputsOf <- MC_InputsOf
  OutsOf <- MC_OutsOf
  Genesis <- MC_Genesis
  Strangers = {s1}
  FEED_LIMIT = 3
  MaxFaults = 1
  e = e
  l1 = l1
  l2 = l2
  l3 = l3
  l4 = l4
  y1 = y1
  y2 = y2
  Depth = 3
  MaxPathLength = 4
  EmptyLeaf = e
  NoteFeed <- MC_Feed
  Mine = {l2, l3, l4}
  AmountOf <- MC_AmountOf
  TieOf <- MC_TieOf
  Calls = {y1, y2}
  Statements <- MC_Statements
SYMMETRY CallSymmetry
CHECK_DEADLOCK FALSE
INVARIANTS
  RecordsAreTrue
  DeclaredRootsAreProved
  NotesLostOnlyByFailure
  TreesProve
  ScannerExact
PROPERTIES
  SpentStaysSpent

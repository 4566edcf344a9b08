SPECIFICATION MCSpec
CONSTANTS
  dep = dep
  adm = adm
  burn = burn
  none = none
  zero = zero
  c1 = c1
  c2 = c2
  c3 = c3
  n1 = n1
  n2 = n2
  r1 = r1
  r2 = r2
  rel = rel
  i1 = i1
  x1 = x1
  x2 = x2
  b1 = b1
  k1 = k1
  k2 = k2
  a1 = a1
  a2 = a2
  Principals = {dep, adm, burn}
  Deployer = dep
  BurnAddress = burn
  None = none
  Commitment = {zero, c1, c2, c3}
  Nullifier = {zero, n1, n2}
  Root = {zero, r1, r2}
  ZeroHash = zero
  TreeCapacity = 3
  MaxFeeBpsCeiling = 2
  StxSupplyCeiling = 3
  DefaultLimits <- MCDefaultLimits
  RoleInputs = {0, 1, 2, 3, 4, 5}
  VersionNumberInputs = {1, 2, 3}
  VersionInputs <- MCVersionInputs
  LimitInputs <- MCLimitInputs
  FeeCeilingInputs = {2, 3}
  AmountInputs = {0, 1, 2}
  MaxRecords = 1
  NoteManagerContract = adm
  Inputs = {i1}
  ContextInputs = {x1, x2}
  BindingInputs = {b1}
  KeyInputs = {k1, k2}
  AggregationIds = {a1, a2}
  RelayerInputs = {rel}
  MaxAggregated = 2
  TypesInPlay = {3}
INVARIANTS
  RegistryConsistent
  NotesExact
  AcceptanceExact
PROPERTIES
  HistoryAppendOnly
  GovernanceMoves
  NoteMoves
  PublicationIsPermanent

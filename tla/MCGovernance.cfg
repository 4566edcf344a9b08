SPECIFICATION GovernanceSpec
CONSTANTS
  dep = dep
  ops = ops
  alice = alice
  native = native
  pool = pool
  sm = sm
  nm = nm
  fees = fees
  burn = burn
  none = none
  zero = zero
  c1 = c1
  c2 = c2
  c3 = c3
  c4 = c4
  c5 = c5
  c6 = c6
  n1 = n1
  n2 = n2
  n3 = n3
  n4 = n4
  n5 = n5
  n6 = n6
  k1 = k1
  k2 = k2
  b1 = b1
  b2 = b2
  x1 = x1
  x2 = x2
  Principals <- MCPrincipals
  Deployer = dep
  BurnAddress = burn
  None = none
  Commitment = {zero, c2, c3, c4, c5, c6}
  Nullifier = {zero, n2, n3, n4, n5, n6}
  Root <- MCRoot
  ZeroHash = zero
  TreeCapacity = 3
  MaxFeeBpsCeiling = 1
  StxSupplyCeiling = 6
  DefaultLimits <- MCDefaultLimits
  RoleInputs = {}
  VersionNumberInputs = {3}
  VersionInputs <- MCVersionInputs
  LimitInputs <- MCLimitInputs
  FeeCeilingInputs = {0}
  AmountInputs = {0, 1, 2, 3}
  MaxRecords = 4
  NoteManagerContract = nm
  FeesContract = fees
  BpsDenominator = 2
  FlatFeeCeiling = 1
  FeeInputs <- MCFeeInputs
  Users = {alice}
  InitialStx <- MCInitialStx
  Inputs = {}
  ContextInputs = {x1, x2}
  BindingInputs = {b1}
  KeyInputs = {k1}
  AggregationIds = {}
  RelayerInputs = {}
  MaxAggregated = 0
  TypesInPlay = {1, 2, 3, 4, 5}
  PoolContract = pool
  SplitMergeContract = sm
  NoteAmount <- MCNoteAmount
  NullifierOf <- MCNullifierOf
  AssetOf <- MCAssetOf
  Stx = native
  RecipientInputs = {alice, pool, fees}
  Operator = ops
  Staff = {dep}
CHECK_DEADLOCK FALSE
INVARIANTS
  FundsBacked
PROPERTIES
  HaltsAreComplete
  MoneyMovesExactly

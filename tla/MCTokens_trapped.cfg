SPECIFICATION MCSpec
CONSTANTS
  dep = dep
  ops = ops
  alice = alice
  pool = pool
  sm = sm
  nm = nm
  fees = fees
  sip = sip
  sipfees = sipfees
  burn = burn
  none = none
  zero = zero
  native = native
  ta = ta
  tb = tb
  k1 = k1
  b1 = b1
  x1 = x1
  a1 = a1
  a2 = a2
  a3 = a3
  t1 = t1
  p1 = p1
  p2 = p2
  p3 = p3
  u1 = u1
  m1 = m1
  m2 = m2
  MaxChanges = 2
  Principals <- MCPrincipals
  Deployer = dep
  BurnAddress = burn
  None = none
  Commitment = {zero, m1, a1, a2, a3, t1}
  Nullifier = {zero, m2, p1, p2, p3, u1}
  Root = {zero}
  ZeroHash = zero
  TreeCapacity = 3
  MaxFeeBpsCeiling = 1
  StxSupplyCeiling = 6
  DefaultLimits <- MCDefaultLimits
  RoleInputs = {}
  VersionNumberInputs = {3}
  VersionInputs = {}
  LimitInputs = {}
  FeeCeilingInputs = {0}
  AmountInputs = {0, 1, 2}
  MaxRecords = 4
  NoteManagerContract = nm
  FeesContract = fees
  BpsDenominator = 2
  FlatFeeCeiling = 1
  FeeInputs = {}
  Users = {alice}
  InitialStx <- MCInitialStx
  Inputs = {}
  ContextInputs = {x1}
  BindingInputs = {b1}
  KeyInputs = {k1}
  AggregationIds = {}
  RelayerInputs = {}
  MaxAggregated = 0
  TypesInPlay = {1, 2, 3, 4, 5}
  PoolContract = pool
  SplitMergeContract = sm
  NoteAmount <- MCNoteAmount
  NullifierOf <- MCNullifierOf
  AssetOf <- MCAssetOf
  Stx = native
  RecipientInputs = {alice, burn, sip}
  Operator = ops
  Staff = {dep}
  Tokens = {ta, tb}
  AssetLimitInputs <- MCAssetLimitInputs
  AssetFeeInputs <- MCAssetFeeInputs
  FeeRecipientInputs = {ops}
  Sip10FeesContract = sipfees
  Faulty = {tb}
  SkimBps = 1
  InitialTokens <- MCInitialTokens
  Sip10Contract = sip
  PoolInputs = {sip, pool}
CHECK_DEADLOCK FALSE
INVARIANTS
  FundsNeverTrapped

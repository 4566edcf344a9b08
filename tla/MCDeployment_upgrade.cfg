SPECIFICATION MCSpec
CONSTANTS
  ContractOrder <- MCContractOrder
  Refers <- MCRefers
  Callers <- MCCallers
  Circuits <- MCCircuits
  FirstVersion = 2
  Keys = {k1, k2}
  GenesisRoots = {g, zero}
  ZeroRoot = zero
  FirstRelayer = "dep"
  Relayers <- MCRelayers
  Fees <- MCFees
  MaxFaults = 1
  MaxVersion = 4
  d1 = d1
  d2 = d2
  Sessions <- NoSessions
  Runs = {d1, d2}
  Seeds = {1}
  Amounts = {10, 20}
  Minimums = {3, 10}
  WithdrawFee = 1
  MaxClientOps = 2
INVARIANT
  UpgradeLeavesNotesSpendable

--------------------------- MODULE PrivacyRegistry ---------------------------
(***************************************************************************)
(* contracts/privacy-registry.clar: the protocol's single source of truth. *)
(* It keeps the access-control tables, the lifecycle state, the component  *)
(* versions, the limits, the aggregate statistics and the append-only maps *)
(* of commitments, nullifiers and Merkle roots.                            *)
(*                                                                         *)
(* A contract call is one step: it runs to completion or aborts and leaves *)
(* no trace, so each public function is one action whose guards are the    *)
(* asserts! and try! of the function.  A function that protocol contracts  *)
(* call inside a larger transaction comes in two parts: the call (guards   *)
(* and the variables it writes) and the action (the call, and everything   *)
(* else unchanged).  Block heights and printed events are left out.        *)
(***************************************************************************)
EXTENDS Integers, FiniteSets

CONSTANTS
  Principals,         \* the accounts and contracts that can appear in a call
  Deployer,           \* tx-sender of the deployment, the first owner
  BurnAddress,        \* BURN-ADDRESS
  None,               \* Clarity's none
  Commitment,         \* the note commitments callers present
  Nullifier,          \* the nullifiers callers present
  Root,               \* the Merkle roots callers present
  ZeroHash,           \* ZERO-HASH
  TreeCapacity,       \* MERKLE-TREE-CAPACITY
  MaxFeeBpsCeiling,   \* MAX-FEE-BPS-CEILING
  StxSupplyCeiling,   \* STX-SUPPLY-CEILING
  DefaultLimits       \* the DEFAULT-* limits of the deployment

\* Inputs offered to the functions, and the bound on the unbounded counters.
CONSTANTS
  RoleInputs, VersionNumberInputs, VersionInputs,
  LimitInputs, FeeCeilingInputs, AmountInputs,
  MaxRecords          \* bound on total-transfers and total-withdrawals

PROTOCOL_ACTIVE     == 1
PROTOCOL_PAUSED     == 2
PROTOCOL_EMERGENCY  == 3
PROTOCOL_UPGRADING  == 4
PROTOCOL_DEPRECATED == 5
ProtocolStates == 1..5

ROLE_PROTOCOL_ADMIN  == 1
ROLE_EMERGENCY_ADMIN == 2
ROLE_VERIFIER_ADMIN  == 3
ROLE_FEE_ADMIN       == 4
Roles == 1..4

Versions == [protocol : Nat, verifier : Nat, note : Nat,
             circuit : Nat, commitment : Nat, root : Nat]

GenesisVersions == [protocol |-> 1, verifier |-> 1, note |-> 1,
                    circuit |-> 2, commitment |-> 1, root |-> 1]

Limits == [minShield : Nat, maxShield : Nat,
           minWithdrawal : Nat, maxWithdrawal : Nat,
           maxCommitments : Nat, maxNotes : Nat, maxFeeBps : Nat]

\* The consistency rules of update-protocol-limits that do not look at state.
WellFormedLimits(l) ==
  /\ l.minShield > 0 /\ l.minShield <= l.maxShield
  /\ l.maxShield <= StxSupplyCeiling
  /\ l.minWithdrawal > 0 /\ l.minWithdrawal <= l.maxWithdrawal
  /\ l.maxWithdrawal <= StxSupplyCeiling
  /\ l.maxCommitments > 0 /\ l.maxCommitments <= TreeCapacity
  /\ l.maxNotes > 0 /\ l.maxNotes <= TreeCapacity
  /\ l.maxFeeBps <= MaxFeeBpsCeiling

ASSUME PrincipalsAssumption ==
  /\ Deployer \in Principals
  /\ Deployer # BurnAddress
  /\ None \notin Principals \cup {BurnAddress}

ASSUME HashAssumption ==
  ZeroHash \in Commitment /\ ZeroHash \in Nullifier /\ ZeroHash \in Root

ASSUME BoundsAssumption ==
  /\ TreeCapacity \in Nat
  /\ MaxFeeBpsCeiling \in Nat
  /\ StxSupplyCeiling \in Nat
  /\ MaxRecords \in Nat
  /\ DefaultLimits \in Limits
  /\ WellFormedLimits(DefaultLimits)

ASSUME InputsAssumption ==
  /\ RoleInputs \subseteq Nat
  /\ VersionNumberInputs \subseteq Nat
  /\ \A v \in VersionInputs : v \in Versions
  /\ \A l \in LimitInputs : l \in Limits
  /\ FeeCeilingInputs \subseteq Nat
  /\ AmountInputs \subseteq Nat

VARIABLES
  owner, pendingOwner,
  administrators,       \* set of <<account, role>>
  authorizedCallers,    \* set of principals
  protocolState, protocolVersions, protocolLimits,
  commitments,          \* commitment |-> [index, version]: the map entry and
                        \* the leaf index the registration returned and logged
  nullifiers,           \* set of consumed nullifiers
  merkleRoots,          \* root |-> [version, active]
  currentRoot,          \* [root, version]
  totalCommitments, totalNullifiers, totalNotes,
  totalTransfers, totalWithdrawals, totalShieldedStx

accessVars == <<owner, pendingOwner, administrators, authorizedCallers>>
configVars == <<protocolVersions, protocolLimits>>
commitmentVars == <<commitments, totalCommitments>>
nullifierVars == <<nullifiers, totalNullifiers>>
rootVars == <<merkleRoots, currentRoot>>
flowVars == <<totalTransfers, totalWithdrawals, totalShieldedStx>>
ledgerVars == <<commitmentVars, nullifierVars, rootVars, totalNotes, flowVars>>
registryVars == <<accessVars, protocolState, configVars, ledgerVars>>

\* Clarity maps: map-insert and map-set on a map that is a function.
EmptyMap == [k \in {} |-> None]
MapSet(map, key, value) ==
  [k \in DOMAIN map \cup {key} |-> IF k = key THEN value ELSE map[k]]

-----------------------------------------------------------------------------
(* Initial state: the data vars' initial values, every map empty.          *)

RegistryInit ==
  /\ owner = Deployer /\ pendingOwner = None
  /\ administrators = {} /\ authorizedCallers = {}
  /\ protocolState = PROTOCOL_ACTIVE
  /\ protocolVersions = GenesisVersions
  /\ protocolLimits = DefaultLimits
  /\ commitments = EmptyMap /\ nullifiers = {} /\ merkleRoots = EmptyMap
  /\ currentRoot = [root |-> ZeroHash, version |-> GenesisVersions.root]
  /\ totalCommitments = 0 /\ totalNullifiers = 0 /\ totalNotes = 0
  /\ totalTransfers = 0 /\ totalWithdrawals = 0 /\ totalShieldedStx = 0

-----------------------------------------------------------------------------
(* Authorization and state helpers.                                        *)

IsOwner(who) == who = owner
IsAdmin(who, role) == IsOwner(who) \/ <<who, role>> \in administrators
IsProtocolCaller(who) == who \in authorizedCallers
CheckActive == protocolState = PROTOCOL_ACTIVE

IsValidTransition(from, to) ==
  \/ from = PROTOCOL_ACTIVE /\ to = PROTOCOL_PAUSED
  \/ from = PROTOCOL_PAUSED /\ to = PROTOCOL_ACTIVE
  \/ from = PROTOCOL_PAUSED /\ to = PROTOCOL_UPGRADING
  \/ from = PROTOCOL_UPGRADING /\ to = PROTOCOL_ACTIVE
  \/ /\ to = PROTOCOL_EMERGENCY
     /\ from \in {PROTOCOL_ACTIVE, PROTOCOL_PAUSED, PROTOCOL_UPGRADING}
  \/ from = PROTOCOL_EMERGENCY /\ to = PROTOCOL_PAUSED
  \/ from = PROTOCOL_PAUSED /\ to = PROTOCOL_DEPRECATED

ApplyTransition(new) ==
  /\ IsValidTransition(protocolState, new)
  /\ protocolState' = new
  /\ UNCHANGED <<accessVars, configVars, ledgerVars>>

ValidateShieldAmount(amount) ==
  protocolLimits.minShield <= amount /\ amount <= protocolLimits.maxShield
ValidateWithdrawalAmount(amount) ==
  protocolLimits.minWithdrawal <= amount /\ amount <= protocolLimits.maxWithdrawal

IsKnownRoot(root) == root \in DOMAIN merkleRoots /\ merkleRoots[root].active

-----------------------------------------------------------------------------
(* Calls by protocol contracts.  Each constrains only what it reads and     *)
(* writes.  The Pair forms are two consecutive calls of one transaction:   *)
(* the second sees the counter the first has advanced.                      *)

RegisterCommitmentCall(caller, c, version) ==
  /\ CheckActive
  /\ IsProtocolCaller(caller)
  /\ c # ZeroHash
  /\ version = protocolVersions.commitment
  /\ totalCommitments < protocolLimits.maxCommitments
  /\ c \notin DOMAIN commitments
  /\ commitments' = MapSet(commitments, c,
                           [index |-> totalCommitments, version |-> version])
  /\ totalCommitments' = totalCommitments + 1

RegisterCommitmentPairCall(caller, c1, c2, version) ==
  /\ CheckActive
  /\ IsProtocolCaller(caller)
  /\ c1 # ZeroHash /\ c2 # ZeroHash /\ c1 # c2
  /\ version = protocolVersions.commitment
  /\ totalCommitments + 1 < protocolLimits.maxCommitments
  /\ c1 \notin DOMAIN commitments /\ c2 \notin DOMAIN commitments
  /\ commitments' =
       MapSet(MapSet(commitments, c1,
                     [index |-> totalCommitments, version |-> version]),
              c2, [index |-> totalCommitments + 1, version |-> version])
  /\ totalCommitments' = totalCommitments + 2

\* Mutant of RegisterNullifierCall: the counter bound is missing.
RegisterNullifierCall_Unbounded(caller, n) ==
  /\ CheckActive
  /\ IsProtocolCaller(caller)
  /\ n # ZeroHash
  /\ n \notin nullifiers
  /\ nullifiers' = nullifiers \cup {n}
  /\ totalNullifiers' = totalNullifiers + 1

\* Mutant of RegisterNullifierCall: a consumed nullifier is accepted again.
RegisterNullifierCall_Replay(caller, n) ==
  /\ CheckActive
  /\ IsProtocolCaller(caller)
  /\ n # ZeroHash
  /\ totalNullifiers < totalCommitments
  /\ nullifiers' = nullifiers \cup {n}
  /\ totalNullifiers' = totalNullifiers + 1

\* Mutant of RegisterNullifierCall: the counter bound is off by one.
RegisterNullifierCall_KeepsOne(caller, n) ==
  /\ CheckActive
  /\ IsProtocolCaller(caller)
  /\ n # ZeroHash
  /\ n \notin nullifiers
  /\ totalNullifiers + 1 < totalCommitments
  /\ nullifiers' = nullifiers \cup {n}
  /\ totalNullifiers' = totalNullifiers + 1

RegisterNullifierCall(caller, n) ==
  /\ CheckActive
  /\ IsProtocolCaller(caller)
  /\ n # ZeroHash
  /\ n \notin nullifiers
  /\ totalNullifiers < totalCommitments
  /\ nullifiers' = nullifiers \cup {n}
  /\ totalNullifiers' = totalNullifiers + 1

RegisterNullifierPairCall(caller, n1, n2) ==
  /\ CheckActive
  /\ IsProtocolCaller(caller)
  /\ n1 # ZeroHash /\ n2 # ZeroHash /\ n1 # n2
  /\ n1 \notin nullifiers /\ n2 \notin nullifiers
  /\ totalNullifiers + 1 < totalCommitments
  /\ nullifiers' = nullifiers \cup {n1, n2}
  /\ totalNullifiers' = totalNullifiers + 2

\* Mutant of UpdateRootCall: map-set instead of map-insert.
UpdateRootCall_MapSet(caller, root, version) ==
  /\ CheckActive
  /\ IsProtocolCaller(caller) \/ IsOwner(caller)
  /\ root # ZeroHash
  /\ version = protocolVersions.root
  /\ merkleRoots' = MapSet(merkleRoots, root,
                           [version |-> version, active |-> TRUE])
  /\ currentRoot' = [root |-> root, version |-> version]

UpdateRootCall(caller, root, version) ==
  /\ CheckActive
  /\ IsProtocolCaller(caller) \/ IsOwner(caller)
  /\ root # ZeroHash
  /\ version = protocolVersions.root
  /\ root \notin DOMAIN merkleRoots
  /\ merkleRoots' = MapSet(merkleRoots, root,
                           [version |-> version, active |-> TRUE])
  /\ currentRoot' = [root |-> root, version |-> version]

RecordShieldCall(caller, amount) ==
  /\ CheckActive
  /\ IsProtocolCaller(caller)
  /\ ValidateShieldAmount(amount)
  /\ totalShieldedStx + amount <= StxSupplyCeiling
  /\ totalShieldedStx' = totalShieldedStx + amount
  /\ UNCHANGED <<totalTransfers, totalWithdrawals>>

\* Mutant of RecordWithdrawalCall: the withdrawal is not counted.
RecordWithdrawalCall_Uncounted(caller, amount) ==
  /\ CheckActive
  /\ IsProtocolCaller(caller)
  /\ ValidateWithdrawalAmount(amount)
  /\ amount <= totalShieldedStx
  /\ totalWithdrawals < MaxRecords
  /\ totalShieldedStx' = totalShieldedStx - amount
  /\ UNCHANGED <<totalTransfers, totalWithdrawals>>

RecordWithdrawalCall(caller, amount) ==
  /\ CheckActive
  /\ IsProtocolCaller(caller)
  /\ ValidateWithdrawalAmount(amount)
  /\ amount <= totalShieldedStx
  /\ totalWithdrawals < MaxRecords
  /\ totalShieldedStx' = totalShieldedStx - amount
  /\ totalWithdrawals' = totalWithdrawals + 1
  /\ UNCHANGED totalTransfers

RecordTransferCall(caller) ==
  /\ CheckActive
  /\ IsProtocolCaller(caller)
  /\ totalTransfers < MaxRecords
  /\ totalTransfers' = totalTransfers + 1
  /\ UNCHANGED <<totalWithdrawals, totalShieldedStx>>

RecordNoteCreatedCall(caller) ==
  /\ CheckActive
  /\ IsProtocolCaller(caller)
  /\ totalNotes < protocolLimits.maxNotes
  /\ totalNotes' = totalNotes + 1

RecordNotePairCreatedCall(caller) ==
  /\ CheckActive
  /\ IsProtocolCaller(caller)
  /\ totalNotes + 1 < protocolLimits.maxNotes
  /\ totalNotes' = totalNotes + 2

-----------------------------------------------------------------------------
(* The same functions as actions of the registry on its own.               *)

nonLedgerVars == <<accessVars, protocolState, configVars>>

RegisterCommitment(caller) ==
  /\ \E c \in Commitment, v \in VersionNumberInputs :
       RegisterCommitmentCall(caller, c, v)
  /\ UNCHANGED <<nonLedgerVars, nullifierVars, rootVars, totalNotes, flowVars>>

RegisterNullifier(caller) ==
  /\ \E n \in Nullifier : RegisterNullifierCall(caller, n)
  /\ UNCHANGED <<nonLedgerVars, commitmentVars, rootVars, totalNotes, flowVars>>

UpdateRoot(caller) ==
  /\ \E r \in Root, v \in VersionNumberInputs : UpdateRootCall(caller, r, v)
  /\ UNCHANGED <<nonLedgerVars, commitmentVars, nullifierVars, totalNotes, flowVars>>

RecordShield(caller) ==
  /\ \E amount \in AmountInputs : RecordShieldCall(caller, amount)
  /\ UNCHANGED <<nonLedgerVars, commitmentVars, nullifierVars, rootVars, totalNotes>>

RecordWithdrawal(caller) ==
  /\ \E amount \in AmountInputs : RecordWithdrawalCall(caller, amount)
  /\ UNCHANGED <<nonLedgerVars, commitmentVars, nullifierVars, rootVars, totalNotes>>

RecordTransfer(caller) ==
  /\ RecordTransferCall(caller)
  /\ UNCHANGED <<nonLedgerVars, commitmentVars, nullifierVars, rootVars, totalNotes>>

RecordNoteCreated(caller) ==
  /\ RecordNoteCreatedCall(caller)
  /\ UNCHANGED <<nonLedgerVars, commitmentVars, nullifierVars, rootVars, flowVars>>

SetRootStatus(caller) ==
  /\ IsAdmin(caller, ROLE_EMERGENCY_ADMIN)
  /\ \E root \in DOMAIN merkleRoots :
       \E active \in BOOLEAN :
         /\ merkleRoots[root].active # active
         /\ merkleRoots' = [merkleRoots EXCEPT ![root].active = active]
  /\ UNCHANGED <<nonLedgerVars, commitmentVars, nullifierVars, currentRoot,
                 totalNotes, flowVars>>

-----------------------------------------------------------------------------
(* Lifecycle transitions.  Each pins its from-state besides the table.     *)

PauseProtocol(caller) ==
  /\ IsAdmin(caller, ROLE_PROTOCOL_ADMIN)
  /\ protocolState = PROTOCOL_ACTIVE
  /\ ApplyTransition(PROTOCOL_PAUSED)

UnpauseProtocol(caller) ==
  /\ IsAdmin(caller, ROLE_PROTOCOL_ADMIN)
  /\ protocolState = PROTOCOL_PAUSED
  /\ ApplyTransition(PROTOCOL_ACTIVE)

EmergencyPauseProtocol(caller) ==
  /\ IsAdmin(caller, ROLE_EMERGENCY_ADMIN)
  /\ ApplyTransition(PROTOCOL_EMERGENCY)

ResolveEmergency(caller) ==
  /\ IsOwner(caller)
  /\ protocolState = PROTOCOL_EMERGENCY
  /\ ApplyTransition(PROTOCOL_PAUSED)

\* Mutant of BeginUpgrade: delegated to the protocol admin.
BeginUpgrade_ByAdmin(caller) ==
  /\ IsAdmin(caller, ROLE_PROTOCOL_ADMIN)
  /\ protocolState = PROTOCOL_PAUSED
  /\ ApplyTransition(PROTOCOL_UPGRADING)

BeginUpgrade(caller) ==
  /\ IsOwner(caller)
  /\ protocolState = PROTOCOL_PAUSED
  /\ ApplyTransition(PROTOCOL_UPGRADING)

CompleteUpgrade(caller) ==
  /\ IsOwner(caller)
  /\ protocolState = PROTOCOL_UPGRADING
  /\ ApplyTransition(PROTOCOL_ACTIVE)

DeprecateProtocol(caller) ==
  /\ IsOwner(caller)
  /\ protocolState = PROTOCOL_PAUSED
  /\ ApplyTransition(PROTOCOL_DEPRECATED)

-----------------------------------------------------------------------------
(* Versions and limits.                                                    *)

UpdateVersions(caller) ==
  /\ IsAdmin(caller, ROLE_PROTOCOL_ADMIN)
  /\ protocolState = PROTOCOL_UPGRADING
  /\ \E new \in VersionInputs :
       /\ \A k \in DOMAIN protocolVersions : new[k] >= protocolVersions[k]
       /\ new # protocolVersions
       /\ protocolVersions' = new
  /\ UNCHANGED <<accessVars, protocolState, protocolLimits, ledgerVars>>

SetVerifierVersions(caller) ==
  /\ IsAdmin(caller, ROLE_VERIFIER_ADMIN)
  /\ protocolState = PROTOCOL_UPGRADING
  /\ \E verifier, circuit \in VersionNumberInputs :
       /\ verifier >= protocolVersions.verifier
       /\ circuit >= protocolVersions.circuit
       /\ \/ verifier > protocolVersions.verifier
          \/ circuit > protocolVersions.circuit
       /\ protocolVersions' = [protocolVersions EXCEPT !.verifier = verifier,
                                                       !.circuit = circuit]
  /\ UNCHANGED <<accessVars, protocolState, protocolLimits, ledgerVars>>

\* The gate both limit setters share after their role check.
LimitsMayChange(caller) ==
  /\ protocolState # PROTOCOL_DEPRECATED
  /\ protocolState # PROTOCOL_EMERGENCY \/ IsOwner(caller)

UpdateProtocolLimits(caller) ==
  /\ IsAdmin(caller, ROLE_PROTOCOL_ADMIN)
  /\ LimitsMayChange(caller)
  /\ \E new \in LimitInputs :
       /\ WellFormedLimits(new)
       /\ new.maxCommitments >= totalCommitments
       /\ new.maxNotes >= totalNotes
       /\ protocolLimits' = new
  /\ UNCHANGED <<accessVars, protocolState, protocolVersions, ledgerVars>>

SetMaxFeeBps(caller) ==
  /\ IsAdmin(caller, ROLE_FEE_ADMIN)
  /\ LimitsMayChange(caller)
  /\ \E new \in FeeCeilingInputs :
       /\ new <= MaxFeeBpsCeiling
       /\ protocolLimits' = [protocolLimits EXCEPT !.maxFeeBps = new]
  /\ UNCHANGED <<accessVars, protocolState, protocolVersions, ledgerVars>>

-----------------------------------------------------------------------------
(* Administration.  None of these looks at the lifecycle state.            *)

nonAccessVars == <<protocolState, configVars, ledgerVars>>

GrantRole(caller) ==
  /\ IsOwner(caller)
  /\ \E account \in Principals, role \in RoleInputs :
       /\ role \in Roles
       /\ account # BurnAddress
       /\ account # owner
       /\ <<account, role>> \notin administrators
       /\ administrators' = administrators \cup {<<account, role>>}
  /\ UNCHANGED <<owner, pendingOwner, authorizedCallers, nonAccessVars>>

RevokeRole(caller) ==
  /\ IsOwner(caller)
  /\ \E grant \in administrators : administrators' = administrators \ {grant}
  /\ UNCHANGED <<owner, pendingOwner, authorizedCallers, nonAccessVars>>

AddAuthorizedCaller(caller) ==
  /\ IsOwner(caller)
  /\ \E who \in Principals :
       /\ who # BurnAddress
       /\ who \notin authorizedCallers
       /\ authorizedCallers' = authorizedCallers \cup {who}
  /\ UNCHANGED <<owner, pendingOwner, administrators, nonAccessVars>>

RemoveAuthorizedCaller(caller) ==
  /\ IsOwner(caller)
  /\ \E who \in authorizedCallers : authorizedCallers' = authorizedCallers \ {who}
  /\ UNCHANGED <<owner, pendingOwner, administrators, nonAccessVars>>

TransferOwnership(caller) ==
  /\ IsOwner(caller)
  /\ \E new \in Principals :
       new # BurnAddress /\ new # owner /\ pendingOwner' = new
  /\ UNCHANGED <<owner, administrators, authorizedCallers, nonAccessVars>>

AcceptOwnership(caller) ==
  /\ pendingOwner # None
  /\ caller = pendingOwner
  /\ owner' = pendingOwner
  /\ pendingOwner' = None
  /\ UNCHANGED <<administrators, authorizedCallers, nonAccessVars>>

CancelOwnershipTransfer(caller) ==
  /\ IsOwner(caller)
  /\ pendingOwner # None
  /\ pendingOwner' = None
  /\ UNCHANGED <<owner, administrators, authorizedCallers, nonAccessVars>>

-----------------------------------------------------------------------------
(* The registry on its own: any principal may call any function.           *)

LifecycleStep(caller) ==
  \/ PauseProtocol(caller)
  \/ UnpauseProtocol(caller)
  \/ EmergencyPauseProtocol(caller)
  \/ ResolveEmergency(caller)
  \/ BeginUpgrade(caller)
  \/ CompleteUpgrade(caller)
  \/ DeprecateProtocol(caller)

ConfigStep(caller) ==
  \/ UpdateVersions(caller)
  \/ SetVerifierVersions(caller)
  \/ UpdateProtocolLimits(caller)
  \/ SetMaxFeeBps(caller)

AdministrationStep(caller) ==
  \/ GrantRole(caller)
  \/ RevokeRole(caller)
  \/ AddAuthorizedCaller(caller)
  \/ RemoveAuthorizedCaller(caller)
  \/ TransferOwnership(caller)
  \/ AcceptOwnership(caller)
  \/ CancelOwnershipTransfer(caller)

LedgerStep(caller) ==
  \/ RegisterCommitment(caller)
  \/ RegisterNullifier(caller)
  \/ UpdateRoot(caller)
  \/ SetRootStatus(caller)
  \/ RecordShield(caller)
  \/ RecordWithdrawal(caller)
  \/ RecordTransfer(caller)
  \/ RecordNoteCreated(caller)

StepBy(caller) ==
  \/ LifecycleStep(caller)
  \/ ConfigStep(caller)
  \/ AdministrationStep(caller)
  \/ LedgerStep(caller)

\* What people do to the registry; the other ledger steps are the contracts'.
GovernanceStep(caller) ==
  \/ LifecycleStep(caller)
  \/ ConfigStep(caller)
  \/ AdministrationStep(caller)
  \/ SetRootStatus(caller)

RegistryNext == \E caller \in Principals : StepBy(caller)

RegistrySpec == RegistryInit /\ [][RegistryNext]_registryVars

-----------------------------------------------------------------------------
(* Properties.                                                             *)

\* Every data var and map of the contract holds a value of its declared type.
RegistryTypeOK ==
  /\ owner \in Principals
  /\ pendingOwner \in Principals \cup {None}
  /\ administrators \subseteq Principals \X Roles
  /\ authorizedCallers \subseteq Principals
  /\ protocolState \in ProtocolStates
  /\ protocolVersions \in Versions
  /\ protocolLimits \in Limits
  /\ DOMAIN commitments \subseteq Commitment \ {ZeroHash}
  /\ commitments \in [DOMAIN commitments -> [index : Nat, version : Nat]]
  /\ nullifiers \subseteq Nullifier \ {ZeroHash}
  /\ DOMAIN merkleRoots \subseteq Root \ {ZeroHash}
  /\ merkleRoots \in [DOMAIN merkleRoots -> [version : Nat, active : BOOLEAN]]
  /\ currentRoot \in [root : Root, version : Nat]
  /\ totalCommitments \in Nat /\ totalNullifiers \in Nat /\ totalNotes \in Nat
  /\ totalTransfers \in Nat /\ totalWithdrawals \in Nat
  /\ totalShieldedStx \in Nat

\* However limits are lowered between registrations, what is registered fits
\* the configured capacity, the capacity fits the Merkle tree, and the limit
\* set stays consistent (update-protocol-limits against register-commitment
\* and record-note-created).
CapacityRespected ==
  /\ totalCommitments <= protocolLimits.maxCommitments
  /\ totalNotes <= protocolLimits.maxNotes
  /\ WellFormedLimits(protocolLimits)

\* The leaf indices that register-commitment returned and logged are exactly
\* 0..total-1, each given to one commitment: a client that replays the log
\* rebuilds one tree without gaps.
LeavesDense ==
  /\ \A c, d \in DOMAIN commitments :
       commitments[c].index = commitments[d].index => c = d
  /\ {commitments[c].index : c \in DOMAIN commitments}
       = 0..(totalCommitments - 1)

\* The nullifier counter counts the nullifier set and never passes the number
\* of commitments, the bound register-nullifier calls defense in depth.
SpendsWithinCommitments ==
  /\ IsFiniteSet(nullifiers)
  /\ Cardinality(nullifiers) = totalNullifiers
  /\ totalNullifiers <= totalCommitments

\* The shielded total that record-shield and record-withdrawal keep never
\* leaves 0..STX-SUPPLY-CEILING.
ShieldedWithinSupply ==
  0 <= totalShieldedStx /\ totalShieldedStx <= StxSupplyCeiling

\* The current root is the bootstrap sentinel or a registered root, stored
\* under the version it was registered with, and no entry of any map carries a
\* version later than the protocol's: upgrades never run backwards.
RootsAndVersionsConsistent ==
  /\ \/ currentRoot.root = ZeroHash
     \/ /\ currentRoot.root \in DOMAIN merkleRoots
        /\ merkleRoots[currentRoot.root].version = currentRoot.version
  /\ \A r \in DOMAIN merkleRoots : merkleRoots[r].version <= protocolVersions.root
  /\ \A c \in DOMAIN commitments :
       commitments[c].version <= protocolVersions.commitment

\* A nominated successor is never the burn address or the owner itself, so a
\* completed transfer always moves authority and leaves no nomination behind.
NominationIsToAnother ==
  /\ owner # BurnAddress
  /\ pendingOwner # BurnAddress
  /\ pendingOwner # owner

\* Versions only grow, and only inside the upgrade window: no call made while
\* the protocol is live can change the rules a pending transaction was built
\* against.
VersionsOnlyGrowInUpgrade ==
  [][ /\ protocolState = PROTOCOL_UPGRADING
      /\ \A k \in DOMAIN protocolVersions :
           protocolVersions'[k] >= protocolVersions[k] ]_protocolVersions

\* Nothing that was registered is ever forgotten or rewritten: nullifiers stay
\* consumed, commitments keep their index and version, roots keep their version
\* (only the active flag moves), so a proof's history cannot be erased.
HistoryAppendOnly ==
  [][ /\ nullifiers \subseteq nullifiers'
      /\ \A c \in DOMAIN commitments :
           c \in DOMAIN commitments' /\ commitments'[c] = commitments[c]
      /\ \A r \in DOMAIN merkleRoots :
           /\ r \in DOMAIN merkleRoots'
           /\ merkleRoots'[r].version = merkleRoots[r].version ]_ledgerVars

\* Once deprecated, the protocol stays deprecated and its commitments,
\* nullifiers, statistics, current root, versions and limits never move again.
DeprecatedIsTerminal ==
  [][ protocolState # PROTOCOL_DEPRECATED ]_
     <<protocolState, configVars, commitmentVars, nullifierVars, currentRoot,
       totalNotes, flowVars>>

\* Whatever roles it collects, a principal that is not the owner can never
\* leave an emergency, enter or leave the upgrade window, or retire the
\* protocol, and during an emergency it cannot touch the limits.
HighStakesMovesAreTheOwners ==
  [][ \A p \in Principals \ {owner} : StepBy(p) =>
        /\ protocolState = PROTOCOL_EMERGENCY =>
             UNCHANGED <<protocolState, configVars>>
        /\ protocolState = PROTOCOL_UPGRADING =>
             protocolState' \in {PROTOCOL_UPGRADING, PROTOCOL_EMERGENCY}
        /\ protocolState' = PROTOCOL_UPGRADING =>
             protocolState = PROTOCOL_UPGRADING
        /\ protocolState' = PROTOCOL_DEPRECATED =>
             protocolState = PROTOCOL_DEPRECATED ]_registryVars

\* What the registry's maps, counters and limits say of each other.
RegistryConsistent ==
  /\ RegistryTypeOK
  /\ CapacityRespected
  /\ LeavesDense
  /\ SpendsWithinCommitments
  /\ ShieldedWithinSupply
  /\ RootsAndVersionsConsistent
  /\ NominationIsToAnother

\* What no call, whoever makes it, does to the protocol's lifecycle and rules.
GovernanceMoves ==
  /\ VersionsOnlyGrowInUpgrade
  /\ DeprecatedIsTerminal
  /\ HighStakesMovesAreTheOwners

=============================================================================

---------------------------- MODULE ContractProofs ----------------------------
(***************************************************************************)
(* The privacy registry and the two contracts beside it, each for every    *)
(* value of its constants: what holds of the registry's state and what a   *)
(* step of it may never do, and the history, the versions and the          *)
(* lifecycle that follow; the note manager's books and its state machine   *)
(* (any note ids, principals, limits and versions); and the verifier's     *)
(* acceptance and publication (any statements, keys, contexts and callers).*)
(***************************************************************************)
EXTENDS NoteManager, ZkVerifier, FiniteSetTheorems, TLAPS

-----------------------------------------------------------------------------
(* The privacy registry.                                                   *)

\* What a map-insert does to the two maps of the registry that grow.
LEMMA CommitmentsGrow ==
  ASSUME commitments \in [DOMAIN commitments -> [index : Nat, version : Nat]],
         NEW c, NEW i \in Nat, NEW v \in Nat,
         commitments' = MapSet(commitments, c, [index |-> i, version |-> v])
  PROVE  /\ DOMAIN commitments' = DOMAIN commitments \cup {c}
         /\ commitments' \in [DOMAIN commitments' -> [index : Nat, version : Nat]]
         /\ commitments'[c] = [index |-> i, version |-> v]
         /\ \A k \in DOMAIN commitments : k # c => commitments'[k] = commitments[k]
<1> DEFINE V == [index : Nat, version : Nat]
<1> DEFINE new == [index |-> i, version |-> v]
<1>1. new \in V
  OBVIOUS
<1>2. commitments \in [DOMAIN commitments -> V]
  OBVIOUS
<1>3. commitments' = MapSet(commitments, c, new)
  OBVIOUS
<1> QED
  <2> HIDE DEF V, new
  <2>1. /\ DOMAIN commitments' = DOMAIN commitments \cup {c}
        /\ commitments' \in [DOMAIN commitments' -> V]
        /\ commitments'[c] = new
        /\ \A a \in DOMAIN commitments : a # c => commitments'[a] = commitments[a]
    BY <1>1, <1>2, <1>3 DEF MapSet
  <2> QED
    BY <2>1 DEF V, new

LEMMA RootsGrow ==
  ASSUME merkleRoots \in [DOMAIN merkleRoots -> [version : Nat, active : BOOLEAN]],
         NEW r, NEW v \in Nat,
         merkleRoots' = MapSet(merkleRoots, r, [version |-> v, active |-> TRUE])
  PROVE  /\ DOMAIN merkleRoots' = DOMAIN merkleRoots \cup {r}
         /\ merkleRoots' \in [DOMAIN merkleRoots' -> [version : Nat, active : BOOLEAN]]
         /\ merkleRoots'[r] = [version |-> v, active |-> TRUE]
         /\ \A k \in DOMAIN merkleRoots : k # r => merkleRoots'[k] = merkleRoots[k]
<1> DEFINE V == [version : Nat, active : BOOLEAN]
<1> DEFINE new == [version |-> v, active |-> TRUE]
<1>1. new \in V
  OBVIOUS
<1>2. merkleRoots \in [DOMAIN merkleRoots -> V]
  OBVIOUS
<1>3. merkleRoots' = MapSet(merkleRoots, r, new)
  OBVIOUS
<1> QED
  <2> HIDE DEF V, new
  <2>1. /\ DOMAIN merkleRoots' = DOMAIN merkleRoots \cup {r}
        /\ merkleRoots' \in [DOMAIN merkleRoots' -> V]
        /\ merkleRoots'[r] = new
        /\ \A a \in DOMAIN merkleRoots : a # r => merkleRoots'[a] = merkleRoots[a]
    BY <1>1, <1>2, <1>3 DEF MapSet
  <2> QED
    BY <2>1 DEF V, new

-----------------------------------------------------------------------------
(* Type correctness.                                                       *)

LEMMA InitType == RegistryInit => RegistryTypeOK
<1> SUFFICES ASSUME RegistryInit PROVE RegistryTypeOK
  OBVIOUS
<1>1. GenesisVersions \in Versions
  BY DEF GenesisVersions, Versions
<1> QED
  BY <1>1, PrincipalsAssumption, HashAssumption, BoundsAssumption
     DEF RegistryInit, RegistryTypeOK, EmptyMap, ProtocolStates, PROTOCOL_ACTIVE,
         Versions

LEMMA LifecycleType ==
  ASSUME RegistryTypeOK, NEW caller \in Principals, LifecycleStep(caller)
  PROVE  RegistryTypeOK'
<1>1. ASSUME NEW s \in ProtocolStates, ApplyTransition(s) PROVE RegistryTypeOK'
  BY <1>1 DEF RegistryTypeOK, ApplyTransition, accessVars, configVars, ledgerVars,
              commitmentVars, nullifierVars, rootVars, flowVars
<1>2. PICK s \in ProtocolStates : ApplyTransition(s)
  BY DEF LifecycleStep, PauseProtocol, UnpauseProtocol, EmergencyPauseProtocol,
         ResolveEmergency, BeginUpgrade, CompleteUpgrade, DeprecateProtocol,
         ProtocolStates, PROTOCOL_ACTIVE, PROTOCOL_PAUSED, PROTOCOL_EMERGENCY,
         PROTOCOL_UPGRADING, PROTOCOL_DEPRECATED
<1> QED
  BY <1>1, <1>2

LEMMA ConfigType ==
  ASSUME RegistryTypeOK, NEW caller \in Principals, ConfigStep(caller)
  PROVE  RegistryTypeOK'
<1> USE DEF RegistryTypeOK, accessVars, ledgerVars, commitmentVars, nullifierVars,
            rootVars, flowVars
<1>1. CASE UpdateVersions(caller)
  BY <1>1, InputsAssumption DEF UpdateVersions
<1>2. CASE SetVerifierVersions(caller)
  <2>1. protocolVersions' \in Versions
    BY <1>2, InputsAssumption DEF SetVerifierVersions, Versions
  <2> QED
    BY <1>2, <2>1 DEF SetVerifierVersions
<1>3. CASE UpdateProtocolLimits(caller)
  BY <1>3, InputsAssumption DEF UpdateProtocolLimits
<1>4. CASE SetMaxFeeBps(caller)
  <2>1. protocolLimits' \in Limits
    BY <1>4, InputsAssumption DEF SetMaxFeeBps, Limits
  <2> QED
    BY <1>4, <2>1 DEF SetMaxFeeBps
<1> QED
  BY <1>1, <1>2, <1>3, <1>4 DEF ConfigStep

LEMMA AdministrationType ==
  ASSUME RegistryTypeOK, NEW caller \in Principals, AdministrationStep(caller)
  PROVE  RegistryTypeOK'
<1> USE DEF RegistryTypeOK, nonAccessVars, configVars, ledgerVars, commitmentVars,
            nullifierVars, rootVars, flowVars
<1>1. CASE GrantRole(caller)
  BY <1>1 DEF GrantRole
<1>2. CASE RevokeRole(caller)
  BY <1>2 DEF RevokeRole
<1>3. CASE AddAuthorizedCaller(caller)
  BY <1>3 DEF AddAuthorizedCaller
<1>4. CASE RemoveAuthorizedCaller(caller)
  BY <1>4 DEF RemoveAuthorizedCaller
<1>5. CASE TransferOwnership(caller)
  BY <1>5 DEF TransferOwnership
<1>6. CASE AcceptOwnership(caller)
  BY <1>6 DEF AcceptOwnership
<1>7. CASE CancelOwnershipTransfer(caller)
  BY <1>7 DEF CancelOwnershipTransfer
<1> QED
  BY <1>1, <1>2, <1>3, <1>4, <1>5, <1>6, <1>7 DEF AdministrationStep

LEMMA LedgerType ==
  ASSUME RegistryTypeOK, NEW caller \in Principals, LedgerStep(caller)
  PROVE  RegistryTypeOK'
<1> USE DEF RegistryTypeOK, nonLedgerVars, accessVars, configVars, commitmentVars,
            nullifierVars, rootVars, flowVars
<1>1. CASE RegisterCommitment(caller)
  <2>1. PICK c \in Commitment, v \in VersionNumberInputs :
          RegisterCommitmentCall(caller, c, v)
    BY <1>1 DEF RegisterCommitment
  <2>2. /\ v \in Nat
        /\ commitments' = MapSet(commitments, c,
                                 [index |-> totalCommitments, version |-> v])
    BY <2>1, InputsAssumption DEF RegisterCommitmentCall
  <2>3. /\ DOMAIN commitments' = DOMAIN commitments \cup {c}
        /\ commitments' \in [DOMAIN commitments' -> [index : Nat, version : Nat]]
    BY <2>2, CommitmentsGrow
  <2> QED
    BY <1>1, <2>1, <2>3 DEF RegisterCommitment, RegisterCommitmentCall
<1>2. CASE RegisterNullifier(caller)
  BY <1>2 DEF RegisterNullifier, RegisterNullifierCall
<1>3. CASE UpdateRoot(caller)
  <2>1. PICK r \in Root, v \in VersionNumberInputs : UpdateRootCall(caller, r, v)
    BY <1>3 DEF UpdateRoot
  <2>2. /\ v \in Nat
        /\ merkleRoots' = MapSet(merkleRoots, r, [version |-> v, active |-> TRUE])
    BY <2>1, InputsAssumption DEF UpdateRootCall
  <2>3. /\ DOMAIN merkleRoots' = DOMAIN merkleRoots \cup {r}
        /\ merkleRoots' \in [DOMAIN merkleRoots' -> [version : Nat, active : BOOLEAN]]
    BY <2>2, RootsGrow
  <2>4. currentRoot' \in [root : Root, version : Nat]
    BY <2>1, InputsAssumption DEF UpdateRootCall
  <2> QED
    BY <1>3, <2>1, <2>3, <2>4 DEF UpdateRoot, UpdateRootCall
<1>4. CASE SetRootStatus(caller)
  <2>1. PICK root \in DOMAIN merkleRoots, active \in BOOLEAN :
          merkleRoots' = [merkleRoots EXCEPT ![root].active = active]
    BY <1>4 DEF SetRootStatus
  <2>2. DOMAIN merkleRoots' = DOMAIN merkleRoots
    BY <2>1
  <2>3. merkleRoots' \in [DOMAIN merkleRoots -> [version : Nat, active : BOOLEAN]]
    BY <2>1
  <2> QED
    BY <1>4, <2>2, <2>3 DEF SetRootStatus
<1>5. CASE RecordShield(caller)
  BY <1>5, InputsAssumption DEF RecordShield, RecordShieldCall
<1>6. CASE RecordWithdrawal(caller)
  <2>1. totalShieldedStx' \in Nat
    BY <1>6, InputsAssumption DEF RecordWithdrawal, RecordWithdrawalCall
  <2> QED
    BY <1>6, <2>1 DEF RecordWithdrawal, RecordWithdrawalCall
<1>7. CASE RecordTransfer(caller)
  BY <1>7 DEF RecordTransfer, RecordTransferCall
<1>8. CASE RecordNoteCreated(caller)
  BY <1>8 DEF RecordNoteCreated, RecordNoteCreatedCall
<1> QED
  BY <1>1, <1>2, <1>3, <1>4, <1>5, <1>6, <1>7, <1>8 DEF LedgerStep

LEMMA StepType == RegistryTypeOK /\ [RegistryNext]_registryVars => RegistryTypeOK'
<1> SUFFICES ASSUME RegistryTypeOK, [RegistryNext]_registryVars PROVE RegistryTypeOK'
  OBVIOUS
<1>1. CASE UNCHANGED registryVars
  BY <1>1 DEF RegistryTypeOK, registryVars, accessVars, configVars, ledgerVars,
              commitmentVars, nullifierVars, rootVars, flowVars
<1>2. CASE RegistryNext
  <2>1. PICK caller \in Principals : StepBy(caller)
    BY <1>2 DEF RegistryNext
  <2> QED
    BY <2>1, LifecycleType, ConfigType, AdministrationType, LedgerType DEF StepBy
<1> QED
  BY <1>1, <1>2

\* Every reachable state of the registry is well typed: no call leaves a data
\* var or a map holding a value outside its declared type.
THEOREM TypeCorrect == RegistrySpec => []RegistryTypeOK
<1> QED
  BY InitType, StepType, PTL DEF RegistrySpec

-----------------------------------------------------------------------------
(* Capacity and counters.  The bounds are inductive only together: a        *)
(* registration is bounded by the limits in force, a limit change by what   *)
(* is registered, and a spend by the commitments.                          *)

Counters ==
  /\ RegistryTypeOK
  /\ CapacityRespected
  /\ SpendsWithinCommitments
  /\ ShieldedWithinSupply
  /\ NominationIsToAnother

LEMMA InitCounters == RegistryInit => Counters
<1> SUFFICES ASSUME RegistryInit PROVE Counters
  OBVIOUS
<1>1. RegistryTypeOK
  BY InitType
<1>2. CapacityRespected
  BY BoundsAssumption
     DEF RegistryInit, CapacityRespected, WellFormedLimits, Limits
<1>3. SpendsWithinCommitments
  BY FS_EmptySet DEF RegistryInit, SpendsWithinCommitments
<1>4. ShieldedWithinSupply
  BY BoundsAssumption DEF RegistryInit, ShieldedWithinSupply
<1>5. NominationIsToAnother
  BY PrincipalsAssumption DEF RegistryInit, NominationIsToAnother
<1> QED
  BY <1>1, <1>2, <1>3, <1>4, <1>5 DEF Counters

\* Steps that leave every counter, the limits and the owners alone.
LEMMA CountersUntouched ==
  ASSUME Counters, RegistryTypeOK',
         UNCHANGED <<owner, pendingOwner, protocolLimits, totalCommitments,
                     nullifiers, totalNullifiers, totalNotes, totalShieldedStx>>
  PROVE  Counters'
  BY DEF Counters, CapacityRespected, SpendsWithinCommitments, ShieldedWithinSupply,
         NominationIsToAnother

LEMMA LifecycleCounters ==
  ASSUME Counters, RegistryTypeOK', NEW caller \in Principals, LifecycleStep(caller)
  PROVE  Counters'
<1>1. UNCHANGED <<accessVars, configVars, ledgerVars>>
  BY DEF LifecycleStep, PauseProtocol, UnpauseProtocol, EmergencyPauseProtocol,
         ResolveEmergency, BeginUpgrade, CompleteUpgrade, DeprecateProtocol,
         ApplyTransition
<1> QED
  BY <1>1, CountersUntouched
     DEF accessVars, configVars, ledgerVars, commitmentVars, nullifierVars, flowVars

LEMMA ConfigCounters ==
  ASSUME Counters, RegistryTypeOK', NEW caller \in Principals, ConfigStep(caller)
  PROVE  Counters'
<1> USE DEF accessVars, ledgerVars, commitmentVars, nullifierVars, flowVars
<1>1. CASE UpdateVersions(caller)
  BY <1>1, CountersUntouched DEF UpdateVersions
<1>2. CASE SetVerifierVersions(caller)
  BY <1>2, CountersUntouched DEF SetVerifierVersions
<1>3. CASE UpdateProtocolLimits(caller)
  <2>1. CapacityRespected'
    BY <1>3 DEF UpdateProtocolLimits, CapacityRespected
  <2> QED
    BY <1>3, <2>1 DEF UpdateProtocolLimits, Counters, SpendsWithinCommitments,
                      ShieldedWithinSupply, NominationIsToAnother
<1>4. CASE SetMaxFeeBps(caller)
  <2>1. PICK new \in FeeCeilingInputs :
          /\ new <= MaxFeeBpsCeiling
          /\ protocolLimits' = [protocolLimits EXCEPT !.maxFeeBps = new]
    BY <1>4 DEF SetMaxFeeBps
  <2>2. CapacityRespected'
    BY <1>4, <2>1 DEF SetMaxFeeBps, Counters, RegistryTypeOK, Limits,
                      CapacityRespected, WellFormedLimits
  <2> QED
    BY <1>4, <2>2 DEF SetMaxFeeBps, Counters, SpendsWithinCommitments,
                      ShieldedWithinSupply, NominationIsToAnother
<1> QED
  BY <1>1, <1>2, <1>3, <1>4 DEF ConfigStep

LEMMA AdministrationCounters ==
  ASSUME Counters, RegistryTypeOK', NEW caller \in Principals, AdministrationStep(caller)
  PROVE  Counters'
<1> USE DEF nonAccessVars, configVars, ledgerVars, commitmentVars, nullifierVars, flowVars
<1>1. CASE GrantRole(caller)
  BY <1>1, CountersUntouched DEF GrantRole
<1>2. CASE RevokeRole(caller)
  BY <1>2, CountersUntouched DEF RevokeRole
<1>3. CASE AddAuthorizedCaller(caller)
  BY <1>3, CountersUntouched DEF AddAuthorizedCaller
<1>4. CASE RemoveAuthorizedCaller(caller)
  BY <1>4, CountersUntouched DEF RemoveAuthorizedCaller
<1>5. CASE TransferOwnership(caller)
  BY <1>5 DEF TransferOwnership, Counters, CapacityRespected, SpendsWithinCommitments,
              ShieldedWithinSupply, NominationIsToAnother
<1>6. CASE AcceptOwnership(caller)
  <2>1. owner' \in Principals /\ None \notin Principals
    BY PrincipalsAssumption DEF RegistryTypeOK
  <2>2. NominationIsToAnother'
    BY <1>6, <2>1, PrincipalsAssumption
       DEF AcceptOwnership, Counters, NominationIsToAnother
  <2> QED
    BY <1>6, <2>2 DEF AcceptOwnership, Counters, CapacityRespected,
                      SpendsWithinCommitments, ShieldedWithinSupply
<1>7. CASE CancelOwnershipTransfer(caller)
  <2>1. owner' \in Principals /\ None \notin Principals
    BY PrincipalsAssumption DEF RegistryTypeOK
  <2>2. NominationIsToAnother'
    BY <1>7, <2>1, PrincipalsAssumption
       DEF CancelOwnershipTransfer, Counters, NominationIsToAnother
  <2> QED
    BY <1>7, <2>2 DEF CancelOwnershipTransfer, Counters, CapacityRespected,
                      SpendsWithinCommitments, ShieldedWithinSupply
<1> QED
  BY <1>1, <1>2, <1>3, <1>4, <1>5, <1>6, <1>7 DEF AdministrationStep

LEMMA LedgerCounters ==
  ASSUME Counters, RegistryTypeOK', NEW caller \in Principals, LedgerStep(caller)
  PROVE  Counters'
<1> USE DEF nonLedgerVars, accessVars, configVars, commitmentVars, nullifierVars,
            rootVars, flowVars
<1>1. CASE RegisterCommitment(caller)
  <2>1. /\ totalCommitments' = totalCommitments + 1
        /\ totalCommitments < protocolLimits.maxCommitments
    BY <1>1 DEF RegisterCommitment, RegisterCommitmentCall
  <2>2. totalCommitments' <= protocolLimits.maxCommitments
    BY <2>1 DEF Counters, RegistryTypeOK, Limits
  <2>3. totalNullifiers <= totalCommitments'
    BY <2>1 DEF Counters, RegistryTypeOK, SpendsWithinCommitments
  <2> QED
    BY <1>1, <2>2, <2>3 DEF RegisterCommitment, Counters, CapacityRespected,
       SpendsWithinCommitments, ShieldedWithinSupply, NominationIsToAnother
<1>2. CASE RegisterNullifier(caller)
  <2>1. PICK n \in Nullifier : RegisterNullifierCall(caller, n)
    BY <1>2 DEF RegisterNullifier
  <2>2. /\ IsFiniteSet(nullifiers \cup {n})
        /\ Cardinality(nullifiers \cup {n}) = Cardinality(nullifiers) + 1
    BY <2>1, FS_AddElement DEF Counters, SpendsWithinCommitments, RegisterNullifierCall
  <2>3. /\ nullifiers' = nullifiers \cup {n}
        /\ totalNullifiers' = totalNullifiers + 1
        /\ totalNullifiers < totalCommitments
        /\ totalCommitments' = totalCommitments
    BY <1>2, <2>1 DEF RegisterNullifier, RegisterNullifierCall
  <2>4. /\ totalNullifiers \in Nat /\ totalCommitments \in Nat
        /\ Cardinality(nullifiers) = totalNullifiers
    BY DEF Counters, RegistryTypeOK, SpendsWithinCommitments
  <2>5. totalNullifiers + 1 <= totalCommitments
    BY <2>3, <2>4
  <2>6. SpendsWithinCommitments'
    BY <2>2, <2>3, <2>4, <2>5 DEF SpendsWithinCommitments
  <2> QED
    BY <1>2, <2>6 DEF RegisterNullifier, Counters, CapacityRespected,
       ShieldedWithinSupply, NominationIsToAnother
<1>3. CASE UpdateRoot(caller)
  BY <1>3, CountersUntouched DEF UpdateRoot
<1>4. CASE SetRootStatus(caller)
  BY <1>4, CountersUntouched DEF SetRootStatus
<1>5. CASE RecordShield(caller)
  <2>1. ShieldedWithinSupply'
    BY <1>5, InputsAssumption DEF RecordShield, RecordShieldCall, Counters,
       RegistryTypeOK, ShieldedWithinSupply
  <2> QED
    BY <1>5, <2>1 DEF RecordShield, Counters, CapacityRespected,
       SpendsWithinCommitments, NominationIsToAnother
<1>6. CASE RecordWithdrawal(caller)
  <2>1. ShieldedWithinSupply'
    BY <1>6, InputsAssumption, BoundsAssumption DEF RecordWithdrawal,
       RecordWithdrawalCall, Counters, RegistryTypeOK, ShieldedWithinSupply
  <2> QED
    BY <1>6, <2>1 DEF RecordWithdrawal, Counters, CapacityRespected,
       SpendsWithinCommitments, NominationIsToAnother
<1>7. CASE RecordTransfer(caller)
  BY <1>7, CountersUntouched DEF RecordTransfer, RecordTransferCall
<1>8. CASE RecordNoteCreated(caller)
  <2>1. totalNotes' <= protocolLimits.maxNotes
    BY <1>8 DEF RecordNoteCreated, RecordNoteCreatedCall, Counters, RegistryTypeOK,
       Limits
  <2> QED
    BY <1>8, <2>1 DEF RecordNoteCreated, Counters, CapacityRespected,
       SpendsWithinCommitments, ShieldedWithinSupply, NominationIsToAnother
<1> QED
  BY <1>1, <1>2, <1>3, <1>4, <1>5, <1>6, <1>7, <1>8 DEF LedgerStep

LEMMA StepCounters == Counters /\ [RegistryNext]_registryVars => Counters'
<1> SUFFICES ASSUME Counters, [RegistryNext]_registryVars PROVE Counters'
  OBVIOUS
<1>1. RegistryTypeOK'
  BY StepType DEF Counters
<1>2. CASE UNCHANGED registryVars
  BY <1>1, <1>2, CountersUntouched
     DEF registryVars, accessVars, configVars, ledgerVars, commitmentVars,
         nullifierVars, flowVars
<1>3. CASE RegistryNext
  <2>1. PICK caller \in Principals : StepBy(caller)
    BY <1>3 DEF RegistryNext
  <2> QED
    BY <1>1, <2>1, LifecycleCounters, ConfigCounters, AdministrationCounters,
       LedgerCounters DEF StepBy
<1> QED
  BY <1>2, <1>3

LEMMA CountersInvariant == RegistrySpec => []Counters
<1> QED
  BY InitCounters, StepCounters, PTL DEF RegistrySpec

\* Whatever limits administrators set between registrations, what is registered
\* fits them and they fit the Merkle tree (update-protocol-limits,
\* register-commitment, record-note-created).
THEOREM CapacityHolds == RegistrySpec => []CapacityRespected
<1>1. Counters => CapacityRespected
  BY DEF Counters
<1> QED
  BY <1>1, CountersInvariant, PTL

\* register-nullifier's counter is the size of the nullifier set and never
\* passes the number of commitments.
THEOREM SpendsBounded == RegistrySpec => []SpendsWithinCommitments
<1>1. Counters => SpendsWithinCommitments
  BY DEF Counters
<1> QED
  BY <1>1, CountersInvariant, PTL

\* record-shield and record-withdrawal keep the shielded total within
\* 0..STX-SUPPLY-CEILING.
THEOREM ShieldedBounded == RegistrySpec => []ShieldedWithinSupply
<1>1. Counters => ShieldedWithinSupply
  BY DEF Counters
<1> QED
  BY <1>1, CountersInvariant, PTL

\* transfer-ownership and accept-ownership never hand the protocol to the burn
\* address, and leave no nomination of the owner itself.
THEOREM NominationSound == RegistrySpec => []NominationIsToAnother
<1>1. Counters => NominationIsToAnother
  BY DEF Counters
<1> QED
  BY <1>1, CountersInvariant, PTL

-----------------------------------------------------------------------------
(* What the groups of functions leave alone.                               *)

LEMMA LifecycleFrame ==
  ASSUME NEW caller, LifecycleStep(caller)
  PROVE  UNCHANGED <<accessVars, configVars, ledgerVars>>
BY DEF LifecycleStep, PauseProtocol, UnpauseProtocol, EmergencyPauseProtocol,
       ResolveEmergency, BeginUpgrade, CompleteUpgrade, DeprecateProtocol,
       ApplyTransition

LEMMA ConfigFrame ==
  ASSUME NEW caller, ConfigStep(caller)
  PROVE  UNCHANGED <<accessVars, protocolState, ledgerVars>>
BY DEF ConfigStep, UpdateVersions, SetVerifierVersions, UpdateProtocolLimits,
       SetMaxFeeBps

LEMMA AdministrationFrame ==
  ASSUME NEW caller, AdministrationStep(caller)
  PROVE  UNCHANGED nonAccessVars
BY DEF AdministrationStep, GrantRole, RevokeRole, AddAuthorizedCaller,
       RemoveAuthorizedCaller, TransferOwnership, AcceptOwnership,
       CancelOwnershipTransfer

LEMMA LedgerFrame ==
  ASSUME NEW caller, LedgerStep(caller)
  PROVE  UNCHANGED nonLedgerVars
BY DEF LedgerStep, RegisterCommitment, RegisterNullifier, UpdateRoot, SetRootStatus,
       RecordShield, RecordWithdrawal, RecordTransfer, RecordNoteCreated

-----------------------------------------------------------------------------
(* History.                                                                *)

HistoryKept ==
  /\ nullifiers \subseteq nullifiers'
  /\ \A c \in DOMAIN commitments :
       c \in DOMAIN commitments' /\ commitments'[c] = commitments[c]
  /\ \A r \in DOMAIN merkleRoots :
       /\ r \in DOMAIN merkleRoots'
       /\ merkleRoots'[r].version = merkleRoots[r].version

LEMMA SameHistory ==
  ASSUME UNCHANGED <<nullifiers, commitments, merkleRoots>>
  PROVE  HistoryKept
BY DEF HistoryKept

LEMMA LedgerHistory ==
  ASSUME RegistryTypeOK, NEW caller \in Principals, LedgerStep(caller)
  PROVE  HistoryKept
<1> USE DEF commitmentVars, nullifierVars, rootVars, flowVars
<1>1. CASE RegisterCommitment(caller)
  <2>1. PICK c \in Commitment, v \in VersionNumberInputs :
          RegisterCommitmentCall(caller, c, v)
    BY <1>1 DEF RegisterCommitment
  <2>2. \A k \in DOMAIN commitments :
          k \in DOMAIN commitments' /\ commitments'[k] = commitments[k]
    BY <2>1 DEF RegisterCommitmentCall, MapSet
  <2> QED
    BY <1>1, <2>2 DEF RegisterCommitment, HistoryKept
<1>2. CASE RegisterNullifier(caller)
  BY <1>2 DEF RegisterNullifier, RegisterNullifierCall, HistoryKept
<1>3. CASE UpdateRoot(caller)
  <2>1. PICK r \in Root, v \in VersionNumberInputs : UpdateRootCall(caller, r, v)
    BY <1>3 DEF UpdateRoot
  <2>2. \A k \in DOMAIN merkleRoots :
          k \in DOMAIN merkleRoots' /\ merkleRoots'[k] = merkleRoots[k]
    BY <2>1 DEF UpdateRootCall, MapSet
  <2> QED
    BY <1>3, <2>2 DEF UpdateRoot, HistoryKept
<1>4. CASE SetRootStatus(caller)
  <2>1. PICK root \in DOMAIN merkleRoots, active \in BOOLEAN :
          merkleRoots' = [merkleRoots EXCEPT ![root].active = active]
    BY <1>4 DEF SetRootStatus
  <2>2. \A k \in DOMAIN merkleRoots :
          k \in DOMAIN merkleRoots' /\ merkleRoots'[k].version = merkleRoots[k].version
    BY <2>1 DEF RegistryTypeOK
  <2> QED
    BY <1>4, <2>2 DEF SetRootStatus, HistoryKept
<1>5. CASE \/ RecordShield(caller) \/ RecordWithdrawal(caller)
           \/ RecordTransfer(caller) \/ RecordNoteCreated(caller)
  <2>1. UNCHANGED <<nullifiers, commitments, merkleRoots>>
    BY <1>5 DEF RecordShield, RecordWithdrawal, RecordTransfer, RecordNoteCreated
  <2> QED
    BY <2>1, SameHistory
<1> QED
  BY <1>1, <1>2, <1>3, <1>4, <1>5 DEF LedgerStep

LEMMA StepHistory ==
  ASSUME RegistryTypeOK, [RegistryNext]_registryVars
  PROVE  HistoryKept
<1>1. CASE UNCHANGED registryVars
  BY <1>1, SameHistory
     DEF registryVars, ledgerVars, commitmentVars, nullifierVars, rootVars
<1>2. CASE RegistryNext
  <2>1. PICK caller \in Principals : StepBy(caller)
    BY <1>2 DEF RegistryNext
  <2>2. CASE LedgerStep(caller)
    BY <2>2, LedgerHistory
  <2>3. CASE \/ LifecycleStep(caller) \/ ConfigStep(caller) \/ AdministrationStep(caller)
    <3>1. UNCHANGED ledgerVars
      BY <2>3, LifecycleFrame, ConfigFrame, AdministrationFrame DEF nonAccessVars
    <3> QED
      BY <3>1, SameHistory DEF ledgerVars, commitmentVars, nullifierVars, rootVars
  <2> QED
    BY <2>1, <2>2, <2>3 DEF StepBy
<1> QED
  BY <1>1, <1>2

\* A consumed nullifier stays consumed, a registered commitment keeps its leaf
\* index and a root its version, whatever is called afterwards.
THEOREM HistoryPreserved == RegistrySpec => HistoryAppendOnly
<1>1. RegistryTypeOK /\ [RegistryNext]_registryVars => [HistoryKept]_ledgerVars
  BY StepHistory
<1> QED
  BY <1>1, TypeCorrect, PTL DEF RegistrySpec, HistoryAppendOnly, HistoryKept

-----------------------------------------------------------------------------
(* Versions.                                                               *)

VersionsGrow ==
  /\ protocolState = PROTOCOL_UPGRADING
  /\ \A k \in DOMAIN protocolVersions : protocolVersions'[k] >= protocolVersions[k]

LEMMA StepVersions ==
  ASSUME RegistryTypeOK, [RegistryNext]_registryVars
  PROVE  [VersionsGrow]_protocolVersions
<1>1. CASE UNCHANGED registryVars
  BY <1>1 DEF registryVars, configVars
<1>2. CASE RegistryNext
  <2>1. PICK caller \in Principals : StepBy(caller)
    BY <1>2 DEF RegistryNext
  <2>2. CASE \/ LifecycleStep(caller) \/ AdministrationStep(caller) \/ LedgerStep(caller)
    BY <2>2, LifecycleFrame, AdministrationFrame, LedgerFrame
       DEF nonAccessVars, nonLedgerVars, configVars
  <2>3. CASE ConfigStep(caller)
    <3>1. CASE UpdateVersions(caller)
      BY <3>1 DEF UpdateVersions, VersionsGrow
    <3>2. CASE SetVerifierVersions(caller)
      <4>1. PICK verifier, circuit \in VersionNumberInputs :
              /\ verifier >= protocolVersions.verifier
              /\ circuit >= protocolVersions.circuit
              /\ protocolVersions' = [protocolVersions EXCEPT !.verifier = verifier,
                                                              !.circuit = circuit]
        BY <3>2 DEF SetVerifierVersions
      <4>2. \A k \in DOMAIN protocolVersions :
              protocolVersions'[k] >= protocolVersions[k]
        <5>1. /\ protocolVersions \in Versions
              /\ verifier \in Nat /\ circuit \in Nat
          BY InputsAssumption DEF RegistryTypeOK
        <5>2. \A k \in DOMAIN protocolVersions :
                protocolVersions[k] \in Nat
                /\ k \in {"protocol", "verifier", "note", "circuit", "commitment", "root"}
          BY <5>1 DEF Versions
        <5>3. /\ protocolVersions'.verifier = verifier
              /\ protocolVersions'.circuit = circuit
              /\ \A k \in DOMAIN protocolVersions \ {"verifier", "circuit"} :
                   protocolVersions'[k] = protocolVersions[k]
          BY <4>1, <5>1 DEF Versions
        <5> SUFFICES ASSUME NEW k \in DOMAIN protocolVersions
                     PROVE  protocolVersions'[k] >= protocolVersions[k]
          OBVIOUS
        <5>4. CASE k = "verifier"
          BY <4>1, <5>3, <5>4
        <5>5. CASE k = "circuit"
          BY <4>1, <5>3, <5>5
        <5>6. CASE k \notin {"verifier", "circuit"}
          BY <5>2, <5>3, <5>6
        <5> QED
          BY <5>4, <5>5, <5>6
      <4> QED
        BY <3>2, <4>2 DEF SetVerifierVersions, VersionsGrow
    <3>3. CASE UpdateProtocolLimits(caller) \/ SetMaxFeeBps(caller)
      BY <3>3 DEF UpdateProtocolLimits, SetMaxFeeBps
    <3> QED
      BY <2>3, <3>1, <3>2, <3>3 DEF ConfigStep
  <2> QED
    BY <2>1, <2>2, <2>3 DEF StepBy
<1> QED
  BY <1>1, <1>2

\* No version changes outside the upgrade window, and none is ever lowered.
THEOREM VersionsMonotone == RegistrySpec => VersionsOnlyGrowInUpgrade
<1>1. RegistryTypeOK /\ [RegistryNext]_registryVars => [VersionsGrow]_protocolVersions
  BY StepVersions
<1> QED
  BY <1>1, TypeCorrect, PTL DEF RegistrySpec, VersionsOnlyGrowInUpgrade, VersionsGrow

-----------------------------------------------------------------------------
(* Lifecycle.                                                              *)

terminalVars == <<protocolState, configVars, commitmentVars, nullifierVars,
                  currentRoot, totalNotes, flowVars>>

LEMMA DeprecatedLedger ==
  ASSUME protocolState = PROTOCOL_DEPRECATED, NEW caller, LedgerStep(caller)
  PROVE  UNCHANGED terminalVars
<1>1. ~CheckActive
  BY DEF CheckActive, PROTOCOL_DEPRECATED, PROTOCOL_ACTIVE
<1>2. SetRootStatus(caller)
  BY <1>1 DEF LedgerStep, RegisterCommitment, RegisterCommitmentCall,
     RegisterNullifier, RegisterNullifierCall, UpdateRoot, UpdateRootCall,
     RecordShield, RecordShieldCall, RecordWithdrawal, RecordWithdrawalCall,
     RecordTransfer, RecordTransferCall, RecordNoteCreated, RecordNoteCreatedCall
<1> QED
  BY <1>2 DEF SetRootStatus, terminalVars, nonLedgerVars

LEMMA DeprecatedStep ==
  ASSUME protocolState = PROTOCOL_DEPRECATED, [RegistryNext]_registryVars
  PROVE  UNCHANGED terminalVars
<1> USE DEF terminalVars
<1>1. CASE UNCHANGED registryVars
  BY <1>1 DEF registryVars, ledgerVars, rootVars
<1>2. CASE RegistryNext
  <2>1. PICK caller \in Principals : StepBy(caller)
    BY <1>2 DEF RegistryNext
  <2>2. ~LifecycleStep(caller)
    BY DEF LifecycleStep, PauseProtocol, UnpauseProtocol, EmergencyPauseProtocol,
       ResolveEmergency, BeginUpgrade, CompleteUpgrade, DeprecateProtocol,
       ApplyTransition, IsValidTransition, PROTOCOL_ACTIVE, PROTOCOL_PAUSED,
       PROTOCOL_EMERGENCY, PROTOCOL_UPGRADING, PROTOCOL_DEPRECATED
  <2>3. ~ConfigStep(caller)
    BY DEF ConfigStep, UpdateVersions, SetVerifierVersions, UpdateProtocolLimits,
       SetMaxFeeBps, LimitsMayChange, PROTOCOL_UPGRADING, PROTOCOL_DEPRECATED
  <2>4. CASE AdministrationStep(caller)
    BY <2>4, AdministrationFrame DEF nonAccessVars, ledgerVars, rootVars
  <2>5. CASE LedgerStep(caller)
    BY <2>5, DeprecatedLedger
  <2> QED
    BY <2>1, <2>2, <2>3, <2>4, <2>5 DEF StepBy
<1> QED
  BY <1>1, <1>2

\* Nothing leaves DEPRECATED, and nothing a proof or a withdrawal depends on
\* moves in it.
THEOREM DeprecationFinal == RegistrySpec => DeprecatedIsTerminal
<1>1. [RegistryNext]_registryVars =>
        [protocolState # PROTOCOL_DEPRECATED]_
          <<protocolState, configVars, commitmentVars, nullifierVars, currentRoot,
            totalNotes, flowVars>>
  BY DeprecatedStep DEF terminalVars
<1> QED
  BY <1>1, PTL DEF RegistrySpec, DeprecatedIsTerminal

OwnersMoves(p) ==
  /\ protocolState = PROTOCOL_EMERGENCY => UNCHANGED <<protocolState, configVars>>
  /\ protocolState = PROTOCOL_UPGRADING =>
       protocolState' \in {PROTOCOL_UPGRADING, PROTOCOL_EMERGENCY}
  /\ protocolState' = PROTOCOL_UPGRADING => protocolState = PROTOCOL_UPGRADING
  /\ protocolState' = PROTOCOL_DEPRECATED => protocolState = PROTOCOL_DEPRECATED

LEMMA OthersMove ==
  ASSUME NEW p \in Principals, p # owner, StepBy(p)
  PROVE  OwnersMoves(p)
<1> USE DEF PROTOCOL_ACTIVE, PROTOCOL_PAUSED, PROTOCOL_EMERGENCY, PROTOCOL_UPGRADING,
            PROTOCOL_DEPRECATED
<1>1. CASE LifecycleStep(p)
  <2>1. UNCHANGED configVars
    BY <1>1, LifecycleFrame
  <2>2. PauseProtocol(p) \/ UnpauseProtocol(p) \/ EmergencyPauseProtocol(p)
    BY <1>1 DEF LifecycleStep, ResolveEmergency, BeginUpgrade, CompleteUpgrade,
       DeprecateProtocol, IsOwner
  <2> QED
    BY <2>1, <2>2 DEF OwnersMoves, PauseProtocol, UnpauseProtocol,
       EmergencyPauseProtocol, ApplyTransition, IsValidTransition
<1>2. CASE ConfigStep(p)
  <2>1. protocolState # PROTOCOL_EMERGENCY
    <3>1. CASE UpdateVersions(p) \/ SetVerifierVersions(p)
      <4>1. protocolState = PROTOCOL_UPGRADING
        BY <3>1 DEF UpdateVersions, SetVerifierVersions
      <4> QED
        BY <4>1
    <3>2. CASE UpdateProtocolLimits(p) \/ SetMaxFeeBps(p)
      BY <3>2 DEF UpdateProtocolLimits, SetMaxFeeBps, LimitsMayChange, IsOwner
    <3> QED
      BY <1>2, <3>1, <3>2 DEF ConfigStep
  <2> QED
    BY <1>2, <2>1, ConfigFrame DEF OwnersMoves
<1>3. CASE AdministrationStep(p) \/ LedgerStep(p)
  BY <1>3, AdministrationFrame, LedgerFrame DEF nonAccessVars, nonLedgerVars, OwnersMoves
<1> QED
  BY <1>1, <1>2, <1>3 DEF StepBy

\* No collection of roles lets anyone but the owner end an emergency, enter or
\* leave the upgrade window, or retire the protocol.
THEOREM HighStakesOwnerOnly == RegistrySpec => HighStakesMovesAreTheOwners
<1>1. \A p \in Principals \ {owner} : StepBy(p) => OwnersMoves(p)
  BY OthersMove
<1> QED
  BY <1>1, PTL DEF RegistrySpec, HighStakesMovesAreTheOwners, OwnersMoves

-----------------------------------------------------------------------------
(* Leaf indices, and the versions of what is stored.                       *)

LEMMA InitLeaves == RegistryInit => LeavesDense /\ RootsAndVersionsConsistent
<1> SUFFICES ASSUME RegistryInit PROVE LeavesDense /\ RootsAndVersionsConsistent
  OBVIOUS
<1>1. DOMAIN commitments = {} /\ DOMAIN merkleRoots = {} /\ totalCommitments = 0
  BY DEF RegistryInit, EmptyMap
<1>2. {commitments[c].index : c \in DOMAIN commitments} = {}
  BY <1>1
<1>3. 0..(totalCommitments - 1) = {}
  BY <1>1
<1> QED
  BY <1>1, <1>2, <1>3 DEF RegistryInit, LeavesDense, RootsAndVersionsConsistent

LEMMA CommitmentLeaves ==
  ASSUME RegistryTypeOK, LeavesDense, NEW c, NEW v \in Nat,
         c \notin DOMAIN commitments,
         commitments' = MapSet(commitments, c, [index |-> totalCommitments, version |-> v]),
         totalCommitments' = totalCommitments + 1
  PROVE  LeavesDense'
<1> DEFINE indices == {commitments[k].index : k \in DOMAIN commitments}
<1>1. /\ totalCommitments \in Nat
      /\ commitments \in [DOMAIN commitments -> [index : Nat, version : Nat]]
      /\ indices = 0..(totalCommitments - 1)
  BY DEF RegistryTypeOK, LeavesDense
<1>2. /\ DOMAIN commitments' = DOMAIN commitments \cup {c}
      /\ commitments'[c] = [index |-> totalCommitments, version |-> v]
      /\ \A k \in DOMAIN commitments : commitments'[k] = commitments[k]
  <2>1. /\ DOMAIN commitments' = DOMAIN commitments \cup {c}
        /\ commitments'[c] = [index |-> totalCommitments, version |-> v]
        /\ \A k \in DOMAIN commitments : k # c => commitments'[k] = commitments[k]
    <3> HIDE DEF indices
    <3> QED
      BY <1>1, CommitmentsGrow, ZenonT(30)
  <2> QED
    BY <2>1
<1>3. {commitments'[k].index : k \in DOMAIN commitments'} = indices \cup {totalCommitments}
  BY <1>2
<1>4. 0..(totalCommitments' - 1) = 0..(totalCommitments - 1) \cup {totalCommitments}
  BY <1>1
<1>5. \A k \in DOMAIN commitments : commitments[k].index # totalCommitments
  <2>1. \A k \in DOMAIN commitments : commitments[k].index \in 0..(totalCommitments - 1)
    BY <1>1
  <2> QED
    BY <1>1, <2>1
<1>6. \A k, l \in DOMAIN commitments' :
        commitments'[k].index = commitments'[l].index => k = l
  BY <1>2, <1>5 DEF LeavesDense
<1> QED
  BY <1>1, <1>3, <1>4, <1>6 DEF LeavesDense

LEMMA StepLeaves ==
  ASSUME RegistryTypeOK, LeavesDense, [RegistryNext]_registryVars
  PROVE  LeavesDense'
<1> USE DEF commitmentVars
<1>1. CASE UNCHANGED commitmentVars
  BY <1>1 DEF LeavesDense
<1>2. CASE ~UNCHANGED commitmentVars
  <2>1. PICK caller \in Principals : StepBy(caller)
    BY <1>2 DEF RegistryNext, registryVars, ledgerVars
  <2>2. RegisterCommitment(caller)
    BY <1>2, <2>1, LifecycleFrame, ConfigFrame, AdministrationFrame
       DEF StepBy, ledgerVars, nonAccessVars, LedgerStep, RegisterNullifier, UpdateRoot,
           SetRootStatus, RecordShield, RecordWithdrawal, RecordTransfer,
           RecordNoteCreated
  <2>3. PICK c \in Commitment, v \in VersionNumberInputs :
          RegisterCommitmentCall(caller, c, v)
    BY <2>2 DEF RegisterCommitment
  <2> QED
    BY <2>3, CommitmentLeaves, InputsAssumption DEF RegisterCommitmentCall
<1> QED
  BY <1>1, <1>2

\* The indices that registrations log are 0, 1, 2, ... without gap or repetition,
\* so every client that replays the log rebuilds the same tree.
THEOREM LeavesAlwaysDense == RegistrySpec => []LeavesDense
<1>1. RegistryInit => LeavesDense
  BY InitLeaves
<1>2. RegistryTypeOK /\ LeavesDense /\ [RegistryNext]_registryVars => LeavesDense'
  BY StepLeaves
<1> QED
  BY <1>1, <1>2, TypeCorrect, PTL DEF RegistrySpec

LEMMA StepRoots ==
  ASSUME RegistryTypeOK, RootsAndVersionsConsistent, [RegistryNext]_registryVars
  PROVE  RootsAndVersionsConsistent'
<1> USE DEF commitmentVars, nullifierVars, rootVars, flowVars
<1>1. CASE UNCHANGED <<commitments, merkleRoots, currentRoot, protocolVersions>>
  BY <1>1 DEF RootsAndVersionsConsistent
<1>2. CASE UNCHANGED registryVars
  BY <1>1, <1>2 DEF registryVars, configVars, ledgerVars
<1>3. ASSUME NEW caller \in Principals, ConfigStep(caller)
      PROVE  RootsAndVersionsConsistent'
  <2>1. UNCHANGED <<commitments, merkleRoots, currentRoot>>
    BY <1>3, ConfigFrame DEF ledgerVars
  <2>2. StepBy(caller) /\ RegistryTypeOK'
    BY <1>3, StepType DEF StepBy
  <2>3. /\ protocolVersions \in Versions /\ protocolVersions' \in Versions
        /\ protocolVersions'.root >= protocolVersions.root
        /\ protocolVersions'.commitment >= protocolVersions.commitment
    <3>1. protocolVersions \in Versions /\ protocolVersions' \in Versions
      BY <2>2 DEF RegistryTypeOK
    <3>2. CASE UNCHANGED protocolVersions
      BY <3>1, <3>2 DEF Versions
    <3>3. CASE VersionsGrow
      BY <3>1, <3>3 DEF VersionsGrow, Versions
    <3> QED
      BY <3>1, <3>2, <3>3, StepVersions
  <2>4. /\ \A r \in DOMAIN merkleRoots : merkleRoots[r].version \in Nat
        /\ \A c \in DOMAIN commitments : commitments[c].version \in Nat
    BY DEF RegistryTypeOK
  <2> QED
    BY <2>1, <2>3, <2>4 DEF RootsAndVersionsConsistent, Versions
<1>4. ASSUME NEW caller \in Principals, RegisterCommitment(caller)
      PROVE  RootsAndVersionsConsistent'
  <2>1. PICK c \in Commitment, v \in VersionNumberInputs :
          RegisterCommitmentCall(caller, c, v)
    BY <1>4 DEF RegisterCommitment
  <2>2. v \in Nat /\ v = protocolVersions.commitment
    BY <2>1, InputsAssumption DEF RegisterCommitmentCall
  <2>3. commitments' = MapSet(commitments, c, [index |-> totalCommitments, version |-> v])
    BY <2>1 DEF RegisterCommitmentCall
  <2>4. /\ totalCommitments \in Nat
        /\ commitments \in [DOMAIN commitments -> [index : Nat, version : Nat]]
    BY DEF RegistryTypeOK
  <2>5. /\ DOMAIN commitments' = DOMAIN commitments \cup {c}
        /\ commitments'[c] = [index |-> totalCommitments, version |-> v]
        /\ \A k \in DOMAIN commitments : k # c => commitments'[k] = commitments[k]
    <3> HIDE DEF commitmentVars
    <3>1. v \in Nat
      BY <2>2
    <3> QED
      BY <3>1, <2>3, <2>4, CommitmentsGrow, ZenonT(30)
  <2>6. \A k \in DOMAIN commitments' :
          commitments'[k].version <= protocolVersions.commitment
    BY <2>2, <2>5 DEF RootsAndVersionsConsistent
  <2>7. UNCHANGED <<merkleRoots, currentRoot, protocolVersions>>
    BY <1>4 DEF RegisterCommitment, nonLedgerVars, configVars
  <2> QED
    BY <2>6, <2>7 DEF RootsAndVersionsConsistent
<1>5. ASSUME NEW caller \in Principals, UpdateRoot(caller)
      PROVE  RootsAndVersionsConsistent'
  <2>1. PICK r \in Root, v \in VersionNumberInputs : UpdateRootCall(caller, r, v)
    BY <1>5 DEF UpdateRoot
  <2>2. v \in Nat /\ v = protocolVersions.root
    BY <2>1, InputsAssumption DEF UpdateRootCall
  <2>3. /\ merkleRoots' = MapSet(merkleRoots, r, [version |-> v, active |-> TRUE])
        /\ currentRoot' = [root |-> r, version |-> v]
    BY <2>1 DEF UpdateRootCall
  <2>4. merkleRoots \in [DOMAIN merkleRoots -> [version : Nat, active : BOOLEAN]]
    BY DEF RegistryTypeOK
  <2>5. /\ DOMAIN merkleRoots' = DOMAIN merkleRoots \cup {r}
        /\ merkleRoots'[r] = [version |-> v, active |-> TRUE]
        /\ \A k \in DOMAIN merkleRoots : k # r => merkleRoots'[k] = merkleRoots[k]
    BY <2>2, <2>3, <2>4, RootsGrow
  <2>6. \A k \in DOMAIN merkleRoots' : merkleRoots'[k].version <= protocolVersions.root
    BY <2>2, <2>5 DEF RootsAndVersionsConsistent
  <2>7. /\ currentRoot'.root \in DOMAIN merkleRoots'
        /\ merkleRoots'[currentRoot'.root].version = currentRoot'.version
    BY <2>3, <2>5
  <2>8. UNCHANGED <<commitments, protocolVersions>>
    BY <1>5 DEF UpdateRoot, nonLedgerVars, configVars
  <2> QED
    BY <2>6, <2>7, <2>8 DEF RootsAndVersionsConsistent
<1>6. ASSUME NEW caller \in Principals, SetRootStatus(caller)
      PROVE  RootsAndVersionsConsistent'
  <2>1. PICK root \in DOMAIN merkleRoots, active \in BOOLEAN :
          merkleRoots' = [merkleRoots EXCEPT ![root].active = active]
    BY <1>6 DEF SetRootStatus
  <2>2. /\ DOMAIN merkleRoots' = DOMAIN merkleRoots
        /\ \A k \in DOMAIN merkleRoots : merkleRoots'[k].version = merkleRoots[k].version
    BY <2>1 DEF RegistryTypeOK
  <2>3. UNCHANGED <<commitments, currentRoot, protocolVersions>>
    BY <1>6 DEF SetRootStatus, nonLedgerVars, configVars
  <2> QED
    BY <2>2, <2>3 DEF RootsAndVersionsConsistent
<1>7. CASE RegistryNext
  <2>1. PICK caller \in Principals : StepBy(caller)
    BY <1>7 DEF RegistryNext
  <2>2. CASE LifecycleStep(caller)
    BY <1>1, <2>2, LifecycleFrame DEF configVars, ledgerVars
  <2>3. CASE AdministrationStep(caller)
    BY <1>1, <2>3, AdministrationFrame DEF nonAccessVars, configVars, ledgerVars
  <2>4. CASE LedgerStep(caller)
    <3>1. CASE \/ RegisterNullifier(caller) \/ RecordShield(caller)
               \/ RecordWithdrawal(caller) \/ RecordTransfer(caller)
               \/ RecordNoteCreated(caller)
      BY <1>1, <3>1 DEF RegisterNullifier, RecordShield, RecordWithdrawal,
         RecordTransfer, RecordNoteCreated, nonLedgerVars, configVars
    <3> QED
      BY <1>4, <1>5, <1>6, <2>4, <3>1 DEF LedgerStep
  <2> QED
    BY <1>3, <2>1, <2>2, <2>3, <2>4 DEF StepBy
<1> QED
  BY <1>2, <1>7

\* The current root is always one the map holds (or the bootstrap sentinel),
\* and nothing stored is newer than the protocol's versions.
THEOREM RootsConsistent == RegistrySpec => []RootsAndVersionsConsistent
<1>1. RegistryInit => RootsAndVersionsConsistent
  BY InitLeaves
<1>2. RegistryTypeOK /\ RootsAndVersionsConsistent /\ [RegistryNext]_registryVars
        => RootsAndVersionsConsistent'
  BY StepRoots
<1> QED
  BY <1>1, <1>2, TypeCorrect, PTL DEF RegistrySpec

-----------------------------------------------------------------------------
(* The registry as a whole.                                                *)

\* In every reachable state of the registry, whatever the limits, versions and
\* callers, its maps, counters and limits agree with one another.
THEOREM RegistryAlwaysConsistent == RegistrySpec => []RegistryConsistent
  BY TypeCorrect, CapacityHolds, LeavesAlwaysDense, SpendsBounded,
     ShieldedBounded, RootsConsistent, NominationSound, PTL DEF RegistryConsistent

\* No call of any principal moves the versions outside the upgrade window,
\* revives a deprecated protocol, or takes a decision that is the owner's.
THEOREM GovernanceHolds == RegistrySpec => GovernanceMoves
  BY VersionsMonotone, DeprecationFinal, HighStakesOwnerOnly, PTL DEF GovernanceMoves

-----------------------------------------------------------------------------
(* The note manager.                                                       *)

NotesWith(s) == {id \in DOMAIN notes : notes[id].state = s}

\* The counters stay naturals only because they are exact, and are exact only
\* because a note leaves the state it is counted in.
NoteBooks == NotesTypeOK /\ NoteCountsExact /\ NoteTotalsAgree

LEMMA NoteBooksInit == RegistryInit /\ NotesInit => NoteBooks
<1> SUFFICES ASSUME RegistryInit, NotesInit PROVE NoteBooks
  OBVIOUS
<1>1. DOMAIN notes = {} /\ notes = EmptyMap
  BY DEF NotesInit, EmptyMap
<1>2. \A s \in NoteStates : {id \in DOMAIN notes : notes[id].state = s} = {}
  BY <1>1
<1>3. NotesTypeOK
  BY <1>1 DEF NotesInit, NotesTypeOK, EmptyMap
<1>4. NoteCountsExact
  BY <1>1, <1>2, FS_EmptySet DEF NotesInit, NoteCountsExact
<1> QED
  BY <1>3, <1>4 DEF NoteBooks, NoteTotalsAgree, RegistryInit, NotesInit

LEMMA BooksUntouched ==
  ASSUME NoteBooks, UNCHANGED <<noteVars, totalNotes>>
  PROVE  NoteBooks'
BY DEF NoteBooks, NotesTypeOK, NoteCountsExact, NoteTotalsAgree, noteVars

-----------------------------------------------------------------------------
(* register-note.                                                          *)

LEMMA RegisterNoteBooks ==
  ASSUME NoteBooks, NEW caller, RegisterNote(caller)
  PROVE  NoteBooks'
<1>1. PICK id \in Commitment, v \in VersionNumberInputs : RegisterNoteCall(caller, id, v)
  BY DEF RegisterNote
<1> DEFINE new == NewNote(v)
<1>2. /\ id \notin DOMAIN notes /\ id # ZeroHash
      /\ totalNotes' = totalNotes + 1
      /\ totalRegistered' = totalRegistered + 1
      /\ noteCounts' = [noteCounts EXCEPT ![NOTE_STATE_ACTIVE] = @ + 1]
  BY <1>1 DEF RegisterNoteCall, RecordNoteCreatedCall
<1>3. notes' = MapSet(notes, id, new)
  BY <1>1 DEF RegisterNoteCall
<1>4. /\ new \in [state : NoteStates, version : Nat]
      /\ new.state = NOTE_STATE_ACTIVE
  BY InputsAssumption DEF NewNote, NoteStates, NOTE_STATE_ACTIVE
<1> HIDE DEF new
<1>5. /\ DOMAIN notes' = DOMAIN notes \cup {id}
      /\ notes'[id] = new
      /\ \A k \in DOMAIN notes : notes'[k] = notes[k]
  BY <1>2, <1>3 DEF MapSet
<1>6. notes' \in [DOMAIN notes' -> [state : NoteStates, version : Nat]]
  BY <1>2, <1>3, <1>4 DEF MapSet, NoteBooks, NotesTypeOK
<1>7. NOTE_STATE_ACTIVE \in NoteStates
  BY DEF NOTE_STATE_ACTIVE, NoteStates
<1>8. /\ totalRegistered \in Nat /\ noteCounts \in [NoteStates -> Nat]
      /\ totalRegistered = Cardinality(DOMAIN notes)
      /\ IsFiniteSet(DOMAIN notes)
      /\ \A s \in NoteStates : noteCounts[s] = Cardinality(NotesWith(s))
  BY DEF NoteBooks, NotesTypeOK, NoteCountsExact, NotesWith
<1>9. NotesTypeOK'
  BY <1>1, <1>2, <1>5, <1>6, <1>7, <1>8 DEF NoteBooks, NotesTypeOK
<1>10. /\ IsFiniteSet(DOMAIN notes')
       /\ Cardinality(DOMAIN notes') = totalRegistered'
  BY <1>2, <1>5, <1>8, FS_AddElement
<1>11. \A s \in NoteStates : noteCounts'[s] = Cardinality(NotesWith(s)')
  <2> SUFFICES ASSUME NEW s \in NoteStates
               PROVE  noteCounts'[s] = Cardinality(NotesWith(s)')
    OBVIOUS
  <2>1. CASE s = NOTE_STATE_ACTIVE
    <3>1. NotesWith(s)' = NotesWith(s) \cup {id} /\ id \notin NotesWith(s)
      BY <1>2, <1>4, <1>5, <2>1 DEF NotesWith
    <3>2. IsFiniteSet(NotesWith(s))
      BY <1>8, FS_Subset DEF NotesWith
    <3>3. Cardinality(NotesWith(s) \cup {id}) = Cardinality(NotesWith(s)) + 1
      BY <3>1, <3>2, FS_AddElement
    <3> QED
      BY <1>2, <1>8, <2>1, <3>1, <3>3
  <2>2. CASE s # NOTE_STATE_ACTIVE
    <3>1. NotesWith(s)' = NotesWith(s)
      BY <1>4, <1>5, <2>2 DEF NotesWith
    <3>2. noteCounts'[s] = noteCounts[s]
      BY <1>2, <1>8, <2>2
    <3> QED
      BY <1>8, <3>1, <3>2
  <2> QED
    BY <2>1, <2>2
<1> QED
  BY <1>2, <1>9, <1>10, <1>11
     DEF NoteBooks, NoteCountsExact, NoteTotalsAgree, NotesWith

-----------------------------------------------------------------------------
(* The transition functions.                                               *)

LEMMA MoveNoteBooks ==
  ASSUME NoteBooks, UNCHANGED totalNotes, NEW id \in DOMAIN notes,
         NEW to \in NoteStates, MoveNote(id, to)
  PROVE  NoteBooks'
<1>1. PICK from \in NoteStates : from = notes[id].state /\ from # to
  BY DEF MoveNote, IsValidNoteTransition, NoteStates, NOTE_STATE_ACTIVE,
     NOTE_STATE_SPENT, NOTE_STATE_WITHDRAWN, NOTE_STATE_FROZEN, NOTE_STATE_DEPRECATED
<1>2. /\ notes' = [notes EXCEPT ![id].state = to]
      /\ UNCHANGED totalRegistered
  BY DEF MoveNote
<1>3. /\ notes \in [DOMAIN notes -> [state : NoteStates, version : Nat]]
      /\ DOMAIN notes \subseteq Commitment \ {ZeroHash}
      /\ totalRegistered \in Nat /\ noteCounts \in [NoteStates -> Nat]
      /\ totalRegistered = Cardinality(DOMAIN notes)
      /\ IsFiniteSet(DOMAIN notes)
      /\ \A s \in NoteStates : noteCounts[s] = Cardinality(NotesWith(s))
  BY DEF NoteBooks, NotesTypeOK, NoteCountsExact, NotesWith
<1>4. /\ DOMAIN notes' = DOMAIN notes
      /\ notes'[id].state = to
      /\ \A k \in DOMAIN notes \ {id} : notes'[k] = notes[k]
      /\ notes' \in [DOMAIN notes -> [state : NoteStates, version : Nat]]
  BY <1>2, <1>3
<1>5. noteCounts' = [noteCounts EXCEPT ![from] = @ - 1, ![to] = @ + 1]
  BY <1>1 DEF MoveNote
<1>6. /\ DOMAIN noteCounts' = NoteStates
      /\ noteCounts'[from] = noteCounts[from] - 1
      /\ noteCounts'[to] = noteCounts[to] + 1
      /\ \A s \in NoteStates \ {from, to} : noteCounts'[s] = noteCounts[s]
  BY <1>1, <1>3, <1>5
<1>7. \A s \in NoteStates : IsFiniteSet(NotesWith(s))
  BY <1>3, FS_Subset DEF NotesWith
<1>8. noteCounts'[from] = Cardinality(NotesWith(from)')
  <2>1. notes[id].state = from
    BY <1>1
  <2>2. /\ NotesWith(from)' = {k \in DOMAIN notes : notes'[k].state = from}
        /\ id \in NotesWith(from)
    BY <1>4, <2>1 DEF NotesWith
  <2>3. NotesWith(from)' = NotesWith(from) \ {id}
    BY <1>1, <1>4, <2>2 DEF NotesWith
  <2>4. Cardinality(NotesWith(from) \ {id}) = Cardinality(NotesWith(from)) - 1
    BY <1>1, <1>7, <2>2, FS_RemoveElement
  <2> QED
    BY <1>1, <1>3, <1>6, <2>3, <2>4
<1>9. noteCounts'[to] = Cardinality(NotesWith(to)')
  <2>1. NotesWith(to)' = NotesWith(to) \cup {id} /\ id \notin NotesWith(to)
    BY <1>1, <1>4 DEF NotesWith
  <2>2. Cardinality(NotesWith(to) \cup {id}) = Cardinality(NotesWith(to)) + 1
    BY <1>7, <2>1, FS_AddElement
  <2> QED
    BY <1>3, <1>6, <2>1, <2>2
<1>10. \A s \in NoteStates \ {from, to} : noteCounts'[s] = Cardinality(NotesWith(s)')
  <2> SUFFICES ASSUME NEW s \in NoteStates \ {from, to}
               PROVE  noteCounts'[s] = Cardinality(NotesWith(s)')
    OBVIOUS
  <2>1. NotesWith(s)' = NotesWith(s)
    BY <1>1, <1>4 DEF NotesWith
  <2> QED
    BY <1>3, <1>6, <2>1
<1>11. NoteCountsExact'
  <2>1. \A s \in NoteStates : noteCounts'[s] = Cardinality(NotesWith(s)')
    BY <1>8, <1>9, <1>10
  <2> QED
    BY <1>2, <1>3, <1>4, <2>1 DEF NoteCountsExact, NotesWith
<1>12. noteCounts' \in [NoteStates -> Nat]
  <2>1. \A s \in NoteStates : noteCounts'[s] \in Nat
    <3>1. \A s \in NoteStates : IsFiniteSet(NotesWith(s)')
      <4>1. \A s : NotesWith(s)' \in SUBSET DOMAIN notes
        BY <1>4 DEF NotesWith
      <4> QED
        BY <1>3, <4>1, FS_Subset
    <3>2. \A s \in NoteStates : Cardinality(NotesWith(s)') \in Nat
      BY <3>1, FS_CardinalityType
    <3> QED
      <4> SUFFICES ASSUME NEW s \in NoteStates PROVE noteCounts'[s] \in Nat
        OBVIOUS
      <4>1. noteCounts'[s] = Cardinality(NotesWith(s)')
        BY <1>8, <1>9, <1>10
      <4> QED
        BY <3>2, <4>1
  <2>2. noteCounts' = [s \in NoteStates |-> noteCounts'[s]]
    BY <1>5, <1>3
  <2> QED
    BY <2>1, <2>2
<1>13. NotesTypeOK'
  BY <1>2, <1>3, <1>4, <1>12 DEF NotesTypeOK
<1> QED
  BY <1>2, <1>11, <1>13 DEF NoteBooks, NoteTotalsAgree

\* The five functions that move a note, by their target state.
Movers(caller) ==
  \/ SpendNote(caller) \/ WithdrawNote(caller) \/ NoteIncidentStep(caller)

LEMMA MoversMove ==
  ASSUME NEW caller, Movers(caller)
  PROVE  /\ UNCHANGED registryVars
         /\ \E id \in DOMAIN notes, to \in NoteStates :
              /\ MoveNote(id, to)
              /\ to \in {NOTE_STATE_SPENT, NOTE_STATE_WITHDRAWN} => CheckActive
<1> USE DEF NoteStates, NOTE_STATE_ACTIVE, NOTE_STATE_SPENT, NOTE_STATE_WITHDRAWN,
            NOTE_STATE_FROZEN, NOTE_STATE_DEPRECATED
<1>1. CASE SpendNote(caller) \/ WithdrawNote(caller)
  BY <1>1 DEF SpendNote, WithdrawNote
<1>2. CASE NoteIncidentStep(caller)
  BY <1>2 DEF NoteIncidentStep, FreezeNote, ReactivateNote, DeprecateNote
<1> QED
  BY <1>1, <1>2 DEF Movers

LEMMA GovernanceKeepsNotes ==
  ASSUME NEW caller, GovernanceStep(caller)
  PROVE  UNCHANGED totalNotes
BY LifecycleFrame, ConfigFrame, AdministrationFrame
   DEF GovernanceStep, SetRootStatus, nonAccessVars, ledgerVars

LEMMA NoteBooksStep ==
  ASSUME NoteBooks, [NotesNext]_<<registryVars, noteVars>>
  PROVE  NoteBooks'
<1>1. CASE UNCHANGED <<registryVars, noteVars>>
  BY <1>1, BooksUntouched DEF registryVars, ledgerVars
<1>2. ASSUME NEW caller \in Principals, NotesStepBy(caller) PROVE NoteBooks'
  <2>1. CASE RegisterNote(caller)
    BY <2>1, RegisterNoteBooks
  <2>2. CASE Movers(caller)
    <3>1. PICK id \in DOMAIN notes, to \in NoteStates : MoveNote(id, to)
      BY <2>2, MoversMove
    <3>2. UNCHANGED totalNotes
      BY <2>2, MoversMove DEF registryVars, ledgerVars
    <3> QED
      BY <3>1, <3>2, MoveNoteBooks
  <2>3. CASE GovernanceStep(caller) /\ UNCHANGED noteVars
    BY <2>3, GovernanceKeepsNotes, BooksUntouched
  <2> QED
    BY <1>2, <2>1, <2>2, <2>3 DEF NotesStepBy, Movers
<1> QED
  BY <1>1, <1>2 DEF NotesNext

LEMMA NoteBooksInvariant == NotesSpec => []NoteBooks
<1> QED
  BY NoteBooksInit, NoteBooksStep, PTL DEF NotesSpec

\* note-statistics counts the note map exactly, through any history of
\* registrations, consumptions, freezes and reactivations.
THEOREM NoteCountsHold == NotesSpec => []NoteCountsExact
<1>1. NoteBooks => NoteCountsExact
  BY DEF NoteBooks
<1> QED
  BY <1>1, NoteBooksInvariant, PTL

\* The registry and the note manager count the same notes.
THEOREM NoteTotalsHold == NotesSpec => []NoteTotalsAgree
<1>1. NoteBooks => NoteTotalsAgree
  BY DEF NoteBooks
<1> QED
  BY <1>1, NoteBooksInvariant, PTL

-----------------------------------------------------------------------------
(* What a step may never do to a note.                                     *)

Ended == {NOTE_STATE_SPENT, NOTE_STATE_WITHDRAWN, NOTE_STATE_DEPRECATED}

EndsKept ==
  \A id \in DOMAIN notes :
    /\ id \in DOMAIN notes'
    /\ notes'[id].version = notes[id].version
    /\ notes[id].state \in Ended => notes'[id].state = notes[id].state

HaltKept ==
  protocolState # PROTOCOL_ACTIVE =>
    /\ DOMAIN notes' = DOMAIN notes
    /\ \A id \in DOMAIN notes :
         notes'[id].state \in {NOTE_STATE_SPENT, NOTE_STATE_WITHDRAWN}
           => notes[id].state = notes'[id].state

LEMMA RegisterKeepsNotes ==
  ASSUME NEW caller, RegisterNote(caller)
  PROVE  EndsKept /\ HaltKept
<1>1. PICK id \in Commitment, v \in VersionNumberInputs : RegisterNoteCall(caller, id, v)
  BY DEF RegisterNote
<1>2. \A k \in DOMAIN notes : k \in DOMAIN notes' /\ notes'[k] = notes[k]
  BY <1>1 DEF RegisterNoteCall, MapSet
<1>3. protocolState = PROTOCOL_ACTIVE
  BY <1>1 DEF RegisterNoteCall, CheckActive
<1> QED
  BY <1>2, <1>3 DEF EndsKept, HaltKept

LEMMA MoveKeepsNotes ==
  ASSUME NotesTypeOK, NEW id \in DOMAIN notes, NEW to \in NoteStates, MoveNote(id, to),
         to \in {NOTE_STATE_SPENT, NOTE_STATE_WITHDRAWN} => CheckActive
  PROVE  EndsKept /\ HaltKept
<1>1. notes' = [notes EXCEPT ![id].state = to]
  BY DEF MoveNote
<1>2. /\ DOMAIN notes' = DOMAIN notes
      /\ notes'[id].state = to
      /\ \A k \in DOMAIN notes : notes'[k].version = notes[k].version
      /\ \A k \in DOMAIN notes \ {id} : notes'[k] = notes[k]
  BY <1>1 DEF NotesTypeOK
<1>3. notes[id].state \notin Ended
  BY DEF MoveNote, IsValidNoteTransition, Ended, NOTE_STATE_ACTIVE, NOTE_STATE_SPENT,
     NOTE_STATE_WITHDRAWN, NOTE_STATE_FROZEN, NOTE_STATE_DEPRECATED
<1>4. EndsKept
  BY <1>2, <1>3 DEF EndsKept
<1>5. HaltKept
  BY <1>2 DEF HaltKept, CheckActive
<1> QED
  BY <1>4, <1>5

LEMMA StepKeepsNotes ==
  ASSUME NotesTypeOK, [NotesNext]_<<registryVars, noteVars>>
  PROVE  [EndsKept /\ HaltKept]_notes
<1>1. CASE UNCHANGED <<registryVars, noteVars>>
  BY <1>1 DEF noteVars
<1>2. ASSUME NEW caller \in Principals, NotesStepBy(caller)
      PROVE  [EndsKept /\ HaltKept]_notes
  <2>1. CASE RegisterNote(caller)
    BY <2>1, RegisterKeepsNotes
  <2>2. CASE Movers(caller)
    <3>1. PICK id \in DOMAIN notes, to \in NoteStates :
            /\ MoveNote(id, to)
            /\ to \in {NOTE_STATE_SPENT, NOTE_STATE_WITHDRAWN} => CheckActive
      BY <2>2, MoversMove
    <3> QED
      BY <3>1, MoveKeepsNotes
  <2>3. CASE GovernanceStep(caller) /\ UNCHANGED noteVars
    BY <2>3 DEF noteVars
  <2> QED
    BY <1>2, <2>1, <2>2, <2>3 DEF NotesStepBy, Movers
<1> QED
  BY <1>1, <1>2 DEF NotesNext

\* After any history of registrations, spends, withdrawals, freezes and
\* reactivations the statistics a wallet reads count the notes they speak of.
THEOREM NotesAlwaysExact == NotesSpec => []NotesExact
<1>1. NoteBooks => NotesExact
  BY DEF NoteBooks, NotesExact
<1> QED
  BY <1>1, NoteBooksInvariant, PTL

\* A note that was spent, withdrawn or deprecated never moves again.
THEOREM NoteEndsFinal == NotesSpec => NoteEndsAreFinal
<1>1. NoteBooks /\ [NotesNext]_<<registryVars, noteVars>> => [EndsKept]_notes
  BY StepKeepsNotes DEF NoteBooks
<1> QED
  BY <1>1, NoteBooksInvariant, PTL DEF NotesSpec, NoteEndsAreFinal, EndsKept, Ended

\* Outside the ACTIVE state of the protocol no note is registered or consumed.
THEOREM HaltedNotesKeep == NotesSpec => NoConsumptionWhileHalted
<1>1. NoteBooks /\ [NotesNext]_<<registryVars, noteVars>> => [HaltKept]_notes
  BY StepKeepsNotes DEF NoteBooks
<1> QED
  BY <1>1, NoteBooksInvariant, PTL DEF NotesSpec, NoConsumptionWhileHalted, HaltKept

\* No call takes a note out of a final state, and none consumes one while the
\* protocol is not ACTIVE.
THEOREM NoteMovesHold == NotesSpec => NoteMoves
  BY NoteEndsFinal, HaltedNotesKeep, PTL DEF NoteMoves

-----------------------------------------------------------------------------
(* The verifier.                                                            *)

\* A published root stands for statements zkVerify verified, and a statement
\* was accepted out of a published root: neither half is inductive alone,
\* since acceptance looks only at what is published.
Sound ==
  /\ \A id \in DOMAIN aggregations : aggregations[id] \subseteq zkVerified
  /\ verifiedProofs \subseteq zkVerified

LEMMA VerifyProofSound ==
  ASSUME Sound, NEW caller, VerifyProof(caller)
  PROVE  Sound'
<1>1. UNCHANGED <<aggregations, zkVerified>>
  BY DEF VerifyProof, aggregationVars
<1>2. PICK type \in TypesInPlay, inputs \in Inputs, id \in DOMAIN aggregations :
        VerifyProofCall(caller, type, protocolVersions.circuit, inputs,
          LeafOf(type, protocolVersions.circuit, inputs) \in aggregations[id])
  BY DEF VerifyProof
<1> DEFINE leaf == LeafOf(type, protocolVersions.circuit, inputs)
<1>3. leaf \in aggregations[id] /\ verifiedProofs' = verifiedProofs \cup {leaf}
  BY <1>2 DEF VerifyProofCall
<1>4. leaf \in zkVerified
  BY <1>3 DEF Sound
<1> QED
  BY <1>1, <1>3, <1>4 DEF Sound

LEMMA SubmitAggregationSound ==
  ASSUME Sound, NEW caller, SubmitAggregation(caller)
  PROVE  Sound'
<1>1. PICK id \in AggregationIds, leaves \in SUBSET zkVerified :
        aggregations' = MapSet(aggregations, id, leaves)
  BY DEF SubmitAggregation
<1>2. UNCHANGED <<verifiedProofs, zkVerified>>
  BY DEF SubmitAggregation, acceptanceVars
<1> QED
  BY <1>1, <1>2 DEF Sound, MapSet

LEMMA StepSound == Sound /\ [VerifierNext]_<<registryVars, verifierVars>> => Sound'
<1> SUFFICES ASSUME Sound, [VerifierNext]_<<registryVars, verifierVars>> PROVE Sound'
  OBVIOUS
<1>1. ASSUME UNCHANGED <<aggregations, verifiedProofs, zkVerified>> PROVE Sound'
  BY <1>1 DEF Sound
<1>2. CASE UNCHANGED <<registryVars, verifierVars>>
  BY <1>1, <1>2 DEF verifierVars, aggregationVars, acceptanceVars
<1>3. CASE NetworkVerifies
  BY <1>3 DEF NetworkVerifies, Sound, aggregationVars, acceptanceVars
<1>4. ASSUME NEW caller \in Principals, VerifierStepBy(caller) PROVE Sound'
  <2>1. CASE VerifyProof(caller)
    BY <2>1, VerifyProofSound
  <2>2. CASE SubmitAggregation(caller)
    BY <2>2, SubmitAggregationSound
  <2>3. CASE VerifierAdminStep(caller)
    BY <1>1, <2>3 DEF VerifierAdminStep, RegisterVerificationKey,
       SetVerificationKeyStatus, SetZkverifyContextHash, SetZkverifyBinding,
       AddRelayer, RemoveRelayer, SetVerificationFrozen, aggregationVars,
       acceptanceVars
  <2>4. CASE UNCHANGED verifierVars
    BY <1>1, <2>4 DEF verifierVars, aggregationVars, acceptanceVars
  <2> QED
    BY <1>4, <2>1, <2>2, <2>3, <2>4 DEF VerifierStepBy
<1> QED
  BY <1>2, <1>3, <1>4 DEF VerifierNext

\* verify-proof never accepts a statement that zkVerify did not verify, in
\* whatever order keys, bindings, context, versions and relayers change.
THEOREM AcceptanceSound == VerifierSpec => []AcceptedWasVerified
<1>1. RegistryInit /\ VerifierInit => Sound
  BY DEF VerifierInit, Sound, EmptyMap
<1>2. Sound => AcceptedWasVerified
  BY DEF Sound, AcceptedWasVerified
<1> QED
  BY <1>1, <1>2, StepSound, PTL DEF VerifierSpec

-----------------------------------------------------------------------------
(* What is published, registered or accepted stays.                        *)

KeysWellTyped ==
  verificationKeys \in [DOMAIN verificationKeys -> [hash : KeyInputs, enabled : BOOLEAN]]

Permanent ==
  /\ verifiedProofs \subseteq verifiedProofs'
  /\ \A id \in DOMAIN aggregations :
       id \in DOMAIN aggregations' /\ aggregations'[id] = aggregations[id]
  /\ \A key \in DOMAIN verificationKeys :
       /\ key \in DOMAIN verificationKeys'
       /\ verificationKeys'[key].hash = verificationKeys[key].hash

LEMMA StepKeys ==
  ASSUME KeysWellTyped, [VerifierNext]_<<registryVars, verifierVars>>
  PROVE  KeysWellTyped' /\ Permanent
<1>1. ASSUME UNCHANGED verificationKeys,
             verifiedProofs \subseteq verifiedProofs',
             \A id \in DOMAIN aggregations :
               id \in DOMAIN aggregations' /\ aggregations'[id] = aggregations[id]
      PROVE  KeysWellTyped' /\ Permanent
  BY <1>1 DEF KeysWellTyped, Permanent
<1>2. ASSUME UNCHANGED <<verificationKeys, verifiedProofs, aggregations>>
      PROVE  KeysWellTyped' /\ Permanent
  BY <1>1, <1>2
<1>3. CASE UNCHANGED <<registryVars, verifierVars>>
  BY <1>2, <1>3 DEF verifierVars, keyVars, aggregationVars, acceptanceVars
<1>4. CASE NetworkVerifies
  BY <1>2, <1>4 DEF NetworkVerifies, keyVars, aggregationVars, acceptanceVars
<1>5. ASSUME NEW caller \in Principals, RegisterVerificationKey(caller)
      PROVE  KeysWellTyped' /\ Permanent
  <2>1. PICK key \in TypesInPlay \X VersionNumberInputs, h \in KeyInputs :
          /\ key \notin DOMAIN verificationKeys
          /\ verificationKeys' = MapSet(verificationKeys, key,
                                        [hash |-> h, enabled |-> TRUE])
    <3>1. PICK type \in TypesInPlay, circuit \in VersionNumberInputs, hash \in KeyInputs :
            /\ <<type, circuit>> \notin DOMAIN verificationKeys
            /\ verificationKeys' = MapSet(verificationKeys, <<type, circuit>>,
                                          [hash |-> hash, enabled |-> TRUE])
      BY <1>5 DEF RegisterVerificationKey
    <3>2. <<type, circuit>> \in TypesInPlay \X VersionNumberInputs
      OBVIOUS
    <3> QED
      BY <3>1, <3>2
  <2> DEFINE V == [hash : KeyInputs, enabled : BOOLEAN]
  <2> DEFINE new == [hash |-> h, enabled |-> TRUE]
  <2>2. new \in V
    OBVIOUS
  <2>3. KeysWellTyped'
    <3> HIDE DEF new
    <3>1. verificationKeys' = MapSet(verificationKeys, key, new)
      BY <2>1 DEF new
    <3> QED
      BY <2>2, <3>1 DEF KeysWellTyped, MapSet
  <2>4. \A k \in DOMAIN verificationKeys :
          k \in DOMAIN verificationKeys' /\ verificationKeys'[k] = verificationKeys[k]
    BY <2>1 DEF MapSet
  <2>5. UNCHANGED <<verifiedProofs, aggregations>>
    BY <1>5 DEF RegisterVerificationKey, aggregationVars, acceptanceVars
  <2> QED
    BY <2>3, <2>4, <2>5 DEF Permanent
<1>6. ASSUME NEW caller \in Principals, SetVerificationKeyStatus(caller)
      PROVE  KeysWellTyped' /\ Permanent
  <2>1. PICK key \in DOMAIN verificationKeys :
          verificationKeys' = [verificationKeys EXCEPT ![key].enabled = ~@]
    BY <1>6 DEF SetVerificationKeyStatus
  <2>2. /\ DOMAIN verificationKeys' = DOMAIN verificationKeys
        /\ KeysWellTyped'
        /\ \A k \in DOMAIN verificationKeys :
             verificationKeys'[k].hash = verificationKeys[k].hash
    BY <2>1 DEF KeysWellTyped
  <2>3. UNCHANGED <<verifiedProofs, aggregations>>
    BY <1>6 DEF SetVerificationKeyStatus, aggregationVars, acceptanceVars
  <2> QED
    BY <2>2, <2>3 DEF Permanent
<1>7. ASSUME NEW caller \in Principals, VerifierStepBy(caller)
      PROVE  KeysWellTyped' /\ Permanent
  <2>1. CASE VerifyProof(caller)
    <3>1. UNCHANGED <<verificationKeys, aggregations>>
      BY <2>1 DEF VerifyProof, keyVars, aggregationVars
    <3>2. verifiedProofs \subseteq verifiedProofs'
      BY <2>1 DEF VerifyProof, VerifyProofCall
    <3> QED
      BY <1>1, <3>1, <3>2
  <2>2. CASE SubmitAggregation(caller)
    <3>1. UNCHANGED <<verificationKeys, verifiedProofs>>
      BY <2>2 DEF SubmitAggregation, keyVars, acceptanceVars
    <3>2. PICK id \in AggregationIds, leaves \in SUBSET zkVerified :
            /\ id \notin DOMAIN aggregations
            /\ aggregations' = MapSet(aggregations, id, leaves)
      BY <2>2 DEF SubmitAggregation
    <3>3. \A k \in DOMAIN aggregations :
            k \in DOMAIN aggregations' /\ aggregations'[k] = aggregations[k]
      BY <3>2 DEF MapSet
    <3> QED
      BY <1>1, <3>1, <3>3
  <2>3. CASE VerifierAdminStep(caller)
    <3>1. CASE \/ SetZkverifyContextHash(caller) \/ SetZkverifyBinding(caller)
               \/ AddRelayer(caller) \/ RemoveRelayer(caller)
               \/ SetVerificationFrozen(caller)
      BY <1>2, <3>1 DEF SetZkverifyContextHash, SetZkverifyBinding, AddRelayer,
         RemoveRelayer, SetVerificationFrozen, keyVars, aggregationVars, acceptanceVars
    <3> QED
      BY <1>5, <1>6, <2>3, <3>1 DEF VerifierAdminStep
  <2>4. CASE UNCHANGED verifierVars
    BY <1>2, <2>4 DEF verifierVars, keyVars, aggregationVars, acceptanceVars
  <2> QED
    BY <1>7, <2>1, <2>2, <2>3, <2>4 DEF VerifierStepBy
<1> QED
  BY <1>3, <1>4, <1>7 DEF VerifierNext

Paths ==
  \A key \in DOMAIN zkverifyBindings :
    /\ key \in DOMAIN zkverifyBindings'
    /\ \A inputs \in Inputs :
         Includable(key, inputs)
           => \/ Includable(key, inputs)'
              \/ zkverifyContextHash' # zkverifyContextHash
              \/ zkverifyBindings'[key] # zkverifyBindings[key]

LEMMA StepPaths ==
  ASSUME Permanent, [VerifierNext]_<<registryVars, verifierVars>>
  PROVE  Paths
<1>1. UNCHANGED zkverifyBindings \/ \E caller \in Principals : SetZkverifyBinding(caller)
  BY DEF VerifierNext, NetworkVerifies, VerifierStepBy, VerifyProof, SubmitAggregation,
     VerifierAdminStep, RegisterVerificationKey, SetVerificationKeyStatus,
     SetZkverifyContextHash, AddRelayer, RemoveRelayer, SetVerificationFrozen,
     verifierVars, keyVars
<1>2. ASSUME NEW key \in DOMAIN zkverifyBindings
      PROVE  key \in DOMAIN zkverifyBindings'
  <2>1. CASE UNCHANGED zkverifyBindings
    BY <2>1
  <2>2. CASE \E caller \in Principals : SetZkverifyBinding(caller)
    <3>1. PICK k \in DOMAIN verificationKeys, b \in BindingInputs :
            zkverifyBindings' = MapSet(zkverifyBindings, k, b)
      BY <2>2 DEF SetZkverifyBinding
    <3> QED
      BY <3>1 DEF MapSet
  <2> QED
    BY <1>1, <2>1, <2>2
<1>3. ASSUME NEW key \in DOMAIN zkverifyBindings, NEW inputs \in Inputs, Includable(key, inputs),
             UNCHANGED zkverifyContextHash, zkverifyBindings'[key] = zkverifyBindings[key]
      PROVE  Includable(key, inputs)'
  <2>1. PICK id \in DOMAIN aggregations :
          StatementLeaf(zkverifyContextHash, zkverifyBindings[key], inputs) \in aggregations[id]
    BY <1>3 DEF Includable
  <2>2. id \in DOMAIN aggregations' /\ aggregations'[id] = aggregations[id]
    BY DEF Permanent
  <2>3. StatementLeaf(zkverifyContextHash, zkverifyBindings[key], inputs)'
          = StatementLeaf(zkverifyContextHash, zkverifyBindings[key], inputs)
    BY <1>3 DEF StatementLeaf
  <2> QED
    BY <1>2, <1>3, <2>1, <2>2, <2>3 DEF Includable
<1> QED
  BY <1>2, <1>3 DEF Paths

\* A posted root is never replaced or withdrawn, an accepted statement never
\* forgotten, a registered key never swapped, and a path that verifies never
\* lost but by re-setting the context or the binding its leaf commits to.
THEOREM PublicationStays == VerifierSpec => PublicationIsPermanent
<1>1. RegistryInit /\ VerifierInit => KeysWellTyped
  BY DEF VerifierInit, KeysWellTyped, EmptyMap
<1>2. KeysWellTyped /\ [VerifierNext]_<<registryVars, verifierVars>> => KeysWellTyped'
  BY StepKeys
<1>3. KeysWellTyped /\ [VerifierNext]_<<registryVars, verifierVars>>
        => [Permanent /\ Paths]_verifierVars
  BY StepKeys, StepPaths
<1> QED
  BY <1>1, <1>2, <1>3, PTL DEF VerifierSpec, PublicationIsPermanent, Permanent, Paths

-----------------------------------------------------------------------------
(* Types and counters, one part per group of variables that moves together.*)

KeyBooks ==
  /\ DOMAIN verificationKeys \subseteq ProofTypes \X Nat
  /\ KeysWellTyped
  /\ DOMAIN zkverifyBindings \subseteq DOMAIN verificationKeys
  /\ zkverifyBindings \in [DOMAIN zkverifyBindings -> BindingInputs]
  /\ zkverifyContextHash \in ContextInputs \cup {ZeroHash}

PostBooks ==
  /\ zkVerified \subseteq Leaves
  /\ aggregations \in [DOMAIN aggregations -> SUBSET Leaves]
  /\ IsFiniteSet(DOMAIN aggregations)
  /\ aggregationCount = Cardinality(DOMAIN aggregations)

RelayerBooks ==
  /\ relayers \subseteq RelayerInputs
  /\ IsFiniteSet(relayers)
  /\ relayerCount = Cardinality(relayers)

AcceptanceBooks ==
  /\ verifiedProofs \subseteq Leaves
  /\ IsFiniteSet(verifiedProofs)
  /\ verificationStats \in [StatBuckets -> Nat]
  /\ verificationStats["total"] = Cardinality(verifiedProofs)
  /\ verificationStats["total"] = verificationStats["shield"] + verificationStats["transfer"]
                                   + verificationStats["withdrawal"] + verificationStats["other"]

\* Every part holds and the freeze is a Boolean; acceptance draws its leaf from
\* what is posted, so its part needs PostBooks.
VerifierBooks ==
  KeyBooks /\ PostBooks /\ RelayerBooks /\ AcceptanceBooks /\ verificationFrozen \in BOOLEAN

LEMMA VerifierBooksInit == VerifierInit => VerifierBooks
<1> SUFFICES ASSUME VerifierInit PROVE VerifierBooks
  OBVIOUS
<1>1. DOMAIN EmptyMap = {}
  BY DEF EmptyMap
<1>2. IsFiniteSet({}) /\ Cardinality({}) = 0
  BY FS_EmptySet
<1>3. KeyBooks
  BY <1>1 DEF VerifierInit, KeyBooks, KeysWellTyped
<1>4. PostBooks
  BY <1>1, <1>2 DEF VerifierInit, PostBooks
<1>5. RelayerBooks
  BY <1>2 DEF VerifierInit, RelayerBooks
<1>6. AcceptanceBooks
  BY <1>2 DEF VerifierInit, AcceptanceBooks, NoneVerified, StatBuckets
<1> QED
  BY <1>3, <1>4, <1>5, <1>6 DEF VerifierBooks, VerifierInit

LEMMA KeySteps ==
  ASSUME KeyBooks, NEW caller,
         \/ RegisterVerificationKey(caller) \/ SetVerificationKeyStatus(caller)
         \/ SetZkverifyContextHash(caller) \/ SetZkverifyBinding(caller)
  PROVE  KeyBooks'
<1>1. CASE RegisterVerificationKey(caller)
  <2>1. PICK type \in TypesInPlay, circuit \in VersionNumberInputs, hash \in KeyInputs :
          verificationKeys' = MapSet(verificationKeys, <<type, circuit>>,
                                     [hash |-> hash, enabled |-> TRUE])
    BY <1>1 DEF RegisterVerificationKey
  <2>2. UNCHANGED <<zkverifyBindings, zkverifyContextHash>>
    BY <1>1 DEF RegisterVerificationKey
  <2>3. PICK key, new : /\ key = <<type, circuit>>
                        /\ new = [hash |-> hash, enabled |-> TRUE]
    OBVIOUS
  <2>4. key \in ProofTypes \X Nat
    BY <2>3, VerifierAssumption, InputsAssumption
  <2>5. new \in [hash : KeyInputs, enabled : BOOLEAN]
    BY <2>3
  <2>6. verificationKeys' = MapSet(verificationKeys, key, new)
    BY <2>1, <2>3
  <2>7. KeysWellTyped' /\ DOMAIN verificationKeys' = DOMAIN verificationKeys \cup {key}
    BY <2>5, <2>6 DEF KeyBooks, KeysWellTyped, MapSet
  <2> QED
    BY <2>2, <2>4, <2>7 DEF KeyBooks
<1>2. CASE SetVerificationKeyStatus(caller)
  <2>1. PICK key \in DOMAIN verificationKeys :
          verificationKeys' = [verificationKeys EXCEPT ![key].enabled = ~@]
    BY <1>2 DEF SetVerificationKeyStatus
  <2>2. KeysWellTyped' /\ DOMAIN verificationKeys' = DOMAIN verificationKeys
    BY <2>1 DEF KeyBooks, KeysWellTyped
  <2>3. UNCHANGED <<zkverifyBindings, zkverifyContextHash>>
    BY <1>2 DEF SetVerificationKeyStatus
  <2> QED
    BY <2>2, <2>3 DEF KeyBooks
<1>3. CASE SetZkverifyContextHash(caller)
  BY <1>3 DEF SetZkverifyContextHash, KeyBooks, KeysWellTyped
<1>4. CASE SetZkverifyBinding(caller)
  <2>1. PICK key \in DOMAIN verificationKeys, binding \in BindingInputs :
          zkverifyBindings' = MapSet(zkverifyBindings, key, binding)
    BY <1>4 DEF SetZkverifyBinding
  <2>2. /\ DOMAIN zkverifyBindings' = DOMAIN zkverifyBindings \cup {key}
        /\ zkverifyBindings' \in [DOMAIN zkverifyBindings' -> BindingInputs]
    BY <2>1 DEF KeyBooks, MapSet
  <2>3. UNCHANGED <<verificationKeys, zkverifyContextHash>>
    BY <1>4 DEF SetZkverifyBinding
  <2> QED
    BY <2>2, <2>3 DEF KeyBooks, KeysWellTyped
<1> QED
  BY <1>1, <1>2, <1>3, <1>4

LEMMA PostSteps ==
  ASSUME PostBooks, NEW caller, SubmitAggregation(caller)
  PROVE  PostBooks'
<1>1. PICK id \in AggregationIds, leaves \in SUBSET zkVerified :
        /\ id \notin DOMAIN aggregations
        /\ aggregations' = MapSet(aggregations, id, leaves)
        /\ aggregationCount' = aggregationCount + 1
  BY DEF SubmitAggregation
<1>2. UNCHANGED zkVerified
  BY DEF SubmitAggregation
<1>3. /\ DOMAIN aggregations' = DOMAIN aggregations \cup {id}
      /\ aggregations' \in [DOMAIN aggregations' -> SUBSET Leaves]
  BY <1>1 DEF PostBooks, MapSet
<1>4. /\ IsFiniteSet(DOMAIN aggregations \cup {id})
      /\ Cardinality(DOMAIN aggregations \cup {id}) = Cardinality(DOMAIN aggregations) + 1
  BY <1>1, FS_AddElement DEF PostBooks
<1> QED
  BY <1>1, <1>2, <1>3, <1>4 DEF PostBooks

LEMMA RelayerSteps ==
  ASSUME RelayerBooks, NEW caller, AddRelayer(caller) \/ RemoveRelayer(caller)
  PROVE  RelayerBooks'
<1>1. CASE AddRelayer(caller)
  <2>1. PICK who \in RelayerInputs :
          /\ who \notin relayers
          /\ relayers' = relayers \cup {who}
          /\ relayerCount' = relayerCount + 1
    BY <1>1 DEF AddRelayer
  <2> QED
    BY <2>1, FS_AddElement DEF RelayerBooks
<1>2. CASE RemoveRelayer(caller)
  <2>1. PICK who \in relayers :
          relayers' = relayers \ {who} /\ relayerCount' = relayerCount - 1
    BY <1>2 DEF RemoveRelayer
  <2> QED
    BY <2>1, FS_RemoveElement DEF RelayerBooks
<1> QED
  BY <1>1, <1>2

\* An accepted statement is new, and is counted in the total and in exactly one
\* of the four buckets the total is the sum of.
LEMMA AcceptanceSteps ==
  ASSUME PostBooks, AcceptanceBooks, NEW caller, VerifyProof(caller)
  PROVE  AcceptanceBooks'
<1>1. PICK type \in TypesInPlay, inputs \in Inputs, id \in DOMAIN aggregations :
        VerifyProofCall(caller, type, protocolVersions.circuit, inputs,
          LeafOf(type, protocolVersions.circuit, inputs) \in aggregations[id])
  BY DEF VerifyProof
<1>2. PICK leaf : leaf = LeafOf(type, protocolVersions.circuit, inputs)
  OBVIOUS
<1>3. /\ leaf \in aggregations[id]
      /\ leaf \notin verifiedProofs
      /\ verifiedProofs' = verifiedProofs \cup {leaf}
      /\ verificationStats' = Counted(verificationStats, type)
  BY <1>1, <1>2 DEF VerifyProofCall
<1>4. leaf \in Leaves
  BY <1>3 DEF PostBooks
<1>5. /\ IsFiniteSet(verifiedProofs')
      /\ Cardinality(verifiedProofs') = Cardinality(verifiedProofs) + 1
  BY <1>3, FS_AddElement DEF AcceptanceBooks
<1>6. BucketOf[type] \in {"shield", "transfer", "withdrawal", "other"}
  BY VerifierAssumption DEF BucketOf
<1>7. /\ verificationStats' \in [StatBuckets -> Nat]
      /\ verificationStats'["total"] = verificationStats["total"] + 1
      /\ verificationStats'["total"]
           = verificationStats'["shield"] + verificationStats'["transfer"]
             + verificationStats'["withdrawal"] + verificationStats'["other"]
  <2>1. PICK b : b = BucketOf[type]
    OBVIOUS
  <2>2. verificationStats' =
          [x \in StatBuckets |-> IF x \in {"total", b} THEN verificationStats[x] + 1
                                                       ELSE verificationStats[x]]
    BY <1>3, <2>1 DEF Counted
  <2> QED
    BY <1>6, <2>1, <2>2 DEF AcceptanceBooks, StatBuckets
<1> QED
  BY <1>3, <1>4, <1>5, <1>7 DEF AcceptanceBooks

LEMMA VerifierBooksStep ==
  VerifierBooks /\ [VerifierNext]_<<registryVars, verifierVars>> => VerifierBooks'
<1> SUFFICES ASSUME VerifierBooks, [VerifierNext]_<<registryVars, verifierVars>>
             PROVE  VerifierBooks'
  OBVIOUS
<1>1. UNCHANGED keyVars => KeyBooks'
  BY DEF VerifierBooks, KeyBooks, KeysWellTyped, keyVars
<1>2. UNCHANGED <<aggregationVars, zkVerified>> => PostBooks'
  BY DEF VerifierBooks, PostBooks, aggregationVars
<1>3. UNCHANGED relayerVars => RelayerBooks'
  BY DEF VerifierBooks, RelayerBooks, relayerVars
<1>4. UNCHANGED acceptanceVars => AcceptanceBooks'
  BY DEF VerifierBooks, AcceptanceBooks, acceptanceVars
<1>5. UNCHANGED verificationFrozen => verificationFrozen' \in BOOLEAN
  BY DEF VerifierBooks
<1>6. CASE UNCHANGED verifierVars
  BY <1>1, <1>2, <1>3, <1>4, <1>5, <1>6 DEF VerifierBooks, verifierVars
<1>7. CASE NetworkVerifies
  <2>1. PICK context \in ContextInputs, binding \in BindingInputs, inputs \in Inputs :
          zkVerified' = zkVerified \cup {StatementLeaf(context, binding, inputs)}
    BY <1>7 DEF NetworkVerifies
  <2>2. UNCHANGED aggregationVars
    BY <1>7 DEF NetworkVerifies
  <2>3. PostBooks'
    BY <2>1, <2>2 DEF VerifierBooks, PostBooks, aggregationVars, StatementLeaf, Leaves
  <2> QED
    BY <1>1, <1>3, <1>4, <1>5, <1>7, <2>3 DEF VerifierBooks, NetworkVerifies
<1>8. ASSUME NEW caller \in Principals, VerifierStepBy(caller) PROVE VerifierBooks'
  <2>1. CASE VerifyProof(caller)
    <3>1. AcceptanceBooks'
      BY <2>1, AcceptanceSteps DEF VerifierBooks
    <3> QED
      BY <1>1, <1>2, <1>3, <1>5, <2>1, <3>1 DEF VerifierBooks, VerifyProof
  <2>2. CASE SubmitAggregation(caller)
    <3>1. PostBooks'
      BY <2>2, PostSteps DEF VerifierBooks
    <3> QED
      BY <1>1, <1>3, <1>4, <1>5, <2>2, <3>1 DEF VerifierBooks, SubmitAggregation
  <2>3. CASE \/ RegisterVerificationKey(caller) \/ SetVerificationKeyStatus(caller)
             \/ SetZkverifyContextHash(caller) \/ SetZkverifyBinding(caller)
    <3>1. KeyBooks'
      BY <2>3, KeySteps DEF VerifierBooks
    <3>2. UNCHANGED <<aggregationVars, relayerVars, acceptanceVars,
                      verificationFrozen, zkVerified>>
      BY <2>3 DEF RegisterVerificationKey, SetVerificationKeyStatus,
         SetZkverifyContextHash, SetZkverifyBinding
    <3> QED
      BY <1>2, <1>3, <1>4, <1>5, <3>1, <3>2 DEF VerifierBooks
  <2>4. CASE AddRelayer(caller) \/ RemoveRelayer(caller)
    <3>1. RelayerBooks'
      BY <2>4, RelayerSteps DEF VerifierBooks
    <3>2. UNCHANGED <<keyVars, aggregationVars, acceptanceVars,
                      verificationFrozen, zkVerified>>
      BY <2>4 DEF AddRelayer, RemoveRelayer
    <3> QED
      BY <1>1, <1>2, <1>4, <1>5, <3>1, <3>2 DEF VerifierBooks
  <2>5. CASE SetVerificationFrozen(caller)
    BY <1>1, <1>2, <1>3, <1>4, <2>5 DEF VerifierBooks, SetVerificationFrozen
  <2> QED
    BY <1>6, <1>8, <2>1, <2>2, <2>3, <2>4, <2>5 DEF VerifierStepBy, VerifierAdminStep
<1> QED
  BY <1>6, <1>7, <1>8 DEF VerifierNext

\* Whatever relayers and administrators do, an accepted statement was verified
\* by zkVerify, is counted once, and the counters count the maps they speak of.
THEOREM AcceptanceAlwaysExact == VerifierSpec => []AcceptanceExact
<1>1. RegistryInit /\ VerifierInit => VerifierBooks
  BY VerifierBooksInit
<1>2. VerifierBooks => VerifierTypeOK /\ VerifierCountsExact
  BY DEF VerifierBooks, KeyBooks, KeysWellTyped, PostBooks, RelayerBooks,
     AcceptanceBooks, VerifierTypeOK, VerifierCountsExact
<1> QED
  BY <1>1, <1>2, VerifierBooksStep, AcceptanceSound, PTL DEF VerifierSpec, AcceptanceExact
=============================================================================

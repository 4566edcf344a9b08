---------------------------- MODULE ShieldedPool ----------------------------
(***************************************************************************)
(* contracts/privacy-pool.clar and contracts/split-merge-manager.clar: the *)
(* five user operations, composed with the registry, the note manager, the *)
(* fees contract and the verifier they call in one transaction.            *)
(*                                                                         *)
(* A commitment stands for the note it commits to; hashes are injective,   *)
(* so a Merkle root is the tree it is the root of: leaf slot |->           *)
(* commitment, ZeroHash in an empty slot.  The tree is shared with the     *)
(* SIP-10 pool, whose commitments also bind an asset: the native circuits  *)
(* open none of those.  A statement is accepted when                       *)
(* its circuit's relation holds (Provable): zkVerify verifies proofs of    *)
(* true statements only, relayers post what it holds, and a statement may  *)
(* be proved, aggregated and presented at any time.                        *)
(***************************************************************************)
EXTENDS NoteManager, ProtocolFees, ZkVerifier, FiniteSetsExt

CONSTANTS
  PoolContract, SplitMergeContract,
  NoteAmount,        \* note |-> the amount it commits to
  NullifierOf,       \* note |-> its nullifier
  AssetOf,           \* note |-> the asset it is of: Stx, or a SIP-10 token
  Stx,               \* the asset of the native notes
  Operator,          \* the account that holds every administrative role
  Staff              \* the owner and operators who act in an instance

ASSUME ContractsAssumption ==
  {PoolContract, SplitMergeContract, NoteManagerContract} \subseteq
    Principals \ (Users \cup {FeesContract})

\* Calls by people are signed by accounts, never by one of the contracts.
ASSUME StaffAssumption ==
  /\ Operator \in Principals \ {Deployer, BurnAddress}
  /\ Staff \subseteq {Deployer, Operator}
  /\ Staff \cap {PoolContract, SplitMergeContract, NoteManagerContract, FeesContract} = {}

ASSUME NotesAssumption ==
  /\ NoteAmount \in [Commitment \ {ZeroHash} -> Nat]
  /\ NullifierOf \in [Commitment \ {ZeroHash} -> Nullifier \ {ZeroHash}]
  /\ \A c, d \in Commitment \ {ZeroHash} : NullifierOf[c] = NullifierOf[d] => c = d
  /\ DOMAIN AssetOf = Commitment \ {ZeroHash}

\* The version the circuits are compiled for: assert(circuit_version == 2).
CompiledCircuit == 2

Slots == 0..(TreeCapacity - 1)
EmptyTree == [i \in Slots |-> ZeroHash]
LeavesOf(tree) == {tree[i] : i \in Slots} \ {ZeroHash}

Operations == {"shield", "transfer", "withdraw", "split", "merge"}

VARIABLE switches    \* operation |-> its emergency switch

poolVars == <<registryVars, noteVars, feeVars, stx, verifierVars, switches>>

\* The deployed system: callers authorised, the genesis root published by the
\* owner, keys, bindings and context of the compiled circuits in place.
DeployedWith(callers) ==
  /\ owner = Deployer /\ pendingOwner = None
  /\ administrators = {<<Operator, role>> : role \in Roles}
  /\ authorizedCallers = callers
  /\ protocolState = PROTOCOL_ACTIVE
  /\ protocolVersions = GenesisVersions
  /\ protocolLimits = DefaultLimits
  /\ commitments = EmptyMap /\ nullifiers = {}
  /\ merkleRoots = MapSet(EmptyMap, EmptyTree,
                          [version |-> GenesisVersions.root, active |-> TRUE])
  /\ currentRoot = [root |-> EmptyTree, version |-> GenesisVersions.root]
  /\ totalCommitments = 0 /\ totalNullifiers = 0 /\ totalNotes = 0
  /\ totalTransfers = 0 /\ totalWithdrawals = 0 /\ totalShieldedStx = 0
  /\ NotesInit /\ FeesInit
  /\ \E key \in KeyInputs, binding \in BindingInputs, context \in ContextInputs :
       /\ verificationKeys = [k \in TypesInPlay \X {CompiledCircuit} |->
                                [hash |-> key, enabled |-> TRUE]]
       /\ zkverifyBindings = [k \in TypesInPlay \X {CompiledCircuit} |-> binding]
       /\ zkverifyContextHash = context
  /\ aggregations = EmptyMap /\ aggregationCount = 0
  /\ relayers = {} /\ relayerCount = 0
  /\ verifiedProofs = {} /\ verificationStats = NoneVerified
  /\ verificationFrozen = FALSE /\ zkVerified = {}
  /\ switches = [op \in Operations |-> TRUE]

PoolInit == DeployedWith({PoolContract, SplitMergeContract, NoteManagerContract})

-----------------------------------------------------------------------------
(* Statements: the public inputs of a proof, as the contracts hash them,   *)
(* and the relations the circuits (zk/circuits) prove about them.          *)

\* A tree-extending operation consumes ins, appends outs at slot, and declares
\* the root it starts from and the one it ends in.
Appended(tree, slot, outs) ==
  [i \in Slots |-> IF i - slot + 1 \in DOMAIN outs THEN outs[i - slot + 1] ELSE tree[i]]

TreeInputs(asset, op, ins, outs, amount, root, slot, circuit) ==
  [op |-> op, ins |-> ins, outs |-> outs, amount |-> amount, root |-> root,
   newRoot |-> Appended(root, slot, outs), leafIndex |-> slot,
   asset |-> asset, circuit |-> circuit]

TreeStatement(op, ins, outs, amount, root, slot) ==
  TreeInputs(Stx, op, ins, outs, amount, root, slot, protocolVersions.circuit)

WithdrawInputs(asset, n, amount, recipient, root, circuit) ==
  [op |-> PROOF_TYPE_WITHDRAWAL, ins |-> <<n>>, amount |-> amount,
   recipient |-> recipient, root |-> root, asset |-> asset, circuit |-> circuit]

\* Mutant of WithdrawStatement: the inputs name the circuits' version, whatever
\* the registry's is.
WithdrawStatement_Compiled(n, amount, recipient, root) ==
  WithdrawInputs(Stx, n, amount, recipient, root, CompiledCircuit)

WithdrawStatement(n, amount, recipient, root) ==
  WithdrawInputs(Stx, n, amount, recipient, root, protocolVersions.circuit)

\* The statement's circuit family commits to the note: Poseidon over the note's
\* fields, and once more over the asset in the SIP-10 family.
Opens(s, c) == AssetOf[c] = s.asset

\* assert_insertion: every slot was empty and the new root only fills them.
IsInsertion(s) ==
  /\ \A k \in DOMAIN s.outs :
       /\ s.outs[k] # ZeroHash /\ Opens(s, s.outs[k])
       /\ s.leafIndex + k - 1 \in Slots
       /\ s.root[s.leafIndex + k - 1] = ZeroHash
  /\ s.newRoot = Appended(s.root, s.leafIndex, s.outs)

\* compute_nullifier, assert_owner and assert_merkle_membership.
Spends(s, n, c) == c \in LeavesOf(s.root) /\ Opens(s, c) /\ n = NullifierOf[c]

ShieldCircuit(s) == IsInsertion(s) /\ NoteAmount[s.outs[1]] = s.amount

\* Mutant of TransferCircuit: value conservation is not asserted.
TransferCircuit_AnyAmount(s) ==
  /\ IsInsertion(s)
  /\ \E c \in LeavesOf(s.root) :
       Spends(s, s.ins[1], c)

TransferCircuit(s) ==
  /\ IsInsertion(s)
  /\ \E c \in LeavesOf(s.root) :
       Spends(s, s.ins[1], c) /\ NoteAmount[c] = NoteAmount[s.outs[1]]

WithdrawCircuit(s) ==
  \E c \in LeavesOf(s.root) : Spends(s, s.ins[1], c) /\ NoteAmount[c] = s.amount

\* Mutant of SplitCircuit: each output is compared with the input on its own.
SplitCircuit_EachFits(s) ==
  /\ IsInsertion(s)
  /\ s.outs[1] # s.outs[2]
  /\ \E c \in LeavesOf(s.root) :
       /\ Spends(s, s.ins[1], c)
       /\ \A k \in 1..2 : NoteAmount[c] >= NoteAmount[s.outs[k]]

SplitCircuit(s) ==
  /\ IsInsertion(s)
  /\ s.outs[1] # s.outs[2]
  /\ \E c \in LeavesOf(s.root) :
       /\ Spends(s, s.ins[1], c)
       /\ NoteAmount[c] = NoteAmount[s.outs[1]] + NoteAmount[s.outs[2]]

MergeCircuit(s) ==
  /\ IsInsertion(s)
  /\ \E c, d \in LeavesOf(s.root) :
       /\ c # d /\ Spends(s, s.ins[1], c) /\ Spends(s, s.ins[2], d)
       /\ NoteAmount[c] + NoteAmount[d] = NoteAmount[s.outs[1]]

Provable(s) ==
  /\ s.circuit = CompiledCircuit
  /\ \/ s.op = PROOF_TYPE_SHIELD     /\ ShieldCircuit(s)
     \/ s.op = PROOF_TYPE_TRANSFER   /\ TransferCircuit(s)
     \/ s.op = PROOF_TYPE_WITHDRAWAL /\ WithdrawCircuit(s)
     \/ s.op = PROOF_TYPE_SPLIT      /\ SplitCircuit(s)
     \/ s.op = PROOF_TYPE_MERGE      /\ MergeCircuit(s)

-----------------------------------------------------------------------------
(* The pieces the operations share.                                        *)

\* Mutant of CheckCurrentRoot: the active flag of the current root is ignored.
CheckCurrentRoot_Inactive(declared) == declared = currentRoot.root

CheckCurrentRoot(declared) == declared = currentRoot.root /\ IsKnownRoot(declared)

\* Never the burn address, the pool itself or the treasury.
ValidRecipient(recipient) ==
  recipient \notin {BurnAddress, PoolContract, FeesContract}

VerifyStatement(contract, s) ==
  VerifyProofCall(contract, s.op, protocolVersions.circuit, s, Provable(s))

\* Mutant of PublishTree: the assigned slot is not compared with the proven one.
PublishTree_AnySlot(contract, s) ==
  UpdateRootCall(contract, s.newRoot, protocolVersions.root)

\* The slot the registry assigns must be the one the proof is bound to, and the
\* proven root becomes current.
PublishTree(contract, s) ==
  /\ totalCommitments = s.leafIndex
  /\ UpdateRootCall(contract, s.newRoot, protocolVersions.root)

RegisterOutput(contract, c) ==
  /\ RegisterNoteCall(contract, c, protocolVersions.note)
  /\ RegisterCommitmentCall(contract, c, protocolVersions.commitment)

\* The flat fee of a transfer, a split or a merge, paid by the user.
ChargeFlatFee(contract, user) ==
  LET fee == CalculateFee(FEE_TYPE_TRANSFER, 0)
  IN  /\ CollectFeeIfAny(contract, FEE_TYPE_TRANSFER, user, fee, stx)
      /\ stx' = AfterFee(stx, user, fee)

untouchedByUsers == <<nonLedgerVars, feeConfigVars, keyVars, aggregationVars,
                      relayerVars, verificationFrozen, zkVerified, switches>>

-----------------------------------------------------------------------------
(* The user operations.  A declared root outside the registry's map fails   *)
(* check-current-root and is-known-root, so only registered ones are tried. *)
(* A transaction takes effect when all its calls pass, so the order of its  *)
(* conjuncts is free: what is cheap to refuse comes before the proof.       *)

Shield(user) ==
  /\ CheckActive
  /\ switches["shield"]
  /\ \E root \in DOMAIN merkleRoots, c \in Commitment :
       /\ CheckCurrentRoot(root)
       /\ RegisterOutput(PoolContract, c)
       /\ \E amount \in AmountInputs, slot \in Slots :
            LET s == TreeStatement(PROOF_TYPE_SHIELD, <<>>, <<c>>, amount, root, slot)
                fee == CalculateFee(FEE_TYPE_SHIELD, amount)
                deposited == Pay(stx, user, PoolContract, amount)
            IN  /\ ValidateShieldAmount(amount)
                /\ PublishTree(PoolContract, s)
                /\ VerifyStatement(PoolContract, s)
                /\ CanPay(stx, user, PoolContract, amount)
                /\ CollectFeeIfAny(PoolContract, FEE_TYPE_SHIELD, user, fee, deposited)
                /\ stx' = AfterFee(deposited, user, fee)
                /\ RecordShieldCall(PoolContract, amount)
  /\ UNCHANGED <<untouchedByUsers, nullifierVars>>

Transfer(user) ==
  /\ CheckActive
  /\ switches["transfer"]
  /\ \E root \in DOMAIN merkleRoots, n \in Nullifier :
       /\ CheckCurrentRoot(root)
       /\ ChargeFlatFee(PoolContract, user)
       /\ RegisterNullifierCall(PoolContract, n)
       /\ \E c \in Commitment, slot \in Slots :
            LET s == TreeStatement(PROOF_TYPE_TRANSFER, <<n>>, <<c>>, 0, root, slot)
            IN  /\ RegisterOutput(PoolContract, c)
                /\ PublishTree(PoolContract, s)
                /\ VerifyStatement(PoolContract, s)
       /\ RecordTransferCall(PoolContract)
  /\ UNCHANGED untouchedByUsers

Withdraw(user) ==
  /\ CheckActive
  /\ switches["withdraw"]
  /\ \E n \in Nullifier :
       /\ RegisterNullifierCall(PoolContract, n)
       /\ \E root \in DOMAIN merkleRoots, amount \in AmountInputs, recipient \in RecipientInputs :
            LET s == WithdrawStatement(n, amount, recipient, root)
                fee == CalculateFee(FEE_TYPE_WITHDRAWAL, amount)
                charged == AfterFee(stx, PoolContract, fee)
            IN  /\ ValidateWithdrawalAmount(amount)
                /\ IsKnownRoot(root)
                /\ ValidRecipient(recipient)
                /\ fee < amount
                /\ VerifyStatement(PoolContract, s)
                /\ RecordWithdrawalCall(PoolContract, amount)
                /\ CollectFeeIfAny(PoolContract, FEE_TYPE_WITHDRAWAL, PoolContract, fee, stx)
                /\ CanPay(charged, PoolContract, recipient, amount - fee)
                /\ stx' = Pay(charged, PoolContract, recipient, amount - fee)
  /\ UNCHANGED <<untouchedByUsers, commitmentVars, rootVars, totalNotes, noteVars>>

SplitNote(user) ==
  /\ CheckActive
  /\ switches["split"]
  /\ \E root \in DOMAIN merkleRoots, n \in Nullifier :
       /\ CheckCurrentRoot(root)
       /\ ChargeFlatFee(SplitMergeContract, user)
       /\ n # ZeroHash /\ RegisterNullifierCall(SplitMergeContract, n)
       /\ \E c, d \in Commitment, slot \in Slots :
            LET s == TreeStatement(PROOF_TYPE_SPLIT, <<n>>, <<c, d>>, 0, root, slot)
            IN  /\ ZeroHash \notin {c, d} /\ c # d
                /\ RegisterCommitmentPairCall(SplitMergeContract, c, d,
                                              protocolVersions.commitment)
                /\ RegisterNotePairCall(SplitMergeContract, c, d, protocolVersions.note)
                /\ PublishTree(SplitMergeContract, s)
                /\ VerifyStatement(SplitMergeContract, s)
  /\ UNCHANGED <<untouchedByUsers, flowVars>>

MergeNotes(user) ==
  /\ CheckActive
  /\ switches["merge"]
  /\ \E root \in DOMAIN merkleRoots, m, n \in Nullifier :
       /\ CheckCurrentRoot(root)
       /\ ChargeFlatFee(SplitMergeContract, user)
       /\ ZeroHash \notin {m, n} /\ m # n
       /\ RegisterNullifierPairCall(SplitMergeContract, m, n)
       /\ \E c \in Commitment, slot \in Slots :
            LET s == TreeStatement(PROOF_TYPE_MERGE, <<m, n>>, <<c>>, 0, root, slot)
            IN  /\ c # ZeroHash
                /\ RegisterOutput(SplitMergeContract, c)
                /\ PublishTree(SplitMergeContract, s)
                /\ VerifyStatement(SplitMergeContract, s)
  /\ UNCHANGED <<untouchedByUsers, flowVars>>

-----------------------------------------------------------------------------
(* The emergency switches.                                                 *)

SetSwitch(caller, ops) ==
  /\ IsAdmin(caller, ROLE_EMERGENCY_ADMIN)
  /\ \E op \in ops : switches' = [switches EXCEPT ![op] = ~@]
  /\ UNCHANGED <<registryVars, noteVars, feeVars, stx, verifierVars>>

SetPoolSwitch(caller) == SetSwitch(caller, {"shield", "transfer", "withdraw"})
SetManagerSwitch(caller) == SetSwitch(caller, {"split", "merge"})

-----------------------------------------------------------------------------
(* The composed system, in the slices the runs explore.                    *)

UserStep(user) ==
  \/ Shield(user)
  \/ Transfer(user)
  \/ Withdraw(user)
  \/ SplitNote(user)
  \/ MergeNotes(user)

beyondRegistry == <<noteVars, feeVars, stx, verifierVars, switches>>
beyondFees == <<noteVars, verifierVars, switches>>

\* Money moving around the pool: fee changes, treasury payouts, plain transfers.
TreasuryStep(caller) ==
  \/ FeesAdminStep(caller) /\ UNCHANGED beyondFees
  \/ StxTransfer(caller) /\ UNCHANGED beyondFees
  \/ SetMaxFeeBps(caller) /\ UNCHANGED beyondRegistry

\* An emergency team at work.
IncidentStep(caller) ==
  \/ LifecycleStep(caller) /\ UNCHANGED beyondRegistry
  \/ SetRootStatus(caller) /\ UNCHANGED beyondRegistry
  \/ SetVerificationFrozen(caller) /\ UNCHANGED <<noteVars, feeVars, stx, switches>>
  \/ SetPoolSwitch(caller)
  \/ SetManagerSwitch(caller)

\* An upgrade: new versions and limits, keys and context replaced.
UpgradeStep(caller) ==
  \/ LifecycleStep(caller) /\ UNCHANGED beyondRegistry
  \/ ConfigStep(caller) /\ UNCHANGED beyondRegistry
  \/ RegisterVerificationKey(caller) /\ UNCHANGED <<noteVars, feeVars, stx, switches>>
  \/ SetVerificationKeyStatus(caller) /\ UNCHANGED <<noteVars, feeVars, stx, switches>>
  \/ SetZkverifyContextHash(caller) /\ UNCHANGED <<noteVars, feeVars, stx, switches>>
  \/ SetZkverifyBinding(caller) /\ UNCHANGED <<noteVars, feeVars, stx, switches>>

SomeUserStep == \E user \in Users : UserStep(user)

PoolSpec == PoolInit /\ [][SomeUserStep]_poolVars

\* Users and the staff who run the protocol; and these with money moving around
\* the pool, which is everybody who acts on the deployed contracts.
OperatedNext ==
  \/ SomeUserStep
  \/ \E p \in Staff : IncidentStep(p) \/ UpgradeStep(p)

OperatedSpec == PoolInit /\ [][OperatedNext]_poolVars

SystemNext ==
  \/ OperatedNext
  \/ \E p \in Users \cup Staff : TreasuryStep(p)

SystemSpec == PoolInit /\ [][SystemNext]_poolVars

-----------------------------------------------------------------------------
(* Properties.                                                             *)

SpentNotes == {c \in DOMAIN commitments : NullifierOf[c] \in nullifiers}
UnspentNotes == DOMAIN commitments \ SpentNotes
UnspentOf(asset) == {c \in UnspentNotes : AssetOf[c] = asset}
AmountOf(ns) == MapThenSumSet(LAMBDA c : NoteAmount[c], ns)

Accepted(proofs, type) == {leaf \in proofs : leaf[3].op = type}
AcceptedCount(type) == Cardinality(Accepted(verifiedProofs, type))

\* Every effect has one accepted proof behind it: the outputs, the spends, the
\* transfers and the withdrawals the registry counts, and the verifier's own
\* buckets, are those of the accepted statements, over both calling contracts.
ProofsAccountForEffects ==
  /\ totalCommitments = AcceptedCount(1) + AcceptedCount(2) + 2 * AcceptedCount(4)
                          + AcceptedCount(5)
  /\ totalNullifiers = AcceptedCount(2) + AcceptedCount(3) + AcceptedCount(4)
                         + 2 * AcceptedCount(5)
  /\ totalTransfers = AcceptedCount(2) /\ totalWithdrawals = AcceptedCount(3)
  /\ verificationStats["withdrawal"] = totalWithdrawals
  /\ verificationStats["other"] = AcceptedCount(4) + AcceptedCount(5)

\* The published tree is the ledger: under the current root every registered
\* commitment sits at the leaf index its registration returned and every other
\* slot is empty; older roots hold only registered commitments, at the same
\* index.  No interleaving of the five operations publishes another tree.
TreeMatchesLedger ==
  /\ \A i \in Slots, c \in Commitment \ {ZeroHash} :
       currentRoot.root[i] = c
         <=> c \in DOMAIN commitments /\ commitments[c].index = i
  /\ \A root \in DOMAIN merkleRoots : \A c \in LeavesOf(root) :
       c \in DOMAIN commitments /\ root[commitments[c].index] = c

\* Conservation: what the registry says is shielded is the value of the notes
\* that can still be spent, through every mix of transfers, splits and merges.
ValueConserved == totalShieldedStx = AmountOf(UnspentOf(Stx))

\* The pool's STX covers what is shielded, whatever is paid in fees or moved
\* around it, so record-withdrawal passing means the payout cannot fail.
PoolSolvent == stx[PoolContract] >= totalShieldedStx

\* Every consumed nullifier is that of one registered note: nothing is spent
\* that was never created, and register-nullifier's counter guard (and the
\* shielded-total guard) can never refuse the owner of an unspent note.
SpendsAreOfRealNotes ==
  /\ nullifiers = {NullifierOf[c] : c \in SpentNotes}
  /\ totalNullifiers + Cardinality(UnspentNotes) = totalCommitments

\* No note is ever stranded by the users themselves: whatever was shielded,
\* transferred, split, merged and withdrawn before it, each unspent note inside
\* the withdrawal limits can be withdrawn at once, in full, against a root that
\* is still active; the counter, total and balance guards refuse nobody.
UnspentNotesRedeemable ==
  \A c \in UnspentOf(Stx) : ValidateWithdrawalAmount(NoteAmount[c]) =>
    \E user \in Users :
      ENABLED (Withdraw(user) /\ nullifiers' = nullifiers \cup {NullifierOf[c]})

\* The three ledgers that an output writes in one transaction, the registry's
\* commitments, its note counter and the note manager's notes, name the same
\* notes.
LedgersAgree ==
  /\ DOMAIN notes = DOMAIN commitments
  /\ totalNotes = totalCommitments /\ totalRegistered = totalCommitments

\* STX leaves the pool only by a withdrawal: the registry's total falls by the
\* same amount, one recipient gets all of it but a fee that stays below the
\* ceilings in force, and no other account's balance moves.
PoolPaysOnlyWithdrawals ==
  [][ stx'[PoolContract] < stx[PoolContract] =>
        LET out == stx[PoolContract] - stx'[PoolContract]
            fee == treasury'.collected - treasury.collected
        IN  /\ totalShieldedStx - totalShieldedStx' = out
            /\ fee < out
            /\ fee <= FlatFeeCeiling
                        + (out * protocolLimits.maxFeeBps) \div BpsDenominator
            /\ \E r \in Principals \ {PoolContract, FeesContract, BurnAddress} :
                 stx' = [stx EXCEPT ![PoolContract] = @ - out,
                                    ![FeesContract] = @ + fee,
                                    ![r] = @ + (out - fee)] ]_poolVars

\* A user pays what the operation is worth: the pool gains exactly what becomes
\* shielded, and the fee on top of it stays below the ceilings in force.
DepositsAreShieldedWhole ==
  [][ treasury'.collected > treasury.collected /\ totalShieldedStx' >= totalShieldedStx =>
        LET in == totalShieldedStx' - totalShieldedStx
            fee == treasury'.collected - treasury.collected
        IN  /\ fee <= FlatFeeCeiling + (in * protocolLimits.maxFeeBps) \div BpsDenominator
            /\ \E u \in Users :
                 stx' = [stx EXCEPT ![u] = @ - (in + fee), ![PoolContract] = @ + in,
                                    ![FeesContract] = @ + fee] ]_poolVars

OperationOf == <<"shield", "transfer", "withdraw", "split", "merge">>

\* Every kill switch works alone and at once: while the protocol is not active
\* or verification is frozen no user operation takes effect, an operation that
\* is switched off accepts no statement of its kind, and while the current root
\* is deactivated nothing is registered and no root published (withdrawals
\* against the other roots go on).  After an upgrade moves the circuit version past
\* the one the deployed circuits are compiled for, nothing enters, moves or leaves.
HaltsAreComplete ==
  [][ /\ ~CheckActive \/ verificationFrozen =>
           UNCHANGED <<commitmentVars, nullifierVars, currentRoot, totalNotes,
                       flowVars, notes, treasury, stx, verifiedProofs>>
      /\ \A t \in ProofTypes : ~switches[OperationOf[t]] =>
           Accepted(verifiedProofs', t) = Accepted(verifiedProofs, t)
      /\ ~IsKnownRoot(currentRoot.root) =>
           UNCHANGED <<commitmentVars, currentRoot, notes, totalNotes>>
      /\ protocolVersions.circuit # CompiledCircuit =>
           UNCHANGED <<commitmentVars, nullifierVars, flowVars, stx>> ]_poolVars

\* The pool implements the abstract ledger.
Ledger == INSTANCE ShieldedLedger WITH
            Notes <- Commitment \ {ZeroHash}, Value <- NoteAmount,
            unspent <- UnspentNotes, spent <- SpentNotes, total <- totalShieldedStx

ImplementsLedger == Ledger!LedgerSpec

\* The tree, the registry and the note manager name the same notes.
LedgersMatch == LedgersAgree /\ TreeMatchesLedger

\* The shielded total is the value of the notes that can still be spent, and
\* what is spent was a registered note, once.
TotalsFollowNotes == ValueConserved /\ SpendsAreOfRealNotes

\* Who holds which note, and what the notes are worth, is the same wherever it
\* is recorded.
LedgersExact == LedgersMatch /\ TotalsFollowNotes

\* Every movement of STX is a user's, in full: deposits are shielded whole, the
\* pool pays withdrawals and nothing else, and fees stay below the ceilings.
MoneyMovesExactly == PoolPaysOnlyWithdrawals /\ DepositsAreShieldedWhole

\* The two accounts of STX the contracts keep are covered by what they hold.
FundsBacked == FeesTypeOK /\ TreasuryBacked /\ PoolSolvent
=============================================================================

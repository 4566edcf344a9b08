------------------------------ MODULE Sip10Pool ------------------------------
(***************************************************************************)
(* contracts/sip10-pool.clar and contracts/sip10-zk-verifier.clar: the     *)
(* user operations on SIP-10 notes, beside the native pool.  The two pools *)
(* share the registry, the note manager and the commitment tree; assets,   *)
(* token fees and proof acceptance are SIP-10's own.  The SIP-10 verifier  *)
(* is the native one but for its caller, which is one pool the owner       *)
(* names, and its circuit version, which it keeps itself; it is the module *)
(* ZkVerifier again, over variables of its own.                            *)
(***************************************************************************)
EXTENDS ShieldedPool, Sip10Fees

CONSTANTS
  Sip10Contract,       \* the SIP-10 pool
  PoolInputs           \* the principals offered to set-authorized-pool

ASSUME Sip10Assumption ==
  /\ Sip10Contract \in Principals \ (Users \cup {PoolContract, SplitMergeContract,
                                     NoteManagerContract, FeesContract, Sip10FeesContract})
  /\ Stx \notin Tokens
  /\ \A c \in DOMAIN AssetOf : AssetOf[c] \in Tokens \cup {Stx}

\* SIP10-CIRCUIT-VERSION: the pool asks for this version, always.
SIP10_CIRCUIT_VERSION == 2

VARIABLES
  shieldedTotal,       \* asset id |-> token units shielded
  operationSwitches,   \* proof type |-> enabled
  authorizedPool, sip10CircuitVersion,
  sip10Keys, sip10Bindings, sip10Context, sip10Aggregations, sip10AggregationCount,
  sip10Relayers, sip10RelayerCount, sip10Verified, sip10Stats, sip10Frozen, sip10ZkVerified

V == INSTANCE ZkVerifier WITH
       authorizedCallers <- {authorizedPool},
       protocolVersions <- [protocolVersions EXCEPT !.circuit = sip10CircuitVersion],
       verificationKeys <- sip10Keys, zkverifyBindings <- sip10Bindings,
       zkverifyContextHash <- sip10Context, aggregations <- sip10Aggregations,
       aggregationCount <- sip10AggregationCount, relayers <- sip10Relayers,
       relayerCount <- sip10RelayerCount, verifiedProofs <- sip10Verified,
       verificationStats <- sip10Stats, verificationFrozen <- sip10Frozen,
       zkVerified <- sip10ZkVerified

namespaceVars == <<authorizedPool, sip10CircuitVersion>>
sip10PoolVars == <<shieldedTotal, operationSwitches>>
sip10ConfigVars == <<sip10Keys, sip10Bindings, sip10Context, sip10Aggregations,
                     sip10AggregationCount, sip10Relayers, sip10RelayerCount,
                     sip10Frozen, sip10ZkVerified>>
sip10VerifierVars == <<sip10ConfigVars, sip10Verified, sip10Stats>>
sip10Vars == <<assetVars, assetFeeVars, sip10PoolVars, namespaceVars, sip10VerifierVars>>
bothPoolsVars == <<poolVars, sip10Vars>>

\* The SIP-10 contracts beside a deployed protocol: the pool authorised and
\* named, the first of the tokens registered, keys, bindings and context of the
\* compiled circuits in place.
Sip10Init(registered) ==
  /\ DeployedWith({PoolContract, SplitMergeContract, NoteManagerContract, Sip10Contract})
  /\ \E limits \in AssetLimitInputs, recipient \in FeeRecipientInputs,
        ids \in [registered -> 1..Cardinality(registered)] :
       /\ ValidLimits(limits)
       /\ \A t, u \in registered : ids[t] = ids[u] => t = u
       /\ assetIds = ids
       /\ assets = [id \in 1..Cardinality(registered) |->
                      [token |-> CHOOSE t \in registered : ids[t] = id,
                       status |-> ASSET_ACTIVE, limits |-> limits,
                       feeRecipient |-> recipient]]
       /\ assetFees = [id \in 1..Cardinality(registered) |-> [t \in AssetFeeTypes |-> ZeroFee]]
       /\ nextAssetId = Cardinality(registered) + 1
  /\ AssetFeesInit
  /\ shieldedTotal = [id \in AssetIds |-> 0]
  /\ operationSwitches = [t \in ProofTypes |-> TRUE]
  /\ authorizedPool = Sip10Contract
  /\ sip10CircuitVersion = SIP10_CIRCUIT_VERSION
  /\ sip10Keys = verificationKeys /\ sip10Bindings = zkverifyBindings
  /\ sip10Context = zkverifyContextHash
  /\ sip10Aggregations = EmptyMap /\ sip10AggregationCount = 0
  /\ sip10Relayers = {} /\ sip10RelayerCount = 0
  /\ sip10Verified = {} /\ sip10Stats = NoneVerified
  /\ sip10Frozen = FALSE /\ sip10ZkVerified = {}

-----------------------------------------------------------------------------
(* The pieces the operations share.                                        *)

TokenOf(id) == assets[id].token

Sip10TreeStatement(id, op, ins, outs, amount, root, slot) ==
  TreeInputs(TokenOf(id), op, ins, outs, amount, root, slot, SIP10_CIRCUIT_VERSION)

\* Mutant of Sip10WithdrawStatement: the inputs do not name the asset withdrawn.
Sip10WithdrawStatement_AnyAsset(id, n, amount, recipient, root) ==
  LET spent == {AssetOf[c] : c \in {d \in LeavesOf(root) : NullifierOf[d] = n}}
      asset == IF spent = {} THEN TokenOf(id) ELSE CHOOSE a \in spent : TRUE
  IN  WithdrawInputs(asset, n, amount, recipient, root, SIP10_CIRCUIT_VERSION)

Sip10WithdrawStatement(id, n, amount, recipient, root) ==
  WithdrawInputs(TokenOf(id), n, amount, recipient, root, SIP10_CIRCUIT_VERSION)

VerifySip10(s) ==
  V!VerifyProofCall(Sip10Contract, s.op, SIP10_CIRCUIT_VERSION, s, Provable(s))

\* The flat fee of a transfer, a split or a merge, paid by the user in the token.
ChargeTokenFee(id, type, user) ==
  LET fee == AssetFee(id, type, 0)
  IN  /\ CollectAssetFeeIfAny(Sip10Contract, id, type, user, fee, tokens)
      /\ tokens' = AfterAssetFee(tokens, id, user, fee)

untouchedBySip10Users ==
  <<nonLedgerVars, flowVars, feeVars, stx, verifierVars, switches,
    assetVars, assetFreezeVars, skimming, operationSwitches, namespaceVars,
    sip10ConfigVars>>

-----------------------------------------------------------------------------
(* The user operations.                                                    *)

\* Mutant of Landed: what the transfer was asked for is taken as what arrived.
Landed_Asked(balances, token, amount) == TRUE

\* The pool's balance must grow by exactly the amount the note is for.
Landed(balances, token, amount) ==
  balances[token][Sip10Contract] = tokens[token][Sip10Contract] + amount

Sip10Shield(user) ==
  /\ CheckActive
  /\ operationSwitches[PROOF_TYPE_SHIELD]
  /\ \E id \in DOMAIN assets, root \in DOMAIN merkleRoots, c \in Commitment :
       /\ CanShield(id)
       /\ CheckCurrentRoot(root)
       /\ RegisterOutput(Sip10Contract, c)
       /\ \E amount \in AmountInputs, slot \in Slots :
            LET s == Sip10TreeStatement(id, PROOF_TYPE_SHIELD, <<>>, <<c>>, amount, root, slot)
                fee == AssetFee(id, PROOF_TYPE_SHIELD, amount)
                deposited == Moved(tokens, TokenOf(id), user, Sip10Contract, amount)
            IN  /\ amount >= assets[id].limits.minShield
                /\ amount <= assets[id].limits.maxShield
                /\ PublishTree(Sip10Contract, s)
                /\ VerifySip10(s)
                /\ CanMove(tokens, TokenOf(id), user, Sip10Contract, amount)
                /\ Landed(deposited, TokenOf(id), amount)
                /\ CollectAssetFeeIfAny(Sip10Contract, id, PROOF_TYPE_SHIELD, user, fee, deposited)
                /\ tokens' = AfterAssetFee(deposited, id, user, fee)
                /\ shieldedTotal' = [shieldedTotal EXCEPT ![id] = @ + amount]
  /\ UNCHANGED <<untouchedBySip10Users, nullifierVars>>

Sip10Transfer(user) ==
  /\ CheckActive
  /\ operationSwitches[PROOF_TYPE_TRANSFER]
  /\ \E id \in DOMAIN assets, root \in DOMAIN merkleRoots, n \in Nullifier :
       /\ CanSpend(id)
       /\ CheckCurrentRoot(root)
       /\ ChargeTokenFee(id, PROOF_TYPE_TRANSFER, user)
       /\ RegisterNullifierCall(Sip10Contract, n)
       /\ \E c \in Commitment, slot \in Slots :
            LET s == Sip10TreeStatement(id, PROOF_TYPE_TRANSFER, <<n>>, <<c>>, 0, root, slot)
            IN  /\ RegisterOutput(Sip10Contract, c)
                /\ PublishTree(Sip10Contract, s)
                /\ VerifySip10(s)
  /\ UNCHANGED <<untouchedBySip10Users, shieldedTotal>>

Sip10Split(user) ==
  /\ CheckActive
  /\ operationSwitches[PROOF_TYPE_SPLIT]
  /\ \E id \in DOMAIN assets, root \in DOMAIN merkleRoots, n \in Nullifier :
       /\ CanSpend(id)
       /\ CheckCurrentRoot(root)
       /\ ChargeTokenFee(id, PROOF_TYPE_SPLIT, user)
       /\ RegisterNullifierCall(Sip10Contract, n)
       /\ \E c, d \in Commitment, slot \in Slots :
            LET s == Sip10TreeStatement(id, PROOF_TYPE_SPLIT, <<n>>, <<c, d>>, 0, root, slot)
            IN  /\ RegisterCommitmentPairCall(Sip10Contract, c, d, protocolVersions.commitment)
                /\ RegisterNotePairCall(Sip10Contract, c, d, protocolVersions.note)
                /\ PublishTree(Sip10Contract, s)
                /\ VerifySip10(s)
  /\ UNCHANGED <<untouchedBySip10Users, shieldedTotal>>

Sip10Merge(user) ==
  /\ CheckActive
  /\ operationSwitches[PROOF_TYPE_MERGE]
  /\ \E id \in DOMAIN assets, root \in DOMAIN merkleRoots, m, n \in Nullifier :
       /\ CanSpend(id)
       /\ CheckCurrentRoot(root)
       /\ ChargeTokenFee(id, PROOF_TYPE_MERGE, user)
       /\ RegisterNullifierPairCall(Sip10Contract, m, n)
       /\ \E c \in Commitment, slot \in Slots :
            LET s == Sip10TreeStatement(id, PROOF_TYPE_MERGE, <<m, n>>, <<c>>, 0, root, slot)
            IN  /\ RegisterOutput(Sip10Contract, c)
                /\ PublishTree(Sip10Contract, s)
                /\ VerifySip10(s)
  /\ UNCHANGED <<untouchedBySip10Users, shieldedTotal>>

\* Never the burn address, this pool or its fees contract.
ValidTokenRecipient(recipient) ==
  recipient \notin {BurnAddress, Sip10Contract, Sip10FeesContract}

\* The fee and the net amount both leave the pool, which must end up lower by
\* the amount of the note.
Sip10WithdrawNote(id, n, amount, recipient, root) ==
  LET s == Sip10WithdrawStatement(id, n, amount, recipient, root)
      fee == AssetFee(id, PROOF_TYPE_WITHDRAWAL, amount)
      charged == AfterAssetFee(tokens, id, Sip10Contract, fee)
  IN  /\ CheckActive
      /\ operationSwitches[PROOF_TYPE_WITHDRAWAL]
      /\ RegisterNullifierCall(Sip10Contract, n)
      /\ CanSpend(id)
      /\ IsKnownRoot(root)
      /\ ValidTokenRecipient(recipient)
      /\ fee < amount
      /\ amount <= shieldedTotal[id]
      /\ VerifySip10(s)
      /\ shieldedTotal' = [shieldedTotal EXCEPT ![id] = @ - amount]
      /\ CollectAssetFeeIfAny(Sip10Contract, id, PROOF_TYPE_WITHDRAWAL, Sip10Contract,
                              fee, tokens)
      /\ CanMove(charged, TokenOf(id), Sip10Contract, recipient, amount - fee)
      /\ tokens' = Moved(charged, TokenOf(id), Sip10Contract, recipient, amount - fee)
      /\ tokens'[TokenOf(id)][Sip10Contract] = tokens[TokenOf(id)][Sip10Contract] - amount
      /\ UNCHANGED <<untouchedBySip10Users, commitmentVars, rootVars, totalNotes, noteVars>>

Sip10Withdraw ==
  \E id \in DOMAIN assets, root \in DOMAIN merkleRoots, n \in Nullifier,
     amount \in AmountInputs, recipient \in RecipientInputs :
       Sip10WithdrawNote(id, n, amount, recipient, root)

-----------------------------------------------------------------------------
(* The pool's switches and the verifier's namespace.                       *)

\* Everything but the contract an administrator's call belongs to.
outsidePool == <<poolVars, assetVars, assetFeeVars, sip10VerifierVars>>

SetOperationEnabled(caller) ==
  /\ IsAdmin(caller, ROLE_EMERGENCY_ADMIN)
  /\ \E t \in ProofTypes : operationSwitches' = [operationSwitches EXCEPT ![t] = ~@]
  /\ UNCHANGED <<outsidePool, shieldedTotal, namespaceVars>>

SetCircuitVersion(caller) ==
  /\ IsAdmin(caller, ROLE_VERIFIER_ADMIN)
  /\ \E version \in VersionNumberInputs :
       version > sip10CircuitVersion /\ sip10CircuitVersion' = version
  /\ UNCHANGED <<outsidePool, sip10PoolVars, authorizedPool>>

SetAuthorizedPool(caller) ==
  /\ IsOwner(caller)
  /\ \E pool \in PoolInputs : pool # authorizedPool /\ authorizedPool' = pool
  /\ UNCHANGED <<outsidePool, sip10PoolVars, sip10CircuitVersion>>

\* The functions the two verifiers have in common.
Sip10VerifierStep(caller) ==
  /\ UNCHANGED <<poolVars, assetVars, assetFeeVars, sip10PoolVars, namespaceVars>>
  /\ V!VerifierAdminStep(caller)

Sip10UserStep(user) ==
  \/ Sip10Shield(user)
  \/ Sip10Transfer(user)
  \/ Sip10Split(user)
  \/ Sip10Merge(user)
  \/ Sip10Withdraw

outsideAssets == <<noteVars, feeVars, stx, verifierVars, switches, assetFeeVars,
                   sip10PoolVars, namespaceVars, sip10VerifierVars>>
outsideTokens == <<poolVars, assetVars, sip10PoolVars, namespaceVars, sip10VerifierVars>>

\* Listing assets, pricing them, and paying out their fees.
ListingStep(caller) ==
  \/ AssetStep(caller) /\ UNCHANGED outsideAssets
  \/ AssetFeesStep(caller) /\ UNCHANGED outsideTokens
  \/ SetMaxFeeBps(caller) /\ UNCHANGED <<beyondRegistry, sip10Vars>>

\* What tokens do by themselves.
TokenStep ==
  \/ \E user \in Users : TokenTransfer(user) /\ UNCHANGED outsideTokens
  \/ SetSkimBps /\ UNCHANGED outsideTokens

\* The SIP-10 contracts in an incident or an upgrade.
Sip10IncidentStep(caller) ==
  \/ SetOperationEnabled(caller)
  \/ SetCircuitVersion(caller)
  \/ SetAuthorizedPool(caller)
  \/ Sip10VerifierStep(caller)
  \/ LifecycleStep(caller) /\ UNCHANGED <<beyondRegistry, sip10Vars>>

\* A native operation, or a SIP-10 operation, on the shared tree.
SomeOperation ==
  \/ SomeUserStep /\ UNCHANGED sip10Vars
  \/ \E user \in Users : Sip10UserStep(user)

\* Both pools, with everybody who acts on the deployed contracts.
TokenSystemInit == \E registered \in SUBSET Tokens : Sip10Init(registered)

TokenSystemNext ==
  \/ SystemNext /\ UNCHANGED sip10Vars
  \/ \E user \in Users : Sip10UserStep(user)
  \/ \E p \in Staff : ListingStep(p) \/ Sip10IncidentStep(p)
  \/ TokenStep

TokenSystemSpec == TokenSystemInit /\ [][TokenSystemNext]_bothPoolsVars

-----------------------------------------------------------------------------
(* Properties.                                                             *)

IdOf(asset) == assetIds[asset]

\* Conservation asset by asset on the shared tree: what either pool says is
\* shielded of an asset is the value of its unspent notes; no operation of one
\* pool creates, spends or converts value of another's notes.
EveryAssetConserved ==
  /\ ValueConserved
  /\ \A id \in DOMAIN assets : shieldedTotal[id] = AmountOf(UnspentOf(TokenOf(id)))

\* The pool holds at least what it owes, of every asset, those whose token
\* starts and stops skimming included.
TokensBacked ==
  \A id \in DOMAIN assets : tokens[TokenOf(id)][Sip10Contract] >= shieldedTotal[id]

\* Every fund the two pools and the two fees contracts keep is covered.
EveryFundBacked == PoolSolvent /\ TokensBacked /\ TokenTreasuriesBacked

WithdrawalFee(c) ==
  AssetFee(IdOf(AssetOf[c]), PROOF_TYPE_WITHDRAWAL, NoteAmount[c])

\* A withdrawal is not halted by those who may halt it.
WithdrawalsRun ==
  /\ CheckActive /\ operationSwitches[PROOF_TYPE_WITHDRAWAL]
  /\ ~sip10Frozen /\ authorizedPool = Sip10Contract
  /\ V!CircuitReady(PROOF_TYPE_WITHDRAWAL, SIP10_CIRCUIT_VERSION)

\* Delisting traps nothing: while withdrawals are not halted, an unspent note can be
\* withdrawn at once, whatever its asset's status and limits have become and
\* whatever the other assets' users did, unless its withdrawal fee is not below
\* its amount or cannot be collected because fees are frozen.
TokenNotesRedeemable ==
  WithdrawalsRun => \A c \in UnspentNotes :
    /\ AssetOf[c] # Stx
    /\ WithdrawalFee(c) < NoteAmount[c]
    /\ WithdrawalFee(c) > 0 => ~assetFeesFrozen
    => \E root \in DOMAIN merkleRoots, recipient \in Users :
         ENABLED Sip10WithdrawNote(IdOf(AssetOf[c]), NullifierOf[c], NoteAmount[c],
                                   recipient, root)

\* asset-registry.clar: funds are never trapped by governance.  The notes of an
\* asset whose terms can no longer change are worth more, all merged into one,
\* than withdrawing them costs.
FundsNeverTrapped ==
  \A id \in DOMAIN assets :
    LET value == AmountOf(UnspentOf(TokenOf(id)))
    IN  assets[id].status = ASSET_DEPRECATED /\ value > 0 =>
          AssetFee(id, PROOF_TYPE_WITHDRAWAL, value) < value

\* A SIP-10 operation takes effect only through a proof the SIP-10 verifier
\* accepted then, for the pool it names and the version it runs: while it is
\* frozen, names another pool or has left the pool's version behind, or while
\* the protocol is not active, no token note enters, moves or leaves, and a
\* switched-off operation accepts nothing of its kind.
TokenHaltsAreComplete ==
  [][ /\ \/ ~CheckActive \/ sip10Frozen
         \/ authorizedPool # Sip10Contract
         \/ sip10CircuitVersion # SIP10_CIRCUIT_VERSION
         => UNCHANGED <<shieldedTotal, sip10Verified, assetFeeStats>>
            /\ \A t \in Tokens : UnspentOf(t)' = UnspentOf(t)
      /\ \A t \in ProofTypes : ~operationSwitches[t] =>
           Accepted(sip10Verified', t) = Accepted(sip10Verified, t) ]_bothPoolsVars
=============================================================================

----------------------------- MODULE ZkVerifier -----------------------------
(***************************************************************************)
(* contracts/zk-verifier.clar: a statement is accepted when the leaf that  *)
(* commits to it lies in an aggregation whose root a relayer has posted.   *)
(* A leaf is the tuple of what statement-leaf hashes (hashes are taken to  *)
(* be injective); an aggregation root is the set of leaves under it, so    *)
(* Merkle inclusion is membership.                                         *)
(***************************************************************************)
EXTENDS PrivacyRegistry

CONSTANTS
  Inputs,          \* the public-inputs hashes of the statements in play
  ContextInputs,   \* zkVerify context hashes
  BindingInputs,   \* the (zkv-vkey-hash, version-hash) pairs of bindings
  KeyInputs,       \* vkey hashes
  AggregationIds,  \* the (domain-id, aggregation-id) pairs
  RelayerInputs,   \* the principals offered to add-relayer
  MaxAggregated,   \* bound on the leaves aggregated together
  TypesInPlay      \* the proof types keys are registered for

PROOF_TYPE_SHIELD     == 1
PROOF_TYPE_TRANSFER   == 2
PROOF_TYPE_WITHDRAWAL == 3
PROOF_TYPE_SPLIT      == 4
PROOF_TYPE_MERGE      == 5
ProofTypes == 1..5

\* The circuits are those of the five operations.
ASSUME VerifierAssumption == TypesInPlay \subseteq ProofTypes

VARIABLES
  verificationKeys,     \* <<type, circuit version>> |-> [hash, enabled]
  zkverifyBindings,     \* <<type, circuit version>> |-> binding
  zkverifyContextHash,
  aggregations,         \* aggregation id |-> set of leaves
  aggregationCount,
  relayers, relayerCount,
  verifiedProofs,       \* set of accepted leaves
  verificationStats,    \* statements accepted, in all and by the contract's buckets
  verificationFrozen,
  zkVerified            \* leaves zkVerify's consensus has verified

keyVars == <<verificationKeys, zkverifyBindings, zkverifyContextHash>>
aggregationVars == <<aggregations, aggregationCount>>
relayerVars == <<relayers, relayerCount>>
acceptanceVars == <<verifiedProofs, verificationStats>>
verifierVars == <<keyVars, aggregationVars, relayerVars, acceptanceVars,
                  verificationFrozen, zkVerified>>

StatBuckets == {"total", "shield", "transfer", "withdrawal", "other"}
NoneVerified == [b \in StatBuckets |-> 0]

VerifierInit ==
  /\ verificationKeys = EmptyMap /\ zkverifyBindings = EmptyMap
  /\ zkverifyContextHash = ZeroHash
  /\ aggregations = EmptyMap /\ aggregationCount = 0
  /\ relayers = {} /\ relayerCount = 0
  /\ verifiedProofs = {}
  /\ verificationStats = NoneVerified
  /\ verificationFrozen = FALSE
  /\ zkVerified = {}

-----------------------------------------------------------------------------
(* Acceptance.                                                             *)

StatementLeaf(context, binding, inputs) == <<context, binding, inputs>>

IsVerifierAdmin(who) == IsAdmin(who, ROLE_VERIFIER_ADMIN)
IsVerifierEmergencyAdmin(who) == IsAdmin(who, ROLE_EMERGENCY_ADMIN)
IsRelayer(who) == IsVerifierAdmin(who) \/ who \in relayers

BucketOf == [t \in ProofTypes |-> CASE t = PROOF_TYPE_SHIELD -> "shield"
                                   [] t = PROOF_TYPE_TRANSFER -> "transfer"
                                   [] t = PROOF_TYPE_WITHDRAWAL -> "withdrawal"
                                   [] OTHER -> "other"]

Counted(stats, type) ==
  [b \in StatBuckets |-> IF b \in {"total", BucketOf[type]} THEN stats[b] + 1 ELSE stats[b]]

\* verify-proof's gates ahead of the inclusion check.
CircuitReady(type, circuit) ==
  /\ circuit = protocolVersions.circuit
  /\ <<type, circuit>> \in DOMAIN verificationKeys
  /\ verificationKeys[<<type, circuit>>].enabled
  /\ <<type, circuit>> \in DOMAIN zkverifyBindings
  /\ zkverifyContextHash # ZeroHash

LeafOf(type, circuit, inputs) ==
  StatementLeaf(zkverifyContextHash, zkverifyBindings[<<type, circuit>>], inputs)

\* Mutant of VerifyProofCall: an accepted statement is accepted again.
VerifyProofCall_Replay(caller, type, circuit, inputs, included) ==
  /\ CheckActive
  /\ ~verificationFrozen
  /\ IsProtocolCaller(caller)
  /\ CircuitReady(type, circuit)
  /\ included
  /\ verifiedProofs' = verifiedProofs \cup {LeafOf(type, circuit, inputs)}
  /\ verificationStats' = Counted(verificationStats, type)

\* Mutant of VerifyProofCall: the freeze is not looked at.
VerifyProofCall_NoFreeze(caller, type, circuit, inputs, included) ==
  /\ CheckActive
  /\ IsProtocolCaller(caller)
  /\ CircuitReady(type, circuit)
  /\ included
  /\ LeafOf(type, circuit, inputs) \notin verifiedProofs
  /\ verifiedProofs' = verifiedProofs \cup {LeafOf(type, circuit, inputs)}
  /\ verificationStats' = Counted(verificationStats, type)

\* verify-proof; included says that the leaf hashes up to the posted root.
VerifyProofCall(caller, type, circuit, inputs, included) ==
  /\ CheckActive
  /\ ~verificationFrozen
  /\ IsProtocolCaller(caller)
  /\ CircuitReady(type, circuit)
  /\ included
  /\ LeafOf(type, circuit, inputs) \notin verifiedProofs
  /\ verifiedProofs' = verifiedProofs \cup {LeafOf(type, circuit, inputs)}
  /\ verificationStats' = Counted(verificationStats, type)

VerifyProof(caller) ==
  /\ \E type \in TypesInPlay, inputs \in Inputs, id \in DOMAIN aggregations :
       /\ <<type, protocolVersions.circuit>> \in DOMAIN zkverifyBindings
       /\ VerifyProofCall(caller, type, protocolVersions.circuit, inputs,
            LeafOf(type, protocolVersions.circuit, inputs) \in aggregations[id])
  /\ UNCHANGED <<keyVars, aggregationVars, relayerVars, verificationFrozen,
                 zkVerified, registryVars>>

-----------------------------------------------------------------------------
(* Publication, by relayers.  The environment: zkVerify verifies a proof   *)
(* under its own context and key, and relayers post what zkVerify holds.   *)

NetworkVerifies ==
  /\ \E context \in ContextInputs, binding \in BindingInputs, inputs \in Inputs :
       zkVerified' = zkVerified \cup {StatementLeaf(context, binding, inputs)}
  /\ UNCHANGED <<keyVars, aggregationVars, relayerVars, acceptanceVars,
                 verificationFrozen, registryVars>>

\* Mutant of SubmitAggregation: a posted root is replaced.
SubmitAggregation_Overwrites(caller) ==
  /\ IsRelayer(caller)
  /\ \E id \in AggregationIds, leaves \in SUBSET zkVerified :
       /\ leaves # {} /\ Cardinality(leaves) <= MaxAggregated
       /\ aggregations' = MapSet(aggregations, id, leaves)
       /\ aggregationCount' = aggregationCount + 1
  /\ UNCHANGED <<keyVars, relayerVars, acceptanceVars, verificationFrozen,
                 zkVerified, registryVars>>

SubmitAggregation(caller) ==
  /\ IsRelayer(caller)
  /\ \E id \in AggregationIds, leaves \in SUBSET zkVerified :
       /\ leaves # {} /\ Cardinality(leaves) <= MaxAggregated
       /\ id \notin DOMAIN aggregations
       /\ aggregations' = MapSet(aggregations, id, leaves)
       /\ aggregationCount' = aggregationCount + 1
  /\ UNCHANGED <<keyVars, relayerVars, acceptanceVars, verificationFrozen,
                 zkVerified, registryVars>>

-----------------------------------------------------------------------------
(* Keys, bindings, relayers and the freeze.                                *)

RegisterVerificationKey(caller) ==
  /\ IsVerifierAdmin(caller)
  /\ \E type \in TypesInPlay, circuit \in VersionNumberInputs, hash \in KeyInputs :
       /\ <<type, circuit>> \notin DOMAIN verificationKeys
       /\ verificationKeys' = MapSet(verificationKeys, <<type, circuit>>,
                                     [hash |-> hash, enabled |-> TRUE])
  /\ UNCHANGED <<zkverifyBindings, zkverifyContextHash, aggregationVars,
                 relayerVars, acceptanceVars, verificationFrozen, zkVerified,
                 registryVars>>

SetVerificationKeyStatus(caller) ==
  /\ IsVerifierAdmin(caller) \/ IsVerifierEmergencyAdmin(caller)
  /\ \E key \in DOMAIN verificationKeys :
       verificationKeys' = [verificationKeys EXCEPT ![key].enabled = ~@]
  /\ UNCHANGED <<zkverifyBindings, zkverifyContextHash, aggregationVars,
                 relayerVars, acceptanceVars, verificationFrozen, zkVerified,
                 registryVars>>

SetZkverifyContextHash(caller) ==
  /\ IsVerifierAdmin(caller)
  /\ \E context \in ContextInputs :
       context # ZeroHash /\ zkverifyContextHash' = context
  /\ UNCHANGED <<verificationKeys, zkverifyBindings, aggregationVars,
                 relayerVars, acceptanceVars, verificationFrozen, zkVerified,
                 registryVars>>

SetZkverifyBinding(caller) ==
  /\ IsVerifierAdmin(caller)
  /\ \E key \in DOMAIN verificationKeys, binding \in BindingInputs :
       zkverifyBindings' = MapSet(zkverifyBindings, key, binding)
  /\ UNCHANGED <<verificationKeys, zkverifyContextHash, aggregationVars,
                 relayerVars, acceptanceVars, verificationFrozen, zkVerified,
                 registryVars>>

AddRelayer(caller) ==
  /\ IsVerifierAdmin(caller)
  /\ \E who \in RelayerInputs :
       /\ who \notin relayers
       /\ relayers' = relayers \cup {who}
       /\ relayerCount' = relayerCount + 1
  /\ UNCHANGED <<keyVars, aggregationVars, acceptanceVars, verificationFrozen,
                 zkVerified, registryVars>>

RemoveRelayer(caller) ==
  /\ IsVerifierAdmin(caller)
  /\ \E who \in relayers :
       /\ relayers' = relayers \ {who}
       /\ relayerCount' = relayerCount - 1
  /\ UNCHANGED <<keyVars, aggregationVars, acceptanceVars, verificationFrozen,
                 zkVerified, registryVars>>

\* freeze-verification and unfreeze-verification do not look at the old value.
SetVerificationFrozen(caller) ==
  /\ IsVerifierEmergencyAdmin(caller)
  /\ verificationFrozen' \in BOOLEAN
  /\ UNCHANGED <<keyVars, aggregationVars, relayerVars, acceptanceVars,
                 zkVerified, registryVars>>

VerifierAdminStep(caller) ==
  \/ RegisterVerificationKey(caller)
  \/ SetVerificationKeyStatus(caller)
  \/ SetZkverifyContextHash(caller)
  \/ SetZkverifyBinding(caller)
  \/ AddRelayer(caller)
  \/ RemoveRelayer(caller)
  \/ SetVerificationFrozen(caller)

VerifierStepBy(caller) ==
  \/ VerifyProof(caller)
  \/ SubmitAggregation(caller)
  \/ VerifierAdminStep(caller)
  \/ GovernanceStep(caller) /\ UNCHANGED verifierVars

VerifierNext == NetworkVerifies \/ \E caller \in Principals : VerifierStepBy(caller)

VerifierSpec ==
  RegistryInit /\ VerifierInit /\ [][VerifierNext]_<<registryVars, verifierVars>>

-----------------------------------------------------------------------------
(* Properties.                                                             *)

Leaves == ContextInputs \X BindingInputs \X Inputs

\* Keys, bindings, aggregations and acceptance records have their types, and
\* only a registered key is bound.
VerifierTypeOK ==
  /\ DOMAIN verificationKeys \subseteq ProofTypes \X Nat
  /\ verificationKeys \in
       [DOMAIN verificationKeys -> [hash : KeyInputs, enabled : BOOLEAN]]
  /\ DOMAIN zkverifyBindings \subseteq DOMAIN verificationKeys
  /\ zkverifyBindings \in [DOMAIN zkverifyBindings -> BindingInputs]
  /\ zkverifyContextHash \in ContextInputs \cup {ZeroHash}
  /\ aggregations \in [DOMAIN aggregations -> SUBSET Leaves]
  /\ relayers \subseteq RelayerInputs
  /\ verifiedProofs \subseteq Leaves
  /\ verificationStats \in [StatBuckets -> Nat]
  /\ verificationFrozen \in BOOLEAN
  /\ zkVerified \subseteq Leaves

\* Nothing is accepted that zkVerify did not verify, through every
\* reconfiguration of keys, bindings and context between proof and acceptance.
AcceptedWasVerified == verifiedProofs \subseteq zkVerified

\* Each acceptance consumed a leaf of its own (statement replay never counts
\* twice), and the two public counters count their maps, so removing a relayer
\* never underflows.
VerifierCountsExact ==
  /\ IsFiniteSet(verifiedProofs)
  /\ verificationStats["total"] = Cardinality(verifiedProofs)
  /\ verificationStats["total"] = verificationStats["shield"] + verificationStats["transfer"]
                                   + verificationStats["withdrawal"] + verificationStats["other"]
  /\ aggregationCount = Cardinality(DOMAIN aggregations)
  /\ relayerCount = Cardinality(relayers)

\* A statement of the circuit whose inclusion path the contract would accept.
Includable(key, inputs) ==
  /\ key \in DOMAIN zkverifyBindings
  /\ \E id \in DOMAIN aggregations :
       StatementLeaf(zkverifyContextHash, zkverifyBindings[key], inputs) \in aggregations[id]

\* A posted root stays posted and unchanged, an accepted statement stays
\* accepted, and a registered key keeps its hash and its binding, if not the
\* binding's value.  The leaf commits to the context and to that value, which
\* the verifier administrator may re-set: a path that verifies is taken back by
\* a step that re-sets one of the two, and by nothing a relayer or a user does.
PublicationIsPermanent ==
  [][ /\ verifiedProofs \subseteq verifiedProofs'
      /\ \A id \in DOMAIN aggregations :
           id \in DOMAIN aggregations' /\ aggregations'[id] = aggregations[id]
      /\ \A key \in DOMAIN verificationKeys :
           /\ key \in DOMAIN verificationKeys'
           /\ verificationKeys'[key].hash = verificationKeys[key].hash
      /\ \A key \in DOMAIN zkverifyBindings :
           /\ key \in DOMAIN zkverifyBindings'
           /\ \A inputs \in Inputs :
                Includable(key, inputs)
                  => \/ Includable(key, inputs)'
                     \/ zkverifyContextHash' # zkverifyContextHash
                     \/ zkverifyBindings'[key] # zkverifyBindings[key] ]_verifierVars

\* What the verifier has accepted, against what zkVerify verified and against
\* the counters it publishes.
AcceptanceExact == VerifierTypeOK /\ AcceptedWasVerified /\ VerifierCountsExact
=============================================================================

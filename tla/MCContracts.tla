---------------------------- MODULE MCContracts ----------------------------
(***************************************************************************)
(* Small instances of the registry and of the two contracts that keep      *)
(* ledgers of their own over it.  Each scenario is a slice of the calls    *)
(* one of the three specifications allows:                                 *)
(*   ledger    the registry's records, versions and limits                 *)
(*   admin     the registry's owner, roles, versions, limits, lifecycle    *)
(*   notes     the note manager over a governed registry                   *)
(*   verifier  the verifier over a governed registry                       *)
(***************************************************************************)
EXTENDS NoteManager, ZkVerifier, Sequences

CONSTANTS dep, adm, burn, none, zero, c1, c2, c3, n1, n2, r1, r2,
          rel, i1, x1, x2, b1, k1, k2, a1, a2

VARIABLE scenario

vars == <<scenario, registryVars, noteVars, verifierVars>>

LimitsOf(maxAmount, maxCommitments, maxNotes, maxFeeBps) ==
  [minShield |-> 1, maxShield |-> maxAmount,
   minWithdrawal |-> 1, maxWithdrawal |-> maxAmount,
   maxCommitments |-> maxCommitments, maxNotes |-> maxNotes,
   maxFeeBps |-> maxFeeBps]

MCDefaultLimits == LimitsOf(2, 2, 2, 1)

\* A capacity change that only a fresh ledger accepts; for the administrators
\* an acceptable change, and sets that break a ceiling each; for the notes
\* raising and lowering their capacity around what is registered.
LimitsIn == [ledger   |-> {LimitsOf(2, 1, 1, 1)},
             admin    |-> {LimitsOf(1, 3, 2, 2), LimitsOf(2, 4, 2, 2),
                           LimitsOf(2, 3, 2, 3), LimitsOf(5, 3, 2, 2)},
             notes    |-> {LimitsOf(2, 2, 1, 1), LimitsOf(2, 2, 3, 1)},
             verifier |-> {}]

\* Upgrades and downgrades of the versions each scenario's records carry.
VersionsIn ==
  [ledger   |-> {[GenesisVersions EXCEPT !.commitment = v[1], !.root = v[2]] :
                   v \in {<<1, 1>>, <<2, 1>>, <<2, 2>>}},
   admin    |-> {[GenesisVersions EXCEPT !.circuit = a, !.verifier = b] :
                   a \in 1..3, b \in 1..2},
   notes    |-> {[GenesisVersions EXCEPT !.note = 2]},
   verifier |-> {[GenesisVersions EXCEPT !.circuit = 3]}]

MCLimitInputs == UNION {LimitsIn[s] : s \in DOMAIN LimitsIn} \cup {MCDefaultLimits}
MCVersionInputs == UNION {VersionsIn[s] : s \in DOMAIN VersionsIn}

(***************************************************************************)
(* Hashes, identifiers and contexts are compared for equality only, so of  *)
(* those that occur nowhere in the state a step may as well take the first.*)
(***************************************************************************)
InOrder(used, usedNext, order) ==
  \A i \in 2..Len(order) : order[i] \in usedNext \ used => order[i - 1] \in used

KeyHashes == {verificationKeys[key].hash : key \in DOMAIN verificationKeys}
Contexts == {zkverifyContextHash} \cup {leaf[1] : leaf \in zkVerified \cup verifiedProofs}

Canonical ==
  /\ InOrder(DOMAIN commitments, DOMAIN commitments', <<c1, c2>>)
  /\ InOrder(DOMAIN notes, DOMAIN notes', <<c1, c2, c3>>)
  /\ InOrder(nullifiers, nullifiers', <<n1, n2>>)
  /\ InOrder(DOMAIN merkleRoots, DOMAIN merkleRoots', <<r1, r2>>)
  /\ InOrder(KeyHashes, KeyHashes', <<k1, k2>>)
  /\ InOrder(Contexts, Contexts', <<x1, x2>>)
  /\ InOrder(DOMAIN aggregations, DOMAIN aggregations', <<a1, a2>>)

\* For the verifier a pause is only the way into an upgrade, and one of its
\* aggregations may hold more than one leaf.
Scope ==
  /\ Canonical
  /\ c3 \notin DOMAIN commitments'
  /\ DOMAIN verificationKeys' \subseteq TypesInPlay \X {2, 3}
  /\ a2 \in DOMAIN aggregations' => Cardinality(aggregations'[a2]) = 1
  /\ protocolLimits' \in LimitsIn[scenario] \cup {MCDefaultLimits, protocolLimits}
  /\ protocolVersions' \in VersionsIn[scenario] \cup {protocolVersions}
  /\ scenario = "verifier"
       => /\ protocolState' \in {PROTOCOL_ACTIVE, PROTOCOL_PAUSED, PROTOCOL_UPGRADING}
          /\ protocolState = PROTOCOL_PAUSED => UNCHANGED verifierVars
  /\ scenario = "admin"
       => UNCHANGED <<authorizedCallers, ledgerVars>>
  /\ scenario # "admin"
       => /\ UNCHANGED <<owner, pendingOwner>>
          /\ administrators' \subseteq (IF scenario = "notes" THEN {<<adm, 2>>} ELSE {})
          /\ authorizedCallers' \subseteq (IF scenario = "notes" THEN {dep, adm} ELSE {dep})

\* The principals whose calls a scenario is about.
CallersIn == [ledger |-> {dep}, admin |-> Principals, notes |-> {dep, adm}, verifier |-> {dep}]

StepIn(caller) ==
  CASE scenario \in {"ledger", "admin"} -> StepBy(caller) /\ UNCHANGED <<noteVars, verifierVars>>
    [] scenario = "notes"    -> NotesStepBy(caller) /\ UNCHANGED verifierVars
    [] scenario = "verifier" -> VerifierStepBy(caller) /\ UNCHANGED noteVars

ScenarioNext ==
  \/ \E caller \in CallersIn[scenario] : StepIn(caller)
  \/ scenario = "verifier" /\ NetworkVerifies /\ UNCHANGED noteVars

MCInit ==
  /\ RegistryInit /\ NotesInit /\ VerifierInit
  /\ scenario \in {"ledger", "admin", "notes", "verifier"}

MCNext == ScenarioNext /\ UNCHANGED scenario /\ Scope

MCSpec == MCInit /\ [][MCNext]_vars
=============================================================================

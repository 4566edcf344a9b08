---------------------------- MODULE MCGovernance ----------------------------
(***************************************************************************)
(* The pool while its administrators act.  The scenarios:                  *)
(*   incident  an emergency team: pauses, freezes, switches, roots         *)
(*   upgrade   circuits, versions, limits, keys and context replaced       *)
(*   treasury  fees and ceilings changed, paid out, STX sent around        *)
(***************************************************************************)
EXTENDS MCPool

VARIABLE scenario

vars == <<poolVars, scenario>>

\* c4 is split into, or merged from, c2 and c3; c5 transfers to c6, and is large
\* enough for a fee with both its parts.
NotesIn == [incident |-> {c2, c3, c4}, upgrade |-> {c5, c6}, treasury |-> {c5, c6}]

\* An upgrade stages and disables the withdrawal's keys and passes through no
\* emergency; it and the treasury have two notes.  c2 and c3 are alike, so of
\* the two c2 comes first.
Scope ==
  /\ DOMAIN commitments' \subseteq NotesIn[scenario]
  /\ c3 \in DOMAIN commitments' => c2 \in DOMAIN commitments'
  /\ scenario # "incident" => totalCommitments' <= 2
  /\ scenario = "upgrade" =>
       /\ protocolState' \in {PROTOCOL_ACTIVE, PROTOCOL_PAUSED, PROTOCOL_UPGRADING}
       /\ protocolLimits' \in {protocolLimits} \cup MCLimitInputs
       /\ \A key \in DOMAIN verificationKeys' :
            key[1] # PROOF_TYPE_WITHDRAWAL =>
              key[2] = CompiledCircuit /\ verificationKeys'[key].enabled

GovernanceInit ==
  /\ PoolInit
  /\ scenario \in DOMAIN NotesIn
  /\ zkverifyContextHash = x1

GovernanceNext ==
  /\ \/ SomeUserStep
     \/ scenario = "incident" /\ \E p \in Staff : IncidentStep(p)
     \/ scenario = "upgrade"  /\ \E p \in Staff : UpgradeStep(p)
     \/ scenario = "treasury" /\ \E p \in Users \cup Staff : TreasuryStep(p)
  /\ Scope
  /\ UNCHANGED scenario

GovernanceSpec == GovernanceInit /\ [][GovernanceNext]_vars
=============================================================================

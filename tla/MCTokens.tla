------------------------------ MODULE MCTokens ------------------------------
(***************************************************************************)
(* Both pools over small sets of notes.  The scenarios:                    *)
(*   assets  both pools while assets are listed, priced and delisted, and  *)
(*           a token starts and stops skimming                             *)
(*   halts   the SIP-10 pool in an incident or an upgrade                  *)
(***************************************************************************)
EXTENDS Sip10Pool, TLC

CONSTANTS dep, ops, alice, pool, sm, nm, fees, sip, sipfees, burn, none, zero, native,
          ta, tb, k1, b1, x1, a1, a2, a3, t1, p1, p2, p3, u1, m1, m2,
          MaxChanges   \* bound on the steps of a behaviour that are no operations

VARIABLES scenario, changes

vars == <<bothPoolsVars, scenario, changes>>

MCPrincipals == {dep, ops, alice, pool, sm, nm, fees, sip, sipfees, burn}

\* m1 is native; a1 is split into, or merged from, a2 and a3; t1 is of the
\* faulty token.
Amounts == m1 :> 1 @@ a1 :> 2 @@ a2 :> 1 @@ a3 :> 1 @@ t1 :> 2
Hashes  == m1 :> m2 @@ a1 :> p1 @@ a2 :> p2 @@ a3 :> p3 @@ t1 :> u1
MCNoteAmount  == [c \in Commitment \ {ZeroHash} |-> Amounts[c]]
MCNullifierOf == [c \in Commitment \ {ZeroHash} |-> Hashes[c]]
MCAssetOf == [c \in Commitment \ {ZeroHash} |->
                CASE c \in {a1, a2, a3} -> ta [] c = t1 -> tb [] OTHER -> Stx]

NotesIn == [assets |-> {m1, a1, a2, t1}, halts |-> {a1, a2, a3}]
LeavesIn == [assets |-> 3, halts |-> 3]

MCDefaultLimits ==
  [minShield |-> 1, maxShield |-> 3, minWithdrawal |-> 1, maxWithdrawal |-> 3,
   maxCommitments |-> TreeCapacity, maxNotes |-> TreeCapacity, maxFeeBps |-> 1]
MCInitialStx == [p \in MCPrincipals |-> IF p = alice THEN 5 ELSE 0]
MCInitialTokens ==
  [t \in {ta, tb} |-> [p \in MCPrincipals |-> IF p = alice THEN 4 ELSE 0]]

AssetLimits(min, max) == [minShield |-> min, maxShield |-> max, minNote |-> 1, maxNote |-> 0]
MCAssetLimitInputs == {AssetLimits(1, 2), AssetLimits(0, 2), AssetLimits(1, 1)}

\* A percentage on shields, a flat withdrawal fee as high as the smallest note,
\* a flat fee on splits, and settings above each ceiling.
MCAssetFeeInputs ==
  {<<PROOF_TYPE_SHIELD, [bps |-> 1, flat |-> 0, enabled |-> TRUE]>>,
   <<PROOF_TYPE_WITHDRAWAL, [bps |-> 0, flat |-> 1, enabled |-> TRUE]>>,
   <<PROOF_TYPE_SPLIT, [bps |-> 0, flat |-> 1, enabled |-> TRUE]>>,
   <<PROOF_TYPE_MERGE, [bps |-> 2, flat |-> 3, enabled |-> TRUE]>>}

Scope ==
  /\ DOMAIN commitments' \subseteq NotesIn[scenario]
  /\ totalCommitments' <= LeavesIn[scenario]
  /\ a3 \in DOMAIN commitments' => a2 \in DOMAIN commitments'
  /\ \A p \in MCPrincipals \ {alice, ops, pool, sip, sipfees} :
       /\ stx'[p] = stx[p]
       /\ \A t \in Tokens : tokens'[t][p] = tokens[t][p]

ChangeIn(caller) ==
  \/ scenario = "assets" /\ ListingStep(caller)
  \/ scenario = "halts"  /\ Sip10IncidentStep(caller)

MCInit == /\ Sip10Init({ta})
          /\ assets[1].limits = AssetLimits(1, 2)
          /\ scenario \in DOMAIN NotesIn
          /\ changes = 0

MCNext ==
  /\ \/ SomeOperation /\ UNCHANGED changes
     \/ /\ changes < MaxChanges
        /\ changes' = changes + 1
        /\ \/ \E p \in Staff : ChangeIn(p)
           \/ scenario = "assets" /\ TokenStep
  /\ Scope
  /\ UNCHANGED scenario

MCSpec == MCInit /\ [][MCNext]_vars
=============================================================================

------------------------------ MODULE MCIndexer ------------------------------
(***************************************************************************)
(* The indexer with model-checking bounds, in three scenarios.  "chain":   *)
(* one process over three transactions.  "owner": one process and two      *)
(* wallets that register a note.  "two": the API's own indexer and a       *)
(* separate one.                                                           *)
(***************************************************************************)
EXTENDS Indexer

CONSTANTS i1, i2, shield, split, agg, c1, c2, c3, w1, w2, x1, x2

VARIABLE scenario

MC_KindOf == [o \in {shield, split, agg} |->
               CASE o = shield -> "shielded" [] o = split -> "sip10-split"
                 [] OTHER -> "aggregation-posted"]
MC_OutsOf == [o \in {shield, split, agg} |->
               CASE o = shield -> <<c1>> [] o = split -> <<c2, c3>> [] OTHER -> <<>>]

MC_Claims == {[wallet |-> w1, ciphertext |-> x1], [wallet |-> w2, ciphertext |-> x2]}

MCInit ==
  /\ IndexerInit
  /\ \/ scenario \in {"chain", "owner"} /\ enabled = {i1}
     \/ scenario = "two" /\ enabled = {i1, i2}

OnChain(o) == o \in {e.op : e \in UNION {ToSet(log'[c]) : c \in ToSet(CONTRACTS)}}
Touched == {c \in Commitments : db'.notes[c].claim # NoClaim} \union {r[1] : r \in registering'}

Within ==
  /\ scenario = "chain" => /\ OnChain(agg) => OnChain(shield)
                           /\ OnChain(shield) => OnChain(split)
                           /\ Touched = {}
  /\ scenario = "owner" => /\ ~OnChain(split) /\ ~OnChain(agg) /\ Touched \subseteq {c1}
                           /\ tip' <= 2
  /\ scenario = "two" => /\ ~OnChain(split) /\ ~OnChain(agg) /\ Touched = {}
                         /\ tip' <= 2 /\ incidents' = 0
  /\ UNCHANGED scenario

MCFairness ==
  /\ \A i \in Indexers : WF_vars(ScanStep(i))
  /\ WF_vars(MineBlock /\ Within) /\ WF_vars(ListBlock)

MCSpec == MCInit /\ [][Next /\ Within]_<<vars, scenario>> /\ MCFairness
=============================================================================

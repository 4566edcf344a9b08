-------------------------------- MODULE MCSdk --------------------------------
(***************************************************************************)
(* The SDK with model-checking bounds.  A behaviour is the client with two *)
(* of the user's operations, chosen at the start, or the note scanner: a   *)
(* tree it can fill, two overlapping calls, aggregations up to eleven wide.*)
(***************************************************************************)
EXTENDS Client, NoteScanner

CONSTANTS sh, sp, tr, mg, wd, g1, g2, n1, n2, n3, n4, r1, s1,
          e, l1, l2, l3, l4, y1, y2

VARIABLE chosen   \* the operations the client starts; none when the scanner runs

MC_KindOf == [o \in {sh, sp, tr, mg, wd} |->
  CASE o = sh -> "shield" [] o = sp -> "split" [] o = tr -> "transfer" [] o = mg -> "merge"
    [] OTHER -> "withdraw"]
MC_InputsOf == [o \in {sh, sp, tr, mg, wd} |->
  CASE o = sh -> <<>> [] o = sp -> <<g1>> [] o = tr -> <<g1>> [] o = mg -> <<g1, g2>>
    [] OTHER -> <<g2>>]
MC_OutsOf == [o \in {sh, sp, tr, mg, wd} |->
  CASE o = sh -> <<n1>> [] o = sp -> <<n2, n3>> [] o = tr -> <<r1>> [] o = mg -> <<n4>>
    [] OTHER -> <<>>]
MC_Genesis == <<g1, g2>>

MC_Feed == <<l1, l2, l3, l4>>
MC_AmountOf == l2 :> 3 @@ l3 :> 3 @@ l4 :> 4
MC_TieOf == l2 :> 2 @@ l3 :> 1 @@ l4 :> 0
MC_Statements == [i \in 1..11 |-> i]

\* The scanner's two calls behave alike.
CallSymmetry == Permutations({y1, y2})

MCInit ==
  /\ ClientInit /\ ScannerInit
  /\ chosen \in {{sh, wd}, {sp, tr}, {mg, wd}, {}}
  /\ durable \/ chosen = {mg, wd}
  /\ token \/ chosen # {}

\* Other users' notes arrive beside one pair of operations.
ClientStep ==
  /\ Next
  /\ \A o \in Ops \ chosen : pc'[o] = "idle"
  /\ chosen = {sh, wd} \/ leaves' = SelectSeq(leaves', LAMBDA c : c \notin Strangers)
  /\ UNCHANGED scannerVars

\* Notes and statements are published in behaviours of their own.
ScannerStep ==
  /\ ScannerNext
  /\ published' = 0 \/ aggregated' = 0
  /\ UNCHANGED vars

MCNext ==
  /\ \/ chosen # {} /\ ClientStep
     \/ chosen = {} /\ ScannerStep
  /\ UNCHANGED chosen

MCSpec == MCInit /\ [][MCNext]_<<vars, scannerVars, chosen>>
=============================================================================

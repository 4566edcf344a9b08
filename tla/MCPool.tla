------------------------------- MODULE MCPool -------------------------------
(* Small instances of the composed pool.                                   *)
EXTENDS ShieldedPool, TLC

CONSTANTS dep, ops, alice, native, pool, sm, nm, fees, burn, none, zero,
          c1, c2, c3, c4, c5, c6, n1, n2, n3, n4, n5, n6, k1, k2, b1, b2, x1, x2

MCPrincipals == {dep, ops, alice, pool, sm, nm, fees, burn}

\* c1 and c4 can be split into, or merged from, c2 and c3; c1 transfers to c4,
\* c2 to c3, and c5 to c6.  An instance takes the notes of its Commitment.
Amounts == c1 :> 2 @@ c2 :> 1 @@ c3 :> 1 @@ c4 :> 2 @@ c5 :> 3 @@ c6 :> 3
Hashes  == c1 :> n1 @@ c2 :> n2 @@ c3 :> n3 @@ c4 :> n4 @@ c5 :> n5 @@ c6 :> n6

MCNoteAmount  == [c \in Commitment \ {ZeroHash} |-> Amounts[c]]
MCNullifierOf == [c \in Commitment \ {ZeroHash} |-> Hashes[c]]
MCAssetOf     == [c \in Commitment \ {ZeroHash} |-> Stx]
MCRoot == {zero} \cup [0..(TreeCapacity - 1) -> Commitment]

LimitsOf(maxAmount, capacity, maxFeeBps) ==
  [minShield |-> 1, maxShield |-> maxAmount,
   minWithdrawal |-> 1, maxWithdrawal |-> maxAmount,
   maxCommitments |-> capacity, maxNotes |-> capacity, maxFeeBps |-> maxFeeBps]

MCDefaultLimits == LimitsOf(3, TreeCapacity, 1)
MCInitialStx == [p \in MCPrincipals |-> IF p = alice THEN 5 ELSE 0]
MCUsersStx == [MCInitialStx EXCEPT ![alice] = 6]

\* A flat part and a percentage, and the two settings set-fee refuses.
MCFeeInputs ==
  {[bps |-> 1, flat |-> 1, enabled |-> TRUE],
   [bps |-> 0, flat |-> 2, enabled |-> TRUE],
   [bps |-> 2, flat |-> 1, enabled |-> FALSE]}

\* The upgrades a deployment makes: the circuit version moves, and a later set
\* of versions moves the records.
MCVersionInputs ==
  {[GenesisVersions EXCEPT !.circuit = 3],
   [GenesisVersions EXCEPT !.note = 2, !.commitment = 2, !.root = 2]}
MCLimitInputs == {LimitsOf(3, 1, 1)}

\* c2 and c3 are interchangeable together with their nullifiers.
PairSymmetry == {c2 :> c3 @@ c3 :> c2 @@ n2 :> n3 @@ n3 :> n2}
=============================================================================

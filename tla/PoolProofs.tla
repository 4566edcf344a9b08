------------------------------ MODULE PoolProofs ------------------------------
(***************************************************************************)
(* The composed native pool, for every set of notes, users, staff, limits, *)
(* fees and trees: its ledgers agree, value is conserved, funds are backed,*)
(* every effect has a proof behind it, and it implements ShieldedLedger.   *)
(***************************************************************************)
EXTENDS ShieldedPool, ContractProofs, Sums

-----------------------------------------------------------------------------
(* The tree and the ledgers of notes.                                      *)

\* The types the tree's argument needs: registered trees are trees, and leaf
\* indices were handed out below the counter.
TreeTyped ==
  /\ DOMAIN commitments \subseteq Commitment \ {ZeroHash}
  /\ totalCommitments \in Nat
  /\ \A c \in DOMAIN commitments : commitments[c].index \in 0..(totalCommitments - 1)
  /\ IsFiniteSet(DOMAIN commitments) /\ Cardinality(DOMAIN commitments) = totalCommitments
  /\ DOMAIN merkleRoots \subseteq [Slots -> Commitment]
  /\ currentRoot.root \in DOMAIN merkleRoots

Books == TreeTyped /\ LedgersMatch

bookVars == <<commitmentVars, currentRoot, DOMAIN merkleRoots, DOMAIN notes,
              totalNotes, totalRegistered>>

LEMMA BooksKept == ASSUME Books, UNCHANGED bookVars PROVE Books'
BY DEF Books, bookVars, TreeTyped, LedgersMatch, LedgersAgree, TreeMatchesLedger,
       commitmentVars, LeavesOf

\* What every tree-extending operation does: outs, n of them and all new, get
\* the next leaf indices, a note each, and the leaves at those indices.
Registers(n, outs) ==
  /\ outs \in [1..n -> Commitment \ {ZeroHash}]
  /\ \A k, l \in 1..n : outs[k] = outs[l] => k = l
  /\ \A k \in 1..n : /\ outs[k] \notin DOMAIN commitments
                     /\ totalCommitments + k - 1 \in Slots
  /\ DOMAIN commitments' = DOMAIN commitments \cup {outs[k] : k \in 1..n}
  /\ \A c \in DOMAIN commitments : commitments'[c] = commitments[c]
  /\ \A k \in 1..n : commitments'[outs[k]].index = totalCommitments + k - 1
  /\ totalCommitments' = totalCommitments + n
  /\ DOMAIN notes' = DOMAIN notes \cup {outs[k] : k \in 1..n}
  /\ totalNotes' = totalNotes + n
  /\ totalRegistered' = totalRegistered + n
  /\ currentRoot'.root = Appended(currentRoot.root, totalCommitments, outs)
  /\ DOMAIN merkleRoots' = DOMAIN merkleRoots \cup {currentRoot'.root}

LEMMA OutsCounted ==
  ASSUME Books, NEW n \in 1..2, NEW outs, Registers(n, outs)
  PROVE  /\ IsFiniteSet(DOMAIN commitments')
         /\ Cardinality(DOMAIN commitments') = totalCommitments'
         /\ IsFiniteSet({outs[k] : k \in 1..n}) /\ Cardinality({outs[k] : k \in 1..n}) = n
<1> DEFINE Outs == {outs[k] : k \in 1..n}
<1>1. /\ IsFiniteSet(DOMAIN commitments) /\ Cardinality(DOMAIN commitments) = totalCommitments
      /\ totalCommitments \in Nat
  BY DEF Books, TreeTyped
<1>2. IsFiniteSet(Outs) /\ Cardinality(Outs) = n
  <2>1. CASE n = 1
    <3>1. Outs = {outs[1]}
      BY <2>1
    <3> QED
      BY <2>1, <3>1, FS_Singleton
  <2>2. CASE n = 2
    <3>1. Outs = {outs[1]} \cup {outs[2]} /\ outs[1] # outs[2]
      BY <2>2 DEF Registers
    <3>2. IsFiniteSet({outs[1]}) /\ Cardinality({outs[1]}) = 1
      BY FS_Singleton
    <3>3. IsFiniteSet({outs[1]} \cup {outs[2]}) /\ Cardinality({outs[1]} \cup {outs[2]}) = 1 + 1
      BY <3>1, <3>2, FS_AddElement
    <3> QED
      BY <2>2, <3>1, <3>3
  <2> QED
    BY <2>1, <2>2
<1>3. DOMAIN commitments \cap Outs = {}
  BY DEF Registers
<1> HIDE DEF Outs
<1>4. /\ IsFiniteSet(DOMAIN commitments \cup Outs)
      /\ Cardinality(DOMAIN commitments \cup Outs) = totalCommitments + n
  <2>1. Cardinality({}) = 0
    BY FS_EmptySet
  <2>2. /\ IsFiniteSet(DOMAIN commitments \cup Outs)
        /\ Cardinality(DOMAIN commitments \cup Outs)
             = Cardinality(DOMAIN commitments) + Cardinality(Outs)
                 - Cardinality(DOMAIN commitments \cap Outs)
    BY <1>1, <1>2, FS_Union
  <2>3. Cardinality(DOMAIN commitments \cap Outs) = 0
    BY <1>3, <2>1
  <2>4. Cardinality(DOMAIN commitments \cup Outs) = totalCommitments + n - 0
    BY <1>1, <1>2, <2>2, <2>3
  <2> QED
    BY <1>1, <2>2, <2>4
<1> QED
  BY <1>2, <1>4 DEF Registers, Outs

LEMMA RegistersTree ==
  ASSUME Books, NEW n \in 1..2, NEW outs, Registers(n, outs)
  PROVE  Books'
<1> DEFINE old == currentRoot.root
           new == currentRoot'.root
           t == totalCommitments
<1>1. /\ old \in [Slots -> Commitment] /\ t \in Nat /\ n \in Nat
      /\ DOMAIN commitments \subseteq Commitment \ {ZeroHash}
      /\ \A c \in DOMAIN commitments : commitments[c].index \in 0..(t - 1)
      /\ DOMAIN merkleRoots \subseteq [Slots -> Commitment]
      /\ old \in DOMAIN merkleRoots
  BY DEF Books, TreeTyped
<1>2. new = [i \in Slots |-> IF i - t + 1 \in 1..n THEN outs[i - t + 1] ELSE old[i]]
  <2>1. DOMAIN outs = 1..n
    BY DEF Registers
  <2> QED
    BY <2>1 DEF Registers, Appended
<1>3. /\ outs \in [1..n -> Commitment \ {ZeroHash}]
      /\ \A k, l \in 1..n : outs[k] = outs[l] => k = l
      /\ \A k \in 1..n : outs[k] \notin DOMAIN commitments /\ t + k - 1 \in Slots
      /\ DOMAIN commitments' = DOMAIN commitments \cup {outs[k] : k \in 1..n}
      /\ \A c \in DOMAIN commitments : commitments'[c] = commitments[c]
      /\ \A k \in 1..n : commitments'[outs[k]].index = t + k - 1
      /\ totalCommitments' = t + n
      /\ DOMAIN merkleRoots' = DOMAIN merkleRoots \cup {new}
  BY DEF Registers
<1>4. /\ \A i \in Slots, c \in Commitment \ {ZeroHash} :
           old[i] = c <=> c \in DOMAIN commitments /\ commitments[c].index = i
      /\ \A root \in DOMAIN merkleRoots : \A c \in LeavesOf(root) :
           c \in DOMAIN commitments /\ root[commitments[c].index] = c
  BY DEF Books, LedgersMatch, TreeMatchesLedger
<1>5. Slots \subseteq Int
  BY DEF Slots
<1> HIDE DEF old, new, t
<1>6. new \in [Slots -> Commitment]
  BY <1>1, <1>2, <1>3
<1>7. \A c \in DOMAIN commitments' : commitments'[c].index \in 0..(totalCommitments' - 1)
  <2>1. ASSUME NEW c \in DOMAIN commitments
        PROVE  commitments'[c].index \in 0..(totalCommitments' - 1)
    BY <1>1, <1>3, <2>1
  <2>2. ASSUME NEW k \in 1..n
        PROVE  commitments'[outs[k]].index \in 0..(totalCommitments' - 1)
    BY <1>1, <1>3, <2>2
  <2> QED
    BY <1>3, <2>1, <2>2
<1>8. TreeTyped'
  <2>1. DOMAIN commitments' \subseteq Commitment \ {ZeroHash} /\ totalCommitments' \in Nat
    BY <1>1, <1>3
  <2>2. DOMAIN merkleRoots' \subseteq [Slots -> Commitment] /\ currentRoot'.root \in DOMAIN merkleRoots'
    BY <1>1, <1>3, <1>6 DEF new
  <2> QED
    BY <1>7, <2>1, <2>2, OutsCounted DEF TreeTyped, Slots
\* The new tree holds the outputs at their indices, and elsewhere what it held.
<1>9. \A i \in Slots, c \in Commitment \ {ZeroHash} :
        new[i] = c <=> c \in DOMAIN commitments' /\ commitments'[c].index = i
  <2> SUFFICES ASSUME NEW i \in Slots, NEW c \in Commitment \ {ZeroHash}
               PROVE  new[i] = c <=> c \in DOMAIN commitments' /\ commitments'[c].index = i
    OBVIOUS
  <2>1. CASE c \in DOMAIN commitments
    <3>1. commitments[c].index \in 0..(t - 1) /\ c \in DOMAIN commitments'
      BY <1>1, <1>3, <2>1
    <3>2. CASE i - t + 1 \in 1..n
      <4>1. new[i] = outs[i - t + 1] /\ outs[i - t + 1] # c
        BY <1>2, <1>3, <2>1, <3>2
      <4>2. commitments[c].index # i
        BY <1>1, <1>5, <3>1, <3>2
      <4> QED
        BY <1>3, <2>1, <4>1, <4>2
    <3>3. CASE i - t + 1 \notin 1..n
      BY <1>2, <1>3, <1>4, <2>1, <3>1, <3>3
    <3> QED
      BY <3>2, <3>3
  <2>2. CASE c \notin DOMAIN commitments /\ c \in DOMAIN commitments'
    <3>1. PICK k \in 1..n : c = outs[k]
      BY <1>3, <2>2
    <3>2. commitments'[c].index = t + k - 1 /\ t + k - 1 \in Slots
      BY <1>3, <3>1
    <3>3. CASE i - t + 1 \in 1..n
      <4>1. new[i] = outs[i - t + 1]
        BY <1>2, <3>3
      <4>2. new[i] = c <=> i - t + 1 = k
        BY <1>3, <3>1, <3>3, <4>1
      <4> QED
        BY <1>1, <1>5, <2>2, <3>2, <4>2
    <3>4. CASE i - t + 1 \notin 1..n
      <4>1. new[i] = old[i] /\ old[i] # c
        BY <1>2, <1>4, <2>2, <3>4
      <4>2. i # t + k - 1
        BY <1>1, <1>5, <3>4
      <4> QED
        BY <3>2, <4>1, <4>2
    <3> QED
      BY <3>3, <3>4
  <2>3. CASE c \notin DOMAIN commitments'
    BY <1>2, <1>3, <1>4, <2>3
  <2> QED
    BY <2>1, <2>2, <2>3
<1>10. \A root \in DOMAIN merkleRoots' : \A c \in LeavesOf(root) :
         c \in DOMAIN commitments' /\ root[commitments'[c].index] = c
  <2>1. ASSUME NEW root \in DOMAIN merkleRoots, NEW c \in LeavesOf(root)
        PROVE  c \in DOMAIN commitments' /\ root[commitments'[c].index] = c
    BY <1>3, <1>4, <2>1
  <2>2. ASSUME NEW c \in LeavesOf(new)
        PROVE  c \in DOMAIN commitments' /\ new[commitments'[c].index] = c
    <3>1. PICK i \in Slots : new[i] = c /\ c # ZeroHash
      BY DEF LeavesOf
    <3>2. c \in Commitment \ {ZeroHash}
      BY <1>6, <3>1
    <3> QED
      BY <1>9, <3>1, <3>2
  <2> QED
    BY <1>3, <2>1, <2>2
<1>11. TreeMatchesLedger'
  BY <1>9, <1>10 DEF TreeMatchesLedger, new, LeavesOf, Slots
<1>12. LedgersAgree'
  BY DEF Books, LedgersMatch, LedgersAgree, Registers
<1> QED
  BY <1>8, <1>11, <1>12 DEF Books, LedgersMatch


-----------------------------------------------------------------------------
(* Notes and their value.                                                   *)

LedgerInv == Books /\ totalNullifiers \in Nat /\ TotalsFollowNotes

LEMMA AmountIsSum == \A S : AmountOf(S) = SumOf(NoteAmount, S)
BY DEF AmountOf, SumOf

\* What every user operation does to the notes: it consumes ins, unspent native
\* notes, creates outs, and moves the shielded total by the difference.
Moves(ins, outs) ==
  /\ ins \subseteq UnspentOf(Stx) /\ IsFiniteSet(ins)
  /\ outs \subseteq Commitment \ {ZeroHash} /\ IsFiniteSet(outs)
  /\ outs \cap DOMAIN commitments = {}
  /\ \A c \in outs : AssetOf[c] = Stx
  /\ DOMAIN commitments' = DOMAIN commitments \cup outs
  /\ totalCommitments' = totalCommitments + Cardinality(outs)
  /\ nullifiers' = nullifiers \cup {NullifierOf[c] : c \in ins}
  /\ totalNullifiers' = totalNullifiers + Cardinality(ins)
  /\ totalShieldedStx' = totalShieldedStx + SumOf(NoteAmount, outs) - SumOf(NoteAmount, ins)

\* The spent and the unspent notes after a move.
LEMMA MovedNotes ==
  ASSUME LedgerInv, NEW ins, NEW outs, Moves(ins, outs)
  PROVE  /\ SpentNotes' = SpentNotes \cup ins
         /\ UnspentNotes' = (UnspentNotes \ ins) \cup outs
         /\ UnspentOf(Stx)' = (UnspentOf(Stx) \ ins) \cup outs
         /\ ins \subseteq UnspentNotes /\ outs \cap (UnspentNotes \cup SpentNotes) = {}
<1>1. /\ DOMAIN commitments \subseteq Commitment \ {ZeroHash}
      /\ nullifiers = {NullifierOf[c] : c \in SpentNotes}
  BY DEF LedgerInv, Books, TreeTyped, TotalsFollowNotes, SpendsAreOfRealNotes
<1>2. /\ ins \subseteq DOMAIN commitments /\ ins \subseteq UnspentNotes
      /\ SpentNotes \subseteq DOMAIN commitments
  BY DEF Moves, UnspentOf, UnspentNotes, SpentNotes
<1>3. \A c, d \in Commitment \ {ZeroHash} : NullifierOf[c] = NullifierOf[d] => c = d
  BY NotesAssumption
<1>4. \A c \in DOMAIN commitments' : NullifierOf[c] \in nullifiers' <=> c \in SpentNotes \cup ins
  <2> SUFFICES ASSUME NEW c \in DOMAIN commitments'
               PROVE  NullifierOf[c] \in nullifiers' <=> c \in SpentNotes \cup ins
    OBVIOUS
  <2>1. nullifiers' = {NullifierOf[d] : d \in SpentNotes \cup ins}
    BY <1>1 DEF Moves
  <2>2. c \in Commitment \ {ZeroHash}
    BY <1>1 DEF Moves
  <2> QED
    BY <1>1, <1>2, <1>3, <2>1, <2>2
<1>5. SpentNotes' = SpentNotes \cup ins
  BY <1>2, <1>4 DEF SpentNotes, Moves
<1>6. /\ DOMAIN commitments' = DOMAIN commitments \cup outs
      /\ outs \cap DOMAIN commitments = {}
      /\ \A c \in outs : AssetOf[c] = Stx
  BY DEF Moves
<1>7. UnspentNotes' = (UnspentNotes \ ins) \cup outs
  BY <1>2, <1>5, <1>6 DEF UnspentNotes
<1>8. UnspentOf(Stx)' = (UnspentOf(Stx) \ ins) \cup outs
  BY <1>6, <1>7 DEF UnspentOf
<1> QED
  BY <1>2, <1>5, <1>6, <1>7, <1>8 DEF UnspentNotes

\* Taking out some of a finite set's members and adding new ones.
LEMMA Exchanged ==
  ASSUME NEW S, IsFiniteSet(S), NEW ins, ins \subseteq S,
         NEW outs, IsFiniteSet(outs), outs \cap S = {}
  PROVE  /\ IsFiniteSet(ins) /\ IsFiniteSet((S \ ins) \cup outs)
         /\ Cardinality((S \ ins) \cup outs) = Cardinality(S) - Cardinality(ins) + Cardinality(outs)
         /\ Cardinality(S) \in Nat /\ Cardinality(ins) \in Nat /\ Cardinality(outs) \in Nat
<1>1. IsFiniteSet(ins) /\ IsFiniteSet(S \ ins)
  BY FS_Subset
<1>2. /\ Cardinality(S) \in Nat /\ Cardinality(ins) \in Nat /\ Cardinality(outs) \in Nat
      /\ Cardinality(S \ ins) \in Nat
  BY <1>1, FS_CardinalityType
<1>3. Cardinality({}) = 0
  BY FS_EmptySet
<1>4. Cardinality(S \ ins) = Cardinality(S) - Cardinality(ins)
  <2>1. S \cap ins = ins
    OBVIOUS
  <2>2. Cardinality(S \ ins) = Cardinality(S) - Cardinality(S \cap ins)
    BY FS_Difference
  <2> QED
    BY <2>1, <2>2
<1>5. /\ IsFiniteSet((S \ ins) \cup outs)
      /\ Cardinality((S \ ins) \cup outs) = Cardinality(S \ ins) + Cardinality(outs)
  <2>1. (S \ ins) \cap outs = {}
    OBVIOUS
  <2>2. /\ IsFiniteSet((S \ ins) \cup outs)
        /\ Cardinality((S \ ins) \cup outs)
             = Cardinality(S \ ins) + Cardinality(outs) - Cardinality((S \ ins) \cap outs)
    BY <1>1, FS_Union
  <2>3. Cardinality((S \ ins) \cap outs) = 0
    BY <1>3, <2>1
  <2> QED
    BY <1>2, <2>2, <2>3
<1> QED
  BY <1>1, <1>2, <1>4, <1>5

LEMMA SumExchanged ==
  ASSUME NEW V, NEW S, IsFiniteSet(S), NEW ins, ins \subseteq S,
         NEW outs, IsFiniteSet(outs), outs \cap S = {}, \A x \in S \cup outs : V[x] \in Nat
  PROVE  /\ SumOf(V, (S \ ins) \cup outs) = SumOf(V, S) - SumOf(V, ins) + SumOf(V, outs)
         /\ SumOf(V, S) \in Nat /\ SumOf(V, ins) \in Nat /\ SumOf(V, outs) \in Nat
         /\ SumOf(V, ins) <= SumOf(V, S)
<1>1. IsFiniteSet(ins) /\ IsFiniteSet(S \ ins)
  BY FS_Subset
<1>2. /\ \A x \in ins : V[x] \in Nat
      /\ \A x \in S \ ins : V[x] \in Nat
      /\ \A x \in outs : V[x] \in Nat
      /\ \A x \in (S \ ins) \cup outs : V[x] \in Nat
      /\ \A x \in (S \ ins) \cup ins : V[x] \in Nat
      /\ \A x \in S : V[x] \in Nat
  OBVIOUS
<1>3. /\ SumOf(V, S) \in Nat /\ SumOf(V, ins) \in Nat /\ SumOf(V, outs) \in Nat
      /\ SumOf(V, S \ ins) \in Nat
  BY <1>1, <1>2, SumType
<1>4. SumOf(V, S) = SumOf(V, S \ ins) + SumOf(V, ins)
  <2>1. (S \ ins) \cap ins = {} /\ (S \ ins) \cup ins = S
    OBVIOUS
  <2>2. SumOf(V, (S \ ins) \cup ins) = SumOf(V, S \ ins) + SumOf(V, ins)
    BY <1>1, <1>2, <2>1, SumUnion
  <2> QED
    BY <2>1, <2>2
<1>5. SumOf(V, (S \ ins) \cup outs) = SumOf(V, S \ ins) + SumOf(V, outs)
  <2>1. (S \ ins) \cap outs = {}
    OBVIOUS
  <2> QED
    BY <1>1, <1>2, <2>1, SumUnion
<1> QED
  BY <1>3, <1>4, <1>5

\* A move keeps the totals those of the notes.
LEMMA MovesKeepTotals ==
  ASSUME LedgerInv, NEW ins, NEW outs, Moves(ins, outs)
  PROVE  TotalsFollowNotes' /\ totalNullifiers' \in Nat
<1>1. /\ IsFiniteSet(UnspentNotes) /\ IsFiniteSet(UnspentOf(Stx))
      /\ UnspentOf(Stx) \subseteq UnspentNotes
      /\ UnspentNotes \subseteq Commitment \ {ZeroHash}
  <2>1. IsFiniteSet(DOMAIN commitments) /\ DOMAIN commitments \subseteq Commitment \ {ZeroHash}
    BY DEF LedgerInv, Books, TreeTyped
  <2>2. UnspentNotes \subseteq DOMAIN commitments /\ UnspentOf(Stx) \subseteq UnspentNotes
    BY DEF UnspentNotes, UnspentOf
  <2> QED
    BY <2>1, <2>2, FS_Subset
<1>2. /\ IsFiniteSet(outs) /\ outs \subseteq Commitment \ {ZeroHash}
      /\ ins \subseteq UnspentOf(Stx)
      /\ totalCommitments' = totalCommitments + Cardinality(outs)
      /\ totalNullifiers' = totalNullifiers + Cardinality(ins)
      /\ nullifiers' = nullifiers \cup {NullifierOf[c] : c \in ins}
      /\ totalShieldedStx' = totalShieldedStx + SumOf(NoteAmount, outs) - SumOf(NoteAmount, ins)
  BY DEF Moves
<1>3. /\ SpentNotes' = SpentNotes \cup ins
      /\ UnspentNotes' = (UnspentNotes \ ins) \cup outs
      /\ UnspentOf(Stx)' = (UnspentOf(Stx) \ ins) \cup outs
      /\ outs \cap UnspentNotes = {}
      /\ ins \subseteq UnspentNotes
  BY MovedNotes
<1>4. /\ totalShieldedStx = SumOf(NoteAmount, UnspentOf(Stx))
      /\ nullifiers = {NullifierOf[c] : c \in SpentNotes}
      /\ totalNullifiers + Cardinality(UnspentNotes) = totalCommitments
  BY AmountIsSum DEF LedgerInv, TotalsFollowNotes, ValueConserved, SpendsAreOfRealNotes
<1>5. ValueConserved'
  <2>1. \A c \in UnspentOf(Stx) \cup outs : NoteAmount[c] \in Nat
    BY <1>1, <1>2, NotesAssumption
  <2>2. outs \cap UnspentOf(Stx) = {}
    BY <1>1, <1>3
  <2>3. /\ SumOf(NoteAmount, (UnspentOf(Stx) \ ins) \cup outs)
             = SumOf(NoteAmount, UnspentOf(Stx)) - SumOf(NoteAmount, ins) + SumOf(NoteAmount, outs)
        /\ SumOf(NoteAmount, UnspentOf(Stx)) \in Nat
        /\ SumOf(NoteAmount, ins) \in Nat /\ SumOf(NoteAmount, outs) \in Nat
    BY <1>1, <1>2, <2>1, <2>2, SumExchanged
  <2>4. totalShieldedStx' = SumOf(NoteAmount, (UnspentOf(Stx) \ ins) \cup outs)
    BY <1>2, <1>4, <2>3
  <2>5. totalShieldedStx' = SumOf(NoteAmount, UnspentOf(Stx)')
    BY <1>3, <2>4
  <2> QED
    BY <2>5, AmountIsSum DEF ValueConserved
<1>6. SpendsAreOfRealNotes'
  <2>1. nullifiers' = {NullifierOf[c] : c \in SpentNotes'}
    BY <1>2, <1>3, <1>4
  <2>0. outs \cap UnspentNotes = {} /\ ins \subseteq UnspentNotes
    BY <1>3
  <2>2. /\ Cardinality((UnspentNotes \ ins) \cup outs)
             = Cardinality(UnspentNotes) - Cardinality(ins) + Cardinality(outs)
        /\ Cardinality(UnspentNotes) \in Nat /\ Cardinality(ins) \in Nat
        /\ Cardinality(outs) \in Nat
    BY <1>1, <1>2, <2>0, Exchanged
  <2>3. totalNullifiers \in Nat /\ totalCommitments \in Nat
    BY DEF LedgerInv, Books, TreeTyped
  <2>4. totalNullifiers' + Cardinality((UnspentNotes \ ins) \cup outs) = totalCommitments'
    BY <1>2, <1>4, <2>2, <2>3
  <2> QED
    BY <1>3, <2>1, <2>4 DEF SpendsAreOfRealNotes
<1>7. totalNullifiers' \in Nat
  <2>1. Cardinality(ins) \in Nat
    BY FS_CardinalityType DEF Moves
  <2> QED
    BY <1>2, <2>1 DEF LedgerInv
<1> QED
  BY <1>5, <1>6, <1>7 DEF TotalsFollowNotes

-----------------------------------------------------------------------------
(* The five user operations.                                                *)

\* The registry, the note manager and the tree take one output.
LEMMA OnePublished ==
  ASSUME Books, NEW contract, NEW c \in Commitment, NEW s,
         RegisterOutput(contract, c), CheckCurrentRoot(s.root), PublishTree(contract, s),
         s.outs = <<c>>, IsInsertion(s)
  PROVE  Registers(1, <<c>>)
<1> DEFINE v == protocolVersions.commitment
           e == [index |-> totalCommitments, version |-> v]
<1>1. /\ c \notin DOMAIN commitments /\ c # ZeroHash
      /\ commitments' = MapSet(commitments, c, e)
      /\ totalCommitments' = totalCommitments + 1
      /\ c \notin DOMAIN notes
      /\ notes' = MapSet(notes, c, NewNote(protocolVersions.note))
      /\ totalNotes' = totalNotes + 1 /\ totalRegistered' = totalRegistered + 1
  BY DEF RegisterOutput, RegisterCommitmentCall, RegisterNoteCall, RecordNoteCreatedCall
<1>2. /\ DOMAIN commitments' = DOMAIN commitments \cup {c} /\ commitments'[c] = e
      /\ \A k \in DOMAIN commitments : commitments'[k] = commitments[k]
      /\ DOMAIN notes' = DOMAIN notes \cup {c}
  <2> HIDE DEF e
  <2>1. /\ DOMAIN commitments' = DOMAIN commitments \cup {c} /\ commitments'[c] = e
        /\ \A k \in DOMAIN commitments : k # c => commitments'[k] = commitments[k]
    BY <1>1 DEF MapSet
  <2>2. DOMAIN notes' = DOMAIN notes \cup {c}
    BY <1>1 DEF MapSet
  <2> QED
    BY <1>1, <2>1, <2>2
<1>3. commitments'[c].index = totalCommitments
  BY <1>2
<1>4. s.root = currentRoot.root /\ s.leafIndex = totalCommitments
  BY DEF CheckCurrentRoot, PublishTree
<1>5. totalCommitments \in Slots /\ totalCommitments \in Nat
  <2>1. \A k \in DOMAIN s.outs : s.leafIndex + k - 1 \in Slots
    BY DEF IsInsertion
  <2>2. 1 \in DOMAIN s.outs /\ totalCommitments \in Nat
    BY DEF Books, TreeTyped
  <2> QED
    BY <1>4, <2>1, <2>2
<1>6. /\ currentRoot'.root = Appended(currentRoot.root, totalCommitments, <<c>>)
      /\ DOMAIN merkleRoots' = DOMAIN merkleRoots \cup {currentRoot'.root}
  <2>1. s.newRoot = Appended(currentRoot.root, totalCommitments, <<c>>)
    BY <1>4 DEF IsInsertion
  <2>2. /\ currentRoot' = [root |-> s.newRoot, version |-> protocolVersions.root]
        /\ merkleRoots' = MapSet(merkleRoots, s.newRoot,
                                 [version |-> protocolVersions.root, active |-> TRUE])
    BY DEF PublishTree, UpdateRootCall
  <2>3. currentRoot'.root = s.newRoot
    BY <2>2
  <2>4. DOMAIN merkleRoots' = DOMAIN merkleRoots \cup {s.newRoot}
    BY <2>2 DEF MapSet
  <2> QED
    BY <2>1, <2>3, <2>4
<1>7. /\ <<c>> \in [1..1 -> Commitment \ {ZeroHash}]
      /\ {<<c>>[k] : k \in 1..1} = {c}
      /\ \A k \in 1..1 : k = 1 /\ <<c>>[k] = c
  BY <1>1
<1> QED
  BY <1>1, <1>2, <1>3, <1>5, <1>6, <1>7 DEF Registers

\* A split's two outputs.
LEMMA TwoPublished ==
  ASSUME Books, NEW contract, NEW c \in Commitment, NEW d \in Commitment, NEW s,
         RegisterCommitmentPairCall(contract, c, d, protocolVersions.commitment),
         RegisterNotePairCall(contract, c, d, protocolVersions.note),
         CheckCurrentRoot(s.root), PublishTree(contract, s),
         s.outs = <<c, d>>, IsInsertion(s)
  PROVE  Registers(2, <<c, d>>)
<1> DEFINE v == protocolVersions.commitment
           e == [index |-> totalCommitments, version |-> v]
           g == [index |-> totalCommitments + 1, version |-> v]
           n == NewNote(protocolVersions.note)
<1>1. /\ c \notin DOMAIN commitments /\ c # ZeroHash
      /\ d \notin DOMAIN commitments /\ d # ZeroHash /\ c # d
      /\ commitments' = MapSet(MapSet(commitments, c, e), d, g)
      /\ totalCommitments' = totalCommitments + 2
      /\ notes' = MapSet(MapSet(notes, c, n), d, n)
      /\ totalNotes' = totalNotes + 2 /\ totalRegistered' = totalRegistered + 2
  BY DEF RegisterCommitmentPairCall, RegisterNotePairCall, RecordNotePairCreatedCall
<1>2. /\ DOMAIN commitments' = DOMAIN commitments \cup {c, d}
      /\ commitments'[c] = e /\ commitments'[d] = g
      /\ \A k \in DOMAIN commitments : commitments'[k] = commitments[k]
      /\ DOMAIN notes' = DOMAIN notes \cup {c, d}
  <2> HIDE DEF e, g, n
  <2>1. PICK m : m = MapSet(commitments, c, e)
    OBVIOUS
  <2>2. PICK w : w = MapSet(notes, c, n)
    OBVIOUS
  <2>3. commitments' = MapSet(m, d, g) /\ notes' = MapSet(w, d, n)
    BY <1>1, <2>1, <2>2
  <2>4. /\ DOMAIN m = DOMAIN commitments \cup {c} /\ m[c] = e
        /\ \A k \in DOMAIN commitments : k # c => m[k] = commitments[k]
    BY <2>1 DEF MapSet
  <2>5. /\ DOMAIN commitments' = DOMAIN m \cup {d} /\ commitments'[d] = g
        /\ \A k \in DOMAIN m : k # d => commitments'[k] = m[k]
    BY <2>3 DEF MapSet
  <2>6. DOMAIN w = DOMAIN notes \cup {c}
    BY <2>2 DEF MapSet
  <2>7. DOMAIN notes' = DOMAIN w \cup {d}
    BY <2>3 DEF MapSet
  <2> QED
    BY <1>1, <2>4, <2>5, <2>6, <2>7
<1>3. commitments'[c].index = totalCommitments /\ commitments'[d].index = totalCommitments + 1
  BY <1>2
<1>4. s.root = currentRoot.root /\ s.leafIndex = totalCommitments
  BY DEF CheckCurrentRoot, PublishTree
<1>5. totalCommitments \in Slots /\ totalCommitments + 1 \in Slots /\ totalCommitments \in Nat
  <2>1. \A k \in DOMAIN s.outs : s.leafIndex + k - 1 \in Slots
    BY DEF IsInsertion
  <2>2. 1 \in DOMAIN s.outs /\ 2 \in DOMAIN s.outs /\ totalCommitments \in Nat
    BY DEF Books, TreeTyped
  <2>3. totalCommitments + 1 - 1 \in Slots /\ totalCommitments + 2 - 1 \in Slots
    BY <1>4, <2>1, <2>2
  <2> QED
    BY <2>2, <2>3
<1>6. /\ currentRoot'.root = Appended(currentRoot.root, totalCommitments, <<c, d>>)
      /\ DOMAIN merkleRoots' = DOMAIN merkleRoots \cup {currentRoot'.root}
  <2>1. s.newRoot = Appended(currentRoot.root, totalCommitments, <<c, d>>)
    BY <1>4 DEF IsInsertion
  <2>2. /\ currentRoot' = [root |-> s.newRoot, version |-> protocolVersions.root]
        /\ merkleRoots' = MapSet(merkleRoots, s.newRoot,
                                 [version |-> protocolVersions.root, active |-> TRUE])
    BY DEF PublishTree, UpdateRootCall
  <2>3. currentRoot'.root = s.newRoot
    BY <2>2
  <2>4. DOMAIN merkleRoots' = DOMAIN merkleRoots \cup {s.newRoot}
    BY <2>2 DEF MapSet
  <2> QED
    BY <2>1, <2>3, <2>4
<1>7. /\ <<c, d>> \in [1..2 -> Commitment \ {ZeroHash}]
      /\ <<c, d>>[1] = c /\ <<c, d>>[2] = d
      /\ {<<c, d>>[k] : k \in 1..2} = {c, d}
      /\ \A k \in 1..2 : k = 1 \/ k = 2
  BY <1>1
<1> DEFINE outs == <<c, d>>
<1> HIDE DEF outs, e, g, n
<1>8. /\ outs \in [1..2 -> Commitment \ {ZeroHash}]
      /\ outs[1] = c /\ outs[2] = d /\ {outs[k] : k \in 1..2} = {c, d}
  BY <1>7 DEF outs
<1>9. \A k, l \in 1..2 : outs[k] = outs[l] => k = l
  BY <1>1, <1>7, <1>8
<1>10. \A k \in 1..2 : /\ outs[k] \notin DOMAIN commitments
                       /\ totalCommitments + k - 1 \in Slots
                       /\ commitments'[outs[k]].index = totalCommitments + k - 1
  <2>1. totalCommitments + 1 - 1 = totalCommitments /\ totalCommitments + 2 - 1 = totalCommitments + 1
    BY <1>5
  <2>2. outs[1] \notin DOMAIN commitments /\ outs[2] \notin DOMAIN commitments
    BY <1>1, <1>8
  <2>3. /\ commitments'[outs[1]].index = totalCommitments
        /\ commitments'[outs[2]].index = totalCommitments + 1
    BY <1>3, <1>8
  <2> QED
    BY <1>5, <1>7, <2>1, <2>2, <2>3
<1>11. currentRoot'.root = Appended(currentRoot.root, totalCommitments, outs)
  BY <1>6 DEF outs
<1>12. Registers(2, outs)
  BY <1>1, <1>2, <1>6, <1>8, <1>9, <1>10, <1>11 DEF Registers
<1> QED
  BY <1>12 DEF outs

\* The relation behind an accepted statement.
LEMMA ProvedRelation ==
  ASSUME NEW contract, NEW s, VerifyStatement(contract, s)
  PROVE  /\ s.op = 1 => ShieldCircuit(s)
         /\ s.op = 2 => TransferCircuit(s)
         /\ s.op = 3 => WithdrawCircuit(s)
         /\ s.op = 4 => SplitCircuit(s)
         /\ s.op = 5 => MergeCircuit(s)
<1>1. Provable(s)
  BY DEF VerifyStatement, VerifyProofCall
<1> QED
  BY <1>1 DEF Provable, PROOF_TYPE_SHIELD, PROOF_TYPE_TRANSFER, PROOF_TYPE_WITHDRAWAL,
              PROOF_TYPE_SPLIT, PROOF_TYPE_MERGE

\* A leaf of a registered root whose nullifier is not consumed is an unspent
\* note; the native circuits open only native ones.
LEMMA LeafUnspent ==
  ASSUME Books, NEW s, s.root \in DOMAIN merkleRoots, s.asset = Stx,
         NEW c \in LeavesOf(s.root), NEW n, n \notin nullifiers, Spends(s, n, c)
  PROVE  c \in UnspentOf(Stx) /\ n = NullifierOf[c] /\ c \in Commitment \ {ZeroHash}
<1>1. c \in DOMAIN commitments
  BY DEF Books, LedgersMatch, TreeMatchesLedger
<1> QED
  BY <1>1 DEF Books, TreeTyped, Spends, Opens, UnspentOf, UnspentNotes, SpentNotes

LEMMA TotalIsNat == LedgerInv => totalShieldedStx \in Nat
<1> SUFFICES ASSUME LedgerInv PROVE totalShieldedStx \in Nat
  OBVIOUS
<1>1. IsFiniteSet(DOMAIN commitments) /\ DOMAIN commitments \subseteq Commitment \ {ZeroHash}
  BY DEF LedgerInv, Books, TreeTyped
<1>2. UnspentOf(Stx) \subseteq DOMAIN commitments
  BY DEF UnspentOf, UnspentNotes
<1>3. IsFiniteSet(UnspentOf(Stx)) /\ \A c \in UnspentOf(Stx) : NoteAmount[c] \in Nat
  BY <1>1, <1>2, FS_Subset, NotesAssumption
<1>4. SumOf(NoteAmount, UnspentOf(Stx)) \in Nat
  BY <1>3, SumType
<1> QED
  BY <1>4, AmountIsSum DEF LedgerInv, TotalsFollowNotes, ValueConserved

LEMMA OneNote ==
  ASSUME NEW c \in Commitment \ {ZeroHash}
  PROVE  /\ IsFiniteSet({c}) /\ Cardinality({c}) = 1
         /\ SumOf(NoteAmount, {c}) = NoteAmount[c] /\ NoteAmount[c] \in Nat
<1>1. NoteAmount[c] \in Nat
  BY NotesAssumption
<1> QED
  BY <1>1, FS_Singleton, SumOne

LEMMA TwoNotes ==
  ASSUME NEW c \in Commitment \ {ZeroHash}, NEW d \in Commitment \ {ZeroHash}, c # d
  PROVE  /\ IsFiniteSet({c, d}) /\ Cardinality({c, d}) = 2
         /\ SumOf(NoteAmount, {c, d}) = NoteAmount[c] + NoteAmount[d]
         /\ NoteAmount[c] \in Nat /\ NoteAmount[d] \in Nat
<1>1. NoteAmount[c] \in Nat /\ NoteAmount[d] \in Nat
  BY NotesAssumption
<1>2. {c, d} = {c} \cup {d} /\ d \notin {c}
  OBVIOUS
<1>3. IsFiniteSet({c}) /\ Cardinality({c}) = 1
  BY FS_Singleton
<1>4. IsFiniteSet({c} \cup {d}) /\ Cardinality({c} \cup {d}) = 1 + 1
  BY <1>2, <1>3, FS_AddElement
<1>5. SumOf(NoteAmount, {c, d}) = NoteAmount[c] + NoteAmount[d]
  BY <1>1, SumTwo
<1>6. IsFiniteSet({c, d}) /\ Cardinality({c, d}) = 1 + 1
  BY <1>2, <1>4
<1> QED
  BY <1>1, <1>5, <1>6

LEMMA NoNotes == IsFiniteSet({}) /\ Cardinality({}) = 0 /\ SumOf(NoteAmount, {}) = 0
BY FS_EmptySet, SumEmpty

LEMMA OneRegistered ==
  ASSUME Books, NEW c, Registers(1, <<c>>)
  PROVE  Books'
<1>1. 1 \in 1..2
  OBVIOUS
<1> QED
  BY <1>1, RegistersTree

LEMMA TwoRegistered ==
  ASSUME Books, NEW c, NEW d, Registers(2, <<c, d>>)
  PROVE  Books'
<1>1. 2 \in 1..2
  OBVIOUS
<1> QED
  BY <1>1, RegistersTree

LEMMA ShieldMoves ==
  ASSUME LedgerInv, NEW user, Shield(user)
  PROVE  Books' /\ \E c \in Commitment : Moves({}, {c})
<1>1. PICK root \in DOMAIN merkleRoots, c \in Commitment :
        /\ CheckCurrentRoot(root)
        /\ RegisterOutput(PoolContract, c)
        /\ \E amount \in AmountInputs, slot \in Slots :
             LET s == TreeStatement(PROOF_TYPE_SHIELD, <<>>, <<c>>, amount, root, slot)
             IN  /\ PublishTree(PoolContract, s)
                 /\ VerifyStatement(PoolContract, s)
                 /\ RecordShieldCall(PoolContract, amount)
  BY DEF Shield
<1>2. PICK amount \in AmountInputs, slot \in Slots :
        LET s == TreeStatement(PROOF_TYPE_SHIELD, <<>>, <<c>>, amount, root, slot)
        IN  /\ PublishTree(PoolContract, s)
            /\ VerifyStatement(PoolContract, s)
            /\ RecordShieldCall(PoolContract, amount)
  BY <1>1
<1> DEFINE s == TreeStatement(PROOF_TYPE_SHIELD, <<>>, <<c>>, amount, root, slot)
<1>3. /\ s.op = 1 /\ s.outs = <<c>> /\ s.amount = amount /\ s.root = root /\ s.asset = Stx
  BY DEF TreeStatement, TreeInputs, PROOF_TYPE_SHIELD
<1>4. /\ PublishTree(PoolContract, s) /\ VerifyStatement(PoolContract, s)
      /\ totalShieldedStx' = totalShieldedStx + amount
  BY <1>2 DEF RecordShieldCall
<1>5. nullifiers' = nullifiers /\ totalNullifiers' = totalNullifiers
  BY DEF Shield, nullifierVars
<1> HIDE DEF s
<1>6. IsInsertion(s) /\ NoteAmount[c] = amount
  BY <1>3, <1>4, ProvedRelation DEF ShieldCircuit
<1>7. Registers(1, <<c>>)
  BY <1>1, <1>3, <1>4, <1>6, OnePublished DEF LedgerInv
<1>8. AssetOf[c] = Stx /\ c \in Commitment \ {ZeroHash}
  BY <1>3, <1>6 DEF IsInsertion, Opens
<1>9. /\ DOMAIN commitments' = DOMAIN commitments \cup {c} /\ c \notin DOMAIN commitments
      /\ totalCommitments' = totalCommitments + 1
  BY <1>7 DEF Registers
<1>10. /\ totalShieldedStx' = totalShieldedStx + SumOf(NoteAmount, {c}) - SumOf(NoteAmount, {})
       /\ totalNullifiers' = totalNullifiers + Cardinality({})
  BY <1>4, <1>5, <1>6, <1>8, OneNote, NoNotes, TotalIsNat DEF LedgerInv
<1>11. Moves({}, {c})
  BY <1>5, <1>8, <1>9, <1>10, OneNote, NoNotes DEF Moves
<1> QED
  BY <1>7, <1>11, OneRegistered DEF LedgerInv

LEMMA TransferMoves ==
  ASSUME LedgerInv, NEW user, Transfer(user)
  PROVE  /\ Books' /\ totalShieldedStx' = totalShieldedStx
         /\ \E c, d \in Commitment \ {ZeroHash} : Moves({c}, {d}) /\ NoteAmount[c] = NoteAmount[d]
<1>1. PICK root \in DOMAIN merkleRoots, n \in Nullifier :
        /\ CheckCurrentRoot(root)
        /\ RegisterNullifierCall(PoolContract, n)
        /\ \E c \in Commitment, slot \in Slots :
             LET s == TreeStatement(PROOF_TYPE_TRANSFER, <<n>>, <<c>>, 0, root, slot)
             IN  /\ RegisterOutput(PoolContract, c)
                 /\ PublishTree(PoolContract, s)
                 /\ VerifyStatement(PoolContract, s)
        /\ RecordTransferCall(PoolContract)
  BY DEF Transfer
<1>2. PICK d \in Commitment, slot \in Slots :
        LET s == TreeStatement(PROOF_TYPE_TRANSFER, <<n>>, <<d>>, 0, root, slot)
        IN  /\ RegisterOutput(PoolContract, d)
            /\ PublishTree(PoolContract, s)
            /\ VerifyStatement(PoolContract, s)
  BY <1>1
<1> DEFINE s == TreeStatement(PROOF_TYPE_TRANSFER, <<n>>, <<d>>, 0, root, slot)
<1>3. /\ s.op = 2 /\ s.ins = <<n>> /\ s.outs = <<d>> /\ s.root = root /\ s.asset = Stx
  BY DEF TreeStatement, TreeInputs, PROOF_TYPE_TRANSFER
<1>4. /\ RegisterOutput(PoolContract, d)
      /\ PublishTree(PoolContract, s) /\ VerifyStatement(PoolContract, s)
  BY <1>2
<1>5. /\ n \notin nullifiers /\ nullifiers' = nullifiers \cup {n}
      /\ totalNullifiers' = totalNullifiers + 1
      /\ totalShieldedStx' = totalShieldedStx
  BY <1>1 DEF RegisterNullifierCall, RecordTransferCall
<1> HIDE DEF s
<1>6. TransferCircuit(s)
  BY <1>3, <1>4, ProvedRelation
<1>7. PICK c \in LeavesOf(s.root) : Spends(s, s.ins[1], c) /\ NoteAmount[c] = NoteAmount[s.outs[1]]
  BY <1>6 DEF TransferCircuit
<1>8. s.ins[1] = n /\ s.outs[1] = d
  BY <1>3
<1>9. c \in UnspentOf(Stx) /\ n = NullifierOf[c] /\ c \in Commitment \ {ZeroHash}
  <2>1. Books /\ s.root \in DOMAIN merkleRoots /\ Spends(s, n, c)
    BY <1>3, <1>7, <1>8 DEF LedgerInv
  <2> QED
    BY <1>3, <1>5, <2>1, LeafUnspent
<1>10. IsInsertion(s)
  BY <1>6 DEF TransferCircuit
<1>11. Registers(1, <<d>>)
  BY <1>1, <1>3, <1>4, <1>10, OnePublished DEF LedgerInv
<1>12. AssetOf[d] = Stx /\ d \in Commitment \ {ZeroHash}
  BY <1>3, <1>10 DEF IsInsertion, Opens
<1>13. /\ DOMAIN commitments' = DOMAIN commitments \cup {d} /\ d \notin DOMAIN commitments
       /\ totalCommitments' = totalCommitments + 1
  BY <1>11 DEF Registers
<1>14. NoteAmount[c] = NoteAmount[d]
  BY <1>7, <1>8
<1>15. /\ nullifiers' = nullifiers \cup {NullifierOf[x] : x \in {c}}
       /\ totalNullifiers' = totalNullifiers + Cardinality({c})
  BY <1>5, <1>9, OneNote
<1>16. totalShieldedStx' = totalShieldedStx + SumOf(NoteAmount, {d}) - SumOf(NoteAmount, {c})
  BY <1>5, <1>9, <1>12, <1>14, OneNote, TotalIsNat
<1>17. Moves({c}, {d})
  BY <1>9, <1>12, <1>13, <1>15, <1>16, OneNote DEF Moves
<1> QED
  BY <1>5, <1>9, <1>11, <1>12, <1>14, <1>17, OneRegistered DEF LedgerInv

LEMMA WithdrawMoves ==
  ASSUME LedgerInv, NEW user, Withdraw(user)
  PROVE  Books' /\ \E c \in Commitment \ {ZeroHash} : Moves({c}, {})
<1>1. PICK n \in Nullifier :
        /\ RegisterNullifierCall(PoolContract, n)
        /\ \E root \in DOMAIN merkleRoots, amount \in AmountInputs, recipient \in RecipientInputs :
             /\ VerifyStatement(PoolContract, WithdrawStatement(n, amount, recipient, root))
             /\ RecordWithdrawalCall(PoolContract, amount)
  BY DEF Withdraw
<1>2. PICK root \in DOMAIN merkleRoots, amount \in AmountInputs, recipient \in RecipientInputs :
        /\ VerifyStatement(PoolContract, WithdrawStatement(n, amount, recipient, root))
        /\ RecordWithdrawalCall(PoolContract, amount)
  BY <1>1
<1> DEFINE s == WithdrawStatement(n, amount, recipient, root)
<1>3. s.op = 3 /\ s.ins = <<n>> /\ s.root = root /\ s.asset = Stx /\ s.amount = amount
  BY DEF WithdrawStatement, WithdrawInputs, PROOF_TYPE_WITHDRAWAL
<1>4. VerifyStatement(PoolContract, s) /\ totalShieldedStx' = totalShieldedStx - amount
  BY <1>2 DEF RecordWithdrawalCall
<1>5. /\ n \notin nullifiers /\ nullifiers' = nullifiers \cup {n}
      /\ totalNullifiers' = totalNullifiers + 1
  BY <1>1 DEF RegisterNullifierCall
<1>6. UNCHANGED bookVars
  BY DEF Withdraw, bookVars, rootVars, noteVars
<1> HIDE DEF s
<1>7. PICK c \in LeavesOf(s.root) : Spends(s, s.ins[1], c) /\ NoteAmount[c] = s.amount
  BY <1>3, <1>4, ProvedRelation DEF WithdrawCircuit
<1>8. s.ins[1] = n
  BY <1>3
<1>9. c \in UnspentOf(Stx) /\ n = NullifierOf[c] /\ c \in Commitment \ {ZeroHash}
  <2>1. Books /\ s.root \in DOMAIN merkleRoots /\ Spends(s, n, c)
    BY <1>3, <1>7, <1>8 DEF LedgerInv
  <2> QED
    BY <1>3, <1>5, <2>1, LeafUnspent
<1>10. /\ nullifiers' = nullifiers \cup {NullifierOf[x] : x \in {c}}
       /\ totalNullifiers' = totalNullifiers + Cardinality({c})
  BY <1>5, <1>9, OneNote
<1>11. totalShieldedStx' = totalShieldedStx + SumOf(NoteAmount, {}) - SumOf(NoteAmount, {c})
  BY <1>3, <1>4, <1>7, <1>9, OneNote, NoNotes, TotalIsNat
<1>12. /\ DOMAIN commitments' = DOMAIN commitments
       /\ totalCommitments' = totalCommitments + Cardinality({})
  BY <1>6, NoNotes DEF bookVars, commitmentVars, LedgerInv, Books, TreeTyped
<1>13. Moves({c}, {})
  BY <1>9, <1>10, <1>11, <1>12, OneNote, NoNotes DEF Moves
<1> QED
  BY <1>6, <1>9, <1>13, BooksKept DEF LedgerInv

LEMMA SplitMoves ==
  ASSUME LedgerInv, NEW user, SplitNote(user)
  PROVE  /\ Books' /\ totalShieldedStx' = totalShieldedStx
         /\ \E c, d, e \in Commitment \ {ZeroHash} :
              /\ Moves({c}, {d, e}) /\ d # e
              /\ NoteAmount[c] = NoteAmount[d] + NoteAmount[e]
<1>1. PICK root \in DOMAIN merkleRoots, n \in Nullifier :
        /\ CheckCurrentRoot(root)
        /\ RegisterNullifierCall(SplitMergeContract, n)
        /\ \E d, e \in Commitment, slot \in Slots :
             LET s == TreeStatement(PROOF_TYPE_SPLIT, <<n>>, <<d, e>>, 0, root, slot)
             IN  /\ RegisterCommitmentPairCall(SplitMergeContract, d, e, protocolVersions.commitment)
                 /\ RegisterNotePairCall(SplitMergeContract, d, e, protocolVersions.note)
                 /\ PublishTree(SplitMergeContract, s)
                 /\ VerifyStatement(SplitMergeContract, s)
  BY DEF SplitNote
<1>2. PICK d \in Commitment, e \in Commitment, slot \in Slots :
        LET s == TreeStatement(PROOF_TYPE_SPLIT, <<n>>, <<d, e>>, 0, root, slot)
        IN  /\ RegisterCommitmentPairCall(SplitMergeContract, d, e, protocolVersions.commitment)
            /\ RegisterNotePairCall(SplitMergeContract, d, e, protocolVersions.note)
            /\ PublishTree(SplitMergeContract, s)
            /\ VerifyStatement(SplitMergeContract, s)
  BY <1>1
<1> DEFINE s == TreeStatement(PROOF_TYPE_SPLIT, <<n>>, <<d, e>>, 0, root, slot)
<1>3. /\ s.op = 4 /\ s.ins = <<n>> /\ s.outs = <<d, e>> /\ s.root = root /\ s.asset = Stx
  BY DEF TreeStatement, TreeInputs, PROOF_TYPE_SPLIT
<1>4. /\ RegisterCommitmentPairCall(SplitMergeContract, d, e, protocolVersions.commitment)
      /\ RegisterNotePairCall(SplitMergeContract, d, e, protocolVersions.note)
      /\ PublishTree(SplitMergeContract, s) /\ VerifyStatement(SplitMergeContract, s)
  BY <1>2
<1>5. /\ n \notin nullifiers /\ nullifiers' = nullifiers \cup {n}
      /\ totalNullifiers' = totalNullifiers + 1
  BY <1>1 DEF RegisterNullifierCall
<1>6. totalShieldedStx' = totalShieldedStx
  BY DEF SplitNote, flowVars
<1> HIDE DEF s
<1>7. SplitCircuit(s)
  BY <1>3, <1>4, ProvedRelation
<1>8. PICK c \in LeavesOf(s.root) :
        /\ Spends(s, s.ins[1], c)
        /\ NoteAmount[c] = NoteAmount[s.outs[1]] + NoteAmount[s.outs[2]]
  BY <1>7 DEF SplitCircuit
<1>9. s.ins[1] = n /\ s.outs[1] = d /\ s.outs[2] = e /\ 1 \in DOMAIN s.outs /\ 2 \in DOMAIN s.outs
  BY <1>3
<1>10. c \in UnspentOf(Stx) /\ n = NullifierOf[c] /\ c \in Commitment \ {ZeroHash}
  <2>1. Books /\ s.root \in DOMAIN merkleRoots /\ Spends(s, n, c)
    BY <1>3, <1>8, <1>9 DEF LedgerInv
  <2> QED
    BY <1>3, <1>5, <2>1, LeafUnspent
<1>11. IsInsertion(s)
  BY <1>7 DEF SplitCircuit
<1>12. Registers(2, <<d, e>>)
  BY <1>1, <1>3, <1>4, <1>11, TwoPublished DEF LedgerInv
<1>13. /\ AssetOf[d] = Stx /\ d \in Commitment \ {ZeroHash}
       /\ AssetOf[e] = Stx /\ e \in Commitment \ {ZeroHash} /\ d # e
  BY <1>3, <1>4, <1>9, <1>11 DEF IsInsertion, Opens, RegisterCommitmentPairCall
<1>14. /\ DOMAIN commitments' = DOMAIN commitments \cup {d, e}
       /\ d \notin DOMAIN commitments /\ e \notin DOMAIN commitments
       /\ totalCommitments' = totalCommitments + 2
  <2>1. /\ \A k \in 1..2 : <<d, e>>[k] \notin DOMAIN commitments
        /\ DOMAIN commitments' = DOMAIN commitments \cup {<<d, e>>[k] : k \in 1..2}
        /\ totalCommitments' = totalCommitments + 2
    BY <1>12 DEF Registers
  <2>2. {<<d, e>>[k] : k \in 1..2} = {d, e}
    OBVIOUS
  <2>3. <<d, e>>[1] \notin DOMAIN commitments /\ <<d, e>>[2] \notin DOMAIN commitments
    BY <2>1
  <2>4. <<d, e>>[1] = d /\ <<d, e>>[2] = e
    OBVIOUS
  <2> QED
    BY <2>1, <2>2, <2>3, <2>4
<1>15. NoteAmount[c] = NoteAmount[d] + NoteAmount[e]
  BY <1>8, <1>9
<1>16. /\ nullifiers' = nullifiers \cup {NullifierOf[x] : x \in {c}}
       /\ totalNullifiers' = totalNullifiers + Cardinality({c})
  BY <1>5, <1>10, OneNote
<1>17. /\ IsFiniteSet({d, e}) /\ Cardinality({d, e}) = 2
       /\ SumOf(NoteAmount, {d, e}) = NoteAmount[d] + NoteAmount[e]
       /\ NoteAmount[d] \in Nat /\ NoteAmount[e] \in Nat
  BY <1>13, TwoNotes
<1>18. totalShieldedStx' = totalShieldedStx + SumOf(NoteAmount, {d, e}) - SumOf(NoteAmount, {c})
  <2>1. SumOf(NoteAmount, {c}) = SumOf(NoteAmount, {d, e}) /\ SumOf(NoteAmount, {c}) \in Nat
    BY <1>10, <1>15, <1>17, OneNote
  <2> QED
    BY <1>6, <2>1, TotalIsNat
<1>19. Moves({c}, {d, e})
  BY <1>10, <1>13, <1>14, <1>16, <1>17, <1>18, OneNote DEF Moves
<1> QED
  BY <1>6, <1>10, <1>12, <1>13, <1>15, <1>19, TwoRegistered DEF LedgerInv

LEMMA MergeMoves ==
  ASSUME LedgerInv, NEW user, MergeNotes(user)
  PROVE  /\ Books' /\ totalShieldedStx' = totalShieldedStx
         /\ \E b, c, d \in Commitment \ {ZeroHash} :
              /\ Moves({b, c}, {d}) /\ b # c
              /\ NoteAmount[b] + NoteAmount[c] = NoteAmount[d]
<1>1. PICK root \in DOMAIN merkleRoots, m \in Nullifier, n \in Nullifier :
        /\ CheckCurrentRoot(root)
        /\ RegisterNullifierPairCall(SplitMergeContract, m, n)
        /\ \E d \in Commitment, slot \in Slots :
             LET s == TreeStatement(PROOF_TYPE_MERGE, <<m, n>>, <<d>>, 0, root, slot)
             IN  /\ RegisterOutput(SplitMergeContract, d)
                 /\ PublishTree(SplitMergeContract, s)
                 /\ VerifyStatement(SplitMergeContract, s)
  BY DEF MergeNotes
<1>2. PICK d \in Commitment, slot \in Slots :
        LET s == TreeStatement(PROOF_TYPE_MERGE, <<m, n>>, <<d>>, 0, root, slot)
        IN  /\ RegisterOutput(SplitMergeContract, d)
            /\ PublishTree(SplitMergeContract, s)
            /\ VerifyStatement(SplitMergeContract, s)
  BY <1>1
<1> DEFINE s == TreeStatement(PROOF_TYPE_MERGE, <<m, n>>, <<d>>, 0, root, slot)
<1>3. /\ s.op = 5 /\ s.ins = <<m, n>> /\ s.outs = <<d>> /\ s.root = root /\ s.asset = Stx
  BY DEF TreeStatement, TreeInputs, PROOF_TYPE_MERGE
<1>4. /\ RegisterOutput(SplitMergeContract, d)
      /\ PublishTree(SplitMergeContract, s) /\ VerifyStatement(SplitMergeContract, s)
  BY <1>2
<1>5. /\ m \notin nullifiers /\ n \notin nullifiers /\ nullifiers' = nullifiers \cup {m, n}
      /\ totalNullifiers' = totalNullifiers + 2
  BY <1>1 DEF RegisterNullifierPairCall
<1>6. totalShieldedStx' = totalShieldedStx
  BY DEF MergeNotes, flowVars
<1> HIDE DEF s
<1>7. MergeCircuit(s)
  BY <1>3, <1>4, ProvedRelation
<1>8. PICK b \in LeavesOf(s.root), c \in LeavesOf(s.root) :
        /\ b # c /\ Spends(s, s.ins[1], b) /\ Spends(s, s.ins[2], c)
        /\ NoteAmount[b] + NoteAmount[c] = NoteAmount[s.outs[1]]
  BY <1>7 DEF MergeCircuit
<1>9. s.ins[1] = m /\ s.ins[2] = n /\ s.outs[1] = d
  BY <1>3
<1>10. /\ b \in UnspentOf(Stx) /\ m = NullifierOf[b] /\ b \in Commitment \ {ZeroHash}
       /\ c \in UnspentOf(Stx) /\ n = NullifierOf[c] /\ c \in Commitment \ {ZeroHash}
  <2>1. Books /\ s.root \in DOMAIN merkleRoots /\ Spends(s, m, b) /\ Spends(s, n, c)
    BY <1>3, <1>8, <1>9 DEF LedgerInv
  <2>2. b \in UnspentOf(Stx) /\ m = NullifierOf[b] /\ b \in Commitment \ {ZeroHash}
    BY <1>3, <1>5, <2>1, LeafUnspent
  <2>3. c \in UnspentOf(Stx) /\ n = NullifierOf[c] /\ c \in Commitment \ {ZeroHash}
    BY <1>3, <1>5, <2>1, LeafUnspent
  <2> QED
    BY <2>2, <2>3
<1>11. IsInsertion(s)
  BY <1>7 DEF MergeCircuit
<1>12. Registers(1, <<d>>)
  BY <1>1, <1>3, <1>4, <1>11, OnePublished DEF LedgerInv
<1>13. AssetOf[d] = Stx /\ d \in Commitment \ {ZeroHash}
  BY <1>3, <1>11 DEF IsInsertion, Opens
<1>14. /\ DOMAIN commitments' = DOMAIN commitments \cup {d} /\ d \notin DOMAIN commitments
       /\ totalCommitments' = totalCommitments + 1
  BY <1>12 DEF Registers
<1>15. NoteAmount[b] + NoteAmount[c] = NoteAmount[d] /\ b # c
  BY <1>8, <1>9
<1>16. /\ IsFiniteSet({b, c}) /\ Cardinality({b, c}) = 2
       /\ SumOf(NoteAmount, {b, c}) = NoteAmount[b] + NoteAmount[c]
       /\ NoteAmount[b] \in Nat /\ NoteAmount[c] \in Nat
  BY <1>10, <1>15, TwoNotes
<1>17. /\ nullifiers' = nullifiers \cup {NullifierOf[x] : x \in {b, c}}
       /\ totalNullifiers' = totalNullifiers + Cardinality({b, c})
  BY <1>5, <1>10, <1>16
<1>18. totalShieldedStx' = totalShieldedStx + SumOf(NoteAmount, {d}) - SumOf(NoteAmount, {b, c})
  <2>1. SumOf(NoteAmount, {d}) = SumOf(NoteAmount, {b, c}) /\ SumOf(NoteAmount, {d}) \in Nat
    BY <1>13, <1>15, <1>16, OneNote
  <2> QED
    BY <1>6, <2>1, TotalIsNat
<1>19. Moves({b, c}, {d})
  BY <1>10, <1>13, <1>14, <1>16, <1>17, <1>18, OneNote DEF Moves
<1> QED
  BY <1>6, <1>10, <1>12, <1>13, <1>15, <1>19, OneRegistered DEF LedgerInv

-----------------------------------------------------------------------------
(* The ledger as the users and the staff move it.                           *)

IsDeposit == \E c \in Commitment : Moves({}, {c})
IsReshape ==
  \E ins, outs : /\ Moves(ins, outs)
                 /\ Cardinality(ins) \in 1..2 /\ Cardinality(outs) \in 1..2
                 /\ SumOf(NoteAmount, ins) = SumOf(NoteAmount, outs)
                 /\ totalShieldedStx' = totalShieldedStx
IsPayout == \E c \in Commitment \ {ZeroHash} : Moves({c}, {})

LEMMA UserMoves ==
  ASSUME LedgerInv, NEW user, UserStep(user)
  PROVE  Books' /\ (IsDeposit \/ IsReshape \/ IsPayout)
<1>1. CASE Shield(user)
  BY <1>1, ShieldMoves DEF IsDeposit
<1>2. CASE Transfer(user)
  <2>1. PICK c, d \in Commitment \ {ZeroHash} : Moves({c}, {d}) /\ NoteAmount[c] = NoteAmount[d]
    BY <1>2, TransferMoves
  <2>2. /\ Cardinality({c}) = 1 /\ Cardinality({d}) = 1
        /\ SumOf(NoteAmount, {c}) = SumOf(NoteAmount, {d})
    BY <2>1, OneNote
  <2> QED
    BY <1>2, <2>1, <2>2, TransferMoves DEF IsReshape
<1>3. CASE Withdraw(user)
  BY <1>3, WithdrawMoves DEF IsPayout
<1>4. CASE SplitNote(user)
  <2>1. PICK c, d, e \in Commitment \ {ZeroHash} :
          Moves({c}, {d, e}) /\ d # e /\ NoteAmount[c] = NoteAmount[d] + NoteAmount[e]
    BY <1>4, SplitMoves
  <2>2. /\ Cardinality({c}) = 1 /\ Cardinality({d, e}) = 2
        /\ SumOf(NoteAmount, {c}) = NoteAmount[c]
        /\ SumOf(NoteAmount, {d, e}) = NoteAmount[d] + NoteAmount[e]
    BY <2>1, OneNote, TwoNotes
  <2> QED
    BY <1>4, <2>1, <2>2, SplitMoves DEF IsReshape
<1>5. CASE MergeNotes(user)
  <2>1. PICK b, c, d \in Commitment \ {ZeroHash} :
          Moves({b, c}, {d}) /\ b # c /\ NoteAmount[b] + NoteAmount[c] = NoteAmount[d]
    BY <1>5, MergeMoves
  <2>2. /\ Cardinality({d}) = 1 /\ Cardinality({b, c}) = 2
        /\ SumOf(NoteAmount, {d}) = NoteAmount[d]
        /\ SumOf(NoteAmount, {b, c}) = NoteAmount[b] + NoteAmount[c]
    BY <2>1, OneNote, TwoNotes
  <2> QED
    BY <1>5, <2>1, <2>2, MergeMoves DEF IsReshape
<1> QED
  BY <1>1, <1>2, <1>3, <1>4, <1>5 DEF UserStep

LEMMA UserKeepsLedger ==
  ASSUME LedgerInv, NEW user, UserStep(user)
  PROVE  LedgerInv'
<1>1. Books' /\ \E ins, outs : Moves(ins, outs)
  BY UserMoves DEF IsDeposit, IsReshape, IsPayout
<1> QED
  BY <1>1, MovesKeepTotals DEF LedgerInv

\* What the ledger of notes is kept in.
ledgerBooks == <<bookVars, nullifierVars, totalShieldedStx>>

LEMMA LedgerKept == ASSUME LedgerInv, UNCHANGED ledgerBooks PROVE LedgerInv'
<1>1. Books'
  BY BooksKept DEF LedgerInv, ledgerBooks
<1>2. UNCHANGED <<commitments, totalCommitments, nullifiers, totalNullifiers, totalShieldedStx>>
  BY DEF ledgerBooks, bookVars, commitmentVars, nullifierVars
<1>3. UNCHANGED <<SpentNotes, UnspentNotes, UnspentOf(Stx)>>
  BY <1>2 DEF SpentNotes, UnspentNotes, UnspentOf
<1>4. TotalsFollowNotes'
  BY <1>2, <1>3, AmountIsSum
     DEF LedgerInv, TotalsFollowNotes, ValueConserved, SpendsAreOfRealNotes
<1> QED
  BY <1>1, <1>2, <1>4 DEF LedgerInv

\* Nothing the staff does and no movement of money touches the ledger of notes.
LEMMA StaffFrame ==
  ASSUME NEW p, IncidentStep(p) \/ UpgradeStep(p) \/ TreasuryStep(p)
  PROVE  UNCHANGED ledgerBooks
<1> USE DEF ledgerBooks, bookVars, commitmentVars, nullifierVars, flowVars, ledgerVars, rootVars,
            noteVars, beyondRegistry, beyondFees
<1>1. ASSUME UNCHANGED <<registryVars, noteVars>> PROVE UNCHANGED ledgerBooks
  BY <1>1 DEF registryVars
<1>2. ASSUME UNCHANGED <<ledgerVars, noteVars>> PROVE UNCHANGED ledgerBooks
  BY <1>2
<1>3. CASE IncidentStep(p)
  <2>1. CASE LifecycleStep(p) /\ UNCHANGED beyondRegistry
    BY <1>2, <2>1, LifecycleFrame
  <2>2. CASE SetRootStatus(p) /\ UNCHANGED beyondRegistry
    <3>1. DOMAIN merkleRoots' = DOMAIN merkleRoots
      BY <2>2 DEF SetRootStatus
    <3> QED
      BY <2>2, <3>1 DEF SetRootStatus
  <2>3. CASE SetVerificationFrozen(p) /\ UNCHANGED <<noteVars, feeVars, stx, switches>>
    BY <1>1, <2>3 DEF SetVerificationFrozen
  <2>4. CASE SetPoolSwitch(p) \/ SetManagerSwitch(p)
    BY <1>1, <2>4 DEF SetPoolSwitch, SetManagerSwitch, SetSwitch
  <2> QED
    BY <1>3, <2>1, <2>2, <2>3, <2>4 DEF IncidentStep
<1>4. CASE UpgradeStep(p)
  <2>1. CASE LifecycleStep(p) /\ UNCHANGED beyondRegistry
    BY <1>2, <2>1, LifecycleFrame
  <2>2. CASE ConfigStep(p) /\ UNCHANGED beyondRegistry
    BY <1>2, <2>2, ConfigFrame
  <2>3. CASE /\ \/ RegisterVerificationKey(p) \/ SetVerificationKeyStatus(p)
                \/ SetZkverifyContextHash(p) \/ SetZkverifyBinding(p)
             /\ UNCHANGED <<noteVars, feeVars, stx, switches>>
    BY <1>1, <2>3 DEF RegisterVerificationKey, SetVerificationKeyStatus, SetZkverifyContextHash,
                      SetZkverifyBinding
  <2> QED
    BY <1>4, <2>1, <2>2, <2>3 DEF UpgradeStep
<1>5. CASE TreasuryStep(p)
  <2>1. CASE FeesAdminStep(p) /\ UNCHANGED beyondFees
    BY <1>1, <2>1 DEF FeesAdminStep, SetFee, WithdrawFees, FreezeFees, UnfreezeFees,
                      FreezeTreasury, UnfreezeTreasury
  <2>2. CASE StxTransfer(p) /\ UNCHANGED beyondFees
    BY <1>1, <2>2 DEF StxTransfer
  <2>3. CASE SetMaxFeeBps(p) /\ UNCHANGED beyondRegistry
    BY <1>2, <2>3 DEF SetMaxFeeBps
  <2> QED
    BY <1>5, <2>1, <2>2, <2>3 DEF TreasuryStep
<1> QED
  BY <1>3, <1>4, <1>5

LEMMA SystemSteps ==
  ASSUME SystemNext
  PROVE  \/ \E user \in Users : UserStep(user)
         \/ \E p \in Users \cup Staff : IncidentStep(p) \/ UpgradeStep(p) \/ TreasuryStep(p)
BY DEF SystemNext, OperatedNext, SomeUserStep

LEMMA LedgerStepInv == LedgerInv /\ [SystemNext]_poolVars => LedgerInv'
<1> SUFFICES ASSUME LedgerInv, [SystemNext]_poolVars PROVE LedgerInv'
  OBVIOUS
<1>1. CASE UNCHANGED poolVars
  BY <1>1, LedgerKept DEF poolVars, registryVars, ledgerVars, ledgerBooks, bookVars,
                          commitmentVars, nullifierVars, rootVars, flowVars, noteVars
<1>2. CASE SystemNext
  BY <1>2, SystemSteps, UserKeepsLedger, StaffFrame, LedgerKept
<1> QED
  BY <1>1, <1>2

LEMMA LedgerStart == ASSUME NEW callers, DeployedWith(callers) PROVE LedgerInv
<1>1. /\ commitments = EmptyMap /\ nullifiers = {} /\ notes = EmptyMap
      /\ totalCommitments = 0 /\ totalNullifiers = 0 /\ totalNotes = 0 /\ totalRegistered = 0
      /\ totalShieldedStx = 0 /\ currentRoot.root = EmptyTree
      /\ DOMAIN merkleRoots = {EmptyTree}
  BY DEF DeployedWith, NotesInit, MapSet, EmptyMap
<1>2. DOMAIN EmptyMap = {}
  BY DEF EmptyMap
<1>3. IsFiniteSet({}) /\ Cardinality({}) = 0
  BY FS_EmptySet
<1>4. EmptyTree \in [Slots -> Commitment] /\ LeavesOf(EmptyTree) = {}
  BY HashAssumption DEF EmptyTree, LeavesOf
<1>5. Books
  BY <1>1, <1>2, <1>3, <1>4
     DEF Books, TreeTyped, LedgersMatch, LedgersAgree, TreeMatchesLedger, EmptyTree
<1>6. SpentNotes = {} /\ UnspentNotes = {} /\ UnspentOf(Stx) = {}
  BY <1>1, <1>2 DEF SpentNotes, UnspentNotes, UnspentOf
<1>7. SpendsAreOfRealNotes
  BY <1>1, <1>3, <1>6 DEF SpendsAreOfRealNotes
<1>8. ValueConserved
  BY <1>1, <1>6, AmountIsSum, NoNotes DEF ValueConserved
<1> QED
  BY <1>1, <1>5, <1>7, <1>8 DEF LedgerInv, TotalsFollowNotes

LEMMA LedgerInvariant == SystemSpec => []LedgerInv
<1>1. PoolInit => LedgerInv
  BY LedgerStart DEF PoolInit
<1> QED
  BY <1>1, LedgerStepInv, PTL DEF SystemSpec

\* Whoever uses the pool and the split-merge manager, and whatever the staff does
\* in between, the published tree, the registry's commitments, its counters and
\* the note manager's notes name the same notes, every nullifier is that of one
\* of them, and the shielded total is the value of those that can be spent.
THEOREM LedgersAlwaysExact == SystemSpec => []LedgersExact
<1>1. LedgerInv => LedgersExact
  BY DEF LedgerInv, Books, LedgersExact
<1> QED
  BY <1>1, LedgerInvariant, PTL

-----------------------------------------------------------------------------
(* The abstract ledger.                                                     *)

LEMMA ValueIsSum == \A S : Ledger!ValueOf(S) = SumOf(NoteAmount, S)
BY DEF Ledger!ValueOf, SumOf, MapThenSumSet, MapThenFoldSet, Ledger!MapThenSumSet, Ledger!MapThenFoldSet

LEMMA SameCount == \A S : Ledger!Cardinality(S) = Cardinality(S)
BY DEF Ledger!Cardinality, Cardinality

\* A move of the concrete notes is a step of the abstract ones.
LEMMA MovesAreSteps ==
  ASSUME LedgerInv, IsDeposit \/ IsReshape \/ IsPayout
  PROVE  Ledger!LedgerNext
<1> USE DEF Ledger!LedgerNext, Ledger!Fresh
<1>1. CASE IsDeposit
  <2>1. PICK c \in Commitment : Moves({}, {c})
    BY <1>1 DEF IsDeposit
  <2>2. /\ SpentNotes' = SpentNotes \cup {} /\ UnspentNotes' = (UnspentNotes \ {}) \cup {c}
        /\ {c} \cap (UnspentNotes \cup SpentNotes) = {}
    BY <2>1, MovedNotes
  <2>3. c \in Commitment \ {ZeroHash}
    BY <2>1 DEF Moves
  <2>4. totalShieldedStx' = totalShieldedStx + NoteAmount[c]
    <3>1. /\ SumOf(NoteAmount, {c}) = NoteAmount[c] /\ NoteAmount[c] \in Nat
          /\ SumOf(NoteAmount, {}) = 0
      BY <2>3, OneNote, NoNotes
    <3> QED
      BY <2>1, <3>1, TotalIsNat DEF Moves
  <2> QED
    BY <2>2, <2>3, <2>4 DEF Ledger!Deposit
<1>2. CASE IsReshape
  <2>1. PICK ins, outs : /\ Moves(ins, outs)
                         /\ Cardinality(ins) \in 1..2 /\ Cardinality(outs) \in 1..2
                         /\ SumOf(NoteAmount, ins) = SumOf(NoteAmount, outs)
                         /\ totalShieldedStx' = totalShieldedStx
    BY <1>2 DEF IsReshape
  <2>2. /\ SpentNotes' = SpentNotes \cup ins /\ UnspentNotes' = (UnspentNotes \ ins) \cup outs
        /\ outs \cap (UnspentNotes \cup SpentNotes) = {} /\ ins \in SUBSET UnspentNotes
    BY <2>1, MovedNotes
  <2>3. outs \in SUBSET Ledger!Fresh
    BY <2>1, <2>2 DEF Moves
  <2>4. Ledger!ValueOf(ins) = Ledger!ValueOf(outs)
    BY <2>1, ValueIsSum
  <2>5. /\ UnspentNotes' = (UnspentNotes \ ins) \cup outs
        /\ SpentNotes' = SpentNotes \cup ins
        /\ UNCHANGED totalShieldedStx
        /\ Ledger!Cardinality(ins) \in 1..2 /\ Ledger!Cardinality(outs) \in 1..2
    BY <2>1, <2>2, SameCount
  <2>6. Ledger!Reshape
    BY <2>2, <2>3, <2>4, <2>5 DEF Ledger!Reshape
  <2> QED
    BY <2>6
<1>3. CASE IsPayout
  <2>1. PICK c \in Commitment \ {ZeroHash} : Moves({c}, {})
    BY <1>3 DEF IsPayout
  <2>2. /\ SpentNotes' = SpentNotes \cup {c} /\ UnspentNotes' = (UnspentNotes \ {c}) \cup {}
        /\ c \in UnspentNotes
    BY <2>1, MovedNotes
  <2>3. totalShieldedStx' = totalShieldedStx - NoteAmount[c]
    <3>1. /\ SumOf(NoteAmount, {c}) = NoteAmount[c] /\ NoteAmount[c] \in Nat
          /\ SumOf(NoteAmount, {}) = 0
      BY <2>1, OneNote, NoNotes
    <3> QED
      BY <2>1, <3>1, TotalIsNat DEF Moves
  <2> QED
    BY <2>2, <2>3 DEF Ledger!Payout
<1> QED
  BY <1>1, <1>2, <1>3

LEMMA SystemRefines ==
  LedgerInv /\ [SystemNext]_poolVars => [Ledger!LedgerNext]_(Ledger!ledgerStateVars)
<1> SUFFICES ASSUME LedgerInv, [SystemNext]_poolVars
             PROVE  Ledger!LedgerNext \/ UNCHANGED Ledger!ledgerStateVars
  OBVIOUS
<1>1. ASSUME UNCHANGED ledgerBooks PROVE UNCHANGED Ledger!ledgerStateVars
  BY <1>1 DEF ledgerBooks, bookVars, commitmentVars, nullifierVars, SpentNotes, UnspentNotes,
              Ledger!ledgerStateVars
<1>2. CASE UNCHANGED poolVars
  BY <1>1, <1>2 DEF poolVars, registryVars, ledgerVars, ledgerBooks, bookVars,
                    commitmentVars, nullifierVars, rootVars, flowVars, noteVars
<1>3. CASE SystemNext
  BY <1>1, <1>3, SystemSteps, UserMoves, MovesAreSteps, StaffFrame
<1> QED
  BY <1>2, <1>3

\* Under every mix of users, incidents, upgrades and treasury movements the two
\* contracts implement ShieldedLedger: a transaction creates one note of the
\* deposited value, reshapes one or two notes into one or two of the same value,
\* or consumes one note and pays it, and nothing else ever touches the notes.
THEOREM PoolImplementsLedger == SystemSpec => ImplementsLedger
<1>1. PoolInit => Ledger!LedgerInit
  <2> SUFFICES ASSUME PoolInit PROVE Ledger!LedgerInit
    OBVIOUS
  <2>1. /\ DOMAIN commitments = {} /\ totalShieldedStx = 0
    BY DEF PoolInit, DeployedWith, EmptyMap
  <2> QED
    BY <2>1 DEF Ledger!LedgerInit, SpentNotes, UnspentNotes
<1> QED
  BY <1>1, LedgerInvariant, SystemRefines, PTL
     DEF SystemSpec, ImplementsLedger, Ledger!LedgerSpec

-----------------------------------------------------------------------------
(***************************************************************************)
(* What the pool's operations do besides moving notes: the money they      *)
(* move, the proofs they consume, and what stops them.                     *)
(***************************************************************************)

-----------------------------------------------------------------------------
(* Payments.                                                                *)

Balances == [Principals -> Nat]

LEMMA PayMoves ==
  ASSUME NEW balances \in Balances, NEW from \in Principals, NEW to \in Principals,
         NEW amount \in Nat, CanPay(balances, from, to, amount)
  PROVE  /\ Pay(balances, from, to, amount) \in Balances
         /\ from # to /\ amount > 0 /\ balances[from] >= amount
         /\ Pay(balances, from, to, amount)[from] = balances[from] - amount
         /\ Pay(balances, from, to, amount)[to] = balances[to] + amount
         /\ \A p \in Principals \ {from, to} :
              Pay(balances, from, to, amount)[p] = balances[p]
BY DEF Balances, CanPay, Pay

\* Two balance sheets with the same entries are the same.
LEMMA SameBalances ==
  ASSUME NEW b \in Balances, NEW c \in Balances, \A p \in Principals : b[p] = c[p]
  PROVE  b = c
BY DEF Balances

\* Multiples and quotients of naturals are naturals, and quotients are monotone.
LEMMA ShareBounds ==
  ASSUME NEW amount \in Nat, NEW low \in Nat, NEW high \in Nat, low <= high,
         NEW whole \in Nat \ {0}
  PROVE  /\ (amount * low) \div whole \in Nat
         /\ (amount * low) \div whole <= (amount * high) \div whole
<1>1. amount * low \in Nat /\ amount * high \in Nat /\ amount * low <= amount * high
  OBVIOUS
<1> DEFINE a == amount * low
           b == amount * high
<1>2. a \in Nat /\ b \in Nat /\ a <= b
  BY <1>1
<1> HIDE DEF a, b
<1>3. a \div whole \in Nat /\ a \div whole <= b \div whole
  BY <1>2
<1> QED
  BY <1>3 DEF a, b

FeeBound(amount) == FlatFeeCeiling + (amount * protocolLimits.maxFeeBps) \div BpsDenominator

FlatFeesBounded == \A t \in FeeTypes : feeConfigs[t].flat <= FlatFeeCeiling

LEMMA FeeBounded ==
  ASSUME FeesTypeOK, FlatFeesBounded, protocolLimits \in Limits,
         NEW type \in FeeTypes, NEW amount \in Nat
  PROVE  /\ CalculateFee(type, amount) \in Nat
         /\ CalculateFee(type, amount) <= FeeBound(amount)
<1> DEFINE config == feeConfigs[type]
           bps == EffectiveBps(config.bps)
           max == protocolLimits.maxFeeBps
<1>1. /\ config.bps \in Nat /\ config.flat \in Nat /\ config.flat <= FlatFeeCeiling
      /\ max \in Nat /\ BpsDenominator \in Nat \ {0} /\ FlatFeeCeiling \in Nat
  BY FeesAssumption DEF FeesTypeOK, FeeConfig, FlatFeesBounded, Limits
<1>2. bps \in Nat /\ bps <= max
  BY <1>1 DEF EffectiveBps
<1> HIDE DEF config, bps, max
<1>3. /\ (amount * bps) \div BpsDenominator \in Nat
      /\ (amount * bps) \div BpsDenominator <= (amount * max) \div BpsDenominator
      /\ (amount * max) \div BpsDenominator \in Nat
  BY <1>1, <1>2, ShareBounds
<1>4. CalculateFee(type, amount) = IF config.enabled
                                   THEN config.flat + (amount * bps) \div BpsDenominator ELSE 0
  BY DEF CalculateFee, config, bps
<1>5. FeeBound(amount) = FlatFeeCeiling + (amount * max) \div BpsDenominator
  BY DEF FeeBound, max
<1> DEFINE p == (amount * bps) \div BpsDenominator
           q == (amount * max) \div BpsDenominator
<1> HIDE DEF p, q
<1>6. p \in Nat /\ p <= q /\ q \in Nat
  BY <1>3 DEF p, q
<1>7. CalculateFee(type, amount) = IF config.enabled THEN config.flat + p ELSE 0
  BY <1>4 DEF p
<1>8. FeeBound(amount) = FlatFeeCeiling + q
  BY <1>5 DEF q
<1> QED
  BY <1>1, <1>6, <1>7, <1>8

\* The ledger part of the treasury's invariant: its books balance.
TreasuryBooks ==
  /\ treasury.balance + treasury.withdrawn = treasury.collected
  /\ feeTypeStats[1] + feeTypeStats[2] + feeTypeStats[3] + feeTypeStats[4]
       = treasury.collected

\* collect-fee books the fee it moves.
LEMMA FeeCollected ==
  ASSUME FeesTypeOK, TreasuryBooks, NEW contract, NEW type \in FeeTypes,
         NEW fee \in Nat, NEW payer \in Principals, NEW balances \in Balances,
         CollectFeeIfAny(contract, type, payer, fee, balances)
  PROVE  /\ treasury' = [treasury EXCEPT !.collected = @ + fee, !.balance = @ + fee]
         /\ feeTypeStats' = [feeTypeStats EXCEPT ![type] = @ + fee]
         /\ treasury' \in [collected : Nat, withdrawn : Nat, balance : Nat]
         /\ feeTypeStats' \in [FeeTypes -> Nat]
         /\ TreasuryBooks'
         /\ fee > 0 => CanPay(balances, payer, FeesContract, fee)
<1>1. /\ treasury \in [collected : Nat, withdrawn : Nat, balance : Nat]
      /\ feeTypeStats \in [FeeTypes -> Nat]
  BY DEF FeesTypeOK
<1>2. /\ treasury' = [treasury EXCEPT !.collected = @ + fee, !.balance = @ + fee]
      /\ feeTypeStats' = [feeTypeStats EXCEPT ![type] = @ + fee]
  <2>1. CASE fee = 0
    <3>1. UNCHANGED <<treasury, feeTypeStats>>
      BY <2>1 DEF CollectFeeIfAny, CollectFeeCall, treasuryVars
    <3>2. [treasury EXCEPT !.collected = @ + fee, !.balance = @ + fee] = treasury
      <4>1. /\ treasury.collected + fee = treasury.collected
            /\ treasury.balance + fee = treasury.balance
        BY <1>1, <2>1
      <4> QED
        BY <1>1, <4>1
    <3>3. [feeTypeStats EXCEPT ![type] = @ + fee] = feeTypeStats
      <4>1. feeTypeStats[type] \in Nat /\ feeTypeStats[type] + fee = feeTypeStats[type]
        BY <1>1, <2>1
      <4> QED
        BY <1>1, <4>1
    <3> QED
      BY <3>1, <3>2, <3>3
  <2>2. CASE fee # 0
    BY <2>2 DEF CollectFeeIfAny, CollectFeeCall
  <2> QED
    BY <2>1, <2>2
<1>3. /\ treasury' \in [collected : Nat, withdrawn : Nat, balance : Nat]
      /\ feeTypeStats' \in [FeeTypes -> Nat]
  <2>1. treasury' \in [collected : Nat, withdrawn : Nat, balance : Nat]
    <3>1. treasury.collected + fee \in Nat /\ treasury.balance + fee \in Nat
      BY <1>1
    <3> QED
      BY <1>1, <1>2, <3>1
  <2>2. feeTypeStats[type] + fee \in Nat
    BY <1>1
  <2> QED
    BY <1>1, <1>2, <2>1, <2>2
<1>4. TreasuryBooks'
  <2>1. /\ treasury'.collected = treasury.collected + fee
        /\ treasury'.balance = treasury.balance + fee
        /\ treasury'.withdrawn = treasury.withdrawn
    BY <1>1, <1>2
  <2>2. feeTypeStats'[1] + feeTypeStats'[2] + feeTypeStats'[3] + feeTypeStats'[4]
          = feeTypeStats[1] + feeTypeStats[2] + feeTypeStats[3] + feeTypeStats[4] + fee
    BY <1>1, <1>2 DEF FeeTypes
  <2> QED
    BY <1>1, <2>1, <2>2 DEF TreasuryBooks
<1>5. fee > 0 => CanPay(balances, payer, FeesContract, fee)
  BY DEF CollectFeeIfAny
<1> QED
  BY <1>2, <1>3, <1>4, <1>5

\* The balances after a fee that could be collected.
LEMMA FeePaid ==
  ASSUME NEW fee \in Nat, NEW payer \in Principals \ {FeesContract}, NEW balances \in Balances,
         fee > 0 => CanPay(balances, payer, FeesContract, fee)
  PROVE  /\ AfterFee(balances, payer, fee) \in Balances
         /\ balances[payer] >= fee
         /\ AfterFee(balances, payer, fee)[payer] = balances[payer] - fee
         /\ AfterFee(balances, payer, fee)[FeesContract] = balances[FeesContract] + fee
         /\ \A p \in Principals \ {payer, FeesContract} :
              AfterFee(balances, payer, fee)[p] = balances[p]
<1>1. FeesContract \in Principals
  BY FeesAssumption
<1>2. CASE fee = 0
  BY <1>1, <1>2 DEF AfterFee, Balances
<1>3. CASE fee # 0
  <2>1. CanPay(balances, payer, FeesContract, fee) /\ AfterFee(balances, payer, fee) = Pay(balances, payer, FeesContract, fee)
    BY <1>3 DEF AfterFee
  <2> QED
    BY <1>1, <2>1, PayMoves
<1> QED
  BY <1>2, <1>3

-----------------------------------------------------------------------------
(* The money of the five operations.                                        *)

FundsInv ==
  /\ FeesTypeOK /\ TreasuryBacked /\ PoolSolvent
  /\ FlatFeesBounded /\ protocolLimits \in Limits
  /\ totalShieldedStx \in Nat

\* What collecting fee books.
Booked(fee) ==
  /\ fee \in Nat
  /\ treasury'.collected = treasury.collected + fee
  /\ treasury'.balance = treasury.balance + fee
  /\ treasury' \in [collected : Nat, withdrawn : Nat, balance : Nat]
  /\ feeTypeStats' \in [FeeTypes -> Nat]
  /\ TreasuryBooks'

\* A user pays in, which becomes shielded, and the fee.
UserPays(u, in, fee) ==
  /\ u \in Users /\ in \in Nat /\ fee <= FeeBound(in)
  /\ Booked(fee)
  /\ stx' \in Balances
  /\ stx' = [stx EXCEPT ![u] = @ - (in + fee), ![PoolContract] = @ + in,
                        ![FeesContract] = @ + fee]
  /\ totalShieldedStx' = totalShieldedStx + in

\* The pool pays out, of which fee goes to the treasury and the rest to r.
PoolPays(r, out, fee) ==
  /\ r \in Principals \ {PoolContract, FeesContract, BurnAddress}
  /\ out \in Nat /\ fee < out /\ fee <= FeeBound(out)
  /\ Booked(fee)
  /\ stx' \in Balances
  /\ stx' = [stx EXCEPT ![PoolContract] = @ - out, ![FeesContract] = @ + fee,
                        ![r] = @ + (out - fee)]
  /\ totalShieldedStx' = totalShieldedStx - out /\ totalShieldedStx' \in Nat

LEMMA Places ==
  /\ PoolContract \in Principals /\ FeesContract \in Principals /\ PoolContract # FeesContract
  /\ \A u \in Users : u \in Principals /\ u # PoolContract /\ u # FeesContract
BY ContractsAssumption, FeesAssumption

LEMMA ShieldPays ==
  ASSUME FundsInv, NEW user \in Users, Shield(user)
  PROVE  \E in, fee \in Nat : UserPays(user, in, fee)
<1>1. PICK amount \in AmountInputs :
        LET fee == CalculateFee(FEE_TYPE_SHIELD, amount)
            deposited == Pay(stx, user, PoolContract, amount)
        IN  /\ CanPay(stx, user, PoolContract, amount)
            /\ CollectFeeIfAny(PoolContract, FEE_TYPE_SHIELD, user, fee, deposited)
            /\ stx' = AfterFee(deposited, user, fee)
            /\ RecordShieldCall(PoolContract, amount)
  BY DEF Shield
<1> DEFINE fee == CalculateFee(FEE_TYPE_SHIELD, amount)
           deposited == Pay(stx, user, PoolContract, amount)
<1>2. /\ CanPay(stx, user, PoolContract, amount)
      /\ CollectFeeIfAny(PoolContract, FEE_TYPE_SHIELD, user, fee, deposited)
      /\ stx' = AfterFee(deposited, user, fee)
      /\ totalShieldedStx' = totalShieldedStx + amount
  BY <1>1 DEF RecordShieldCall
<1>3. amount \in Nat /\ FEE_TYPE_SHIELD \in FeeTypes
  BY InputsAssumption DEF FEE_TYPE_SHIELD, FeeTypes
<1>4. /\ FeesTypeOK /\ TreasuryBooks /\ stx \in Balances
      /\ FlatFeesBounded /\ protocolLimits \in Limits
  BY DEF FundsInv, TreasuryBacked, TreasuryBooks, FeesTypeOK, Balances
<1>5. fee \in Nat /\ fee <= FeeBound(amount)
  BY <1>3, <1>4, FeeBounded
<1> HIDE DEF fee, deposited
<1>6. /\ deposited \in Balances /\ stx[user] >= amount
      /\ deposited[user] = stx[user] - amount
      /\ deposited[PoolContract] = stx[PoolContract] + amount
      /\ \A p \in Principals \ {user, PoolContract} : deposited[p] = stx[p]
  BY <1>2, <1>3, <1>4, Places, PayMoves DEF deposited
<1>7. /\ treasury' = [treasury EXCEPT !.collected = @ + fee, !.balance = @ + fee]
      /\ treasury' \in [collected : Nat, withdrawn : Nat, balance : Nat]
      /\ feeTypeStats' \in [FeeTypes -> Nat]
      /\ TreasuryBooks'
      /\ fee > 0 => CanPay(deposited, user, FeesContract, fee)
  BY <1>2, <1>3, <1>4, <1>5, <1>6, Places, FeeCollected
<1>8. /\ stx' \in Balances /\ deposited[user] >= fee
      /\ stx'[user] = deposited[user] - fee
      /\ stx'[FeesContract] = deposited[FeesContract] + fee
      /\ \A p \in Principals \ {user, FeesContract} : stx'[p] = deposited[p]
  BY <1>2, <1>5, <1>6, <1>7, Places, FeePaid
<1>9. Booked(fee)
  BY <1>4, <1>5, <1>7 DEF Booked, FeesTypeOK
<1> DEFINE paid == [stx EXCEPT ![user] = @ - (amount + fee), ![PoolContract] = @ + amount,
                               ![FeesContract] = @ + fee]
<1>10. \A p \in Principals : stx[p] \in Nat
  BY <1>4 DEF Balances
<1>11. stx[user] - (amount + fee) \in Nat
  BY <1>3, <1>5, <1>6, <1>8, <1>10, Places
<1>12. paid \in Balances
  BY <1>3, <1>4, <1>5, <1>10, <1>11, Places DEF Balances
<1>13. \A p \in Principals : paid[p] = stx'[p]
  <2>1. paid[user] = stx'[user]
    BY <1>3, <1>4, <1>5, <1>6, <1>8, <1>10, Places DEF Balances
  <2>2. paid[PoolContract] = stx'[PoolContract]
    BY <1>4, <1>6, <1>8, Places DEF Balances
  <2>3. paid[FeesContract] = stx'[FeesContract]
    BY <1>4, <1>6, <1>8, Places DEF Balances
  <2>4. ASSUME NEW p \in Principals \ {user, PoolContract, FeesContract} PROVE paid[p] = stx'[p]
    BY <1>4, <1>6, <1>8 DEF Balances
  <2> QED
    BY <2>1, <2>2, <2>3, <2>4
<1>14. stx' = paid
  BY <1>8, <1>12, <1>13, SameBalances
<1>15. UserPays(user, amount, fee)
  BY <1>2, <1>3, <1>5, <1>8, <1>9, <1>14 DEF UserPays
<1> QED
  BY <1>3, <1>5, <1>15

LEMMA FlatFeePays ==
  ASSUME FundsInv, NEW user \in Users, NEW contract, ChargeFlatFee(contract, user),
         totalShieldedStx' = totalShieldedStx
  PROVE  \E fee \in Nat : UserPays(user, 0, fee)
<1> DEFINE fee == CalculateFee(FEE_TYPE_TRANSFER, 0)
<1>1. /\ CollectFeeIfAny(contract, FEE_TYPE_TRANSFER, user, fee, stx)
      /\ stx' = AfterFee(stx, user, fee)
  BY DEF ChargeFlatFee
<1>2. FEE_TYPE_TRANSFER \in FeeTypes
  BY DEF FEE_TYPE_TRANSFER, FeeTypes
<1>3. /\ FeesTypeOK /\ TreasuryBooks /\ stx \in Balances
      /\ FlatFeesBounded /\ protocolLimits \in Limits /\ totalShieldedStx \in Nat
  BY DEF FundsInv, TreasuryBacked, TreasuryBooks, FeesTypeOK, Balances
<1>4. fee \in Nat /\ fee <= FeeBound(0)
  BY <1>2, <1>3, FeeBounded
<1> HIDE DEF fee
<1>5. /\ treasury' = [treasury EXCEPT !.collected = @ + fee, !.balance = @ + fee]
      /\ treasury' \in [collected : Nat, withdrawn : Nat, balance : Nat]
      /\ feeTypeStats' \in [FeeTypes -> Nat]
      /\ TreasuryBooks'
      /\ fee > 0 => CanPay(stx, user, FeesContract, fee)
  BY <1>1, <1>2, <1>3, <1>4, Places, FeeCollected
<1>6. /\ stx' \in Balances /\ stx[user] >= fee
      /\ stx'[user] = stx[user] - fee
      /\ stx'[FeesContract] = stx[FeesContract] + fee
      /\ \A p \in Principals \ {user, FeesContract} : stx'[p] = stx[p]
  BY <1>1, <1>3, <1>4, <1>5, Places, FeePaid
<1>7. Booked(fee)
  BY <1>3, <1>4, <1>5 DEF Booked, FeesTypeOK
<1> DEFINE paid == [stx EXCEPT ![user] = @ - (0 + fee), ![PoolContract] = @ + 0,
                               ![FeesContract] = @ + fee]
<1>8. \A p \in Principals : stx[p] \in Nat
  BY <1>3 DEF Balances
<1>9. paid \in Balances
  <2>1. stx[user] - (0 + fee) \in Nat
    BY <1>4, <1>6, <1>8, Places
  <2> QED
    BY <1>3, <1>4, <1>8, <2>1, Places DEF Balances
<1>10. \A p \in Principals : paid[p] = stx'[p]
  <2>1. paid[user] = stx'[user]
    BY <1>3, <1>4, <1>6, <1>8, Places DEF Balances
  <2>2. paid[PoolContract] = stx'[PoolContract]
    BY <1>3, <1>6, <1>8, Places DEF Balances
  <2>3. paid[FeesContract] = stx'[FeesContract]
    BY <1>3, <1>6, Places DEF Balances
  <2>4. ASSUME NEW p \in Principals \ {user, PoolContract, FeesContract} PROVE paid[p] = stx'[p]
    BY <1>3, <1>6 DEF Balances
  <2> QED
    BY <2>1, <2>2, <2>3, <2>4
<1>11. stx' = paid
  BY <1>6, <1>9, <1>10, SameBalances
<1>12. UserPays(user, 0, fee)
  BY <1>3, <1>4, <1>6, <1>7, <1>11 DEF UserPays
<1> QED
  BY <1>4, <1>12

LEMMA WithdrawPays ==
  ASSUME FundsInv, NEW user \in Users, Withdraw(user)
  PROVE  \E r, out, fee : PoolPays(r, out, fee)
<1>1. PICK amount \in AmountInputs, recipient \in RecipientInputs :
        LET fee == CalculateFee(FEE_TYPE_WITHDRAWAL, amount)
            charged == AfterFee(stx, PoolContract, fee)
        IN  /\ ValidRecipient(recipient)
            /\ fee < amount
            /\ RecordWithdrawalCall(PoolContract, amount)
            /\ CollectFeeIfAny(PoolContract, FEE_TYPE_WITHDRAWAL, PoolContract, fee, stx)
            /\ CanPay(charged, PoolContract, recipient, amount - fee)
            /\ stx' = Pay(charged, PoolContract, recipient, amount - fee)
  BY DEF Withdraw
<1> DEFINE fee == CalculateFee(FEE_TYPE_WITHDRAWAL, amount)
           charged == AfterFee(stx, PoolContract, fee)
<1>2. /\ recipient \notin {BurnAddress, PoolContract, FeesContract}
      /\ fee < amount
      /\ CollectFeeIfAny(PoolContract, FEE_TYPE_WITHDRAWAL, PoolContract, fee, stx)
      /\ CanPay(charged, PoolContract, recipient, amount - fee)
      /\ stx' = Pay(charged, PoolContract, recipient, amount - fee)
      /\ amount <= totalShieldedStx /\ totalShieldedStx' = totalShieldedStx - amount
  BY <1>1 DEF RecordWithdrawalCall, ValidRecipient
<1>3. amount \in Nat /\ FEE_TYPE_WITHDRAWAL \in FeeTypes /\ recipient \in Principals
  BY InputsAssumption, FeesAssumption DEF FEE_TYPE_WITHDRAWAL, FeeTypes
<1>4. /\ FeesTypeOK /\ TreasuryBooks /\ stx \in Balances
      /\ FlatFeesBounded /\ protocolLimits \in Limits /\ totalShieldedStx \in Nat
  BY DEF FundsInv, TreasuryBacked, TreasuryBooks, FeesTypeOK, Balances
<1>5. fee \in Nat /\ fee <= FeeBound(amount)
  BY <1>3, <1>4, FeeBounded
<1> HIDE DEF fee, charged
<1>6. /\ treasury' = [treasury EXCEPT !.collected = @ + fee, !.balance = @ + fee]
      /\ treasury' \in [collected : Nat, withdrawn : Nat, balance : Nat]
      /\ feeTypeStats' \in [FeeTypes -> Nat]
      /\ TreasuryBooks'
      /\ fee > 0 => CanPay(stx, PoolContract, FeesContract, fee)
  BY <1>2, <1>3, <1>4, <1>5, Places, FeeCollected
<1>7. /\ charged \in Balances /\ stx[PoolContract] >= fee
      /\ charged[PoolContract] = stx[PoolContract] - fee
      /\ charged[FeesContract] = stx[FeesContract] + fee
      /\ \A p \in Principals \ {PoolContract, FeesContract} : charged[p] = stx[p]
  BY <1>4, <1>5, <1>6, Places, FeePaid DEF charged
<1>8. amount - fee \in Nat
  BY <1>2, <1>3, <1>5
<1>9. /\ stx' \in Balances /\ charged[PoolContract] >= amount - fee
      /\ stx'[PoolContract] = charged[PoolContract] - (amount - fee)
      /\ stx'[recipient] = charged[recipient] + (amount - fee)
      /\ \A p \in Principals \ {PoolContract, recipient} : stx'[p] = charged[p]
  BY <1>2, <1>3, <1>7, <1>8, Places, PayMoves
<1>10. Booked(fee)
  BY <1>4, <1>5, <1>6 DEF Booked, FeesTypeOK
<1> DEFINE paid == [stx EXCEPT ![PoolContract] = @ - amount, ![FeesContract] = @ + fee,
                               ![recipient] = @ + (amount - fee)]
<1>11. \A p \in Principals : stx[p] \in Nat
  BY <1>4 DEF Balances
<1>12. paid \in Balances
  <2>1. stx[PoolContract] - amount \in Nat
    BY <1>3, <1>5, <1>7, <1>9, <1>11, Places
  <2> QED
    BY <1>3, <1>4, <1>5, <1>8, <1>11, <2>1, Places DEF Balances
<1>13. \A p \in Principals : paid[p] = stx'[p]
  <2>1. paid[PoolContract] = stx'[PoolContract]
    BY <1>2, <1>3, <1>4, <1>5, <1>7, <1>9, <1>11, Places DEF Balances
  <2>2. paid[FeesContract] = stx'[FeesContract]
    BY <1>2, <1>4, <1>7, <1>9, Places DEF Balances
  <2>3. paid[recipient] = stx'[recipient]
    BY <1>2, <1>3, <1>4, <1>7, <1>9, Places DEF Balances
  <2>4. ASSUME NEW p \in Principals \ {recipient, PoolContract, FeesContract} PROVE paid[p] = stx'[p]
    BY <1>4, <1>7, <1>9 DEF Balances
  <2> QED
    BY <2>1, <2>2, <2>3, <2>4
<1>14. stx' = paid
  BY <1>9, <1>12, <1>13, SameBalances
<1>15. PoolPays(recipient, amount, fee)
  <2>1. totalShieldedStx' \in Nat
    BY <1>2, <1>3, <1>4
  <2> QED
    BY <1>2, <1>3, <1>5, <1>9, <1>10, <1>14, <2>1 DEF PoolPays
<1> QED
  BY <1>15

\* Every user operation is a payment into the pool or one out of it.
LEMMA UserMovesMoney ==
  ASSUME FundsInv, NEW user \in Users, UserStep(user)
  PROVE  /\ UNCHANGED <<feeConfigs, feesFrozen, treasuryFrozen, protocolLimits>>
         /\ \/ \E in, fee \in Nat : UserPays(user, in, fee)
            \/ \E r, out, fee : PoolPays(r, out, fee)
<1>1. UNCHANGED <<feeConfigs, feesFrozen, treasuryFrozen, protocolLimits>>
  <2>1. UNCHANGED untouchedByUsers
    BY DEF UserStep, Shield, Transfer, Withdraw, SplitNote, MergeNotes
  <2> QED
    BY <2>1 DEF untouchedByUsers, nonLedgerVars, configVars, feeConfigVars
<1>2. CASE Shield(user)
  BY <1>1, <1>2, ShieldPays
<1>3. CASE Withdraw(user)
  BY <1>1, <1>3, WithdrawPays
<1>4. CASE Transfer(user) \/ SplitNote(user) \/ MergeNotes(user)
  <2>1. totalShieldedStx' = totalShieldedStx /\ \E contract : ChargeFlatFee(contract, user)
    <3>1. CASE Transfer(user)
      BY <3>1 DEF Transfer, RecordTransferCall
    <3>2. CASE SplitNote(user)
      BY <3>2 DEF SplitNote, flowVars
    <3>3. CASE MergeNotes(user)
      BY <3>3 DEF MergeNotes, flowVars
    <3> QED
      BY <1>4, <3>1, <3>2, <3>3
  <2>2. \E fee \in Nat : UserPays(user, 0, fee)
    BY <2>1, FlatFeePays
  <2> QED
    BY <1>1, <2>2
<1> QED
  BY <1>2, <1>3, <1>4 DEF UserStep

LEMMA UserPaysFunds ==
  ASSUME FundsInv, NEW u, NEW in, NEW fee, UserPays(u, in, fee),
         UNCHANGED <<feeConfigs, feesFrozen, treasuryFrozen, protocolLimits>>
  PROVE  FundsInv'
<1>1. /\ FeesTypeOK /\ totalShieldedStx \in Nat /\ stx \in Balances
      /\ stx[FeesContract] >= treasury.balance /\ stx[PoolContract] >= totalShieldedStx
      /\ treasury.balance \in Nat
      /\ \A p \in Principals : stx[p] \in Nat
  BY DEF FundsInv, FeesTypeOK, TreasuryBacked, PoolSolvent, Balances
<1>2. /\ u \in Users /\ in \in Nat /\ fee \in Nat
      /\ totalShieldedStx' = totalShieldedStx + in
      /\ treasury'.balance = treasury.balance + fee
      /\ stx' \in Balances
      /\ stx' = [stx EXCEPT ![u] = @ - (in + fee), ![PoolContract] = @ + in,
                            ![FeesContract] = @ + fee]
  BY DEF UserPays, Booked
<1>3. stx'[PoolContract] = stx[PoolContract] + in /\ stx'[FeesContract] = stx[FeesContract] + fee
  BY <1>1, <1>2, Places DEF Balances
<1>4. FeesTypeOK'
  BY <1>1, <1>2 DEF FeesTypeOK, UserPays, Booked, Balances
<1>5. TreasuryBacked'
  BY <1>1, <1>2, <1>3, Places DEF TreasuryBacked, UserPays, Booked, TreasuryBooks
<1>6. PoolSolvent' /\ totalShieldedStx' \in Nat
  BY <1>1, <1>2, <1>3, Places DEF PoolSolvent
<1> QED
  BY <1>4, <1>5, <1>6 DEF FundsInv, FlatFeesBounded, Limits

LEMMA PoolPaysFunds ==
  ASSUME FundsInv, NEW r, NEW out, NEW fee, PoolPays(r, out, fee),
         UNCHANGED <<feeConfigs, feesFrozen, treasuryFrozen, protocolLimits>>
  PROVE  FundsInv'
<1>1. /\ FeesTypeOK /\ totalShieldedStx \in Nat /\ stx \in Balances
      /\ stx[FeesContract] >= treasury.balance /\ stx[PoolContract] >= totalShieldedStx
      /\ treasury.balance \in Nat
      /\ \A p \in Principals : stx[p] \in Nat
  BY DEF FundsInv, FeesTypeOK, TreasuryBacked, PoolSolvent, Balances
<1>2. /\ r \in Principals \ {PoolContract, FeesContract} /\ out \in Nat /\ fee \in Nat
      /\ totalShieldedStx' = totalShieldedStx - out
      /\ treasury'.balance = treasury.balance + fee
      /\ stx' \in Balances
      /\ stx' = [stx EXCEPT ![PoolContract] = @ - out, ![FeesContract] = @ + fee,
                            ![r] = @ + (out - fee)]
  BY DEF PoolPays, Booked
<1>3. stx'[PoolContract] = stx[PoolContract] - out /\ stx'[FeesContract] = stx[FeesContract] + fee
  BY <1>1, <1>2, Places DEF Balances
<1>4. FeesTypeOK'
  BY <1>1, <1>2 DEF FeesTypeOK, PoolPays, Booked, Balances
<1>5. TreasuryBacked'
  BY <1>1, <1>2, <1>3, Places DEF TreasuryBacked, PoolPays, Booked, TreasuryBooks
<1>6. PoolSolvent' /\ totalShieldedStx' \in Nat
  BY <1>1, <1>2, <1>3, Places DEF PoolSolvent, PoolPays
<1> QED
  BY <1>4, <1>5, <1>6 DEF FundsInv, FlatFeesBounded, Limits

-----------------------------------------------------------------------------
(* The money of the staff and of plain transfers.                           *)

\* The pool's balance does not fall and nothing is collected.
NoMoneyLeavesPool ==
  stx'[PoolContract] >= stx[PoolContract] /\ treasury'.collected = treasury.collected

LEMMA TransferFunds ==
  ASSUME FundsInv, NEW from \in Principals \ {PoolContract, FeesContract},
         NEW to \in Principals, NEW amount \in Nat, CanPay(stx, from, to, amount),
         stx' = Pay(stx, from, to, amount),
         UNCHANGED <<feeVars, protocolLimits, totalShieldedStx>>
  PROVE  FundsInv' /\ NoMoneyLeavesPool
<1>1. stx \in Balances /\ \A p \in Principals : stx[p] \in Nat
  BY DEF FundsInv, FeesTypeOK, Balances
<1>2. /\ stx' \in Balances
      /\ stx'[to] = stx[to] + amount
      /\ \A p \in Principals \ {from, to} : stx'[p] = stx[p]
  BY <1>1, PayMoves
<1>3. stx'[PoolContract] >= stx[PoolContract] /\ stx'[FeesContract] >= stx[FeesContract]
  BY <1>1, <1>2, Places
<1>4. /\ stx[FeesContract] >= treasury.balance /\ stx[PoolContract] >= totalShieldedStx
      /\ treasury.balance \in Nat /\ totalShieldedStx \in Nat
      /\ \A p \in Principals : stx'[p] \in Nat
  BY <1>2 DEF FundsInv, FeesTypeOK, TreasuryBacked, PoolSolvent, Balances
<1>5. stx'[PoolContract] >= totalShieldedStx /\ stx'[FeesContract] >= treasury.balance
  BY <1>1, <1>3, <1>4, Places
<1>6. FundsInv'
  BY <1>2, <1>5
     DEF FundsInv, FeesTypeOK, TreasuryBacked, PoolSolvent, FlatFeesBounded, Balances,
         feeVars, feeConfigVars, treasuryVars, Limits
<1> QED
  BY <1>3, <1>6 DEF NoMoneyLeavesPool, feeVars, treasuryVars

LEMMA WithdrawFeesFunds ==
  ASSUME FundsInv, NEW p, WithdrawFees(p)
  PROVE  FundsInv' /\ NoMoneyLeavesPool
<1>1. PICK amount \in AmountInputs, recipient \in RecipientInputs :
        /\ amount > 0
        /\ amount <= treasury.balance
        /\ CanPay(stx, FeesContract, recipient, amount)
        /\ stx' = Pay(stx, FeesContract, recipient, amount)
        /\ treasury' = [treasury EXCEPT !.withdrawn = @ + amount, !.balance = @ - amount]
  BY DEF WithdrawFees
<1>2. /\ stx \in Balances /\ amount \in Nat /\ recipient \in Principals
      /\ treasury \in [collected : Nat, withdrawn : Nat, balance : Nat]
      /\ \A q \in Principals : stx[q] \in Nat
  BY InputsAssumption, FeesAssumption DEF FundsInv, FeesTypeOK, Balances
<1>3. /\ stx' \in Balances /\ recipient # FeesContract
      /\ stx'[FeesContract] = stx[FeesContract] - amount
      /\ stx'[recipient] = stx[recipient] + amount
      /\ \A q \in Principals \ {FeesContract, recipient} : stx'[q] = stx[q]
  BY <1>1, <1>2, Places, PayMoves
<1>4. stx'[PoolContract] >= stx[PoolContract]
  BY <1>2, <1>3, Places
<1>5. /\ treasury'.balance = treasury.balance - amount /\ treasury'.balance \in Nat
      /\ treasury'.withdrawn = treasury.withdrawn + amount /\ treasury'.withdrawn \in Nat
      /\ treasury'.collected = treasury.collected
  BY <1>1, <1>2
<1>6. treasury' \in [collected : Nat, withdrawn : Nat, balance : Nat]
  BY <1>1, <1>2, <1>5
<1>7. UNCHANGED <<feeConfigs, feesFrozen, treasuryFrozen, feeTypeStats, protocolLimits,
                  totalShieldedStx>>
  BY DEF WithdrawFees, feeConfigVars, registryVars, configVars, ledgerVars, flowVars
<1>8. FeesTypeOK'
  BY <1>3, <1>6, <1>7 DEF FundsInv, FeesTypeOK, Balances
<1>9. TreasuryBacked'
  <2>1. treasury'.balance + treasury'.withdrawn = treasury.balance + treasury.withdrawn
    BY <1>2, <1>5
  <2>2. stx'[FeesContract] >= treasury'.balance
    BY <1>2, <1>3, <1>5, Places DEF FundsInv, TreasuryBacked
  <2> QED
    BY <1>5, <1>7, <2>1, <2>2 DEF FundsInv, TreasuryBacked
<1>10. PoolSolvent'
  <2>1. totalShieldedStx \in Nat /\ stx[PoolContract] >= totalShieldedStx /\ stx'[PoolContract] \in Nat
    BY <1>3, Places DEF FundsInv, PoolSolvent, Balances
  <2> QED
    BY <1>2, <1>4, <1>7, <2>1, Places DEF PoolSolvent
<1> QED
  BY <1>4, <1>5, <1>7, <1>8, <1>9, <1>10 DEF FundsInv, FlatFeesBounded, NoMoneyLeavesPool, Limits

\* A step that only touches settings.
LEMMA SettingsFunds ==
  ASSUME FundsInv, UNCHANGED <<treasury, feeTypeStats, stx, totalShieldedStx>>,
         feeConfigs' \in [FeeTypes -> FeeConfig], FlatFeesBounded',
         feesFrozen' \in BOOLEAN, treasuryFrozen' \in BOOLEAN, protocolLimits' \in Limits
  PROVE  FundsInv' /\ NoMoneyLeavesPool
<1>1. FundsInv'
  BY DEF FundsInv, FeesTypeOK, TreasuryBacked, PoolSolvent
<1>2. stx[PoolContract] \in Nat
  BY Places DEF FundsInv, FeesTypeOK
<1> QED
  BY <1>1, <1>2 DEF NoMoneyLeavesPool

LEMMA StaffFunds ==
  ASSUME FundsInv, NEW p \in Users \cup Staff, IncidentStep(p) \/ UpgradeStep(p) \/ TreasuryStep(p)
  PROVE  FundsInv' /\ NoMoneyLeavesPool
<1>0. /\ feeConfigs \in [FeeTypes -> FeeConfig] /\ FlatFeesBounded
      /\ feesFrozen \in BOOLEAN /\ treasuryFrozen \in BOOLEAN /\ protocolLimits \in Limits
  BY DEF FundsInv, FeesTypeOK
<1>1. ASSUME UNCHANGED <<feeVars, stx, totalShieldedStx>>, protocolLimits' \in Limits
      PROVE  FundsInv' /\ NoMoneyLeavesPool
  BY <1>0, <1>1, SettingsFunds DEF FlatFeesBounded, feeVars, feeConfigVars, treasuryVars
<1>2. ASSUME UNCHANGED <<registryVars, feeVars, stx>> PROVE FundsInv' /\ NoMoneyLeavesPool
  <2>1. UNCHANGED <<protocolLimits, totalShieldedStx>>
    BY <1>2 DEF registryVars, configVars, ledgerVars, flowVars
  <2> QED
    BY <1>0, <1>1, <1>2, <2>1
<1>3. CASE LifecycleStep(p) /\ UNCHANGED beyondRegistry
  <2>1. UNCHANGED <<protocolLimits, totalShieldedStx, feeVars, stx>>
    BY <1>3, LifecycleFrame DEF configVars, ledgerVars, flowVars, beyondRegistry
  <2> QED
    BY <1>0, <1>1, <2>1
<1>4. CASE ConfigStep(p) /\ UNCHANGED beyondRegistry
  <2>1. UNCHANGED <<totalShieldedStx, feeVars, stx>>
    BY <1>4, ConfigFrame DEF ledgerVars, flowVars, beyondRegistry
  <2>2. protocolLimits' \in Limits
    <3>1. CASE UpdateVersions(p) \/ SetVerifierVersions(p)
      BY <1>0, <3>1 DEF UpdateVersions, SetVerifierVersions
    <3>2. CASE UpdateProtocolLimits(p)
      BY <3>2, InputsAssumption DEF UpdateProtocolLimits
    <3>3. CASE SetMaxFeeBps(p)
      BY <1>0, <3>3, InputsAssumption DEF SetMaxFeeBps, Limits
    <3> QED
      BY <1>4, <3>1, <3>2, <3>3 DEF ConfigStep
  <2> QED
    BY <1>1, <2>1, <2>2
<1>5. CASE IncidentStep(p)
  <2>1. CASE SetRootStatus(p) /\ UNCHANGED beyondRegistry
    <3>1. UNCHANGED <<protocolLimits, totalShieldedStx, feeVars, stx>>
      BY <2>1 DEF SetRootStatus, nonLedgerVars, configVars, flowVars, beyondRegistry
    <3> QED
      BY <1>0, <1>1, <3>1
  <2>2. CASE SetVerificationFrozen(p) /\ UNCHANGED <<noteVars, feeVars, stx, switches>>
    BY <1>2, <2>2 DEF SetVerificationFrozen
  <2>3. CASE SetPoolSwitch(p) \/ SetManagerSwitch(p)
    BY <1>2, <2>3 DEF SetPoolSwitch, SetManagerSwitch, SetSwitch
  <2> QED
    BY <1>3, <1>5, <2>1, <2>2, <2>3 DEF IncidentStep
<1>6. CASE UpgradeStep(p)
  <2>1. CASE /\ \/ RegisterVerificationKey(p) \/ SetVerificationKeyStatus(p)
                \/ SetZkverifyContextHash(p) \/ SetZkverifyBinding(p)
             /\ UNCHANGED <<noteVars, feeVars, stx, switches>>
    BY <1>2, <2>1 DEF RegisterVerificationKey, SetVerificationKeyStatus, SetZkverifyContextHash,
                      SetZkverifyBinding
  <2> QED
    BY <1>3, <1>4, <1>6, <2>1 DEF UpgradeStep
<1>7. CASE TreasuryStep(p)
  <2>1. CASE SetFee(p)
    <3>1. PICK type \in FeeTypes, new \in FeeInputs :
            new.flat <= FlatFeeCeiling /\ feeConfigs' = [feeConfigs EXCEPT ![type] = new]
      BY <2>1 DEF SetFee
    <3>2. new \in FeeConfig
      BY FeesAssumption
    <3>3. feeConfigs' \in [FeeTypes -> FeeConfig]
      BY <1>0, <3>1, <3>2
    <3>4. FlatFeesBounded'
      BY <1>0, <3>1 DEF FlatFeesBounded
    <3>5. UNCHANGED <<treasury, feeTypeStats, stx, totalShieldedStx, feesFrozen, treasuryFrozen,
                      protocolLimits>>
      BY <2>1 DEF SetFee, treasuryVars, registryVars, configVars, ledgerVars, flowVars
    <3> QED
      BY <1>0, <3>3, <3>4, <3>5, SettingsFunds
  <2>2. CASE FreezeFees(p) \/ UnfreezeFees(p) \/ FreezeTreasury(p) \/ UnfreezeTreasury(p)
    <3>1. /\ UNCHANGED <<treasury, feeTypeStats, stx, totalShieldedStx, feeConfigs, protocolLimits>>
          /\ feesFrozen' \in BOOLEAN /\ treasuryFrozen' \in BOOLEAN
      BY <1>0, <2>2 DEF FreezeFees, UnfreezeFees, FreezeTreasury, UnfreezeTreasury, treasuryVars,
                        registryVars, configVars, ledgerVars, flowVars
    <3>2. FlatFeesBounded'
      BY <1>0, <3>1 DEF FlatFeesBounded
    <3> QED
      BY <1>0, <3>1, <3>2, SettingsFunds
  <2>3. CASE WithdrawFees(p)
    BY <2>3, WithdrawFeesFunds
  <2>4. CASE StxTransfer(p)
    <3>1. PICK to \in RecipientInputs, amount \in AmountInputs :
            CanPay(stx, p, to, amount) /\ stx' = Pay(stx, p, to, amount)
      BY <2>4 DEF StxTransfer
    <3>2. /\ to \in Principals /\ amount \in Nat
          /\ p \in Principals \ {PoolContract, FeesContract}
      BY InputsAssumption, FeesAssumption, StaffAssumption, PrincipalsAssumption, Places
    <3>3. UNCHANGED <<feeVars, protocolLimits, totalShieldedStx>>
      BY <2>4 DEF StxTransfer, registryVars, configVars, ledgerVars, flowVars
    <3> QED
      BY <3>1, <3>2, <3>3, TransferFunds
  <2>5. CASE SetMaxFeeBps(p) /\ UNCHANGED beyondRegistry
    BY <1>4, <2>5 DEF ConfigStep
  <2> QED
    BY <1>7, <2>1, <2>2, <2>3, <2>4, <2>5 DEF TreasuryStep, FeesAdminStep
<1> QED
  BY <1>5, <1>6, <1>7

-----------------------------------------------------------------------------
(* The funds, always.                                                       *)

LEMMA FundsStart == ASSUME NEW callers, DeployedWith(callers) PROVE FundsInv
<1>1. /\ FeesInit /\ totalShieldedStx = 0 /\ protocolLimits = DefaultLimits
  BY DEF DeployedWith
<1>2. protocolLimits \in Limits
  BY <1>1, BoundsAssumption
<1>3. FeesTypeOK /\ FlatFeesBounded
  <2>1. [bps |-> 0, flat |-> 0, enabled |-> TRUE] \in FeeConfig
    BY DEF FeeConfig
  <2>2. /\ feeConfigs \in [FeeTypes -> FeeConfig]
        /\ feeTypeStats \in [FeeTypes -> Nat]
        /\ stx \in [Principals -> Nat]
        /\ feesFrozen \in BOOLEAN /\ treasuryFrozen \in BOOLEAN
    BY <1>1, <2>1, FeesAssumption DEF FeesInit
  <2>3. treasury \in [collected : Nat, withdrawn : Nat, balance : Nat]
    BY <1>1 DEF FeesInit
  <2>4. \A t \in FeeTypes : feeConfigs[t].flat = 0
    BY <1>1 DEF FeesInit
  <2>5. FlatFeesBounded
    BY <2>4, FeesAssumption DEF FlatFeesBounded
  <2> QED
    BY <2>2, <2>3, <2>5 DEF FeesTypeOK
<1>4. TreasuryBacked
  BY <1>1, FeesAssumption DEF FeesInit, TreasuryBacked, FeeTypes
<1>5. PoolSolvent
  BY <1>1, <1>3, Places DEF FeesTypeOK, PoolSolvent
<1> QED
  BY <1>1, <1>2, <1>3, <1>4, <1>5 DEF FundsInv

LEMMA FundsStep == FundsInv /\ [SystemNext]_poolVars => FundsInv'
<1> SUFFICES ASSUME FundsInv, [SystemNext]_poolVars PROVE FundsInv'
  OBVIOUS
<1>1. CASE UNCHANGED poolVars
  BY <1>1 DEF poolVars, registryVars, configVars, ledgerVars, flowVars, feeVars, feeConfigVars,
              treasuryVars, FundsInv, FeesTypeOK, TreasuryBacked, PoolSolvent,
              FlatFeesBounded, Limits
<1>2. CASE SystemNext
  BY <1>2, SystemSteps, UserMovesMoney, UserPaysFunds, PoolPaysFunds, StaffFunds
<1> QED
  BY <1>1, <1>2

LEMMA FundsInvariant == SystemSpec => []FundsInv
<1>1. PoolInit => FundsInv
  BY FundsStart DEF PoolInit
<1> QED
  BY <1>1, FundsStep, PTL DEF SystemSpec

\* The treasury's books balance, the fees contract holds what they say and the
\* pool holds what is shielded: at whatever rates fees are set, collected, frozen
\* and paid out, and whoever sends STX to whom.
THEOREM FundsAlwaysBacked == SystemSpec => []FundsBacked
<1>1. FundsInv => FundsBacked
  BY DEF FundsInv, FundsBacked
<1> QED
  BY <1>1, FundsInvariant, PTL

\* The actions of the two money properties.
PaysOnlyWithdrawals ==
  stx'[PoolContract] < stx[PoolContract] =>
    LET out == stx[PoolContract] - stx'[PoolContract]
        fee == treasury'.collected - treasury.collected
    IN  /\ totalShieldedStx - totalShieldedStx' = out
        /\ fee < out
        /\ fee <= FlatFeeCeiling
                    + (out * protocolLimits.maxFeeBps) \div BpsDenominator
        /\ \E r \in Principals \ {PoolContract, FeesContract, BurnAddress} :
             stx' = [stx EXCEPT ![PoolContract] = @ - out,
                                ![FeesContract] = @ + fee,
                                ![r] = @ + (out - fee)]

ShieldsDepositsWhole ==
  treasury'.collected > treasury.collected /\ totalShieldedStx' >= totalShieldedStx =>
    LET in == totalShieldedStx' - totalShieldedStx
        fee == treasury'.collected - treasury.collected
    IN  /\ fee <= FlatFeeCeiling + (in * protocolLimits.maxFeeBps) \div BpsDenominator
        /\ \E u \in Users :
             stx' = [stx EXCEPT ![u] = @ - (in + fee), ![PoolContract] = @ + in,
                                ![FeesContract] = @ + fee]

LEMMA MoneyTypes ==
  ASSUME FundsInv
  PROVE  /\ stx \in Balances /\ stx[PoolContract] \in Nat /\ treasury.collected \in Nat
         /\ totalShieldedStx \in Nat
BY Places DEF FundsInv, FeesTypeOK, Balances

LEMMA UserPaysExactly ==
  ASSUME FundsInv, NEW u, NEW in, NEW fee, UserPays(u, in, fee)
  PROVE  PaysOnlyWithdrawals /\ ShieldsDepositsWhole
<1>1. /\ u \in Users /\ in \in Nat /\ fee \in Nat /\ fee <= FeeBound(in)
      /\ totalShieldedStx' = totalShieldedStx + in
      /\ treasury'.collected = treasury.collected + fee
      /\ stx' = [stx EXCEPT ![u] = @ - (in + fee), ![PoolContract] = @ + in,
                            ![FeesContract] = @ + fee]
  BY DEF UserPays, Booked
<1>2. /\ stx \in Balances /\ stx[PoolContract] \in Nat /\ treasury.collected \in Nat
      /\ totalShieldedStx \in Nat
  BY MoneyTypes
<1>3. stx'[PoolContract] = stx[PoolContract] + in
  BY <1>1, <1>2, Places DEF Balances
<1>4. ~(stx'[PoolContract] < stx[PoolContract])
  BY <1>1, <1>2, <1>3
<1>5. /\ totalShieldedStx' - totalShieldedStx = in
      /\ treasury'.collected - treasury.collected = fee
  BY <1>1, <1>2
<1>6. ShieldsDepositsWhole
  BY <1>1, <1>5 DEF ShieldsDepositsWhole, FeeBound
<1> QED
  BY <1>4, <1>6 DEF PaysOnlyWithdrawals

LEMMA PoolPaysExactly ==
  ASSUME FundsInv, NEW r, NEW out, NEW fee, PoolPays(r, out, fee)
  PROVE  PaysOnlyWithdrawals /\ ShieldsDepositsWhole
<1>1. /\ r \in Principals \ {PoolContract, FeesContract, BurnAddress}
      /\ out \in Nat /\ fee \in Nat /\ fee < out /\ fee <= FeeBound(out)
      /\ totalShieldedStx' = totalShieldedStx - out
      /\ treasury'.collected = treasury.collected + fee
      /\ stx' = [stx EXCEPT ![PoolContract] = @ - out, ![FeesContract] = @ + fee,
                            ![r] = @ + (out - fee)]
  BY DEF PoolPays, Booked
<1>2. /\ stx \in Balances /\ stx[PoolContract] \in Nat /\ treasury.collected \in Nat
      /\ totalShieldedStx \in Nat
  BY MoneyTypes
<1>3. stx'[PoolContract] = stx[PoolContract] - out
  BY <1>1, <1>2, Places DEF Balances
<1>4. /\ stx[PoolContract] - stx'[PoolContract] = out
      /\ treasury'.collected - treasury.collected = fee
      /\ totalShieldedStx - totalShieldedStx' = out
  BY <1>1, <1>2, <1>3
<1>5. PaysOnlyWithdrawals
  BY <1>1, <1>4 DEF PaysOnlyWithdrawals, FeeBound
<1>6. ~(totalShieldedStx' >= totalShieldedStx)
  BY <1>1, <1>2
<1> QED
  BY <1>5, <1>6 DEF ShieldsDepositsWhole

LEMMA NothingPaid ==
  ASSUME FundsInv, NoMoneyLeavesPool, FundsInv'
  PROVE  PaysOnlyWithdrawals /\ ShieldsDepositsWhole
<1>1. /\ stx[PoolContract] \in Nat /\ treasury.collected \in Nat /\ stx'[PoolContract] \in Nat
  BY MoneyTypes, Places DEF FundsInv, FeesTypeOK, Balances
<1> QED
  BY <1>1 DEF NoMoneyLeavesPool, PaysOnlyWithdrawals, ShieldsDepositsWhole

LEMMA MoneyStep ==
  ASSUME FundsInv, [SystemNext]_poolVars
  PROVE  [PaysOnlyWithdrawals /\ ShieldsDepositsWhole]_poolVars
<1>1. CASE SystemNext
  BY <1>1, SystemSteps, UserMovesMoney, UserPaysExactly, PoolPaysExactly, StaffFunds, NothingPaid
<1> QED
  BY <1>1

\* STX leaves the pool for a withdrawal's one recipient only, in the amount the
\* shielded total falls by less a fee below the ceilings in force, and a user
\* never pays more than the deposit, which is shielded whole, and such a fee:
\* whatever fees and ceilings the administrators set between two operations.
THEOREM MoneyAlwaysMovesExactly == SystemSpec => MoneyMovesExactly
<1>1. FundsInv /\ [SystemNext]_poolVars => [PaysOnlyWithdrawals]_poolVars
  BY MoneyStep
<1>2. FundsInv /\ [SystemNext]_poolVars => [ShieldsDepositsWhole]_poolVars
  BY MoneyStep
<1>3. SystemSpec => [][PaysOnlyWithdrawals]_poolVars /\ [][ShieldsDepositsWhole]_poolVars
  BY <1>1, <1>2, FundsInvariant, PTL DEF SystemSpec
<1> QED
  BY <1>3 DEF MoneyMovesExactly, PoolPaysOnlyWithdrawals, DepositsAreShieldedWhole,
              PaysOnlyWithdrawals, ShieldsDepositsWhole

-----------------------------------------------------------------------------
(* What each operation takes from the verifier, the registry and the        *)
(* switches.                                                                *)

\* The statement of proof type t that contract presents is accepted, on the
\* compiled circuits, and its leaf recorded.
Accepts(t) ==
  /\ CheckActive /\ ~verificationFrozen
  /\ protocolVersions.circuit = CompiledCircuit
  /\ switches[OperationOf[t]]
  /\ \E context, binding, s :
       /\ s.op = t
       /\ <<context, binding, s>> \notin verifiedProofs
       /\ verifiedProofs' = verifiedProofs \cup {<<context, binding, s>>}
  /\ verificationStats' = Counted(verificationStats, t)

Produces(created, consumed, transfers, withdrawals) ==
  /\ totalCommitments' = totalCommitments + created
  /\ totalNullifiers' = totalNullifiers + consumed
  /\ totalTransfers' = totalTransfers + transfers
  /\ totalWithdrawals' = totalWithdrawals + withdrawals

EffectTypes ==
  totalCommitments \in Nat /\ totalNullifiers \in Nat /\ totalTransfers \in Nat /\ totalWithdrawals \in Nat

LEMMA StatementAccepted ==
  ASSUME NEW contract, NEW s, VerifyStatement(contract, s), NEW t, s.op = t,
         switches[OperationOf[t]], s.circuit = protocolVersions.circuit
  PROVE  Accepts(t)
<1>1. /\ CheckActive /\ ~verificationFrozen /\ Provable(s)
      /\ LeafOf(s.op, protocolVersions.circuit, s) \notin verifiedProofs
      /\ verifiedProofs' = verifiedProofs \cup {LeafOf(s.op, protocolVersions.circuit, s)}
      /\ verificationStats' = Counted(verificationStats, t)
  BY DEF VerifyStatement, VerifyProofCall
<1>2. protocolVersions.circuit = CompiledCircuit
  BY <1>1 DEF Provable
<1> DEFINE context == zkverifyContextHash
           binding == zkverifyBindings[<<s.op, protocolVersions.circuit>>]
<1>3. LeafOf(s.op, protocolVersions.circuit, s) = <<context, binding, s>>
  BY DEF LeafOf, StatementLeaf
<1> HIDE DEF context, binding
<1>4. /\ <<context, binding, s>> \notin verifiedProofs
      /\ verifiedProofs' = verifiedProofs \cup {<<context, binding, s>>}
  BY <1>1, <1>3
<1> QED
  BY <1>1, <1>2, <1>4 DEF Accepts

LEMMA ShieldAccepts ==
  ASSUME NEW user, Shield(user)
  PROVE  /\ Accepts(1) /\ IsKnownRoot(currentRoot.root)
         /\ EffectTypes => Produces(1, 0, 0, 0)
<1>1. PICK root \in DOMAIN merkleRoots, c \in Commitment, amount \in AmountInputs, slot \in Slots :
        /\ CheckCurrentRoot(root)
        /\ RegisterOutput(PoolContract, c)
        /\ VerifyStatement(PoolContract, TreeStatement(PROOF_TYPE_SHIELD, <<>>, <<c>>, amount, root, slot))
        /\ RecordShieldCall(PoolContract, amount)
  BY DEF Shield
<1> DEFINE s == TreeStatement(PROOF_TYPE_SHIELD, <<>>, <<c>>, amount, root, slot)
<1>2. s.op = 1 /\ s.circuit = protocolVersions.circuit
  BY DEF TreeStatement, TreeInputs, PROOF_TYPE_SHIELD
<1>3. VerifyStatement(PoolContract, s) /\ switches[OperationOf[1]]
  BY <1>1 DEF Shield, OperationOf
<1> HIDE DEF s
<1>4. Accepts(1)
  BY <1>2, <1>3, StatementAccepted
<1>5. /\ totalCommitments' = totalCommitments + 1
      /\ totalNullifiers' = totalNullifiers
      /\ UNCHANGED <<totalTransfers, totalWithdrawals>>
  BY <1>1 DEF Shield, RegisterOutput, RegisterCommitmentCall, RecordShieldCall, nullifierVars
<1> QED
  BY <1>1, <1>4, <1>5 DEF CheckCurrentRoot, Produces, EffectTypes

LEMMA TransferAccepts ==
  ASSUME NEW user, Transfer(user)
  PROVE  /\ Accepts(2) /\ IsKnownRoot(currentRoot.root)
         /\ EffectTypes => Produces(1, 1, 1, 0)
<1>1. PICK root \in DOMAIN merkleRoots, n \in Nullifier, c \in Commitment, slot \in Slots :
        /\ CheckCurrentRoot(root)
        /\ RegisterNullifierCall(PoolContract, n)
        /\ RegisterOutput(PoolContract, c)
        /\ VerifyStatement(PoolContract, TreeStatement(PROOF_TYPE_TRANSFER, <<n>>, <<c>>, 0, root, slot))
        /\ RecordTransferCall(PoolContract)
  BY DEF Transfer
<1> DEFINE s == TreeStatement(PROOF_TYPE_TRANSFER, <<n>>, <<c>>, 0, root, slot)
<1>2. s.op = 2 /\ s.circuit = protocolVersions.circuit
  BY DEF TreeStatement, TreeInputs, PROOF_TYPE_TRANSFER
<1>3. VerifyStatement(PoolContract, s) /\ switches[OperationOf[2]]
  BY <1>1 DEF Transfer, OperationOf
<1> HIDE DEF s
<1>4. Accepts(2)
  BY <1>2, <1>3, StatementAccepted
<1>5. /\ totalCommitments' = totalCommitments + 1
      /\ totalNullifiers' = totalNullifiers + 1
      /\ totalTransfers' = totalTransfers + 1 /\ totalWithdrawals' = totalWithdrawals
  BY <1>1 DEF Transfer, RegisterOutput, RegisterCommitmentCall, RegisterNullifierCall, RecordTransferCall
<1> QED
  BY <1>1, <1>4, <1>5 DEF CheckCurrentRoot, Produces, EffectTypes

LEMMA WithdrawAccepts ==
  ASSUME NEW user, Withdraw(user)
  PROVE  /\ Accepts(3)
         /\ EffectTypes => Produces(0, 1, 0, 1)
<1>1. PICK root \in DOMAIN merkleRoots, n \in Nullifier, amount \in AmountInputs, recipient \in RecipientInputs :
        /\ RegisterNullifierCall(PoolContract, n)
        /\ VerifyStatement(PoolContract, WithdrawStatement(n, amount, recipient, root))
        /\ RecordWithdrawalCall(PoolContract, amount)
  BY DEF Withdraw
<1> DEFINE s == WithdrawStatement(n, amount, recipient, root)
<1>2. s.op = 3 /\ s.circuit = protocolVersions.circuit
  BY DEF WithdrawStatement, WithdrawInputs, PROOF_TYPE_WITHDRAWAL
<1>3. VerifyStatement(PoolContract, s) /\ switches[OperationOf[3]]
  BY <1>1 DEF Withdraw, OperationOf
<1> HIDE DEF s
<1>4. Accepts(3)
  BY <1>2, <1>3, StatementAccepted
<1>5. /\ totalCommitments' = totalCommitments
      /\ totalNullifiers' = totalNullifiers + 1
      /\ totalTransfers' = totalTransfers /\ totalWithdrawals' = totalWithdrawals + 1
  BY <1>1 DEF Withdraw, RegisterNullifierCall, RecordWithdrawalCall, commitmentVars
<1> QED
  BY <1>1, <1>4, <1>5 DEF CheckCurrentRoot, Produces, EffectTypes

LEMMA SplitAccepts ==
  ASSUME NEW user, SplitNote(user)
  PROVE  /\ Accepts(4) /\ IsKnownRoot(currentRoot.root)
         /\ EffectTypes => Produces(2, 1, 0, 0)
<1>1. PICK root \in DOMAIN merkleRoots, n \in Nullifier, c \in Commitment, d \in Commitment, slot \in Slots :
        /\ CheckCurrentRoot(root)
        /\ RegisterNullifierCall(SplitMergeContract, n)
        /\ RegisterCommitmentPairCall(SplitMergeContract, c, d, protocolVersions.commitment)
        /\ VerifyStatement(SplitMergeContract,
                           TreeStatement(PROOF_TYPE_SPLIT, <<n>>, <<c, d>>, 0, root, slot))
  BY DEF SplitNote
<1> DEFINE s == TreeStatement(PROOF_TYPE_SPLIT, <<n>>, <<c, d>>, 0, root, slot)
<1>2. s.op = 4 /\ s.circuit = protocolVersions.circuit
  BY DEF TreeStatement, TreeInputs, PROOF_TYPE_SPLIT
<1>3. VerifyStatement(SplitMergeContract, s) /\ switches[OperationOf[4]]
  BY <1>1 DEF SplitNote, OperationOf
<1> HIDE DEF s
<1>4. Accepts(4)
  BY <1>2, <1>3, StatementAccepted
<1>5. /\ totalCommitments' = totalCommitments + 2
      /\ totalNullifiers' = totalNullifiers + 1
      /\ totalTransfers' = totalTransfers /\ totalWithdrawals' = totalWithdrawals
  BY <1>1 DEF SplitNote, RegisterCommitmentPairCall, RegisterNullifierCall, flowVars
<1> QED
  BY <1>1, <1>4, <1>5 DEF CheckCurrentRoot, Produces, EffectTypes

LEMMA MergeAccepts ==
  ASSUME NEW user, MergeNotes(user)
  PROVE  /\ Accepts(5) /\ IsKnownRoot(currentRoot.root)
         /\ EffectTypes => Produces(1, 2, 0, 0)
<1>1. PICK root \in DOMAIN merkleRoots, m \in Nullifier, n \in Nullifier, c \in Commitment, slot \in Slots :
        /\ CheckCurrentRoot(root)
        /\ RegisterNullifierPairCall(SplitMergeContract, m, n)
        /\ RegisterOutput(SplitMergeContract, c)
        /\ VerifyStatement(SplitMergeContract,
                           TreeStatement(PROOF_TYPE_MERGE, <<m, n>>, <<c>>, 0, root, slot))
  BY DEF MergeNotes
<1> DEFINE s == TreeStatement(PROOF_TYPE_MERGE, <<m, n>>, <<c>>, 0, root, slot)
<1>2. s.op = 5 /\ s.circuit = protocolVersions.circuit
  BY DEF TreeStatement, TreeInputs, PROOF_TYPE_MERGE
<1>3. VerifyStatement(SplitMergeContract, s) /\ switches[OperationOf[5]]
  BY <1>1 DEF MergeNotes, OperationOf
<1> HIDE DEF s
<1>4. Accepts(5)
  BY <1>2, <1>3, StatementAccepted
<1>5. /\ totalCommitments' = totalCommitments + 1
      /\ totalNullifiers' = totalNullifiers + 2
      /\ totalTransfers' = totalTransfers /\ totalWithdrawals' = totalWithdrawals
  BY <1>1 DEF MergeNotes, RegisterOutput, RegisterCommitmentCall, RegisterNullifierPairCall, flowVars
<1> QED
  BY <1>1, <1>4, <1>5 DEF CheckCurrentRoot, Produces, EffectTypes

\* What has to be in place for a user operation to take effect.
LEMMA UserAccepts ==
  ASSUME NEW user, UserStep(user)
  PROVE  \E t \in ProofTypes :
           /\ Accepts(t)
           /\ \/ IsKnownRoot(currentRoot.root)
              \/ UNCHANGED <<commitmentVars, currentRoot, notes, totalNotes>>
           /\ EffectTypes =>
                \/ t = 1 /\ Produces(1, 0, 0, 0)
                \/ t = 2 /\ Produces(1, 1, 1, 0)
                \/ t = 3 /\ Produces(0, 1, 0, 1)
                \/ t = 4 /\ Produces(2, 1, 0, 0)
                \/ t = 5 /\ Produces(1, 2, 0, 0)
<1> USE DEF ProofTypes
<1>1. CASE Shield(user)
  BY <1>1, ShieldAccepts
<1>2. CASE Transfer(user)
  BY <1>2, TransferAccepts
<1>3. CASE Withdraw(user)
  <2>1. UNCHANGED <<commitmentVars, currentRoot, notes, totalNotes>>
    BY <1>3 DEF Withdraw, rootVars, noteVars
  <2> QED
    BY <1>3, <2>1, WithdrawAccepts
<1>4. CASE SplitNote(user)
  BY <1>4, SplitAccepts
<1>5. CASE MergeNotes(user)
  BY <1>5, MergeAccepts
<1> QED
  BY <1>1, <1>2, <1>3, <1>4, <1>5 DEF UserStep

-----------------------------------------------------------------------------
(* Every effect has its proof.                                              *)

EffectsInv ==
  /\ EffectTypes
  /\ IsFiniteSet(verifiedProofs)
  /\ verificationStats \in [StatBuckets -> Nat]
  /\ ProofsAccountForEffects

\* An acceptance counts for its own type only.
LEMMA AcceptedAfter ==
  ASSUME IsFiniteSet(verifiedProofs), NEW t \in ProofTypes, Accepts(t)
  PROVE  /\ IsFiniteSet(verifiedProofs')
         /\ \A u \in ProofTypes :
              /\ AcceptedCount(u) \in Nat
              /\ u # t => Accepted(verifiedProofs', u) = Accepted(verifiedProofs, u)
              /\ AcceptedCount(u)' = AcceptedCount(u) + IF u = t THEN 1 ELSE 0
<1>1. PICK context, binding, s :
        /\ s.op = t
        /\ <<context, binding, s>> \notin verifiedProofs
        /\ verifiedProofs' = verifiedProofs \cup {<<context, binding, s>>}
  BY DEF Accepts
<1> DEFINE leaf == <<context, binding, s>>
<1>2. leaf[3].op = t
  BY <1>1
<1>3. leaf \notin verifiedProofs /\ verifiedProofs' = verifiedProofs \cup {leaf}
  BY <1>1
<1> HIDE DEF leaf
<1>4. IsFiniteSet(verifiedProofs')
  BY <1>3, FS_AddElement
<1>5. ASSUME NEW u \in ProofTypes
      PROVE  /\ IsFiniteSet(Accepted(verifiedProofs, u)) /\ AcceptedCount(u) \in Nat
             /\ u # t => Accepted(verifiedProofs', u) = Accepted(verifiedProofs, u)
             /\ u = t => /\ Accepted(verifiedProofs', u) = Accepted(verifiedProofs, u) \cup {leaf}
                         /\ leaf \notin Accepted(verifiedProofs, u)
  <2>1. Accepted(verifiedProofs, u) \subseteq verifiedProofs
    BY DEF Accepted
  <2>2. IsFiniteSet(Accepted(verifiedProofs, u)) /\ Cardinality(Accepted(verifiedProofs, u)) \in Nat
    BY <2>1, FS_Subset, FS_CardinalityType
  <2> QED
    BY <1>2, <1>3, <2>2 DEF Accepted, AcceptedCount
<1>6. ASSUME NEW u \in ProofTypes
      PROVE  AcceptedCount(u)' = AcceptedCount(u) + IF u = t THEN 1 ELSE 0
  <2>1. CASE u = t
    <3>1. Cardinality(Accepted(verifiedProofs, u) \cup {leaf})
            = Cardinality(Accepted(verifiedProofs, u)) + 1
      BY <1>5, <2>1, FS_AddElement
    <3> QED
      BY <1>5, <2>1, <3>1 DEF AcceptedCount
  <2>2. CASE u # t
    BY <1>5, <2>2 DEF AcceptedCount
  <2> QED
    BY <2>1, <2>2
<1> QED
  BY <1>4, <1>5, <1>6

LEMMA StatsAfter ==
  ASSUME verificationStats \in [StatBuckets -> Nat], NEW t \in ProofTypes, Accepts(t)
  PROVE  /\ verificationStats' \in [StatBuckets -> Nat]
         /\ verificationStats'["withdrawal"]
              = verificationStats["withdrawal"] + IF t = 3 THEN 1 ELSE 0
         /\ verificationStats'["other"]
              = verificationStats["other"] + IF t \in {4, 5} THEN 1 ELSE 0
<1>1. BucketOf[t] = CASE t = 1 -> "shield" [] t = 2 -> "transfer" [] t = 3 -> "withdrawal"
                      [] OTHER -> "other"
  BY DEF BucketOf, PROOF_TYPE_SHIELD, PROOF_TYPE_TRANSFER, PROOF_TYPE_WITHDRAWAL
<1>2. verificationStats'
        = [b \in StatBuckets |-> IF b \in {"total", BucketOf[t]} THEN verificationStats[b] + 1
                                                                ELSE verificationStats[b]]
  BY DEF Accepts, Counted
<1>3. verificationStats' \in [StatBuckets -> Nat]
  BY <1>2
<1>4. "withdrawal" \in StatBuckets /\ "other" \in StatBuckets
  BY DEF StatBuckets
<1>5. /\ verificationStats["withdrawal"] \in Nat /\ verificationStats["other"] \in Nat
  BY <1>4
<1>6. /\ BucketOf[t] = "withdrawal" <=> t = 3
      /\ BucketOf[t] = "other" <=> t \in {4, 5}
  BY <1>1 DEF ProofTypes
<1>7. verificationStats'["withdrawal"] = verificationStats["withdrawal"] + IF t = 3 THEN 1 ELSE 0
  BY <1>2, <1>4, <1>5, <1>6
<1>8. verificationStats'["other"] = verificationStats["other"] + IF t \in {4, 5} THEN 1 ELSE 0
  BY <1>2, <1>4, <1>5, <1>6
<1> QED
  BY <1>3, <1>7, <1>8

LEMMA UserEffects ==
  ASSUME EffectsInv, NEW user, UserStep(user)
  PROVE  EffectsInv'
<1>1. PICK t \in ProofTypes :
        /\ Accepts(t)
        /\ \/ t = 1 /\ Produces(1, 0, 0, 0)
           \/ t = 2 /\ Produces(1, 1, 1, 0)
           \/ t = 3 /\ Produces(0, 1, 0, 1)
           \/ t = 4 /\ Produces(2, 1, 0, 0)
           \/ t = 5 /\ Produces(1, 2, 0, 0)
  BY UserAccepts DEF EffectsInv
<1>2. /\ EffectTypes /\ IsFiniteSet(verifiedProofs) /\ verificationStats \in [StatBuckets -> Nat]
      /\ ProofsAccountForEffects
  BY DEF EffectsInv
<1>3. /\ IsFiniteSet(verifiedProofs')
      /\ \A u \in ProofTypes : /\ AcceptedCount(u) \in Nat
                               /\ AcceptedCount(u)' = AcceptedCount(u) + IF u = t THEN 1 ELSE 0
  BY <1>1, <1>2, AcceptedAfter
<1>4. /\ verificationStats' \in [StatBuckets -> Nat]
      /\ verificationStats'["withdrawal"]
           = verificationStats["withdrawal"] + IF t = 3 THEN 1 ELSE 0
      /\ verificationStats'["other"]
           = verificationStats["other"] + IF t \in {4, 5} THEN 1 ELSE 0
  BY <1>1, <1>2, StatsAfter
<1>5. EffectTypes'
  BY <1>1, <1>2 DEF EffectTypes, Produces
<1> DEFINE a1 == AcceptedCount(1)
           a2 == AcceptedCount(2)
           a3 == AcceptedCount(3)
           a4 == AcceptedCount(4)
           a5 == AcceptedCount(5)
<1>6. a1 \in Nat /\ a2 \in Nat /\ a3 \in Nat /\ a4 \in Nat /\ a5 \in Nat
  BY <1>3 DEF ProofTypes
<1>7. /\ a1' = a1 + IF t = 1 THEN 1 ELSE 0
      /\ a2' = a2 + IF t = 2 THEN 1 ELSE 0
      /\ a3' = a3 + IF t = 3 THEN 1 ELSE 0
      /\ a4' = a4 + IF t = 4 THEN 1 ELSE 0
      /\ a5' = a5 + IF t = 5 THEN 1 ELSE 0
  BY <1>3 DEF ProofTypes
<1>8. /\ totalCommitments = a1 + a2 + 2 * a4 + a5
      /\ totalNullifiers = a2 + a3 + a4 + 2 * a5
      /\ totalTransfers = a2 /\ totalWithdrawals = a3
      /\ verificationStats["withdrawal"] = totalWithdrawals
      /\ verificationStats["other"] = a4 + a5
  BY <1>2 DEF ProofsAccountForEffects
<1> HIDE DEF a1, a2, a3, a4, a5
<1>9. /\ totalCommitments' = a1' + a2' + 2 * a4' + a5'
      /\ totalNullifiers' = a2' + a3' + a4' + 2 * a5'
      /\ totalTransfers' = a2' /\ totalWithdrawals' = a3'
      /\ verificationStats'["withdrawal"] = totalWithdrawals'
      /\ verificationStats'["other"] = a4' + a5'
  <2>1. CASE t = 1
    BY <1>1, <1>4, <1>6, <1>7, <1>8, <2>1 DEF Produces
  <2>2. CASE t = 2
    BY <1>1, <1>4, <1>6, <1>7, <1>8, <2>2 DEF Produces
  <2>3. CASE t = 3
    BY <1>1, <1>4, <1>6, <1>7, <1>8, <2>3 DEF Produces
  <2>4. CASE t = 4
    BY <1>1, <1>4, <1>6, <1>7, <1>8, <2>4 DEF Produces
  <2>5. CASE t = 5
    BY <1>1, <1>4, <1>6, <1>7, <1>8, <2>5 DEF Produces
  <2> QED
    BY <2>1, <2>2, <2>3, <2>4, <2>5 DEF ProofTypes
<1>10. ProofsAccountForEffects'
  BY <1>9 DEF ProofsAccountForEffects, a1, a2, a3, a4, a5
<1> QED
  BY <1>3, <1>4, <1>5, <1>10 DEF EffectsInv

effectVars == <<commitmentVars, nullifierVars, flowVars, totalNotes, currentRoot, notes,
                acceptanceVars>>

\* What the staff and the movers of money leave alone.
LEMMA StaffEffects ==
  ASSUME NEW p, IncidentStep(p) \/ UpgradeStep(p) \/ TreasuryStep(p)
  PROVE  UNCHANGED effectVars
<1> USE DEF effectVars, commitmentVars, nullifierVars, flowVars, rootVars, ledgerVars,
            beyondRegistry, beyondFees, noteVars, verifierVars
<1>1. ASSUME UNCHANGED <<registryVars, noteVars, acceptanceVars>> PROVE UNCHANGED effectVars
  BY <1>1 DEF registryVars
<1>2. ASSUME UNCHANGED <<ledgerVars, noteVars, acceptanceVars>> PROVE UNCHANGED effectVars
  BY <1>2
<1>3. CASE (LifecycleStep(p) \/ ConfigStep(p)) /\ UNCHANGED beyondRegistry
  <2>1. UNCHANGED ledgerVars
    BY <1>3, LifecycleFrame, ConfigFrame
  <2> QED
    BY <1>2, <1>3, <2>1
<1>4. CASE SetRootStatus(p) /\ UNCHANGED beyondRegistry
  BY <1>4 DEF SetRootStatus
<1>5. CASE /\ \/ RegisterVerificationKey(p) \/ SetVerificationKeyStatus(p)
              \/ SetZkverifyContextHash(p) \/ SetZkverifyBinding(p) \/ SetVerificationFrozen(p)
           /\ UNCHANGED <<noteVars, feeVars, stx, switches>>
  BY <1>1, <1>5 DEF RegisterVerificationKey, SetVerificationKeyStatus, SetZkverifyContextHash,
                    SetZkverifyBinding, SetVerificationFrozen
<1>6. CASE SetPoolSwitch(p) \/ SetManagerSwitch(p)
  BY <1>1, <1>6 DEF SetPoolSwitch, SetManagerSwitch, SetSwitch
<1>7. CASE TreasuryStep(p)
  <2>1. CASE FeesAdminStep(p) /\ UNCHANGED beyondFees
    BY <1>1, <2>1 DEF FeesAdminStep, SetFee, WithdrawFees, FreezeFees, UnfreezeFees,
                      FreezeTreasury, UnfreezeTreasury
  <2>2. CASE StxTransfer(p) /\ UNCHANGED beyondFees
    BY <1>1, <2>2 DEF StxTransfer
  <2>3. CASE SetMaxFeeBps(p) /\ UNCHANGED beyondRegistry
    BY <1>3, <2>3 DEF ConfigStep
  <2> QED
    BY <1>7, <2>1, <2>2, <2>3 DEF TreasuryStep
<1> QED
  BY <1>3, <1>4, <1>5, <1>6, <1>7 DEF IncidentStep, UpgradeStep

LEMMA EffectsKept == ASSUME EffectsInv, UNCHANGED effectVars PROVE EffectsInv'
<1>1. UNCHANGED <<totalCommitments, totalNullifiers, totalTransfers, totalWithdrawals,
                  verifiedProofs, verificationStats>>
  BY DEF effectVars, commitmentVars, nullifierVars, flowVars, acceptanceVars
<1> QED
  BY <1>1 DEF EffectsInv, EffectTypes, ProofsAccountForEffects, AcceptedCount

LEMMA EffectsStep == EffectsInv /\ [SystemNext]_poolVars => EffectsInv'
<1> SUFFICES ASSUME EffectsInv, [SystemNext]_poolVars PROVE EffectsInv'
  OBVIOUS
<1>1. CASE UNCHANGED poolVars
  BY <1>1, EffectsKept DEF poolVars, registryVars, ledgerVars, effectVars, commitmentVars,
                           nullifierVars, rootVars, flowVars, noteVars, verifierVars
<1>2. CASE SystemNext
  BY <1>2, SystemSteps, UserEffects, StaffEffects, EffectsKept
<1> QED
  BY <1>1, <1>2

LEMMA EffectsStart == PoolInit => EffectsInv
<1> SUFFICES ASSUME PoolInit PROVE EffectsInv
  OBVIOUS
<1>1. /\ totalCommitments = 0 /\ totalNullifiers = 0 /\ totalTransfers = 0
      /\ totalWithdrawals = 0 /\ verifiedProofs = {} /\ verificationStats = NoneVerified
  BY DEF PoolInit, DeployedWith
<1>2. IsFiniteSet({}) /\ Cardinality({}) = 0
  BY FS_EmptySet
<1>3. \A t : Accepted({}, t) = {}
  BY DEF Accepted
<1>4. \A t : AcceptedCount(t) = 0
  BY <1>1, <1>2, <1>3 DEF AcceptedCount
<1>5. /\ verificationStats \in [StatBuckets -> Nat]
      /\ verificationStats["withdrawal"] = 0 /\ verificationStats["other"] = 0
  BY <1>1 DEF NoneVerified, StatBuckets
<1> QED
  BY <1>1, <1>2, <1>4, <1>5 DEF EffectsInv, EffectTypes, ProofsAccountForEffects

\* Whatever is frozen, upgraded, re-keyed or re-bound in between, the outputs,
\* spends, transfers and withdrawals the registry counts, and the verifier's own
\* buckets, are those of the accepted statements, one proof each.
THEOREM EffectsAlwaysProved == SystemSpec => []ProofsAccountForEffects
<1>1. EffectsInv => ProofsAccountForEffects
  BY DEF EffectsInv
<1> QED
  BY <1>1, EffectsStart, EffectsStep, PTL DEF SystemSpec

-----------------------------------------------------------------------------
(* The kill switches.                                                       *)

Halts ==
  /\ ~CheckActive \/ verificationFrozen =>
       UNCHANGED <<commitmentVars, nullifierVars, currentRoot, totalNotes,
                   flowVars, notes, treasury, stx, verifiedProofs>>
  /\ \A t \in ProofTypes : ~switches[OperationOf[t]] =>
       Accepted(verifiedProofs', t) = Accepted(verifiedProofs, t)
  /\ ~IsKnownRoot(currentRoot.root) =>
       UNCHANGED <<commitmentVars, currentRoot, notes, totalNotes>>
  /\ protocolVersions.circuit # CompiledCircuit =>
       UNCHANGED <<commitmentVars, nullifierVars, flowVars, stx>>

LEMMA UserHalts ==
  ASSUME IsFiniteSet(verifiedProofs), NEW user, UserStep(user)
  PROVE  Halts
<1>1. PICK t \in ProofTypes :
        /\ Accepts(t)
        /\ \/ IsKnownRoot(currentRoot.root)
           \/ UNCHANGED <<commitmentVars, currentRoot, notes, totalNotes>>
  BY UserAccepts
<1>2. /\ CheckActive /\ ~verificationFrozen /\ protocolVersions.circuit = CompiledCircuit
      /\ switches[OperationOf[t]]
  BY <1>1 DEF Accepts
<1>3. \A u \in ProofTypes : u # t => Accepted(verifiedProofs', u) = Accepted(verifiedProofs, u)
  BY <1>1, AcceptedAfter
<1> QED
  BY <1>1, <1>2, <1>3 DEF Halts

LEMMA StaffHalts ==
  ASSUME NEW p, IncidentStep(p) \/ UpgradeStep(p)
  PROVE  Halts
<1>1. UNCHANGED effectVars
  BY StaffEffects
<1>2. UNCHANGED <<feeVars, stx>>
  BY DEF IncidentStep, UpgradeStep, beyondRegistry, SetPoolSwitch, SetManagerSwitch, SetSwitch
<1> QED
  BY <1>1, <1>2 DEF Halts, effectVars, commitmentVars, nullifierVars, flowVars, acceptanceVars,
                    feeVars, treasuryVars

\* A pause, a freeze of verification, a switch, a deactivated current root and an
\* upgraded circuit version each stop what they are for in the very next step,
\* whatever else the team changes and however the five operations interleave.
THEOREM HaltsAlwaysComplete == OperatedSpec => HaltsAreComplete
<1>1. EffectsInv /\ [OperatedNext]_poolVars => EffectsInv'
  BY EffectsStep DEF SystemNext
<1>2. EffectsInv /\ [OperatedNext]_poolVars => [Halts]_poolVars
  BY UserHalts, StaffHalts DEF OperatedNext, SomeUserStep, EffectsInv
<1> QED
  BY <1>1, <1>2, EffectsStart, PTL DEF OperatedSpec, HaltsAreComplete, Halts
=============================================================================

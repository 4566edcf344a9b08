----------------------------- MODULE NoteScanner -----------------------------
(***************************************************************************)
(* Note discovery by trial decryption (sdk/note-discovery): a scanner      *)
(* replays the published notes into a commitment tree, keeps those its     *)
(* viewing key decrypts, and hides them once their nullifier is on chain.  *)
(*                                                                         *)
(* sync awaits twice, for the notes and for the nullifiers; calls may be   *)
(* made while another is waiting.  The chain and its feed are external.    *)
(***************************************************************************)
EXTENDS MerkleTrees, FiniteSets, FiniteSetsExt

CONSTANTS NoteFeed,      \* the commitments, in the order they are published
          Mine,      \* those whose payload the viewing key decrypts
          AmountOf,  \* their amounts
          TieOf,     \* how the sort places those of equal amounts: any order
          Calls,     \* sync calls that can be under way at once
          Statements \* statements zkVerify aggregates, in order

ASSUME ScannerAssumption ==
  /\ NoteFeed \in Seq(ToSet(NoteFeed)) /\ IsInjective(NoteFeed) /\ Len(NoteFeed) <= MaxLeaves
  /\ Mine \subseteq ToSet(NoteFeed)
  /\ AmountOf \in [Mine -> Nat]
  /\ TieOf \in [Mine -> Nat] /\ IsInjective(TieOf)
  /\ Statements \in Seq(ToSet(Statements)) /\ IsInjective(Statements)
  /\ Len(Statements) <= 2 ^ MaxPathLength

VARIABLES
  published, revealed,  \* chain: how many notes are published; my notes spent
  aggregated,            \* zkVerify: how many statements the open aggregation holds
  nodes, count,          \* the scanner's tree
  owned,                 \* my notes found: commitment -> its index and spent flag
  nextIndex,             \* where the next scan resumes
  call,                  \* sync call -> what it waits for, and from where it asked
  overlapped             \* history: whether two calls were ever under way together

scanVars == <<nodes, count, owned, nextIndex>>
feedVars == <<published, revealed, aggregated>>
scannerVars == <<feedVars, scanVars, call, overlapped>>

Idle == [phase |-> "idle", from |-> 0]

ScannerInit ==
  /\ published = 0 /\ revealed = {} /\ aggregated = 0
  /\ nodes = <<>> /\ count = 0
  /\ owned = <<>> /\ nextIndex = 0
  /\ call = [c \in Calls |-> Idle]
  /\ overlapped = FALSE

\* External: a note is published; one of mine is spent.
Publish ==
  /\ published < Len(NoteFeed)
  /\ published' = published + 1
  /\ UNCHANGED <<revealed, aggregated, scanVars, call, overlapped>>

Spend(n) ==
  /\ n \in Mine \ revealed /\ n \in ToSet(SubSeq(NoteFeed, 1, published))
  /\ revealed' = revealed \union {n}
  /\ UNCHANGED <<published, aggregated, scanVars, call, overlapped>>

Aggregate ==
  /\ aggregated < Len(Statements)
  /\ aggregated' = aggregated + 1
  /\ UNCHANGED <<published, revealed, scanVars, call, overlapped>>

-----------------------------------------------------------------------------
(* sync.                                                                   *)

Sync(c) ==
  /\ call[c].phase = "idle"
  /\ call' = [call EXCEPT ![c] = [phase |-> "notes", from |-> nextIndex]]
  /\ overlapped' = (overlapped \/ \E d \in Calls \ {c} : call[d].phase # "idle")
  /\ UNCHANGED <<feedVars, scanVars>>

\* Mutant: the scan resumes at the last note it saw.
NextIndex_Last(index) == index

NextIndex(index) == index + 1

\* The notes arrive: each enters the tree, and the owned map if it decrypts.
\* insert throws when the tree is full, and sync with it.
NotesArrive(c) ==
  LET from == call[c].from IN
  /\ call[c].phase = "notes"
  /\ \E to \in from..published :
       LET k == Min({to - from, MaxLeaves - count}) IN
       /\ nodes' = FoldLeft(LAMBDA t, i : SetLeaf(t, count + i - 1, NoteFeed[from + i]), nodes,
                            [i \in 1..k |-> i])
       /\ count' = count + k
       /\ LET found == {NoteFeed[i] : i \in (from + 1)..(from + k)} \intersect Mine IN
          owned' = [n \in DOMAIN owned \union found |->
            IF n \in found
            THEN [index |-> (CHOOSE i \in DOMAIN NoteFeed : NoteFeed[i] = n) - 1, spent |-> FALSE]
            ELSE owned[n]]
       /\ nextIndex' = IF k = 0 THEN nextIndex ELSE NextIndex(from + k - 1)
       /\ call' = [call EXCEPT ![c] = IF k < to - from THEN Idle ELSE [@ EXCEPT !.phase = "nullifiers"]]
  /\ UNCHANGED <<feedVars, overlapped>>

\* The nullifiers arrive; spent notes are marked.
RefreshSpent(c) ==
  /\ call[c].phase = "nullifiers"
  /\ owned' = [n \in DOMAIN owned |->
                 [owned[n] EXCEPT !.spent = owned[n].spent \/ n \in revealed]]
  /\ call' = [call EXCEPT ![c] = Idle]
  /\ UNCHANGED <<feedVars, nodes, count, nextIndex, overlapped>>

\* A request fails and sync throws.
SyncThrows(c) ==
  /\ call[c].phase # "idle"
  /\ call' = [call EXCEPT ![c] = Idle]
  /\ UNCHANGED <<feedVars, scanVars, overlapped>>

ScannerNext ==
  \/ Publish \/ Aggregate
  \/ \E n \in Mine : Spend(n)
  \/ \E c \in Calls : Sync(c) \/ NotesArrive(c) \/ RefreshSpent(c) \/ SyncThrows(c)

ScannerSpec == ScannerInit /\ [][ScannerNext]_scannerVars

-----------------------------------------------------------------------------
(* Choosing notes for an amount.                                           *)

Unspent == {n \in DOMAIN owned : ~owned[n].spent}
Sum(notes) == MapThenSumSet(LAMBDA n : AmountOf[n], notes)
Balance == Sum(Unspent)

Before(n, m) ==
  \/ AmountOf[n] > AmountOf[m]
  \/ AmountOf[n] = AmountOf[m] /\ TieOf[n] < TieOf[m]

\* Largest first, until the amount is covered; refused when the balance is short.
Select(amount) ==
  {n \in Unspent : Sum({m \in Unspent : Before(m, n)}) < amount}

-----------------------------------------------------------------------------
Reference(leaves) ==
  LET level[l \in 0..Depth] ==
        IF l = 0
        THEN [i \in 0..(MaxLeaves - 1) |-> IF i < Len(leaves) THEN leaves[i + 1] ELSE EmptyLeaf]
        ELSE LET below == level[l - 1]
             IN  [i \in 0..(2 ^ (Depth - l) - 1) |-> Hash(below[2 * i], below[2 * i + 1])]
  IN  level[Depth][0]

LeavesIn == [i \in 1..count |-> Get(nodes, 0, i - 1)]

(* Whatever the order of syncs, the incremental root is the root of the full tree
   over the leaves inserted, and the stored paths are what the circuits accept: each
   leaf at its own slot and no other, and an append only with the roots before and
   after it (CommitmentTree against assert_merkle_membership and assert_insertion). *)
PathsProve ==
  /\ Root(nodes) = Reference(LeavesIn)
  /\ \A i \in 0..(count - 1) :
       LET path == PathOf(nodes, i) IN
       \A leaf \in ToSet(NoteFeed) :
         MembershipHolds(leaf, path, Root(nodes)) <=> leaf = Get(nodes, 0, i)
  /\ count < MaxLeaves => \A leaf \in ToSet(NoteFeed) :
       LET w == InsertionWitness(nodes, count, leaf) IN
       InsertionHolds(leaf, count, w.path, Root(nodes), Reference(Append(LeavesIn, leaf)))

(* As long as one sync runs at a time, and however often one throws, the tree holds
   the published notes up to where the next scan resumes, and exactly my notes among
   them are owned, each at the slot the chain gave it. *)
ScannerFollowsChain ==
  ~overlapped =>
    /\ count = nextIndex /\ LeavesIn = SubSeq(NoteFeed, 1, nextIndex)
    /\ DOMAIN owned = Mine \intersect ToSet(SubSeq(NoteFeed, 1, nextIndex))
    /\ \A n \in DOMAIN owned : NoteFeed[owned[n].index + 1] = n

(* Only spent notes are ever hidden from the balance, and a selection covers its
   amount with the fewest notes that can. *)
SelectionCovers ==
  /\ \A n \in DOMAIN owned : owned[n].spent => n \in revealed
  /\ \A amount \in 1..Balance :
       /\ Sum(Select(amount)) >= amount
       /\ \A other \in SUBSET Unspent :
            Sum(other) >= amount => Cardinality(Select(amount)) <= Cardinality(other)

(* What the scanner answers: its notes, their slots, and which of them to spend. *)
ScannerExact == ScannerFollowsChain /\ SelectionCovers

(* For an aggregation of any width, the contract accepts each statement with its
   path, and with a path and index of the aggregation it accepts no other statement
   (merkle-step's condition for the last node of an odd level). *)
AggregationsProve ==
  LET statements == SubSeq(Statements, 1, aggregated)
      root == AggregationRoot(statements)
  IN  \A i \in 0..(aggregated - 1) :
        LET path == InclusionPath(statements, i) IN
        \A statement \in ToSet(Statements) :
          ComputeAggregationRoot(statement, path, i, aggregated) = root
          <=> statement = statements[i + 1]

(* Whatever either tree hands out as a path proves its leaf, and nothing else. *)
TreesProve == PathsProve /\ AggregationsProve
=============================================================================

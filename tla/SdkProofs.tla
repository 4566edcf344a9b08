------------------------------ MODULE SdkProofs ------------------------------
(***************************************************************************)
(* The SDK.  The client, for every set of operations and notes and any     *)
(* number of failed requests and refreshes: what it records of its notes,  *)
(* the roots its operations declare, and what it may lose.  The note       *)
(* scanner and the two Merkle trees, for every feed, key, tree depth and   *)
(* aggregation: what the scanner answers, and what a path proves.          *)
(***************************************************************************)
EXTENDS Client, NoteScanner, Sums, SequenceTheorems, TLAPS

-----------------------------------------------------------------------------
(* The inductive invariant.                                                *)

Commits == Notes \union Strangers
Places == {"sync", "root", "prove", "register", "hand over", "signed", "await tx",
           "await relayer", "consume", "mark spent", "keep"} \union Resting
Works == [current : Seq(Commits), new : Seq(Commits), old : Seq(Commits), next : Seq(Commits),
          member : Seq(Commits), left : Seq(Notes)]
Looks == [phase : {"idle", "asked", "answered"}, vault : [Notes -> Known],
          feed : SUBSET Notes, spent : SUBSET Notes]

ChainTypes ==
  /\ leaves \in Seq(Commits) /\ nullified \subseteq Notes
  /\ txs \in [Ops -> {"none", "mempool", "success", "abort", "dropped"}]
  /\ served \in 0..Len(leaves)
  /\ rows \in Seq(Notes) /\ rowsSpent \subseteq Notes

PageTypes ==
  /\ durable \in BOOLEAN /\ puts \in [Notes -> Nat]
  /\ vault \in [Notes -> Known] /\ store \in [Notes -> Known]
  /\ tree \in Seq(Commits) /\ token \in BOOLEAN
  /\ pc \in [Ops -> Places] /\ work \in [Ops -> Works]
  /\ looking \in Looks
  /\ overlap \in BOOLEAN

\* Every commitment is on chain once: it is a note of the vault from before, a
\* stranger's, or the output of a transaction that succeeded.  A spent note is
\* on chain, and so are the inputs of whatever has been proved.
Origins ==
  /\ IsInjective(leaves)
  /\ \A n \in Notes \intersect ToSet(leaves) :
       n \in ToSet(Genesis) \/ \E o \in Ops : txs[o] = "success" /\ n \in ToSet(OutsOf[o])
  /\ \A o \in Ops : txs[o] # "success" => ToSet(OutsOf[o]) \intersect ToSet(leaves) = {}
  /\ nullified \subseteq ToSet(leaves)
  /\ \A o \in Ops : txs[o] = "success" => ToSet(InputsOf[o]) \subseteq nullified
  /\ \A o \in Ops : txs[o] # "none" \/ pc[o] \in {"prove", "register", "hand over"} =>
       ToSet(InputsOf[o]) \subseteq ToSet(leaves)

\* Where an operation is tells what can have become of its transaction.
Fate(o) ==
  /\ pc[o] \in {"idle", "sync", "root", "prove", "hand over"} => txs[o] = "none"
  /\ pc[o] \in {"root", "signed", "await tx"} => ~Relayed(o)
  /\ pc[o] \in {"await relayer", "consume", "mark spent", "keep"} => Relayed(o)
  /\ pc[o] \in {"signed", "await tx", "await relayer"} => txs[o] # "none"
  /\ pc[o] \in {"consume", "mark spent", "keep"} => txs[o] = "success"
  /\ pc[o] = "register" => IF Relayed(o) THEN txs[o] = "success" ELSE txs[o] = "none"
  /\ pc[o] = "failed" /\ o \notin threw => txs[o] = "none"

Fates == \A o \in Ops : Fate(o)

\* What is marked spent, or about to be, is spent on chain.
Marks ==
  /\ SpentMarksAreTrue
  /\ IsInjective(rows)
  /\ \A n \in Notes : looking.vault[n] = "spent" \/ n \in looking.spent => n \in nullified
  /\ \A o \in Ops : pc[o] \in {"consume", "mark spent"} =>
       work[o].left # <<>> /\ ToSet(work[o].left) \subseteq ToSet(InputsOf[o])

\* What an operation that has returned made for its user is in the vault, unless a
\* write failed, or it is in the store with a write under way.
Held(n) == vault[n] # "none" \/ n \in unkept \/ (puts[n] > 0 /\ store[n] # "none")

Kept ==
  /\ \A n \in ToSet(Genesis) : vault[n] # "none" \/ n \in unkept
  /\ \A o \in Ops : pc[o] \in {"await tx", "done"} /\ KindOf[o] # "transfer" =>
       \A n \in ToSet(OutsOf[o]) : Held(n)

EarlyRoots(o) == KindOf[o] \in {"split", "withdraw"}
HasDeclared(o) ==
  \/ txs[o] # "none" \/ pc[o] = "hand over" \/ pc[o] = "register"
  \/ pc[o] = "prove" /\ EarlyRoots(o)

\* The current root is the proof's, or, for shield, the chain's at that tree or further.
RootProved(o) ==
  IF KindOf[o] = "shield" THEN IsPrefix(work[o].old, work[o].current)
                          ELSE work[o].current = work[o].old

\* The roots of an operation that runs alone, or declares them with its witness.
RootsAgree ==
  /\ ~overlap => \A o, p \in Ops : o # p => pc[o] \in Resting \/ pc[p] \in Resting
  /\ \A o \in Ops : EarlyRoots(o) \/ ~overlap =>
       /\ HasDeclared(o) => work[o].new = work[o].next /\ RootProved(o)
       /\ pc[o] = "root" => IsPrefix(tree, leaves)
       /\ pc[o] = "prove" /\ ~EarlyRoots(o) =>
            /\ work[o].next = tree \o OutsOf[o] /\ work[o].old = tree
            /\ KindOf[o] = "shield" => IsPrefix(work[o].old, work[o].current)

ClientInv == ChainTypes /\ PageTypes /\ Origins /\ Fates /\ Marks /\ Kept /\ RootsAgree

-----------------------------------------------------------------------------
(* Sequences and their elements.                                           *)

LEMMA MembersOf ==
  ASSUME NEW S, NEW s \in Seq(S)
  PROVE  /\ ToSet(s) \subseteq S /\ ToSet(s) = {s[i] : i \in 1..Len(s)}
         /\ DOMAIN s = 1..Len(s) /\ Len(s) \in Nat
BY LenProperties, ElementOfSeq DEF ToSet

LEMMA ConcatMembers ==
  ASSUME NEW S, NEW s \in Seq(S), NEW t \in Seq(S)
  PROVE  s \o t \in Seq(S) /\ ToSet(s \o t) = ToSet(s) \union ToSet(t)
<1> DEFINE u == s \o t
<1>1. /\ u \in Seq(S) /\ Len(u) = Len(s) + Len(t)
      /\ \A i \in 1..Len(u) : u[i] = IF i <= Len(s) THEN s[i] ELSE t[i - Len(s)]
  BY ConcatProperties
<1>2. Len(s) \in Nat /\ Len(t) \in Nat
  BY LenProperties
<1> HIDE DEF u
<1>3. /\ ToSet(u) = {u[i] : i \in 1..Len(u)}
      /\ ToSet(s) = {s[i] : i \in 1..Len(s)}
      /\ ToSet(t) = {t[i] : i \in 1..Len(t)}
  BY <1>1, MembersOf
<1>4. ASSUME NEW i \in 1..Len(u) PROVE u[i] \in ToSet(s) \union ToSet(t)
  <2>1. CASE i <= Len(s)
    BY <1>1, <1>2, <1>3, <2>1
  <2>2. CASE ~(i <= Len(s))
    <3>1. i - Len(s) \in 1..Len(t) /\ u[i] = t[i - Len(s)]
      BY <1>1, <1>2, <2>2
    <3> QED
      BY <1>3, <3>1
  <2> QED
    BY <2>1, <2>2
<1>5. \A i \in 1..Len(s) : i \in 1..Len(u) /\ u[i] = s[i]
  BY <1>1, <1>2
<1>6. ASSUME NEW i \in 1..Len(t) PROVE i + Len(s) \in 1..Len(u) /\ u[i + Len(s)] = t[i]
  <2>1. i + Len(s) \in 1..Len(u) /\ ~(i + Len(s) <= Len(s)) /\ i + Len(s) - Len(s) = i
    BY <1>1, <1>2
  <2> QED
    BY <1>1, <2>1
<1>7. ToSet(u) = ToSet(s) \union ToSet(t)
  BY <1>3, <1>4, <1>5, <1>6
<1> QED
  BY <1>1, <1>7 DEF u

LEMMA ConcatInjective ==
  ASSUME NEW S, NEW s \in Seq(S), NEW t \in Seq(S), IsInjective(s), IsInjective(t),
         ToSet(s) \intersect ToSet(t) = {}
  PROVE  IsInjective(s \o t)
<1> DEFINE u == s \o t
<1>1. /\ u \in Seq(S) /\ Len(u) = Len(s) + Len(t)
      /\ \A i \in 1..Len(u) : u[i] = IF i <= Len(s) THEN s[i] ELSE t[i - Len(s)]
  BY ConcatProperties
<1>2. Len(s) \in Nat /\ Len(t) \in Nat
  BY LenProperties
<1>3. /\ \A i \in 1..Len(s) : s[i] \in ToSet(s) /\ s[i] \notin ToSet(t)
      /\ \A i \in 1..Len(t) : t[i] \in ToSet(t)
  BY MembersOf
<1>4. /\ \A i, j \in 1..Len(s) : s[i] = s[j] => i = j
      /\ \A i, j \in 1..Len(t) : t[i] = t[j] => i = j
  BY MembersOf DEF IsInjective
<1> HIDE DEF u
<1>5. ASSUME NEW i \in 1..Len(u), NEW j \in 1..Len(u), u[i] = u[j] PROVE i = j
  <2>1. CASE i <= Len(s) /\ j <= Len(s)
    BY <1>1, <1>2, <1>4, <1>5, <2>1
  <2>2. CASE ~(i <= Len(s)) /\ ~(j <= Len(s))
    <3>1. i - Len(s) \in 1..Len(t) /\ j - Len(s) \in 1..Len(t)
      BY <1>1, <1>2, <2>2
    <3>2. i - Len(s) = j - Len(s)
      BY <1>1, <1>4, <1>5, <2>2, <3>1
    <3> QED
      BY <1>2, <3>2
  <2>3. CASE i <= Len(s) /\ ~(j <= Len(s))
    <3>1. i \in 1..Len(s) /\ j - Len(s) \in 1..Len(t)
      BY <1>1, <1>2, <2>3
    <3> QED
      BY <1>1, <1>3, <1>5, <2>3, <3>1
  <2>4. CASE ~(i <= Len(s)) /\ j <= Len(s)
    <3>1. j \in 1..Len(s) /\ i - Len(s) \in 1..Len(t)
      BY <1>1, <1>2, <2>4
    <3> QED
      BY <1>1, <1>3, <1>5, <2>4, <3>1
  <2> QED
    BY <2>1, <2>2, <2>3, <2>4
<1> QED
  BY <1>1, <1>5, MembersOf DEF IsInjective, u

LEMMA OneMember ==
  ASSUME NEW S, NEW x \in S
  PROVE  <<x>> \in Seq(S) /\ ToSet(<<x>>) = {x} /\ IsInjective(<<x>>)
BY DEF ToSet, IsInjective

LEMMA NoMembers == \A S : <<>> \in Seq(S) /\ ToSet(<<>>) = {}
BY DEF ToSet

LEMMA AppendMembers ==
  ASSUME NEW S, NEW s \in Seq(S), NEW x \in S
  PROVE  /\ Append(s, x) \in Seq(S) /\ ToSet(Append(s, x)) = ToSet(s) \union {x}
         /\ Len(Append(s, x)) = Len(s) + 1
         /\ IsInjective(s) /\ x \notin ToSet(s) => IsInjective(Append(s, x))
<1> DEFINE t == <<x>>
<1>1. Append(s, x) = s \o t /\ Len(Append(s, x)) = Len(s) + 1
  BY AppendIsConcat, AppendProperties
<1>2. t \in Seq(S) /\ ToSet(t) = {x} /\ IsInjective(t)
  BY OneMember
<1> HIDE DEF t
<1>3. s \o t \in Seq(S) /\ ToSet(s \o t) = ToSet(s) \union ToSet(t)
  BY <1>2, ConcatMembers
<1>4. IsInjective(s) /\ x \notin ToSet(s) => IsInjective(s \o t)
  BY <1>2, ConcatInjective
<1> QED
  BY <1>1, <1>2, <1>3, <1>4

LEMMA PrefixMembers ==
  ASSUME NEW S, NEW s \in Seq(S), NEW n \in 0..Len(s)
  PROVE  SubSeq(s, 1, n) \in Seq(S) /\ ToSet(SubSeq(s, 1, n)) \subseteq ToSet(s)
<1>1. Len(s) \in Nat
  BY LenProperties
<1>2. /\ SubSeq(s, 1, n) \in Seq(S)
      /\ Len(SubSeq(s, 1, n)) = n
      /\ \A i \in 1..n : SubSeq(s, 1, n)[i] = s[i]
  <2>1. n \in Nat /\ \A i \in 1..n : s[i] \in S
    BY <1>1, ElementOfSeq
  <2>2. /\ SubSeq(s, 1, n) \in Seq(S)
        /\ Len(SubSeq(s, 1, n)) = IF 1 <= n THEN n - 1 + 1 ELSE 0
        /\ \A i \in 1..(n - 1 + 1) : SubSeq(s, 1, n)[i] = s[1 + i - 1]
    BY <2>1, SubSeqProperties
  <2> QED
    BY <2>1, <2>2
<1>3. 1..n \subseteq 1..Len(s)
  BY <1>1
<1>4. /\ ToSet(SubSeq(s, 1, n)) = {SubSeq(s, 1, n)[i] : i \in 1..n}
      /\ ToSet(s) = {s[i] : i \in 1..Len(s)}
  BY <1>2, MembersOf
<1> QED
  BY <1>2, <1>3, <1>4

LEMMA TailMembers ==
  ASSUME NEW S, NEW s \in Seq(S), s # <<>>
  PROVE  /\ Tail(s) \in Seq(S) /\ ToSet(Tail(s)) \subseteq ToSet(s)
         /\ Head(s) \in ToSet(s) /\ Head(s) \in S
         /\ Len(s) # 1 => Tail(s) # <<>>
<1>1. /\ Tail(s) \in Seq(S) /\ Len(Tail(s)) = Len(s) - 1
      /\ \A i \in 1..Len(Tail(s)) : Tail(s)[i] = s[i + 1]
      /\ Len(s) \in Nat /\ Len(s) # 0 /\ Head(s) = s[1]
  BY HeadTailProperties, LenProperties, EmptySeq
<1>2. \A i \in 1..Len(Tail(s)) : i + 1 \in 1..Len(s)
  BY <1>1
<1>3. 1 \in 1..Len(s)
  BY <1>1
<1>4. Len(s) # 1 => Tail(s) # <<>>
  BY <1>1
<1>5. /\ ToSet(Tail(s)) = {Tail(s)[i] : i \in 1..Len(Tail(s))}
      /\ ToSet(s) = {s[i] : i \in 1..Len(s)} /\ ToSet(s) \subseteq S
  BY <1>1, MembersOf
<1> QED
  BY <1>1, <1>2, <1>3, <1>4, <1>5

\* The parameters: what an operation spends and makes.
LEMMA Parameters ==
  /\ KindOf \in [Ops -> Kinds]
  /\ \A o \in Ops : /\ InputsOf[o] \in Seq(Notes) /\ OutsOf[o] \in Seq(Notes)
                    /\ InputsOf[o] \in Seq(Commits) /\ OutsOf[o] \in Seq(Commits)
                    /\ ToSet(InputsOf[o]) \subseteq Notes /\ ToSet(OutsOf[o]) \subseteq Notes
                    /\ IsInjective(OutsOf[o])
                    /\ Relayed(o) => InputsOf[o] # <<>>
                    /\ ~Relayed(o) => /\ ToSet(InputsOf[o]) = {}
                                      /\ OutsOf[o][1] \in Notes /\ ToSet(OutsOf[o]) = {OutsOf[o][1]}
  /\ Genesis \in Seq(Notes) /\ Genesis \in Seq(Commits) /\ ToSet(Genesis) \subseteq Notes
<1>1. Seq(Notes) \subseteq Seq(Commits)
  BY SeqMonotonic DEF Commits
<1>2. ASSUME NEW o \in Ops
      PROVE  /\ InputsOf[o] \in Seq(Notes) /\ OutsOf[o] \in Seq(Notes)
             /\ ToSet(InputsOf[o]) \subseteq Notes /\ ToSet(OutsOf[o]) \subseteq Notes
             /\ IsInjective(OutsOf[o]) /\ (Relayed(o) => InputsOf[o] # <<>>)
  <2>1. InputsOf[o] \in Seq(Notes) /\ OutsOf[o] \in Seq(Notes)
    BY ClientAssumption
  <2> QED
    BY <2>1, MembersOf, ClientAssumption DEF Relayed
<1>3. ASSUME NEW o \in Ops, ~Relayed(o)
      PROVE  /\ ToSet(InputsOf[o]) = {}
             /\ OutsOf[o][1] \in Notes /\ ToSet(OutsOf[o]) = {OutsOf[o][1]}
  <2>1. InputsOf[o] = <<>> /\ Len(OutsOf[o]) = 1 /\ OutsOf[o] \in Seq(Notes)
    BY <1>3, ClientAssumption DEF Relayed
  <2>2. ToSet(OutsOf[o]) = {OutsOf[o][i] : i \in 1..1}
    BY <2>1, MembersOf
  <2>3. ToSet(OutsOf[o]) = {OutsOf[o][1]}
    BY <2>2
  <2> QED
    BY <1>2, <2>1, <2>3, NoMembers
<1>4. Genesis \in Seq(Notes) /\ ToSet(Genesis) \subseteq Notes
  BY ClientAssumption, MembersOf
<1> QED
  BY <1>1, <1>2, <1>3, <1>4, ClientAssumption

LEMMA FeedIsRows == ASSUME rows \in Seq(Notes) PROVE Feed \subseteq ToSet(rows) /\ Feed \subseteq Notes
<1> DEFINE n == Len(rows)
           from == IF n > FEED_LIMIT THEN n - FEED_LIMIT + 1 ELSE 1
<1>1. n \in Nat /\ FEED_LIMIT \in Nat
  BY LenProperties, ClientAssumption
<1>2. from \in Nat /\ from >= 1 /\ from <= n + 1
  BY <1>1
<1> HIDE DEF from
<1>3. /\ SubSeq(rows, from, n) \in Seq(Notes)
      /\ Len(SubSeq(rows, from, n)) = IF from <= n THEN n - from + 1 ELSE 0
      /\ \A i \in 1..(n - from + 1) : SubSeq(rows, from, n)[i] = rows[from + i - 1]
  BY <1>1, <1>2, SubSeqProperties
<1>4. \A i \in 1..Len(SubSeq(rows, from, n)) :
         i \in 1..(n - from + 1) /\ from + i - 1 \in 1..n
  BY <1>1, <1>2, <1>3
<1>5. ToSet(SubSeq(rows, from, n)) \subseteq ToSet(rows)
  <2>1. /\ ToSet(rows) = {rows[i] : i \in 1..n}
        /\ ToSet(SubSeq(rows, from, n)) = {SubSeq(rows, from, n)[i] : i \in 1..Len(SubSeq(rows, from, n))}
    BY <1>3, MembersOf
  <2> QED
    BY <1>3, <1>4, <2>1
<1>6. Feed = ToSet(SubSeq(rows, from, n))
  BY DEF Feed, from
<1> QED
  BY <1>5, <1>6, MembersOf

-----------------------------------------------------------------------------
(* Types.                                                                  *)

LEMMA RestTypes == NoWork \in Works /\ NoLook \in Looks
<1>1. \A S : <<>> \in Seq(S)
  BY NoMembers
<1>2. NoWork \in Works
  BY <1>1 DEF NoWork, Works
<1>3. [n \in Notes |-> "none"] \in [Notes -> Known]
  BY DEF Known
<1>4. NoLook \in Looks
  BY <1>3 DEF NoLook, Looks
<1> QED
  BY <1>2, <1>4

LEMMA RecordTypes ==
  ASSUME NEW s \in [Notes -> Known], NEW n \in Notes, NEW b \in BOOLEAN, NEW k \in Known
  PROVE  /\ AddNote(s, n, b) \in [Notes -> Known]
         /\ Spent(s, n) \in [Notes -> Known]
         /\ [s EXCEPT ![n] = k] \in [Notes -> Known]
BY DEF AddNote, Spent, Known

LEMMA SyncedTree ==
  ASSUME ChainTypes
  PROVE  /\ SubSeq(leaves, 1, served) \in Seq(Commits)
         /\ ToSet(SubSeq(leaves, 1, served)) \subseteq ToSet(leaves)
BY PrefixMembers DEF ChainTypes

LEMMA GrownTree ==
  ASSUME NEW t \in Seq(Commits), NEW o \in Ops
  PROVE  t \o OutsOf[o] \in Seq(Commits)
BY Parameters, ConcatMembers

LEMMA CapturedTypes ==
  ASSUME NEW t \in Seq(Commits), NEW o \in Ops
  PROVE  Captured(o, t) \in Works
<1> DEFINE g == t \o OutsOf[o]
<1>1. g \in Seq(Commits)
  BY GrownTree
<1> HIDE DEF g
<1>2. Captured(o, t) = LET proof == [NoWork EXCEPT !.old = t, !.next = g, !.member = t]
                       IN IF KindOf[o] \in {"split", "withdraw"}
                          THEN [proof EXCEPT !.current = t, !.new = g] ELSE proof
  BY DEF Captured, g
<1> QED
  BY <1>1, <1>2, RestTypes DEF Works

LEMMA DeclaredTypes ==
  ASSUME tree \in Seq(Commits), work \in [Ops -> Works], NEW o \in Ops
  PROVE  Declared(o).w \in Works /\ Declared(o).tree \in Seq(Commits)
<1> DEFINE g == tree \o OutsOf[o]
           x == work[o]
<1>1. g \in Seq(Commits) /\ x \in Works
  BY GrownTree
<1>2. Declared(o) = IF KindOf[o] \in {"split", "withdraw"} THEN [w |-> x, tree |-> tree]
                    ELSE IF KindOf[o] = "shield" THEN [w |-> [x EXCEPT !.new = g], tree |-> g]
                    ELSE [w |-> [x EXCEPT !.current = tree, !.new = g], tree |-> g]
  BY DEF Declared
<1> HIDE DEF g, x
<1>3. [x EXCEPT !.new = g] \in Works /\ [x EXCEPT !.current = tree, !.new = g] \in Works
  BY <1>1 DEF Works
<1> QED
  BY <1>1, <1>2, <1>3

LEMMA LeftTypes ==
  ASSUME NEW w \in Works, NEW s \in Seq(Notes)
  PROVE  [w EXCEPT !.left = s] \in Works
BY DEF Works

LEMMA NextLeft ==
  ASSUME work \in [Ops -> Works], NEW o \in Ops, NEW s \in Seq(Notes)
  PROVE  [work EXCEPT ![o].left = s] = [work EXCEPT ![o] = [work[o] EXCEPT !.left = s]]
OBVIOUS

LEMMA RegisteredRows ==
  ASSUME rows \in Seq(Notes), NEW n \in Notes
  PROVE  /\ Registered(n) \in Seq(Notes)
         /\ IsInjective(rows) => IsInjective(Registered(n))
         /\ ToSet(Registered(n)) = ToSet(rows) \union {n}
BY AppendMembers DEF Registered

LEMMA ChainTypesKept ==
  ASSUME ChainTypes, PageTypes, Marks, [Next]_vars
  PROVE  ChainTypes'
<1>1. CASE UNCHANGED vars
  BY <1>1 DEF ChainTypes, vars, chainVars, apiVars
<1>2. CASE \E o \in Ops : MineTx(o)
  <2>1. PICK o \in Ops : MineTx(o)
    BY <1>2
  <2>2. UNCHANGED <<served, rows, rowsSpent>>
    BY <2>1 DEF MineTx, apiVars
  <2>3. CASE leaves' = leaves \o OutsOf[o] /\ nullified' = nullified \union ToSet(InputsOf[o])
             /\ txs' = [txs EXCEPT ![o] = "success"]
    <3>1. leaves' \in Seq(Commits)
      BY <2>3, GrownTree DEF ChainTypes
    <3>2. Len(leaves') = Len(leaves) + Len(OutsOf[o])
      BY <2>3, ConcatProperties, Parameters DEF ChainTypes
    <3>3. Len(leaves) \in Nat /\ Len(OutsOf[o]) \in Nat
      BY LenProperties, Parameters DEF ChainTypes
    <3>4. served' \in 0..Len(leaves')
      BY <2>2, <3>2, <3>3 DEF ChainTypes
    <3> QED
      BY <2>2, <2>3, <3>1, <3>4, Parameters DEF ChainTypes
  <2>4. CASE UNCHANGED <<leaves, nullified>> /\ txs' = [txs EXCEPT ![o] = "abort"]
    BY <2>2, <2>4 DEF ChainTypes
  <2> QED
    BY <2>1, <2>3, <2>4 DEF MineTx
<1>3. CASE \E c \in Strangers : StrangerShields(c)
  <2>1. PICK c \in Strangers : StrangerShields(c)
    BY <1>3
  <2>2. /\ leaves' = Append(leaves, c) /\ leaves' \in Seq(Commits)
        /\ Len(leaves') = Len(leaves) + 1 /\ Len(leaves) \in Nat
    BY <2>1, AppendMembers, LenProperties DEF StrangerShields, Commits, ChainTypes
  <2>3. served' \in 0..Len(leaves')
    BY <2>1, <2>2 DEF StrangerShields, ChainTypes, apiVars
  <2> QED
    BY <2>1, <2>2, <2>3 DEF StrangerShields, ChainTypes, apiVars
<1>4. CASE IndexLeaf
  <2>1. Len(leaves) \in Nat
    BY LenProperties DEF ChainTypes
  <2>2. served' \in 0..Len(leaves)
    BY <1>4, <2>1 DEF IndexLeaf, ChainTypes
  <2> QED
    BY <1>4, <2>2 DEF IndexLeaf, ChainTypes, chainVars
<1>5. CASE Look \/ LookAnswered \/ LookDone \/ Connect \/ Refresh
           \/ \E n \in Notes : PutLands(n) \/ PutFails(n)
  BY <1>5 DEF Look, LookAnswered, LookDone, Connect, Refresh, PutLands, PutFails, ChainTypes, chainVars, apiVars
<1>6. CASE \E o \in Ops : OpStep(o)
  <2>1. PICK o \in Ops : OpStep(o)
    BY <1>6
  <2>2. CASE SignShield(o) \/ HandToRelayer(o)
    BY <2>2 DEF SignShield, HandToRelayer, ChainTypes, apiVars
  <2>3. CASE \E next : StoreCiphertext(o, next)
    <3>1. /\ rows' = rows \/ rows' = Registered(Head(work[o].left))
          /\ UNCHANGED <<leaves, nullified, txs, served, rowsSpent>>
      BY <2>3 DEF StoreCiphertext, chainVars
    <3>2. Head(work[o].left) \in Notes
      BY <2>3, TailMembers DEF StoreCiphertext, PageTypes, Works
    <3>3. rows' \in Seq(Notes)
      BY <3>1, <3>2, RegisteredRows DEF ChainTypes
    <3> QED
      BY <3>1, <3>3 DEF ChainTypes
  <2>4. CASE MarkSpent(o)
    <3>1. /\ rows' = rows \/ rows' = Registered(Head(work[o].left))
          /\ rowsSpent' = rowsSpent \/ rowsSpent' = rowsSpent \union {Head(work[o].left)}
          /\ UNCHANGED <<leaves, nullified, txs, served>>
      BY <2>4 DEF MarkSpent, chainVars
    <3>2. work[o].left # <<>> /\ work[o].left \in Seq(Notes)
      BY <2>4 DEF MarkSpent, At, Marks, PageTypes, Works
    <3>3. Head(work[o].left) \in Notes
      BY <3>2, TailMembers
    <3>4. rows' \in Seq(Notes)
      BY <3>1, <3>3, RegisteredRows DEF ChainTypes
    <3> QED
      BY <3>1, <3>3, <3>4 DEF ChainTypes
  <2>5. CASE Start(o) \/ SyncTree(o) \/ FetchCurrentRoot(o) \/ Proved(o) \/ HandOverFails(o)
             \/ KeepShield(o) \/ AnswerLost(o) \/ ShieldConfirmed(o) \/ ShieldReverted(o) \/ ShieldPending(o)
             \/ RelayerConfirms(o) \/ RelayersGiveUp(o) \/ Consume(o) \/ KeepOutputs(o)
    <3>1. UNCHANGED <<chainVars, apiVars>>
      BY <2>5 DEF Start, SyncTree, FetchCurrentRoot, Proved, HandOverFails, KeepShield, AnswerLost, ShieldConfirmed,
                  ShieldReverted, ShieldPending, RelayerConfirms, RelayersGiveUp, Consume, KeepOutputs
    <3> QED
      BY <3>1 DEF ChainTypes, chainVars, apiVars
  <2> QED
    BY <2>1, <2>2, <2>3, <2>4, <2>5 DEF OpStep
<1>7. CASE \E o \in Ops : DropTx(o)
  BY <1>7 DEF DropTx, ChainTypes, apiVars
<1> QED
  BY <1>1, <1>2, <1>3, <1>4, <1>5, <1>6, <1>7 DEF Next

LEMMA OutputType ==
  ASSUME NEW o \in Ops, ~Relayed(o)
  PROVE  OutsOf[o][1] \in Notes
BY Parameters

LEMMA PersistTypes ==
  ASSUME PageTypes, NEW notes, Persist(notes)
  PROVE  /\ puts' \in [Notes -> Nat] /\ vault' = vault /\ durable' = durable
         /\ \A n \in Notes : /\ puts'[n] >= puts[n]
                             /\ n \in notes => puts'[n] > 0 \/ n \in unkept'
         /\ unkept \subseteq unkept'
<1>1. puts \in [Notes -> Nat] /\ durable \in BOOLEAN
  BY DEF PageTypes
<1>2. CASE durable
  BY <1>1, <1>2 DEF Persist
<1>3. CASE ~durable
  BY <1>1, <1>3 DEF Persist
<1> QED
  BY <1>1, <1>2, <1>3

LEMMA PageTypesKept ==
  ASSUME ChainTypes, PageTypes, Fates, Marks, [Next]_vars
  PROVE  PageTypes'
<1>1. ASSUME NEW o \in Ops, NEW w \in Works, NEW there \in Places, Goto(o, there),
             work' = work \/ work' = [work EXCEPT ![o] = w], tree' \in Seq(Commits),
             vault' \in [Notes -> Known], store' \in [Notes -> Known], token' \in BOOLEAN,
             overlap' \in BOOLEAN, durable' \in BOOLEAN, puts' \in [Notes -> Nat],
             UNCHANGED looking
      PROVE  PageTypes'
  <2>1. pc' \in [Ops -> Places]
    BY <1>1 DEF Goto, PageTypes
  <2>2. work' \in [Ops -> Works]
    BY <1>1 DEF PageTypes
  <2> QED
    BY <1>1, <2>1, <2>2 DEF PageTypes
<1> USE DEF Places, Resting
<1>2. CASE UNCHANGED vars
  BY <1>2 DEF PageTypes, vars, vaultVars, historyVars
<1>3. CASE (\E o \in Ops : MineTx(o) \/ DropTx(o)) \/ (\E c \in Strangers : StrangerShields(c)) \/ IndexLeaf
  <2>1. UNCHANGED <<vaultVars, store, tree, token, pc, work, looking, overlap>>
    BY <1>3 DEF MineTx, DropTx, StrangerShields, IndexLeaf, historyVars
  <2> QED
    BY <2>1 DEF PageTypes, vaultVars
<1>4. CASE Look
  <2>1. looking' \in Looks
    BY <1>4, RestTypes DEF Look, Looks, PageTypes, NoLook
  <2> QED
    BY <1>4, <2>1 DEF Look, PageTypes, historyVars, vaultVars
<1>5. CASE LookAnswered
  <2>1. Feed \subseteq Notes /\ rowsSpent \subseteq Notes
    BY FeedIsRows DEF ChainTypes
  <2>2. ASSUME NEW l \in Looks
        PROVE  /\ [l EXCEPT !.phase = "answered", !.feed = Feed, !.spent = rowsSpent] \in Looks
               /\ [l EXCEPT !.phase = "answered"] \in Looks
    BY <2>1 DEF Looks
  <2>3. looking' \in Looks
    BY <1>5, <2>2 DEF LookAnswered, PageTypes
  <2> QED
    BY <1>5, <2>3 DEF LookAnswered, PageTypes, historyVars, vaultVars
<1>6. CASE LookDone
  <2>1. ASSUME NEW n \in Notes PROVE Discovered(n) \in Known
    <3> DEFINE fed == IF n \in looking.feed THEN AddNote(store, n, n \in looking.spent) ELSE store
    <3>1. fed \in [Notes -> Known]
      <4>1. store \in [Notes -> Known]
        BY DEF PageTypes
      <4> QED
        BY <4>1 DEF AddNote, Known
    <3> HIDE DEF fed
    <3>2. fed[n] \in Known /\ AddNote(fed, n, looking.vault[n] = "spent")[n] \in Known
      BY <3>1 DEF AddNote, Known
    <3> QED
      BY <3>2 DEF Discovered, fed
  <2>2. store' \in [Notes -> Known]
    BY <1>6, <2>1 DEF LookDone, PageTypes
  <2> QED
    BY <1>6, <2>2, RestTypes DEF LookDone, PageTypes, historyVars, vaultVars
<1>7. CASE Connect
  BY <1>7 DEF Connect, PageTypes, historyVars, vaultVars
<1>8. CASE Refresh
  <2>1. store' \in [Notes -> Known]
    BY <1>8 DEF Refresh, Known
  <2>2. pc' \in [Ops -> Places]
    BY <1>8 DEF Refresh, PageTypes
  <2> QED
    BY <1>8, <2>1, <2>2, RestTypes, NoMembers DEF Refresh, PageTypes, historyVars
<1>9. CASE \E o \in Ops : OpStep(o)
  <2>1. PICK o \in Ops : OpStep(o)
    BY <1>9
  <2>2. /\ work[o] \in Works /\ work[o].left \in Seq(Notes)
        /\ durable \in BOOLEAN /\ puts \in [Notes -> Nat]
        /\ vault \in [Notes -> Known] /\ store \in [Notes -> Known] /\ tree \in Seq(Commits)
        /\ token \in BOOLEAN /\ overlap \in BOOLEAN
    BY DEF PageTypes, Works
  <2>3. CASE Start(o)
    <3>1. token' \in BOOLEAN /\ overlap' \in BOOLEAN
      BY <2>2, <2>3 DEF Start
    <3> QED
      BY <1>1, <2>2, <2>3, <3>1 DEF Start, vaultVars
  <2>4. CASE SyncTree(o)
    <3> DEFINE t == SubSeq(leaves, 1, served)
    <3>1. t \in Seq(Commits) /\ Captured(o, t) \in Works /\ t \o OutsOf[o] \in Seq(Commits)
      BY SyncedTree, CapturedTypes, GrownTree
    <3>2. /\ tree' = t \/ tree' = t \o OutsOf[o]
          /\ work' = work \/ work' = [work EXCEPT ![o] = Captured(o, t)]
          /\ Goto(o, "root") \/ Goto(o, "prove") \/ Goto(o, "failed")
          /\ UNCHANGED <<durable, puts, vault, store, token, looking, overlap>>
      BY <2>4 DEF SyncTree, historyVars, vaultVars
    <3> HIDE DEF t
    <3>3. tree' \in Seq(Commits)
      BY <3>1, <3>2
    <3> QED
      BY <1>1, <2>2, <3>1, <3>2, <3>3
  <2>5. CASE FetchCurrentRoot(o)
    <3> DEFINE g == tree \o OutsOf[o]
               w == [NoWork EXCEPT !.current = leaves, !.old = tree, !.next = g]
    <3>1. g \in Seq(Commits)
      BY <2>2, GrownTree
    <3> HIDE DEF g
    <3>2. w \in Works
      BY <2>2, <3>1, RestTypes DEF Works, ChainTypes
    <3>3. work' = [work EXCEPT ![o] = w]
      BY <2>5 DEF FetchCurrentRoot, g
    <3> HIDE DEF w
    <3> QED
      BY <1>1, <2>2, <2>5, <3>2, <3>3 DEF FetchCurrentRoot, historyVars, vaultVars
  <2>6. CASE Proved(o)
    <3> DEFINE s == IF KindOf[o] = "shield" THEN OutsOf[o] ELSE <<>>
               w == [Declared(o).w EXCEPT !.left = s]
    <3>1. s \in Seq(Notes)
      BY Parameters, NoMembers
    <3>2. Declared(o).w \in Works /\ tree' \in Seq(Commits)
      BY <2>6, DeclaredTypes DEF Proved, PageTypes
    <3>3. work' = [work EXCEPT ![o] = w]
      BY <2>6 DEF Proved
    <3> HIDE DEF s
    <3>4. w \in Works
      BY <3>1, <3>2, LeftTypes
    <3> HIDE DEF w
    <3>5. Goto(o, "register") \/ Goto(o, "hand over")
      BY <2>6 DEF Proved
    <3> QED
      BY <1>1, <2>2, <2>6, <3>2, <3>3, <3>4, <3>5 DEF Proved, historyVars, vaultVars
  <2>7. CASE StoreCiphertext(o, IF KindOf[o] = "shield" THEN "hand over" ELSE "keep")
    <3> DEFINE s == Tail(work[o].left)
               w == [work[o] EXCEPT !.left = s]
    <3>1. s \in Seq(Notes)
      BY <2>2, <2>7, TailMembers DEF StoreCiphertext
    <3>2. work' = [work EXCEPT ![o] = w]
      BY <2>7 DEF StoreCiphertext
    <3> HIDE DEF s
    <3>3. w \in Works
      BY <2>2, <3>1, LeftTypes
    <3> HIDE DEF w
    <3>4. Goto(o, "register") \/ Goto(o, "hand over") \/ Goto(o, "keep")
      BY <2>7 DEF StoreCiphertext
    <3> QED
      BY <1>1, <2>2, <2>7, <3>2, <3>3, <3>4 DEF StoreCiphertext, historyVars, vaultVars
  <2>8. CASE \/ HandOverFails(o) \/ SignShield(o) \/ AnswerLost(o) \/ ShieldPending(o)
             \/ HandToRelayer(o) \/ RelayersGiveUp(o)
    <3>1. /\ Goto(o, "failed") \/ Goto(o, "done") \/ Goto(o, "await relayer") \/ Goto(o, "signed")
          /\ UNCHANGED <<work, tree, durable, puts, vault, store, token, looking, overlap>>
      BY <2>8 DEF HandOverFails, SignShield, AnswerLost, ShieldPending, HandToRelayer,
                  RelayersGiveUp, historyVars, vaultVars
    <3> QED
      BY <1>1, <2>2, <3>1
  <2>9. CASE KeepShield(o) \/ ShieldConfirmed(o) \/ ShieldReverted(o)
    <3>1. ~Relayed(o)
      BY <2>9 DEF KeepShield, ShieldConfirmed, ShieldReverted, At, Fates, Fate, Relayed
    <3>2. OutsOf[o][1] \in Notes /\ FALSE \in BOOLEAN /\ "none" \in Known /\ "unspent" \in Known
      BY <3>1, OutputType DEF Known
    <3>3. /\ AddNote(store, OutsOf[o][1], FALSE) \in [Notes -> Known]
          /\ [store EXCEPT ![OutsOf[o][1]] = "none"] \in [Notes -> Known]
          /\ [vault EXCEPT ![OutsOf[o][1]] = "none"] \in [Notes -> Known]
      BY <2>2, <3>2, RecordTypes
    <3>4. CASE KeepShield(o)
      <4>1. Persist({OutsOf[o][1]})
        BY <3>4 DEF KeepShield
      <4> QED
        BY <1>1, <2>2, <3>3, <3>4, <4>1, PersistTypes DEF KeepShield
    <3>5. CASE ShieldConfirmed(o)
      <4>1. Persist({OutsOf[o][1]})
        BY <3>5 DEF ShieldConfirmed
      <4> QED
        BY <1>1, <2>2, <3>3, <3>5, <4>1, PersistTypes DEF ShieldConfirmed
    <3>6. CASE ShieldReverted(o)
      BY <1>1, <2>2, <3>3, <3>6 DEF ShieldReverted, VaultTries
    <3> QED
      BY <2>9, <3>4, <3>5, <3>6
  <2>10. CASE RelayerConfirms(o)
    <3> DEFINE s == InputsOf[o]
               w == [work[o] EXCEPT !.left = s]
    <3>1. s \in Seq(Notes)
      BY Parameters
    <3>2. work' = [work EXCEPT ![o] = w]
      BY <2>10 DEF RelayerConfirms
    <3> HIDE DEF s
    <3>3. w \in Works
      BY <2>2, <3>1, LeftTypes
    <3> HIDE DEF w
    <3> QED
      BY <1>1, <2>2, <2>10, <3>2, <3>3 DEF RelayerConfirms, historyVars, vaultVars
  <2>11. CASE Consume(o)
    <3>1. Head(work[o].left) \in Notes
      BY <2>2, <2>11, TailMembers DEF Consume, At, Marks
    <3>2. store' \in [Notes -> Known] /\ vault' \in [Notes -> Known]
      <4>1. Spent(store, Head(work[o].left)) \in [Notes -> Known]
        BY <2>2, <3>1, RecordTypes
      <4>2. Spent(vault, Head(work[o].left)) \in [Notes -> Known]
        BY <2>2, <3>1, RecordTypes
      <4>3. /\ store' = Spent(store, Head(work[o].left))
            /\ vault' = Spent(vault, Head(work[o].left)) \/ vault' = vault
        BY <2>11 DEF Consume, VaultTries
      <4> QED
        BY <2>2, <4>1, <4>2, <4>3
    <3> QED
      BY <1>1, <2>2, <2>11, <3>2 DEF Consume, VaultTries, historyVars
  <2>12. CASE MarkSpent(o)
    <3> DEFINE s == IF Len(work[o].left) = 1 THEN OutsOf[o] ELSE Tail(work[o].left)
               w == [work[o] EXCEPT !.left = s]
    <3>1. s \in Seq(Notes)
      BY <2>2, <2>12, TailMembers, Parameters DEF MarkSpent, At, Marks
    <3>2. work' = [work EXCEPT ![o] = w]
      BY <2>12 DEF MarkSpent
    <3> HIDE DEF s
    <3>3. w \in Works
      BY <2>2, <3>1, LeftTypes
    <3> HIDE DEF w
    <3>4. Goto(o, "consume") \/ Goto(o, "done") \/ Goto(o, "register")
      BY <2>12 DEF MarkSpent
    <3> QED
      BY <1>1, <2>2, <2>12, <3>2, <3>3, <3>4 DEF MarkSpent, historyVars, vaultVars
  <2>13. CASE KeepOutputs(o)
    <3>1. /\ \A n \in Notes : AddNote(store, n, FALSE)[n] \in Known
          /\ \A n \in Notes : store[n] \in Known
      BY <2>2 DEF AddNote, Known
    <3>2. store' \in [Notes -> Known] /\ Persist(Keep(o))
      BY <2>13, <3>1 DEF KeepOutputs, Known
    <3> QED
      BY <1>1, <2>2, <2>13, <3>2, PersistTypes DEF KeepOutputs
  <2> QED
    BY <2>1, <2>3, <2>4, <2>5, <2>6, <2>7, <2>8, <2>9, <2>10, <2>11, <2>12, <2>13 DEF OpStep
<1>10. CASE \E n \in Notes : PutLands(n) \/ PutFails(n)
  <2>1. PICK n \in Notes : PutLands(n) \/ PutFails(n)
    BY <1>10
  <2>2. puts \in [Notes -> Nat] /\ vault \in [Notes -> Known] /\ "unspent" \in Known
    BY DEF PageTypes, Known
  <2>3. /\ puts[n] > 0 /\ puts' = [puts EXCEPT ![n] = @ - 1]
        /\ vault' = [vault EXCEPT ![n] = "unspent"] \/ vault' = vault
        /\ UNCHANGED <<durable, store, tree, token, pc, work, looking, overlap>>
    BY <2>1 DEF PutLands, PutFails, historyVars
  <2>4. puts[n] - 1 \in Nat
    BY <2>2, <2>3
  <2>5. puts' \in [Notes -> Nat] /\ vault' \in [Notes -> Known]
    BY <2>2, <2>3, <2>4
  <2> QED
    BY <2>3, <2>5 DEF PageTypes
<1> QED
  BY <1>2, <1>3, <1>4, <1>5, <1>6, <1>7, <1>8, <1>9, <1>10 DEF Next

-----------------------------------------------------------------------------
(* The fate of a transaction, and where commitments come from.             *)

LEMMA FatesKept ==
  ASSUME ChainTypes, PageTypes, Fates, Marks, [Next]_vars
  PROVE  Fates'
<1> USE DEF Places, Resting
<1>1. ASSUME UNCHANGED <<pc, txs, threw>> PROVE Fates'
  BY <1>1 DEF Fates, Fate
<1>2. ASSUME NEW o \in Ops, NEW there, pc' = [pc EXCEPT ![o] = there],
             \A p \in Ops \ {o} : txs'[p] = txs[p],
             threw' = threw \/ threw' = threw \union {o}, Fate(o)'
      PROVE  Fates'
  <2>1. ASSUME NEW p \in Ops, p # o PROVE Fate(p)'
    <3>1. pc'[p] = pc[p] /\ txs'[p] = txs[p] /\ (p \in threw' <=> p \in threw)
      BY <1>2, <2>1 DEF PageTypes
    <3> QED
      BY <3>1 DEF Fates, Fate
  <2> QED
    BY <1>2, <2>1 DEF Fates
<1>3. CASE UNCHANGED vars
  BY <1>1, <1>3 DEF vars, chainVars, historyVars
<1>4. CASE (\E n \in Notes : PutLands(n) \/ PutFails(n)) \/ Look \/ LookAnswered \/ LookDone \/ Connect \/ IndexLeaf
           \/ \E c \in Strangers : StrangerShields(c)
  <2>1. UNCHANGED <<pc, txs, threw>>
    BY <1>4 DEF PutLands, PutFails, Look, LookAnswered, LookDone, Connect, IndexLeaf, StrangerShields, chainVars, historyVars
  <2> QED
    BY <1>1, <2>1
<1>5. CASE Refresh
  <2>1. /\ \A o \in Ops : pc'[o] = IF pc[o] \in Resting THEN pc[o] ELSE "gone"
        /\ UNCHANGED <<txs, threw>>
    BY <1>5 DEF Refresh, chainVars, historyVars
  <2> QED
    BY <2>1 DEF Fates, Fate
<1>6. CASE \E o \in Ops : MineTx(o)
  <2>1. PICK o \in Ops : MineTx(o)
    BY <1>6
  <2>2. txs'[o] \in {"success", "abort"} /\ UNCHANGED <<pc, threw>>
        /\ txs[o] \in {"mempool", "dropped"}
        /\ \A p \in Ops \ {o} : txs'[p] = txs[p]
    BY <2>1 DEF MineTx, ChainTypes, historyVars
  <2>3. Fate(o)'
    BY <2>2 DEF Fates, Fate
  <2>4. ASSUME NEW p \in Ops, p # o PROVE Fate(p)'
    BY <2>2, <2>4 DEF Fates, Fate
  <2> QED
    BY <2>3, <2>4 DEF Fates
<1>7. CASE \E o \in Ops : OpStep(o)
  <2>1. PICK o \in Ops : OpStep(o)
    BY <1>7
  <2>2. Fate(o) /\ pc[o] \in Places /\ o \in DOMAIN pc /\ o \in DOMAIN txs
        /\ KindOf[o] \in Kinds
    BY Parameters DEF Fates, PageTypes, ChainTypes
  <2>3. CASE Start(o) \/ SyncTree(o) \/ FetchCurrentRoot(o) \/ Proved(o) \/ HandOverFails(o)
             \/ KeepShield(o) \/ ShieldConfirmed(o) \/ ShieldPending(o)
    <3>1. UNCHANGED <<txs, threw>>
      BY <2>3 DEF Start, SyncTree, FetchCurrentRoot, Proved, HandOverFails, KeepShield,
                  ShieldConfirmed, ShieldPending, chainVars, historyVars
    <3>2. PICK there : pc' = [pc EXCEPT ![o] = there] /\ pc'[o] = there
      BY <2>2, <2>3 DEF Start, SyncTree, FetchCurrentRoot, Proved, HandOverFails, KeepShield,
                  ShieldConfirmed, ShieldPending, Goto
    <3>3. Fate(o)'
      BY <2>2, <2>3, <3>1 DEF Start, SyncTree, FetchCurrentRoot, Proved, HandOverFails,
            KeepShield, ShieldConfirmed, ShieldPending, Goto, At, Fate, Relayed
    <3> QED
      BY <1>2, <3>1, <3>2, <3>3
  <2>4. CASE SignShield(o) \/ HandToRelayer(o)
    <3>1. /\ UNCHANGED threw /\ \A p \in Ops \ {o} : txs'[p] = txs[p] /\ txs'[o] = "mempool"
      BY <2>2, <2>4 DEF SignShield, HandToRelayer, ChainTypes, historyVars
    <3>2. PICK there : pc' = [pc EXCEPT ![o] = there] /\ pc'[o] = there
      BY <2>2, <2>4 DEF SignShield, HandToRelayer, Goto
    <3>3. Fate(o)'
      <4>1. txs'[o] = "mempool"
        BY <2>2, <2>4 DEF SignShield, HandToRelayer
      <4> QED
        BY <2>2, <2>4, <4>1 DEF SignShield, HandToRelayer, Goto, At, Fate, Relayed
    <3> QED
      BY <1>2, <3>1, <3>2, <3>3
  <2>5. CASE RelayersGiveUp(o) \/ ShieldReverted(o) \/ AnswerLost(o)
    BY <1>2, <2>2, <2>5 DEF RelayersGiveUp, ShieldReverted, AnswerLost, Goto, At, Fate, Relayed, chainVars, historyVars
  <2>6. CASE \/ StoreCiphertext(o, IF KindOf[o] = "shield" THEN "hand over" ELSE "keep")
             \/ RelayerConfirms(o) \/ Consume(o) \/ MarkSpent(o) \/ KeepOutputs(o)
    <3>1. UNCHANGED <<txs, threw>>
      BY <2>6 DEF StoreCiphertext, RelayerConfirms, Consume, MarkSpent, KeepOutputs, chainVars, historyVars
    <3>2. PICK there : pc' = [pc EXCEPT ![o] = there] /\ pc'[o] = there
      BY <2>2, <2>6 DEF StoreCiphertext, RelayerConfirms, Consume, MarkSpent, KeepOutputs, Goto
    <3>3. Fate(o)'
      BY <2>2, <2>6, <3>1 DEF StoreCiphertext, RelayerConfirms, MayConsume, Consume, MarkSpent,
            KeepOutputs, Goto, At, Fate, Relayed
    <3> QED
      BY <1>2, <3>1, <3>2, <3>3
  <2> QED
    BY <2>1, <2>3, <2>4, <2>5, <2>6 DEF OpStep
<1>8. CASE \E o \in Ops : DropTx(o)
  <2>1. PICK o \in Ops : DropTx(o)
    BY <1>8
  <2>2. txs'[o] = "dropped" /\ txs[o] = "mempool" /\ UNCHANGED <<pc, threw>>
        /\ \A p \in Ops \ {o} : txs'[p] = txs[p]
    BY <2>1 DEF DropTx, ChainTypes, historyVars
  <2>3. Fate(o)'
    BY <2>2 DEF Fates, Fate
  <2>4. ASSUME NEW p \in Ops, p # o PROVE Fate(p)'
    BY <2>2, <2>4 DEF Fates, Fate
  <2> QED
    BY <2>3, <2>4 DEF Fates
<1> QED
  BY <1>3, <1>4, <1>5, <1>6, <1>7, <1>8 DEF Next

LEMMA Mined ==
  ASSUME ChainTypes, Origins, NEW o \in Ops, txs[o] \in {"mempool", "dropped"},
         leaves' = leaves \o OutsOf[o], nullified' = nullified \union ToSet(InputsOf[o]),
         txs' = [txs EXCEPT ![o] = "success"], pc' = pc
  PROVE  Origins'
<1>1. /\ OutsOf[o] \in Seq(Commits) /\ IsInjective(OutsOf[o]) /\ leaves \in Seq(Commits)
      /\ ToSet(OutsOf[o]) \subseteq Notes
  BY Parameters DEF ChainTypes
<1>2. ToSet(leaves') = ToSet(leaves) \union ToSet(OutsOf[o])
  BY <1>1, ConcatMembers
<1>3. ToSet(OutsOf[o]) \intersect ToSet(leaves) = {}
  BY DEF Origins
<1>4. IsInjective(leaves')
  BY <1>1, <1>3, ConcatInjective DEF Origins
<1>5. /\ txs'[o] = "success" /\ \A p \in Ops : p # o => txs'[p] = txs[p]
      /\ \A p \in Ops : txs[p] # "none" => txs'[p] # "none"
  BY DEF ChainTypes
<1>6. \A n \in Notes \intersect ToSet(leaves') :
         n \in ToSet(Genesis) \/ \E p \in Ops : txs'[p] = "success" /\ n \in ToSet(OutsOf[p])
  BY <1>2, <1>5 DEF Origins
<1>7. ASSUME NEW p \in Ops, txs'[p] # "success"
      PROVE  ToSet(OutsOf[p]) \intersect ToSet(leaves') = {}
  <2>1. p # o /\ txs[p] # "success"
    BY <1>5, <1>7
  <2>2. ToSet(OutsOf[p]) \intersect ToSet(OutsOf[o]) = {}
    BY <2>1, FreshCommitments
  <2> QED
    BY <1>2, <2>1, <2>2 DEF Origins
<1>8. ToSet(InputsOf[o]) \subseteq ToSet(leaves)
  BY DEF Origins
<1>9. /\ nullified' \subseteq ToSet(leaves')
      /\ \A p \in Ops : txs'[p] = "success" => ToSet(InputsOf[p]) \subseteq nullified'
  BY <1>2, <1>5, <1>8 DEF Origins
<1>10. \A p \in Ops : txs'[p] # "none" \/ pc'[p] \in {"prove", "register", "hand over"} =>
          ToSet(InputsOf[p]) \subseteq ToSet(leaves')
  BY <1>2, <1>5, <1>8 DEF Origins
<1> QED
  BY <1>4, <1>6, <1>7, <1>9, <1>10 DEF Origins

LEMMA OriginsKept ==
  ASSUME ChainTypes, PageTypes, Origins, Fates, [Next]_vars
  PROVE  Origins'
<1>1. ASSUME UNCHANGED <<leaves, nullified>>,
             \A o \in Ops : txs'[o] = txs[o] \/ (txs[o] # "success" /\ txs'[o] # "success"),
             \A o \in Ops : txs'[o] # "none" \/ pc'[o] \in {"prove", "register", "hand over"} =>
                              ToSet(InputsOf[o]) \subseteq ToSet(leaves)
      PROVE  Origins'
  BY <1>1 DEF Origins
<1>2. CASE UNCHANGED vars
  BY <1>1, <1>2 DEF vars, chainVars, Origins
<1>3. CASE (\E n \in Notes : PutLands(n) \/ PutFails(n)) \/ Look \/ LookAnswered \/ LookDone \/ Connect \/ IndexLeaf
  <2>1. UNCHANGED <<leaves, nullified, txs, pc>>
    BY <1>3 DEF PutLands, PutFails, Look, LookAnswered, LookDone, Connect, IndexLeaf, chainVars
  <2> QED
    BY <1>1, <2>1 DEF Origins
<1>4. CASE Refresh
  <2>1. /\ UNCHANGED <<leaves, nullified, txs>>
        /\ \A o \in Ops : pc'[o] = IF pc[o] \in Resting THEN pc[o] ELSE "gone"
    BY <1>4 DEF Refresh, chainVars
  <2>2. \A o \in Ops : pc'[o] \in {"prove", "register", "hand over"} => pc'[o] = pc[o]
    BY <2>1
  <2> QED
    BY <1>1, <2>1, <2>2 DEF Origins
<1>5. CASE \E c \in Strangers : StrangerShields(c)
  <2>1. PICK c \in Strangers : StrangerShields(c)
    BY <1>5
  <2>2. /\ c \in Commits /\ c \notin Notes /\ c \notin ToSet(leaves) /\ leaves' = Append(leaves, c)
        /\ UNCHANGED <<nullified, txs, pc>> /\ leaves \in Seq(Commits)
    BY <2>1, FreshCommitments DEF StrangerShields, Commits, ChainTypes
  <2>3. ToSet(leaves') = ToSet(leaves) \union {c} /\ IsInjective(leaves')
    <3>1. IsInjective(leaves)
      BY DEF Origins
    <3>2. /\ ToSet(Append(leaves, c)) = ToSet(leaves) \union {c}
          /\ IsInjective(leaves) /\ c \notin ToSet(leaves) => IsInjective(Append(leaves, c))
      BY <2>2, AppendMembers
    <3> QED
      BY <2>2, <3>1, <3>2
  <2>4. \A o \in Ops : ToSet(OutsOf[o]) \subseteq Notes
    BY Parameters
  <2> QED
    BY <2>2, <2>3, <2>4, ZenonT(30) DEF Origins
<1>6. CASE \E o \in Ops : MineTx(o)
  <2>1. PICK o \in Ops : MineTx(o)
    BY <1>6
  <2>2. txs[o] \in {"mempool", "dropped"} /\ UNCHANGED pc
    BY <2>1 DEF MineTx
  <2>3. CASE txs' = [txs EXCEPT ![o] = "success"] /\ leaves' = leaves \o OutsOf[o]
             /\ nullified' = nullified \union ToSet(InputsOf[o])
    BY <2>2, <2>3, Mined
  <2>4. CASE txs' = [txs EXCEPT ![o] = "abort"] /\ UNCHANGED <<leaves, nullified>>
    <3>1. /\ \A p \in Ops : txs'[p] = txs[p] \/ (txs[p] # "success" /\ txs'[p] # "success")
          /\ \A p \in Ops : txs'[p] # "none" => txs[p] # "none"
      <4>1. txs'[o] = "abort" /\ \A p \in Ops \ {o} : txs'[p] = txs[p]
        BY <2>4 DEF ChainTypes
      <4> QED
        BY <2>2, <4>1
    <3> QED
      BY <1>1, <2>2, <2>4, <3>1 DEF Origins
  <2> QED
    BY <2>1, <2>3, <2>4 DEF MineTx
<1>7. CASE \E o \in Ops : OpStep(o)
  <2>1. PICK o \in Ops : OpStep(o)
    BY <1>7
  <2>2. UNCHANGED <<leaves, nullified>>
    BY <2>1 DEF OpStep, Start, SyncTree, FetchCurrentRoot, Proved, StoreCiphertext, HandOverFails,
          SignShield, KeepShield, AnswerLost, ShieldConfirmed, ShieldReverted, ShieldPending, HandToRelayer, RelayerConfirms,
          RelayersGiveUp, Consume, MarkSpent, KeepOutputs, chainVars
  <2>3. PICK there : pc' = [pc EXCEPT ![o] = there]
    BY <2>1 DEF OpStep, Start, SyncTree, FetchCurrentRoot, Proved, StoreCiphertext, HandOverFails,
          SignShield, KeepShield, AnswerLost, ShieldConfirmed, ShieldReverted, ShieldPending, HandToRelayer, RelayerConfirms,
          RelayersGiveUp, Consume, MarkSpent, KeepOutputs, Goto
  <2>4. pc'[o] = there /\ \A p \in Ops \ {o} : pc'[p] = pc[p]
    BY <2>3 DEF PageTypes
  <2>5. \/ txs' = txs
        \/ pc[o] = "hand over" /\ txs' = [txs EXCEPT ![o] = "mempool"]
    BY <2>1 DEF OpStep, Start, SyncTree, FetchCurrentRoot, Proved, StoreCiphertext, HandOverFails,
          SignShield, KeepShield, AnswerLost, ShieldConfirmed, ShieldReverted, ShieldPending, HandToRelayer, RelayerConfirms,
          RelayersGiveUp, Consume, MarkSpent, KeepOutputs, chainVars, At
  <2>6. \A p \in Ops : txs'[p] = txs[p] \/ (txs[p] # "success" /\ txs'[p] # "success")
    <3>1. CASE txs' = txs
      BY <3>1
    <3>2. CASE pc[o] = "hand over" /\ txs' = [txs EXCEPT ![o] = "mempool"]
      <4>1. txs'[o] = "mempool" /\ \A p \in Ops \ {o} : txs'[p] = txs[p]
        BY <3>2 DEF ChainTypes
      <4>2. txs[o] = "none"
        BY <3>2 DEF Fates, Fate
      <4> QED
        BY <4>1, <4>2
    <3> QED
      BY <2>5, <3>1, <3>2
  <2>7. ASSUME NEW p \in Ops, p # o, txs'[p] # "none" \/ pc'[p] \in {"prove", "register", "hand over"}
        PROVE  ToSet(InputsOf[p]) \subseteq ToSet(leaves)
    BY <2>4, <2>5, <2>7 DEF Origins, ChainTypes
  <2>8. ASSUME txs'[o] # "none" \/ there \in {"prove", "register", "hand over"}
        PROVE  ToSet(InputsOf[o]) \subseteq ToSet(leaves)
    <3>1. CASE txs[o] # "none" \/ pc[o] \in {"prove", "register", "hand over"}
      BY <3>1 DEF Origins
    <3>2. CASE txs[o] = "none" /\ pc[o] \notin {"prove", "register", "hand over"}
      <4>1. txs' = txs
        BY <2>5, <3>2
      <4>2. pc[o] \in {"sync", "root"}
        BY <2>1, <2>4, <2>8, <3>2, <4>1 DEF OpStep, Start, SyncTree, FetchCurrentRoot, Proved,
              StoreCiphertext, HandOverFails, SignShield, KeepShield, AnswerLost, ShieldConfirmed, ShieldReverted,
              ShieldPending, HandToRelayer, RelayerConfirms, MayConsume, RelayersGiveUp, Consume,
              MarkSpent, KeepOutputs, At, Goto, Fates, Fate, PageTypes
      <4>3. CASE ~Relayed(o)
        BY <4>3, Parameters
      <4>4. CASE Relayed(o)
        <5>1. pc[o] = "sync"
          BY <4>2, <4>4 DEF Fates, Fate
        <5>2. there = "prove" /\ SyncTree(o)
          BY <2>1, <2>4, <2>8, <4>1, <3>2, <5>1 DEF OpStep, Start, SyncTree, FetchCurrentRoot, Proved,
              StoreCiphertext, HandOverFails, SignShield, KeepShield, AnswerLost, ShieldConfirmed, ShieldReverted,
              ShieldPending, HandToRelayer, RelayerConfirms, MayConsume, RelayersGiveUp, Consume,
              MarkSpent, KeepOutputs, At, Goto, PageTypes
        <5>3. Provable(o, SubSeq(leaves, 1, served))
          BY <2>4, <4>4, <5>2 DEF SyncTree, Goto, PageTypes, Relayed
        <5> QED
          BY <5>3, SyncedTree DEF Provable
      <4> QED
        BY <4>3, <4>4
    <3> QED
      BY <3>1, <3>2
  <2> QED
    BY <1>1, <2>2, <2>4, <2>6, <2>7, <2>8
<1>8. CASE \E o \in Ops : DropTx(o)
  <2>1. PICK o \in Ops : DropTx(o)
    BY <1>8
  <2>2. /\ UNCHANGED <<leaves, nullified, pc>> /\ txs[o] = "mempool" /\ txs'[o] = "dropped"
        /\ \A p \in Ops \ {o} : txs'[p] = txs[p]
    BY <2>1 DEF DropTx, ChainTypes
  <2> QED
    BY <1>1, <2>2 DEF Origins
<1> QED
  BY <1>2, <1>3, <1>4, <1>5, <1>6, <1>7, <1>8 DEF Next

-----------------------------------------------------------------------------
(* Marks.                                                                  *)

\* What is nullified stays so, and only mining nullifies.
LEMMA NullifiedOnly ==
  ASSUME [Next]_vars
  PROVE  nullified \subseteq nullified'
BY DEF Next, OpStep, Start, SyncTree, FetchCurrentRoot, Proved, StoreCiphertext, HandOverFails,
       SignShield, KeepShield, AnswerLost, ShieldConfirmed, ShieldReverted, ShieldPending, HandToRelayer, RelayerConfirms,
       RelayersGiveUp, Consume, MarkSpent, KeepOutputs, MineTx, DropTx, PutLands, PutFails, Look, LookAnswered, LookDone,
       Connect, Refresh, StrangerShields, IndexLeaf, vars, chainVars

\* The note an operation is about to mark is spent.
LEMMA DueAreSpent ==
  ASSUME PageTypes, Origins, Fates, Marks, NEW o \in Ops, pc[o] \in {"consume", "mark spent"}
  PROVE  /\ work[o].left \in Seq(Notes) /\ work[o].left # <<>>
         /\ Head(work[o].left) \in Notes /\ Head(work[o].left) \in nullified
<1>1. work[o].left \in Seq(Notes) /\ work[o].left # <<>> /\ ToSet(work[o].left) \subseteq ToSet(InputsOf[o])
  BY DEF PageTypes, Works, Marks
<1>2. Head(work[o].left) \in ToSet(work[o].left) /\ Head(work[o].left) \in Notes
  BY <1>1, TailMembers
<1>3. txs[o] = "success"
  BY DEF Fates, Fate
<1>4. ToSet(InputsOf[o]) \subseteq nullified
  BY <1>3 DEF Origins
<1> QED
  BY <1>1, <1>2, <1>4

LEMMA TrueMarksKept ==
  ASSUME ChainTypes, PageTypes, Origins, Fates, Marks, [Next]_vars
  PROVE  SpentMarksAreTrue'
<1>0. nullified \subseteq nullified'
  BY NullifiedOnly
<1>1. ASSUME \A n \in Notes : /\ store'[n] = "spent" => store[n] = "spent" \/ n \in nullified
                              /\ vault'[n] = "spent" => vault[n] = "spent" \/ n \in nullified
                              /\ n \in rowsSpent' => n \in rowsSpent \/ n \in nullified
      PROVE  SpentMarksAreTrue'
  BY <1>0, <1>1 DEF SpentMarksAreTrue, Marks
<1>2. CASE UNCHANGED <<store, vault, rowsSpent>>
  BY <1>1, <1>2
<1>3. CASE UNCHANGED vars \/ (\E o \in Ops : MineTx(o) \/ DropTx(o)) \/ Look \/ LookAnswered \/ Connect
           \/ (\E c \in Strangers : StrangerShields(c)) \/ IndexLeaf
  <2>1. UNCHANGED <<store, vault, rowsSpent>>
    BY <1>3 DEF MineTx, DropTx, Look, LookAnswered, Connect, StrangerShields, IndexLeaf, vars, apiVars, vaultVars
  <2> QED
    BY <1>2, <2>1
<1>4. CASE Refresh
  <2>1. /\ \A n \in Notes : store'[n] = "none"
        /\ UNCHANGED <<vault, rowsSpent>>
    BY <1>4 DEF Refresh, apiVars
  <2> QED
    BY <1>1, <2>1
<1>5. CASE LookDone
  <2>1. UNCHANGED <<vault, rowsSpent>>
    BY <1>5 DEF LookDone, apiVars, vaultVars
  <2>2. ASSUME NEW n \in Notes, store'[n] = "spent" PROVE store[n] = "spent" \/ n \in nullified
    <3>1. store'[n] = IF n \in MineNotes THEN Discovered(n) ELSE store[n]
      BY <1>5 DEF LookDone
    <3>2. Discovered(n) = "spent" =>
            store[n] = "spent" \/ n \in looking.spent \/ looking.vault[n] = "spent"
      BY DEF Discovered, AddNote, PageTypes
    <3>3. looking.vault[n] = "spent" \/ n \in looking.spent => n \in nullified
      BY DEF Marks
    <3> QED
      BY <2>2, <3>1, <3>2, <3>3
  <2> QED
    BY <1>1, <2>1, <2>2
<1>6. CASE \E o \in Ops : OpStep(o)
  <2>1. PICK o \in Ops : OpStep(o)
    BY <1>6
  <2>2. CASE \/ Start(o) \/ SyncTree(o) \/ FetchCurrentRoot(o) \/ Proved(o) \/ HandOverFails(o)
             \/ SignShield(o) \/ AnswerLost(o) \/ ShieldPending(o) \/ HandToRelayer(o) \/ RelayerConfirms(o) \/ RelayersGiveUp(o)
             \/ StoreCiphertext(o, IF KindOf[o] = "shield" THEN "hand over" ELSE "keep")
    <3>1. UNCHANGED <<store, vault, rowsSpent>>
      BY <2>2 DEF Start, SyncTree, FetchCurrentRoot, Proved, HandOverFails, SignShield,
            AnswerLost, ShieldPending, HandToRelayer, RelayerConfirms, RelayersGiveUp,
            StoreCiphertext, apiVars, vaultVars
    <3> QED
      BY <1>2, <3>1
  <2>3. CASE KeepShield(o) \/ ShieldConfirmed(o) \/ ShieldReverted(o)
    <3>1. UNCHANGED rowsSpent
      BY <2>3 DEF KeepShield, ShieldConfirmed, ShieldReverted, apiVars
    <3>2. \A n \in Notes : /\ store'[n] = "spent" => store[n] = "spent"
                           /\ vault'[n] = "spent" => vault[n] = "spent"
      BY <2>3 DEF KeepShield, ShieldConfirmed, ShieldReverted, Persist, VaultTries, AddNote, PageTypes
    <3> QED
      BY <1>1, <3>1, <3>2
  <2>4. CASE Consume(o)
    <3>1. Head(work[o].left) \in nullified
      BY <2>4, DueAreSpent DEF Consume, At
    <3>2. \A n \in Notes : /\ store'[n] = "spent" => store[n] = "spent" \/ n = Head(work[o].left)
                           /\ vault'[n] = "spent" => vault[n] = "spent" \/ n = Head(work[o].left)
      BY <2>4 DEF Consume, VaultTries, Spent, PageTypes
    <3>3. UNCHANGED rowsSpent
      BY <2>4 DEF Consume, apiVars
    <3> QED
      BY <1>1, <3>1, <3>2, <3>3
  <2>5. CASE MarkSpent(o)
    <3>1. Head(work[o].left) \in nullified
      BY <2>5, DueAreSpent DEF MarkSpent, At
    <3>2. /\ rowsSpent' = rowsSpent \/ rowsSpent' = rowsSpent \union {Head(work[o].left)}
          /\ UNCHANGED <<store, vault>>
      BY <2>5 DEF MarkSpent, vaultVars
    <3> QED
      BY <1>1, <3>1, <3>2
  <2>6. CASE KeepOutputs(o)
    <3>1. UNCHANGED rowsSpent
      BY <2>6 DEF KeepOutputs, apiVars
    <3>2. \A n \in Notes : /\ store'[n] = "spent" => store[n] = "spent"
                           /\ vault'[n] = "spent" => vault[n] = "spent"
      BY <2>6 DEF KeepOutputs, Persist, AddNote, PageTypes
    <3> QED
      BY <1>1, <3>1, <3>2
  <2> QED
    BY <2>1, <2>2, <2>3, <2>4, <2>5, <2>6 DEF OpStep
<1>7. CASE \E n \in Notes : PutLands(n) \/ PutFails(n)
  <2>1. /\ UNCHANGED <<store, rowsSpent>>
        /\ \A n \in Notes : vault'[n] = "spent" => vault[n] = "spent"
    BY <1>7 DEF PutLands, PutFails, PageTypes, apiVars
  <2> QED
    BY <1>1, <2>1
<1> QED
  BY <1>3, <1>4, <1>5, <1>6, <1>7 DEF Next

Due(o) == pc[o] \in {"consume", "mark spent"} =>
            work[o].left # <<>> /\ ToSet(work[o].left) \subseteq ToSet(InputsOf[o])

LEMMA DueKept ==
  ASSUME ChainTypes, PageTypes, Marks, Fates, [Next]_vars, NEW p \in Ops
  PROVE  Due(p)'
<1>0. Due(p)
  BY DEF Marks, Due
<1>1. CASE UNCHANGED vars \/ (\E n \in Notes : PutLands(n) \/ PutFails(n)) \/ (\E o \in Ops : MineTx(o) \/ DropTx(o)) \/ Look \/ LookAnswered \/ LookDone \/ Connect
           \/ (\E c \in Strangers : StrangerShields(c)) \/ IndexLeaf
  <2>1. UNCHANGED <<pc, work>>
    BY <1>1 DEF PutLands, PutFails, MineTx, DropTx, Look, LookAnswered, LookDone, Connect, StrangerShields, IndexLeaf, vars
  <2> QED
    BY <1>0, <2>1 DEF Due
<1>2. CASE Refresh
  <2>1. UNCHANGED work /\ (pc'[p] = pc[p] \/ pc'[p] = "gone")
    BY <1>2 DEF Refresh
  <2> QED
    BY <1>0, <2>1 DEF Due
<1>3. CASE \E o \in Ops : OpStep(o)
  <2>1. PICK o \in Ops : OpStep(o)
    BY <1>3
  <2>2. CASE o # p
    <3>1. pc'[p] = pc[p]
      BY <2>1, <2>2 DEF OpStep, Start, SyncTree, FetchCurrentRoot, Proved, StoreCiphertext, HandOverFails,
            SignShield, KeepShield, AnswerLost, ShieldConfirmed, ShieldReverted, ShieldPending, HandToRelayer, RelayerConfirms,
            RelayersGiveUp, Consume, MarkSpent, KeepOutputs, Goto, PageTypes
    <3>2. work'[p] = work[p]
      BY <2>1, <2>2 DEF OpStep, Start, SyncTree, FetchCurrentRoot, Proved, StoreCiphertext, HandOverFails,
            SignShield, KeepShield, AnswerLost, ShieldConfirmed, ShieldReverted, ShieldPending, HandToRelayer, RelayerConfirms,
            RelayersGiveUp, Consume, MarkSpent, KeepOutputs, PageTypes
    <3> QED
      BY <1>0, <3>1, <3>2 DEF Due
  <2>3. CASE o = p
    <3>1. work[p] \in Works /\ p \in DOMAIN work /\ p \in DOMAIN pc
      BY DEF PageTypes
    <3>2. CASE RelayerConfirms(p)
      <4>1. work'[p].left = InputsOf[p]
        BY <3>1, <3>2 DEF RelayerConfirms, Works
      <4>2. InputsOf[p] # <<>>
        BY <3>2, Parameters DEF RelayerConfirms, MayConsume, At, Fates, Fate
      <4> QED
        BY <4>1, <4>2 DEF Due
    <3>3. CASE Consume(p)
      BY <1>0, <3>3 DEF Consume, Due, At
    <3>4. CASE MarkSpent(p)
      <4>1. work[p].left \in Seq(Notes) /\ work[p].left # <<>>
             /\ ToSet(work[p].left) \subseteq ToSet(InputsOf[p])
        BY <1>0, <3>1, <3>4 DEF MarkSpent, At, Due, Works
      <4>2. CASE Len(work[p].left) = 1
        <5>1. pc'[p] \in {"done", "register"}
          BY <3>1, <3>4, <4>2 DEF MarkSpent, Goto
        <5> QED
          BY <5>1 DEF Due
      <4>3. CASE Len(work[p].left) # 1
        <5>1. work'[p].left = Tail(work[p].left)
          BY <3>1, <3>4, <4>3 DEF MarkSpent, Works
        <5> QED
          BY <4>1, <4>3, <5>1, TailMembers DEF Due
      <4> QED
        BY <4>2, <4>3
    <3>5. CASE \/ Start(p) \/ SyncTree(p) \/ FetchCurrentRoot(p) \/ Proved(p) \/ HandOverFails(p)
               \/ StoreCiphertext(p, IF KindOf[p] = "shield" THEN "hand over" ELSE "keep")
               \/ SignShield(p) \/ KeepShield(p) \/ AnswerLost(p) \/ ShieldConfirmed(p) \/ ShieldReverted(p) \/ ShieldPending(p)
               \/ HandToRelayer(p) \/ RelayersGiveUp(p) \/ KeepOutputs(p)
      <4>1. pc'[p] \notin {"consume", "mark spent"}
        BY <3>1, <3>5 DEF Start, SyncTree, FetchCurrentRoot, Proved, HandOverFails, StoreCiphertext,
              SignShield, KeepShield, AnswerLost, ShieldConfirmed, ShieldReverted, ShieldPending, HandToRelayer,
              RelayersGiveUp, KeepOutputs, Goto
      <4> QED
        BY <4>1 DEF Due
    <3> QED
      BY <2>1, <2>3, <3>2, <3>3, <3>4, <3>5 DEF OpStep
  <2> QED
    BY <2>2, <2>3
<1> QED
  BY <1>1, <1>2, <1>3 DEF Next

LEMMA RowsKept ==
  ASSUME ChainTypes, PageTypes, Origins, Fates, Marks, [Next]_vars
  PROVE  IsInjective(rows')
<1>0. IsInjective(rows) /\ rows \in Seq(Notes)
  BY DEF Marks, ChainTypes
<1>1. CASE UNCHANGED rows
  BY <1>0, <1>1
<1>2. CASE \E o \in Ops : MarkSpent(o)
  <2>1. PICK o \in Ops : MarkSpent(o)
    BY <1>2
  <2>2. Head(work[o].left) \in Notes
    BY <2>1, DueAreSpent DEF MarkSpent, At
  <2>3. rows' = rows \/ rows' = Registered(Head(work[o].left))
    BY <2>1 DEF MarkSpent
  <2> QED
    BY <1>0, <2>2, <2>3, RegisteredRows
<1>3. CASE \E o \in Ops : \E next : StoreCiphertext(o, next)
  <2>1. PICK o \in Ops : \E next : StoreCiphertext(o, next)
    BY <1>3
  <2>2. /\ rows' = rows \/ rows' = Registered(Head(work[o].left))
        /\ work[o].left # <<>> /\ work[o].left \in Seq(Notes)
    BY <2>1 DEF StoreCiphertext, PageTypes, Works
  <2>3. Head(work[o].left) \in Notes
    BY <2>2, TailMembers
  <2> QED
    BY <1>0, <2>2, <2>3, RegisteredRows
<1>4. \/ UNCHANGED rows \/ (\E o \in Ops : MarkSpent(o)) \/ \E o \in Ops : \E next : StoreCiphertext(o, next)
  BY DEF Next, OpStep, Start, SyncTree, FetchCurrentRoot, Proved, HandOverFails,
       SignShield, KeepShield, AnswerLost, ShieldConfirmed, ShieldReverted, ShieldPending, HandToRelayer, RelayerConfirms,
       RelayersGiveUp, Consume, KeepOutputs, MineTx, DropTx, PutLands, PutFails, Look, LookAnswered, LookDone,
       Connect, Refresh, StrangerShields, IndexLeaf, vars, apiVars
<1> QED
  BY <1>1, <1>2, <1>3, <1>4

LEMMA MarksKept ==
  ASSUME ChainTypes, PageTypes, Origins, Fates, Marks, [Next]_vars
  PROVE  Marks'
<1>1. SpentMarksAreTrue' /\ IsInjective(rows')
  BY TrueMarksKept, RowsKept
<1>2. \A o \in Ops : Due(o)'
  BY DueKept
<1>3. ASSUME NEW n \in Notes, looking'.vault[n] = "spent" \/ n \in looking'.spent
      PROVE  n \in nullified'
  <2>1. nullified \subseteq nullified'
    BY NullifiedOnly
  <2>2. looking' = looking \/ Look \/ LookAnswered \/ looking' = NoLook
    BY DEF Next, OpStep, Start, SyncTree, FetchCurrentRoot, Proved, StoreCiphertext, HandOverFails,
       SignShield, KeepShield, AnswerLost, ShieldConfirmed, ShieldReverted, ShieldPending, HandToRelayer, RelayerConfirms,
       RelayersGiveUp, Consume, MarkSpent, KeepOutputs, MineTx, DropTx, PutLands, PutFails, LookDone,
       Connect, Refresh, StrangerShields, IndexLeaf, vars
  <2>3. looking.vault[n] = "spent" \/ vault[n] = "spent" \/ n \in looking.spent \/ n \in rowsSpent
    <3>1. CASE looking' = looking
      BY <1>3, <3>1
    <3>2. CASE Look
      <4>1. looking'.vault \in {vault, NoLook.vault} /\ looking'.spent = {}
        BY <3>2 DEF Look, NoLook
      <4>2. NoLook.vault[n] # "spent"
        BY DEF NoLook
      <4> QED
        BY <1>3, <4>1, <4>2
    <3>3. CASE LookAnswered
      <4>1. /\ looking'.vault = looking.vault
            /\ looking'.spent = looking.spent \/ looking'.spent = rowsSpent
        BY <3>3 DEF LookAnswered, PageTypes, Looks
      <4> QED
        BY <1>3, <4>1
    <3>4. CASE looking' = NoLook
      <4>1. looking'.vault[n] = "none" /\ looking'.spent = {}
        BY <3>4 DEF NoLook
      <4> QED
        BY <1>3, <4>1
    <3> QED
      BY <2>2, <3>1, <3>2, <3>3, <3>4
  <2>4. n \in nullified
    BY <2>3 DEF Marks, SpentMarksAreTrue
  <2> QED
    BY <2>1, <2>4
<1> QED
  BY <1>1, <1>2, <1>3 DEF Marks, Due

-----------------------------------------------------------------------------
(* What the vault keeps.                                                   *)

\* What the vault must hold of an operation's outputs.
Owed(o) == pc[o] \in {"await tx", "done"} /\ KindOf[o] # "transfer" =>
             \A n \in ToSet(OutsOf[o]) : Held(n)

LEMMA KeptKept ==
  ASSUME ChainTypes, PageTypes, PageTypes', Origins, Fates, Marks, Kept, [Next]_vars
  PROVE  Kept'
<1>0. /\ \A n \in ToSet(Genesis) : n \in Notes /\ (vault[n] # "none" \/ n \in unkept)
      /\ \A o \in Ops : Owed(o) /\ ToSet(OutsOf[o]) \subseteq Notes
  BY Parameters DEF Kept, Owed
<1>a. /\ vault \in [Notes -> Known] /\ store \in [Notes -> Known] /\ puts \in [Notes -> Nat]
      /\ pc \in [Ops -> Places]
  BY DEF PageTypes
<1>1. ASSUME \A n \in Notes : vault[n] # "none" => vault'[n] # "none", unkept \subseteq unkept',
             \A n \in Notes : puts[n] > 0 /\ store[n] # "none" =>
               \/ puts'[n] > 0 /\ store'[n] # "none"
               \/ vault'[n] # "none" \/ n \in unkept',
             NEW o \in Ops, \A p \in Ops \ {o} : pc'[p] = pc[p] \/ pc'[p] = "gone", Owed(o)'
      PROVE  Kept'
  <2>1. \A n \in Notes : Held(n) => Held(n)'
    BY <1>1 DEF Held
  <2>2. \A p \in Ops \ {o} : Owed(p)'
    BY <1>0, <1>1, <2>1 DEF Owed
  <2> QED
    BY <1>0, <1>1, <2>2 DEF Kept, Owed
<1>2. CASE UNCHANGED vars \/ (\E o \in Ops : MineTx(o) \/ DropTx(o)) \/ Look \/ LookAnswered
           \/ Connect \/ (\E c \in Strangers : StrangerShields(c)) \/ IndexLeaf
  <2>1. UNCHANGED <<pc, vault, puts, store, unkept>>
    BY <1>2 DEF MineTx, DropTx, Look, LookAnswered, Connect, StrangerShields, IndexLeaf, vars,
                vaultVars, historyVars
  <2> QED
    BY <2>1 DEF Kept, Held
<1>3. CASE \/ Refresh \/ LookDone \/ \E n \in Notes : PutLands(n) \/ PutFails(n)
  <2>1. /\ \A n \in Notes : vault[n] # "none" => vault'[n] # "none"
        /\ unkept \subseteq unkept' /\ \A p \in Ops : pc'[p] = pc[p] \/ pc'[p] = "gone"
        /\ \A n \in Notes : puts[n] > 0 /\ store[n] # "none" =>
             \/ puts'[n] > 0 /\ store'[n] # "none"
             \/ vault'[n] # "none" \/ n \in unkept'
    <3>1. CASE Refresh
      BY <1>a, <3>1 DEF Refresh
    <3>2. CASE LookDone
      <4>1. UNCHANGED <<vault, puts, unkept, pc>>
        BY <3>2 DEF LookDone, vaultVars, historyVars
      <4>2. ASSUME NEW n \in Notes, store[n] # "none" PROVE store'[n] # "none"
        <5>1. store'[n] = IF n \in MineNotes THEN Discovered(n) ELSE store[n]
          BY <3>2 DEF LookDone
        <5>2. Discovered(n) # "none"
          BY <1>a, <4>2 DEF Discovered, AddNote
        <5> QED
          BY <4>2, <5>1, <5>2
      <4> QED
        BY <4>1, <4>2
    <3>3. CASE \E n \in Notes : PutLands(n) \/ PutFails(n)
      <4>1. PICK m \in Notes : PutLands(m) \/ PutFails(m)
        BY <3>3
      <4>2. UNCHANGED <<store, pc>> /\ unkept \subseteq unkept'
            /\ \A n \in Notes : vault[n] # "none" => vault'[n] # "none"
        BY <1>a, <4>1 DEF PutLands, PutFails, historyVars
      <4>3. (\A n \in Notes \ {m} : puts'[n] = puts[n]) /\ (vault'[m] # "none" \/ m \in unkept')
        BY <1>a, <4>1 DEF PutLands, PutFails
      <4> QED
        BY <4>2, <4>3
    <3> QED
      BY <1>3, <3>1, <3>2, <3>3
  <2>2. \A p \in Ops : Owed(p)'
    BY <1>0, <2>1 DEF Owed, Held
  <2> QED
    BY <1>0, <2>1, <2>2 DEF Kept, Owed
<1>4. CASE \E o \in Ops : OpStep(o)
  <2>1. PICK o \in Ops : OpStep(o)
    BY <1>4
  <2>2. /\ \A p \in Ops \ {o} : pc'[p] = pc[p]
        /\ o \in DOMAIN pc
    BY <2>1 DEF OpStep, Start, SyncTree, FetchCurrentRoot, Proved, StoreCiphertext, HandOverFails,
          SignShield, KeepShield, AnswerLost, ShieldConfirmed, ShieldReverted, ShieldPending,
          HandToRelayer, RelayerConfirms, RelayersGiveUp, Consume, MarkSpent, KeepOutputs, Goto,
          PageTypes
  <2>3. CASE \/ Start(o) \/ SyncTree(o) \/ FetchCurrentRoot(o) \/ Proved(o) \/ HandOverFails(o)
             \/ StoreCiphertext(o, IF KindOf[o] = "shield" THEN "hand over" ELSE "keep")
             \/ SignShield(o) \/ AnswerLost(o)
             \/ HandToRelayer(o) \/ RelayerConfirms(o) \/ RelayersGiveUp(o)
    <3>1. UNCHANGED <<vault, puts, store, unkept>> /\ pc'[o] \notin {"await tx", "done"}
      BY <2>2, <2>3 DEF Start, SyncTree, FetchCurrentRoot, Proved, StoreCiphertext, HandOverFails,
            SignShield, AnswerLost, HandToRelayer, RelayerConfirms, RelayersGiveUp, Goto,
            vaultVars, historyVars
    <3> QED
      BY <1>1, <2>2, <3>1 DEF Owed
  <2>4. CASE KeepShield(o) \/ ShieldConfirmed(o)
    <3>1. ~Relayed(o) /\ KindOf[o] = "shield"
      BY <2>4 DEF KeepShield, ShieldConfirmed, At, Fates, Fate, Relayed
    <3> DEFINE m == OutsOf[o][1]
    <3>2. ToSet(OutsOf[o]) = {m} /\ m \in Notes
      BY <3>1, Parameters
    <3> HIDE DEF m
    <3>3. Persist({m})
      BY <2>4 DEF KeepShield, ShieldConfirmed, m
    <3>4. /\ \A n \in Notes : puts'[n] >= puts[n] /\ vault'[n] = vault[n] /\ puts'[n] \in Nat
          /\ puts'[m] > 0 \/ m \in unkept'
          /\ unkept \subseteq unkept'
      BY <3>2, <3>3, PersistTypes
    <3>5. \A n \in Notes : store[n] # "none" => store'[n] # "none"
      BY <1>a, <2>4 DEF KeepShield, ShieldConfirmed, AddNote, m
    <3>6. Held(m)'
      <4>1. CASE KeepShield(o)
        <5>1. store'[m] # "none"
          BY <1>a, <3>2, <4>1 DEF KeepShield, AddNote, m
        <5> QED
          BY <3>4, <5>1 DEF Held
      <4>2. CASE ShieldConfirmed(o)
        <5>1. Held(m)
          BY <1>0, <3>1, <3>2, <4>2 DEF ShieldConfirmed, At, Owed
        <5> QED
          BY <1>a, <3>2, <3>4, <3>5, <5>1 DEF Held
      <4> QED
        BY <2>4, <4>1, <4>2
    <3>7. Owed(o)'
      BY <3>2, <3>6 DEF Owed
    <3>8. \A n \in Notes : puts[n] > 0 /\ store[n] # "none" => puts'[n] > 0 /\ store'[n] # "none"
      BY <1>a, <3>4, <3>5
    <3> QED
      BY <1>1, <2>2, <3>4, <3>7, <3>8
  <2>5. CASE ShieldReverted(o)
    <3>1. ~Relayed(o) /\ pc'[o] = "failed"
      BY <2>2, <2>5 DEF ShieldReverted, At, Goto, Fates, Fate, Relayed
    <3>2. ToSet(OutsOf[o]) = {OutsOf[o][1]} /\ OutsOf[o][1] \in Notes
      BY <3>1, Parameters
    <3>3. /\ \A n \in Notes : n # OutsOf[o][1] => vault'[n] = vault[n] /\ store'[n] = store[n]
          /\ UNCHANGED <<puts, unkept>>
      BY <1>a, <2>5 DEF ShieldReverted, VaultTries
    <3>4. /\ OutsOf[o][1] \notin ToSet(Genesis)
          /\ \A p \in Ops \ {o} : OutsOf[o][1] \notin ToSet(OutsOf[p])
      BY <3>2, FreshCommitments
    <3>5. \A n \in ToSet(Genesis) : vault'[n] # "none" \/ n \in unkept'
      BY <1>0, <3>3, <3>4
    <3>6. ASSUME NEW p \in Ops, p # o PROVE Owed(p)'
      <4>1. \A n \in ToSet(OutsOf[p]) : Held(n) => Held(n)'
        BY <1>0, <3>3, <3>4, <3>6 DEF Held
      <4> QED
        BY <1>0, <2>2, <3>6, <4>1 DEF Owed
    <3>7. Owed(o)'
      BY <3>1 DEF Owed
    <3> QED
      BY <3>5, <3>6, <3>7 DEF Kept, Owed
  <2>6. CASE ShieldPending(o)
    <3>1. UNCHANGED <<vault, puts, store, unkept>> /\ pc[o] = "await tx"
      BY <2>6 DEF ShieldPending, At, vaultVars, historyVars
    <3>2. Owed(o)'
      BY <1>0, <3>1 DEF Owed, Held
    <3> QED
      BY <1>1, <2>2, <3>1, <3>2
  <2>7. CASE Consume(o)
    <3>1. /\ \A n \in Notes : /\ vault[n] # "none" => vault'[n] # "none"
                              /\ store[n] # "none" => store'[n] # "none"
          /\ UNCHANGED <<puts, unkept>>
      BY <1>a, <2>7 DEF Consume, VaultTries, Spent, historyVars
    <3>2. pc'[o] = "mark spent"
      BY <2>2, <2>7 DEF Consume, Goto
    <3>3. Owed(o)'
      BY <3>2 DEF Owed
    <3>4. /\ \A n \in Notes : vault[n] # "none" => vault'[n] # "none"
          /\ \A n \in Notes : puts[n] > 0 /\ store[n] # "none" =>
               puts'[n] > 0 /\ store'[n] # "none"
          /\ unkept \subseteq unkept'
      BY <3>1
    <3> QED
      BY <1>1, <2>2, <3>3, <3>4
  <2>8. CASE MarkSpent(o)
    <3>1. /\ UNCHANGED <<vault, puts, store, unkept>>
          /\ pc'[o] \in {"consume", "register"} \/ OutsOf[o] = <<>>
      BY <2>2, <2>8 DEF MarkSpent, Goto, vaultVars, historyVars
    <3>2. OutsOf[o] = <<>> => ToSet(OutsOf[o]) = {}
      BY NoMembers
    <3>3. Owed(o)'
      BY <3>1, <3>2 DEF Owed
    <3> QED
      BY <1>1, <2>2, <3>1, <3>3
  <2>9. CASE KeepOutputs(o)
    <3>1. /\ Persist(Keep(o))
          /\ \A n \in Notes : store'[n] = IF n \in Keep(o) THEN AddNote(store, n, FALSE)[n] ELSE store[n]
      BY <2>9 DEF KeepOutputs
    <3>2. /\ \A n \in Notes : /\ puts'[n] >= puts[n] /\ vault'[n] = vault[n] /\ puts'[n] \in Nat
                              /\ n \in Keep(o) => puts'[n] > 0 \/ n \in unkept'
          /\ unkept \subseteq unkept'
      BY <3>1, PersistTypes
    <3>3. \A n \in Notes : /\ store[n] # "none" => store'[n] # "none"
                           /\ n \in Keep(o) => store'[n] # "none"
      BY <1>a, <3>1 DEF AddNote
    <3>4. KindOf[o] # "transfer" => Keep(o) = ToSet(OutsOf[o])
      BY DEF Keep, Own
    <3>5. \A n \in Keep(o) \intersect Notes : Held(n)'
      BY <3>2, <3>3 DEF Held
    <3>6. Owed(o)'
      BY <1>0, <3>4, <3>5 DEF Owed
    <3>7. ASSUME NEW n \in Notes, puts[n] > 0, store[n] # "none"
          PROVE  puts'[n] > 0 /\ store'[n] # "none"
      <4>1. puts'[n] >= puts[n] /\ puts'[n] \in Nat /\ puts[n] \in Nat
        BY <1>a, <3>2
      <4>2. store'[n] # "none"
        BY <3>3, <3>7
      <4> QED
        BY <3>7, <4>1, <4>2
    <3>8. vault' = vault /\ unkept \subseteq unkept'
      BY <3>1, PersistTypes
    <3>9. /\ \A n \in Notes : vault[n] # "none" => vault'[n] # "none"
          /\ \A n \in Notes : puts[n] > 0 /\ store[n] # "none" =>
               puts'[n] > 0 /\ store'[n] # "none"
      BY <3>7, <3>8
    <3> QED
      BY <1>1, <2>2, <3>6, <3>8, <3>9
  <2> QED
    BY <2>1, <2>3, <2>4, <2>5, <2>6, <2>7, <2>8, <2>9 DEF OpStep
<1> QED
  BY <1>2, <1>3, <1>4 DEF Next

-----------------------------------------------------------------------------
(* The roots declared.                                                     *)

LEMMA PrefixIs ==
  ASSUME NEW S, NEW s \in Seq(S), NEW t \in Seq(S)
  PROVE  IsPrefix(s, t) <=> Len(s) <= Len(t) /\ \A i \in 1..Len(s) : s[i] = t[i]
<1>1. Len(s) \in Nat /\ Len(t) \in Nat
  BY LenProperties
<1>2. ASSUME NEW u \in Seq(S), Len(s) <= Len(u)
      PROVE  SubSeq(u, 1, Len(s)) = [i \in 1..Len(s) |-> u[i]]
  <2>1. \A i \in 1..Len(s) : u[i] \in S
    BY <1>1, <1>2, ElementOfSeq
  <2>2. /\ SubSeq(u, 1, Len(s)) \in Seq(S)
        /\ Len(SubSeq(u, 1, Len(s))) = IF 1 <= Len(s) THEN Len(s) - 1 + 1 ELSE 0
        /\ \A i \in 1..(Len(s) - 1 + 1) : SubSeq(u, 1, Len(s))[i] = u[1 + i - 1]
    BY <1>1, <2>1, SubSeqProperties
  <2> DEFINE v == SubSeq(u, 1, Len(s))
  <2> HIDE DEF v
  <2>3. v \in Seq(S) /\ Len(v) = Len(s) /\ \A i \in 1..Len(s) : v[i] = u[i]
    BY <1>1, <2>2 DEF v
  <2>4. v = [i \in 1..Len(s) |-> v[i]]
    BY <2>3, LenProperties
  <2> QED
    BY <2>3, <2>4 DEF v
<1>3. SubSeq(s, 1, Len(s)) = [i \in 1..Len(s) |-> s[i]]
  BY <1>1, <1>2
<1>4. CASE Len(s) <= Len(t)
  <2>1. SubSeq(t, 1, Len(s)) = [i \in 1..Len(s) |-> t[i]]
    BY <1>2, <1>4
  <2>2. IsPrefix(s, t) <=> [i \in 1..Len(s) |-> s[i]] = [i \in 1..Len(s) |-> t[i]]
    BY <1>3, <1>4, <2>1 DEF IsPrefix
  <2>3. [i \in 1..Len(s) |-> s[i]] = [i \in 1..Len(s) |-> t[i]] <=> \A i \in 1..Len(s) : s[i] = t[i]
    <3> DEFINE f == [i \in 1..Len(s) |-> s[i]]
               g == [i \in 1..Len(s) |-> t[i]]
    <3>1. \A i \in 1..Len(s) : f[i] = s[i] /\ g[i] = t[i]
      OBVIOUS
    <3>2. (\A i \in 1..Len(s) : s[i] = t[i]) => f = g
      OBVIOUS
    <3> HIDE DEF f, g
    <3>3. f = g => \A i \in 1..Len(s) : s[i] = t[i]
      BY <3>1
    <3> QED
      BY <3>2, <3>3 DEF f, g
  <2> QED
    BY <1>4, <2>2, <2>3
<1>5. CASE ~(Len(s) <= Len(t))
  BY <1>5 DEF IsPrefix
<1> QED
  BY <1>4, <1>5

\* The indexed tree is a stage of the chain's, and stays one as the chain grows.
LEMMA SyncedPrefix ==
  ASSUME ChainTypes
  PROVE  IsPrefix(SubSeq(leaves, 1, served), leaves)
<1> DEFINE t == SubSeq(leaves, 1, served)
<1>1. leaves \in Seq(Commits) /\ Len(leaves) \in Nat /\ served \in 0..Len(leaves)
  BY LenProperties DEF ChainTypes
<1>2. \A i \in 1..served : leaves[i] \in Commits
  BY <1>1, ElementOfSeq
<1>3. /\ SubSeq(leaves, 1, served) \in Seq(Commits)
      /\ Len(SubSeq(leaves, 1, served)) = IF 1 <= served THEN served - 1 + 1 ELSE 0
      /\ \A i \in 1..(served - 1 + 1) : SubSeq(leaves, 1, served)[i] = leaves[1 + i - 1]
  BY <1>1, <1>2, SubSeqProperties
<1>4. t \in Seq(Commits) /\ Len(t) = served /\ \A i \in 1..served : t[i] = leaves[i]
  BY <1>1, <1>3
<1> HIDE DEF t
<1>5. IsPrefix(t, leaves)
  BY <1>1, <1>4, PrefixIs
<1> QED
  BY <1>5 DEF t

LEMMA PrefixGrows ==
  ASSUME NEW S, NEW s \in Seq(S), NEW t \in Seq(S), NEW u \in Seq(S), IsPrefix(s, t)
  PROVE  IsPrefix(s, t \o u)
<1>1. Len(s) \in Nat /\ Len(t) \in Nat /\ Len(u) \in Nat
  BY LenProperties
<1> DEFINE v == t \o u
<1>2. v \in Seq(S) /\ Len(v) = Len(t) + Len(u)
      /\ \A i \in 1..Len(v) : v[i] = IF i <= Len(t) THEN t[i] ELSE u[i - Len(t)]
  BY ConcatProperties
<1>3. Len(s) <= Len(t) /\ \A i \in 1..Len(s) : s[i] = t[i]
  BY PrefixIs
<1> HIDE DEF v
<1>4. Len(s) <= Len(v) /\ \A i \in 1..Len(s) : s[i] = v[i]
  BY <1>1, <1>2, <1>3
<1>5. IsPrefix(s, v)
  BY <1>2, <1>4, PrefixIs
<1> QED
  BY <1>5 DEF v

\* Only whole transactions are added to the chain.
LEMMA StagesStay ==
  ASSUME ChainTypes, [Next]_vars, NEW s \in Seq(Commits), IsPrefix(s, leaves)
  PROVE  IsPrefix(s, leaves')
<1>1. CASE \E o \in Ops : MineTx(o)
  <2>1. PICK o \in Ops : MineTx(o)
    BY <1>1
  <2>2. leaves' = leaves \/ leaves' = leaves \o OutsOf[o]
    BY <2>1 DEF MineTx
  <2>3. IsPrefix(s, leaves \o OutsOf[o])
    BY PrefixGrows, Parameters DEF ChainTypes
  <2> QED
    BY <2>2, <2>3
<1>2. CASE \E c \in Strangers : StrangerShields(c)
  <2>1. PICK c \in Strangers : leaves' = Append(leaves, c)
    BY <1>2 DEF StrangerShields
  <2>2. Append(leaves, c) = leaves \o <<c>> /\ <<c>> \in Seq(Commits)
    BY AppendIsConcat, OneMember DEF ChainTypes, Commits
  <2> QED
    BY <2>1, <2>2, PrefixGrows DEF ChainTypes
<1>3. \/ UNCHANGED leaves \/ (\E o \in Ops : MineTx(o)) \/ \E c \in Strangers : StrangerShields(c)
  BY DEF Next, OpStep, Start, SyncTree, FetchCurrentRoot, Proved, StoreCiphertext, HandOverFails,
       SignShield, KeepShield, AnswerLost, ShieldConfirmed, ShieldReverted, ShieldPending,
       HandToRelayer, RelayerConfirms, RelayersGiveUp, Consume, MarkSpent, KeepOutputs, DropTx,
       PutLands, PutFails, Look, LookAnswered, LookDone, Connect, Refresh, IndexLeaf, vars, chainVars
<1> QED
  BY <1>1, <1>2, <1>3

\* The declared roots are the proved ones; until a late operation declares its
\* own, the tree it will read them from is the tree of its witness.
Agrees(o) ==
  EarlyRoots(o) \/ ~overlap =>
    /\ HasDeclared(o) => work[o].new = work[o].next /\ RootProved(o)
    /\ pc[o] = "root" => IsPrefix(tree, leaves)
    /\ pc[o] = "prove" /\ ~EarlyRoots(o) =>
         /\ work[o].next = tree \o OutsOf[o] /\ work[o].old = tree
         /\ KindOf[o] = "shield" => IsPrefix(work[o].old, work[o].current)

Alone == ~overlap => \A o, p \in Ops : o # p => pc[o] \in Resting \/ pc[p] \in Resting

LEMMA RootsAre == RootsAgree <=> Alone /\ \A o \in Ops : Agrees(o)
BY DEF RootsAgree, Alone, Agrees

\* An operation's own step.
LEMMA OwnRootsKept ==
  ASSUME ChainTypes, PageTypes, Fates, NEW o \in Ops, OpStep(o), Agrees(o)
  PROVE  Agrees(o)'
<1>1. /\ work[o] \in Works /\ o \in DOMAIN work /\ o \in DOMAIN pc /\ Fate(o)
      /\ KindOf[o] \in Kinds
  BY Parameters DEF PageTypes, Fates
<1>2. ASSUME pc'[o] \notin {"root", "prove"},
             HasDeclared(o)' => HasDeclared(o), overlap' = overlap,
             /\ work'[o].new = work[o].new /\ work'[o].next = work[o].next
             /\ work'[o].current = work[o].current /\ work'[o].old = work[o].old
      PROVE  Agrees(o)'
  BY <1>2 DEF Agrees, EarlyRoots, RootProved
<1>3. CASE Start(o)
  <2>1. pc'[o] = "sync" /\ txs'[o] = "none"
    BY <1>1, <1>3 DEF Start, Goto, At, Fate, chainVars
  <2> QED
    BY <2>1 DEF Agrees, HasDeclared
<1>4. CASE SyncTree(o)
  <2> DEFINE t == SubSeq(leaves, 1, served)
             g == t \o OutsOf[o]
  <2>1. txs'[o] = "none" /\ overlap' = overlap
    BY <1>1, <1>4 DEF SyncTree, At, Fate, chainVars, historyVars
  <2>2. CASE pc'[o] # "prove"
    <3>1. pc'[o] \in {"root", "failed"} /\ (pc'[o] = "root" => tree' = t) /\ UNCHANGED leaves
      BY <1>1, <1>4, <2>2 DEF SyncTree, Goto, chainVars
    <3>2. IsPrefix(t, leaves)
      BY SyncedPrefix
    <3> HIDE DEF t
    <3> QED
      BY <2>1, <3>1, <3>2 DEF Agrees, HasDeclared
  <2>3. CASE pc'[o] = "prove"
    <3>1. /\ Relayed(o) /\ work'[o] = Captured(o, t)
          /\ tree' = IF KindOf[o] = "split" THEN g ELSE t
      BY <1>1, <1>4, <2>3 DEF SyncTree, Goto
    <3> HIDE DEF t
    <3>2. /\ Captured(o, t).old = t /\ Captured(o, t).next = g
          /\ EarlyRoots(o) => Captured(o, t).current = t /\ Captured(o, t).new = g
      <4> HIDE DEF g
      <4>1. Captured(o, t) = LET proof == [NoWork EXCEPT !.old = t, !.next = g, !.member = t]
                             IN IF EarlyRoots(o)
                                THEN [proof EXCEPT !.current = t, !.new = g] ELSE proof
        BY DEF Captured, g, EarlyRoots
      <4> QED
        BY <4>1 DEF NoWork
    <3>3. ~EarlyRoots(o) => tree' = t
      BY <3>1 DEF EarlyRoots
    <3>4. HasDeclared(o)' => EarlyRoots(o)
      BY <2>1, <2>3 DEF HasDeclared, EarlyRoots
    <3>5. KindOf[o] # "shield"
      BY <3>1 DEF Relayed
    <3> QED
      BY <2>3, <3>1, <3>2, <3>3, <3>4, <3>5 DEF Agrees, EarlyRoots, RootProved
  <2> QED
    BY <2>2, <2>3
<1>5. CASE FetchCurrentRoot(o)
  <2> DEFINE g == tree \o OutsOf[o]
  <2>1. /\ txs'[o] = "none" /\ overlap' = overlap /\ ~Relayed(o) /\ pc[o] = "root"
        /\ pc'[o] = "prove" /\ tree' = tree
    BY <1>1, <1>5 DEF FetchCurrentRoot, At, Goto, Fate, chainVars, historyVars
  <2>2. work'[o] = [NoWork EXCEPT !.current = leaves, !.old = tree, !.next = g]
    BY <1>1, <1>5 DEF FetchCurrentRoot
  <2> HIDE DEF g
  <2>3. work'[o].next = g /\ work'[o].old = tree /\ work'[o].current = leaves
    BY <2>2 DEF NoWork
  <2>4. ~EarlyRoots(o) /\ ~HasDeclared(o)' /\ KindOf[o] = "shield"
    BY <2>1 DEF EarlyRoots, HasDeclared, Relayed
  <2>5. ~overlap => IsPrefix(tree, leaves)
    BY <2>1 DEF Agrees
  <2> QED
    BY <2>1, <2>3, <2>4, <2>5 DEF Agrees, EarlyRoots, g
<1>6. CASE Proved(o)
  <2> DEFINE g == tree \o OutsOf[o]
             x == work[o]
             s == IF KindOf[o] = "shield" THEN OutsOf[o] ELSE <<>>
  <2>1. /\ pc[o] = "prove" /\ pc'[o] \in {"register", "hand over"} /\ overlap' = overlap
        /\ work'[o] = [Declared(o).w EXCEPT !.left = s]
    BY <1>1, <1>6 DEF Proved, At, Goto, historyVars
  <2>2. Declared(o).w = IF EarlyRoots(o) THEN x
                        ELSE IF KindOf[o] = "shield" THEN [x EXCEPT !.new = g]
                        ELSE [x EXCEPT !.current = tree, !.new = g]
    BY DEF Declared, EarlyRoots
  <2> HIDE DEF g, x, s
  <2>3. x \in Works
    BY <1>1 DEF x
  <2>4. /\ work'[o].next = x.next /\ work'[o].old = x.old
        /\ EarlyRoots(o) => work'[o].new = x.new /\ work'[o].current = x.current
        /\ ~EarlyRoots(o) => /\ work'[o].new = g
                             /\ KindOf[o] # "shield" => work'[o].current = tree
                             /\ KindOf[o] = "shield" => work'[o].current = x.current
    <3>1. CASE EarlyRoots(o)
      BY <2>1, <2>2, <2>3, <3>1 DEF Works
    <3>2. CASE ~EarlyRoots(o) /\ KindOf[o] = "shield"
      BY <2>1, <2>2, <2>3, <3>2 DEF Works
    <3>3. CASE ~EarlyRoots(o) /\ KindOf[o] # "shield"
      BY <2>1, <2>2, <2>3, <3>3 DEF Works
    <3> QED
      BY <3>1, <3>2, <3>3
  <2>5. EarlyRoots(o) \/ ~overlap =>
          /\ EarlyRoots(o) => x.new = x.next /\ x.current = x.old /\ KindOf[o] # "shield"
          /\ ~EarlyRoots(o) => /\ x.next = g /\ x.old = tree
                               /\ KindOf[o] = "shield" => IsPrefix(x.old, x.current)
    BY <2>1 DEF Agrees, HasDeclared, RootProved, EarlyRoots, x, g
  <2> QED
    BY <2>1, <2>4, <2>5 DEF Agrees, EarlyRoots, RootProved
<1>7. CASE \/ StoreCiphertext(o, IF KindOf[o] = "shield" THEN "hand over" ELSE "keep")
           \/ RelayerConfirms(o) \/ MarkSpent(o)
  <2>1. \E l : work' = [work EXCEPT ![o] = [work[o] EXCEPT !.left = l]]
    BY <1>7 DEF StoreCiphertext, RelayerConfirms, MarkSpent
  <2>2. /\ work'[o].new = work[o].new /\ work'[o].next = work[o].next
        /\ work'[o].current = work[o].current /\ work'[o].old = work[o].old
    BY <1>1, <2>1 DEF Works
  <2>3. UNCHANGED <<txs, overlap>> /\ pc'[o] \notin {"root", "prove"}
        /\ (pc[o] = "register" \/ txs[o] = "success")
    BY <1>1, <1>7 DEF StoreCiphertext, RelayerConfirms, MayConsume, MarkSpent, At, Goto, Fate,
          chainVars, historyVars
  <2>4. HasDeclared(o)' => HasDeclared(o)
    BY <2>3 DEF HasDeclared
  <2> QED
    BY <1>2, <2>2, <2>3, <2>4
<1>8. CASE \/ HandOverFails(o) \/ SignShield(o) \/ KeepShield(o) \/ AnswerLost(o)
           \/ ShieldConfirmed(o) \/ ShieldReverted(o)
           \/ ShieldPending(o) \/ HandToRelayer(o) \/ RelayersGiveUp(o) \/ Consume(o)
           \/ KeepOutputs(o)
  <2>1. UNCHANGED <<work, overlap>>
    BY <1>8 DEF HandOverFails, SignShield, KeepShield, AnswerLost, ShieldConfirmed, ShieldReverted,
          ShieldPending, HandToRelayer, RelayersGiveUp, Consume, KeepOutputs, historyVars
  <2>2. /\ pc'[o] \notin {"root", "prove", "register", "hand over"}
        /\ pc[o] = "hand over" \/ txs[o] # "none"
    BY <1>1, <1>8 DEF HandOverFails, SignShield, KeepShield, AnswerLost, ShieldConfirmed, ShieldReverted,
          ShieldPending, HandToRelayer, RelayersGiveUp, Consume, KeepOutputs, Goto, At, Fate
  <2>3. HasDeclared(o)
    BY <2>2 DEF HasDeclared
  <2> QED
    BY <1>2, <2>1, <2>2, <2>3
<1> QED
  BY <1>3, <1>4, <1>5, <1>6, <1>7, <1>8 DEF OpStep

\* Another operation's step: alone, an operation has its tree to itself.
LEMMA OtherRootsKept ==
  ASSUME PageTypes, Fates, Alone, NEW o \in Ops, OpStep(o), NEW p \in Ops, p # o, Agrees(p),
         txs'[p] = txs[p], pc'[p] = pc[p], work'[p] = work[p], leaves' = leaves, overlap => overlap',
         Start(o) \/ pc[o] \notin Resting
  PROVE  Agrees(p)'
<1>1. HasDeclared(p)' => HasDeclared(p)
  BY DEF HasDeclared, EarlyRoots
<1>2. CASE pc[p] \notin {"root", "prove"} \/ (pc[p] = "prove" /\ EarlyRoots(p))
  BY <1>1, <1>2 DEF Agrees, EarlyRoots, RootProved
<1>3. CASE pc[p] = "root" \/ (pc[p] = "prove" /\ ~EarlyRoots(p))
  <2>1. pc[p] \notin Resting
    BY <1>3 DEF Resting
  <2>2. Start(o) => overlap'
    BY <2>1 DEF Start
  <2>3. ~Start(o) => overlap
    BY <2>1 DEF Alone
  <2>4. overlap' /\ (EarlyRoots(p) => pc[p] = "root" /\ txs[p] = "none" /\ ~HasDeclared(p)')
    <3>1. overlap'
      BY <2>2, <2>3
    <3> QED
      BY <1>3, <3>1 DEF HasDeclared, EarlyRoots, Fates, Fate, Relayed
  <2>5. pc[p] = "root" => ~EarlyRoots(p)
    BY DEF EarlyRoots, Fates, Fate, Relayed
  <2> QED
    BY <1>3, <2>4, <2>5 DEF Agrees, EarlyRoots
<1> QED
  BY <1>2, <1>3

LEMMA RootsKept ==
  ASSUME ChainTypes, PageTypes, Fates, RootsAgree, [Next]_vars
  PROVE  RootsAgree'
<1>0. Alone /\ \A o \in Ops : Agrees(o)
  BY RootsAre
<1>s. IsPrefix(tree, leaves) => IsPrefix(tree, leaves')
  BY StagesStay DEF PageTypes
<1>1. CASE UNCHANGED vars \/ (\E n \in Notes : PutLands(n) \/ PutFails(n)) \/ Look \/ LookAnswered \/ LookDone \/ Connect
           \/ (\E c \in Strangers : StrangerShields(c)) \/ IndexLeaf
  <2>1. UNCHANGED <<txs, pc, work, tree, overlap>>
    BY <1>1 DEF PutLands, PutFails, Look, LookAnswered, LookDone, Connect, StrangerShields, IndexLeaf, vars, chainVars,
          historyVars
  <2> QED
    BY <1>s, <2>1 DEF RootsAgree, HasDeclared, EarlyRoots, RootProved
<1>2. CASE \E o \in Ops : MineTx(o) \/ DropTx(o)
  <2>1. UNCHANGED <<pc, work, tree, overlap>> /\ \A o \in Ops : txs'[o] # "none" => txs[o] # "none"
    BY <1>2 DEF MineTx, DropTx, ChainTypes, historyVars
  <2> QED
    BY <1>s, <2>1 DEF RootsAgree, HasDeclared, EarlyRoots, RootProved
<1>3. CASE Refresh
  <2>1. /\ UNCHANGED <<txs, work, overlap>>
        /\ \A o \in Ops : pc'[o] = IF pc[o] \in Resting THEN pc[o] ELSE "gone"
    BY <1>3 DEF Refresh, chainVars, historyVars
  <2>2. \A o \in Ops : pc'[o] \in Resting
    BY <2>1 DEF Resting
  <2>3. ASSUME NEW o \in Ops PROVE Agrees(o)'
    <3>1. pc'[o] \notin {"root", "prove", "register", "hand over"}
      BY <2>2 DEF Resting
    <3> QED
      BY <1>0, <2>1, <3>1 DEF Agrees, HasDeclared, EarlyRoots, RootProved
  <2>4. Alone'
    BY <2>2 DEF Alone
  <2> QED
    BY <2>3, <2>4, RootsAre DEF RootsAgree, Alone, Agrees
<1>4. CASE \E o \in Ops : OpStep(o)
  <2>1. PICK o \in Ops : OpStep(o)
    BY <1>4
  <2>2. Agrees(o)'
    BY <1>0, <2>1, OwnRootsKept
  <2>3. \A p \in Ops \ {o} : pc'[p] = pc[p]
    BY <2>1 DEF OpStep, Start, SyncTree, FetchCurrentRoot, Proved, StoreCiphertext, HandOverFails,
          SignShield, KeepShield, AnswerLost, ShieldConfirmed, ShieldReverted, ShieldPending, HandToRelayer, RelayerConfirms,
          RelayersGiveUp, Consume, MarkSpent, KeepOutputs, Goto, PageTypes
  <2>4. \A p \in Ops \ {o} : work'[p] = work[p]
    BY <2>1 DEF OpStep, Start, SyncTree, FetchCurrentRoot, Proved, StoreCiphertext, HandOverFails,
          SignShield, KeepShield, AnswerLost, ShieldConfirmed, ShieldReverted, ShieldPending, HandToRelayer, RelayerConfirms,
          RelayersGiveUp, Consume, MarkSpent, KeepOutputs, PageTypes
  <2>5. \A p \in Ops \ {o} : txs'[p] = txs[p]
    BY <2>1 DEF OpStep, Start, SyncTree, FetchCurrentRoot, Proved, StoreCiphertext, HandOverFails,
          SignShield, KeepShield, AnswerLost, ShieldConfirmed, ShieldReverted, ShieldPending, HandToRelayer, RelayerConfirms,
          RelayersGiveUp, Consume, MarkSpent, KeepOutputs, ChainTypes, chainVars
  <2>a. UNCHANGED leaves
    BY <2>1 DEF OpStep, Start, SyncTree, FetchCurrentRoot, Proved, StoreCiphertext, HandOverFails,
          SignShield, KeepShield, AnswerLost, ShieldConfirmed, ShieldReverted, ShieldPending,
          HandToRelayer, RelayerConfirms, RelayersGiveUp, Consume, MarkSpent, KeepOutputs, chainVars
  <2>6. Start(o) \/ (pc[o] \notin Resting /\ overlap' = overlap)
    BY <2>1 DEF OpStep, SyncTree, FetchCurrentRoot, Proved, StoreCiphertext, HandOverFails,
          SignShield, KeepShield, AnswerLost, ShieldConfirmed, ShieldReverted, ShieldPending, HandToRelayer, RelayerConfirms,
          MayConsume, RelayersGiveUp, Consume, MarkSpent, KeepOutputs, At, Resting, historyVars
  <2>7. Start(o) => overlap' = (overlap \/ \E p \in Ops \ {o} : pc[p] \notin Resting)
    BY DEF Start
  <2>8. ASSUME NEW p \in Ops, p # o PROVE Agrees(p)'
    <3>1. txs'[p] = txs[p] /\ pc'[p] = pc[p] /\ work'[p] = work[p]
      BY <2>3, <2>4, <2>5, <2>8
    <3>2. (overlap => overlap') /\ (Start(o) \/ pc[o] \notin Resting)
      <4>1. overlap \in BOOLEAN
        BY DEF PageTypes
      <4>2. CASE Start(o)
        <5>1. overlap => overlap'
          BY <2>7, <4>1, <4>2
        <5> QED
          BY <4>2, <5>1
      <4>3. CASE pc[o] \notin Resting /\ overlap' = overlap
        BY <4>3
      <4> QED
        BY <2>6, <4>2, <4>3
    <3>3. Alone /\ Agrees(p)
      BY <1>0
    <3> QED
      BY <2>1, <2>a, <2>8, <3>1, <3>2, <3>3, OtherRootsKept
  <2>9. Alone'
    <3> SUFFICES ASSUME ~overlap', NEW a \in Ops, NEW b \in Ops, a # b
                 PROVE  pc'[a] \in Resting \/ pc'[b] \in Resting
      BY DEF Alone
    <3>1. pc[a] \in Resting \/ pc[b] \in Resting
      BY <1>0, <2>6, <2>7 DEF Alone
    <3>2. \A p \in Ops \ {o} : pc[p] \in Resting
      BY <1>0, <2>6, <2>7 DEF Alone
    <3> QED
      BY <2>3, <3>2
  <2> QED
    BY <2>2, <2>8, <2>9 DEF RootsAgree, Alone, Agrees
<1> QED
  BY <1>1, <1>2, <1>3, <1>4 DEF Next

-----------------------------------------------------------------------------
(* The invariant holds.                                                    *)

LEMMA ClientStart == ClientInit => ClientInv
<1> SUFFICES ASSUME ClientInit PROVE ClientInv
  OBVIOUS
<1> USE DEF ClientInit, Resting
<1>1. ChainTypes
  <2>1. Genesis \in Seq(Notes) /\ Genesis \in Seq(Commits) /\ Len(Genesis) \in Nat
    BY Parameters, LenProperties
  <2> QED
    BY <2>1 DEF ChainTypes
<1>2. PageTypes
  <2>1. tree \in Seq(Commits)
    BY NoMembers
  <2>2. store \in [Notes -> Known] /\ vault \in [Notes -> Known]
    BY DEF Known
  <2>3. pc \in [Ops -> Places] /\ work \in [Ops -> Works] /\ looking \in Looks
    BY RestTypes DEF Places
  <2> QED
    BY <2>1, <2>2, <2>3 DEF PageTypes
<1>3. Origins
  BY ClientAssumption, FreshCommitments DEF Origins
<1>4. Fates
  BY DEF Fates, Fate
<1>5. Marks
  <2>1. \A n \in Notes : vault[n] # "spent" /\ store[n] # "spent" /\ looking.vault[n] # "spent" /\ n \notin looking.spent
    BY DEF NoLook
  <2>2. SpentMarksAreTrue
    BY <2>1 DEF SpentMarksAreTrue
  <2>3. IsInjective(rows)
    BY ClientAssumption
  <2> QED
    BY <2>1, <2>2, <2>3 DEF Marks
<1>6. Kept
  BY Parameters DEF Kept
<1>7. RootsAgree
  <2>1. Alone /\ \A o \in Ops : Agrees(o)
    BY DEF Alone, Agrees, HasDeclared
  <2> QED
    BY <2>1, RootsAre
<1> QED
  BY <1>1, <1>2, <1>3, <1>4, <1>5, <1>6, <1>7 DEF ClientInv

LEMMA ClientStep == ClientInv /\ [Next]_vars => ClientInv'
<1> SUFFICES ASSUME ClientInv, [Next]_vars PROVE ClientInv'
  OBVIOUS
<1>1. ChainTypes /\ PageTypes /\ Origins /\ Fates /\ Marks /\ Kept /\ RootsAgree
  BY DEF ClientInv
<1>2. PageTypes'
  BY <1>1, PageTypesKept
<1> QED
  BY <1>1, <1>2, ChainTypesKept, OriginsKept, FatesKept, MarksKept, KeptKept, RootsKept
     DEF ClientInv

\* What the client knows, and the chain it knows it of, whatever its operations,
\* the relayers, the API and the other users do.
THEOREM ClientInvariant == Spec => []ClientInv
<1>1. ClientInit => ClientInv
  BY ClientStart
<1>2. ClientInv /\ [Next]_vars => ClientInv'
  BY ClientStep
<1> QED
  BY <1>1, <1>2, PTL DEF Spec

\* RecordsAreTrue for every client: no record of the store, the vault or the feed
\* marks a note spent that is not spent on chain (sdk/src/vault.ts, consume in
\* STXShield.ts), and they are records of notes.
THEOREM RecordsAlwaysTrue == Spec => []RecordsAreTrue
<1>1. ClientInv => RecordsAreTrue
  <2>1. ASSUME ChainTypes PROVE ToSet(rows) \subseteq Notes
    BY <2>1, MembersOf DEF ChainTypes
  <2> QED
    BY <2>1 DEF ClientInv, ChainTypes, PageTypes, Origins, Marks, RecordsAreTrue, ClientTypeOK
<1> QED
  BY <1>1, ClientInvariant, PTL

\* DeclaredRootsAreProved for every client: the roots a handed-over transaction
\* declares are those of its proof, for split and withdraw always, for the others
\* when the client never had two operations in flight; but shield's current root is
\* that of the chain, at the tree its proof starts from or further.
THEOREM DeclaredRootsAlwaysProved == Spec => []DeclaredRootsAreProved
<1>1. ClientInv => DeclaredRootsAreProved
  BY DEF ClientInv, RootsAgree, RootProved, DeclaredRootsAreProved, HasDeclared, EarlyRoots
<1> QED
  BY <1>1, ClientInvariant, PTL

\* A note a successful operation made has one creator, and it is that operation.
LEMMA CreatorOf ==
  ASSUME NEW o \in Ops, NEW n \in ToSet(OutsOf[o])
  PROVE  Creator(n) = o /\ n \in Created
<1>1. \A p \in Ops : n \in ToSet(OutsOf[p]) => p = o
  BY FreshCommitments
<1> QED
  BY <1>1 DEF Creator, Created

\* NotesLostOnlyByFailure for every client: an unspent note of the user that is on
\* chain is in the page's store, the vault or the feed, unless a write of it to the
\* vault failed or found none, or the operation that made it was cut off by a
\* refresh, is still under way, or threw after its hand-over (STXShield.ts:317-329,
\* vault.ts:52-57).
THEOREM NotesAreLostOnlyByFailure == Spec => []NotesLostOnlyByFailure
<1>1. ASSUME ClientInv PROVE NotesLostOnlyByFailure
  <2> SUFFICES ASSUME NEW n \in (MineNotes \intersect ToSet(leaves)) \ nullified
               PROVE  \/ Recoverable(n) \/ n \in unkept
                      \/ n \in Created /\ (pc[Creator(n)] \notin {"idle", "done", "failed"}
                                           \/ Creator(n) \in threw)
    BY DEF NotesLostOnlyByFailure
  <2>1. n \in Notes /\ \A o \in Ops : KindOf[o] = "transfer" => n \notin ToSet(OutsOf[o])
    BY DEF MineNotes
  <2>2. n \in ToSet(Genesis) \/ \E o \in Ops : txs[o] = "success" /\ n \in ToSet(OutsOf[o])
    BY <1>1, <2>1 DEF ClientInv, Origins
  <2>3. CASE n \in ToSet(Genesis)
    BY <1>1, <2>3 DEF ClientInv, Kept, Recoverable
  <2>4. CASE \E o \in Ops : txs[o] = "success" /\ n \in ToSet(OutsOf[o])
    <3>1. PICK o \in Ops : txs[o] = "success" /\ n \in ToSet(OutsOf[o])
      BY <2>4
    <3>2. Creator(n) = o /\ n \in Created
      BY <3>1, CreatorOf
    <3>3. Fate(o)
      BY <1>1 DEF ClientInv, Fates
    <3>4. CASE pc[o] \in {"idle", "failed"}
      BY <3>1, <3>2, <3>3, <3>4 DEF Fate
    <3>5. CASE pc[o] = "done"
      <4>1. Held(n)
        BY <1>1, <2>1, <3>1, <3>5 DEF ClientInv, Kept
      <4> QED
        BY <4>1 DEF Recoverable, Held
    <3> QED
      BY <3>2, <3>4, <3>5
  <2> QED
    BY <2>2, <2>3, <2>4
<1> QED
  BY <1>1, ClientInvariant, PTL

\* One step keeps a note the page holds as spent, or empties the page.
LEMMA SpentKept ==
  ASSUME ClientInv, [Next]_vars, NEW n \in Notes, store[n] = "spent"
  PROVE  store'[n] = "spent" \/ (token' = FALSE /\ tree' = <<>>)
<1>0. store \in [Notes -> Known]
  BY DEF ClientInv, PageTypes
<1>1. CASE UNCHANGED store
  BY <1>1
<1>2. CASE Refresh
  BY <1>2 DEF Refresh
<1>3. CASE LookDone
  <2>1. Discovered(n) = "spent"
    BY <1>0 DEF Discovered, AddNote
  <2> QED
    BY <1>3, <2>1 DEF LookDone
<1>4. CASE \E o \in Ops : KeepShield(o)
  BY <1>0, <1>4 DEF KeepShield, AddNote
<1>5. CASE \E o \in Ops : ShieldReverted(o)
  <2>1. PICK o \in Ops : ShieldReverted(o)
    BY <1>5
  <2>2. ~Relayed(o) /\ txs[o] # "success"
    BY <2>1 DEF ShieldReverted, At, ClientInv, Fates, Fate
  <2>3. OutsOf[o][1] \in ToSet(OutsOf[o])
    BY <2>2, Parameters
  <2>4. OutsOf[o][1] \notin ToSet(leaves)
    BY <2>2, <2>3 DEF ClientInv, Origins
  <2>5. n \in nullified /\ nullified \subseteq ToSet(leaves)
    BY DEF ClientInv, Marks, SpentMarksAreTrue, Origins
  <2>6. n # OutsOf[o][1]
    BY <2>4, <2>5
  <2> QED
    BY <1>0, <2>1, <2>6 DEF ShieldReverted
<1>6. CASE \E o \in Ops : Consume(o)
  BY <1>0, <1>6 DEF Consume, Spent
<1>7. CASE \E o \in Ops : KeepOutputs(o)
  <2>1. AddNote(store, n, FALSE)[n] = "spent"
    BY <1>0 DEF AddNote
  <2> QED
    BY <1>7, <2>1 DEF KeepOutputs
<1>8. \/ UNCHANGED store \/ Refresh \/ LookDone
      \/ \E o \in Ops : KeepShield(o) \/ ShieldReverted(o) \/ Consume(o) \/ KeepOutputs(o)
  BY DEF Next, OpStep, Start, SyncTree, FetchCurrentRoot, Proved, StoreCiphertext, HandOverFails,
         SignShield, AnswerLost, ShieldConfirmed, ShieldPending, DropTx, PutLands, PutFails, HandToRelayer, RelayerConfirms, RelayersGiveUp, MarkSpent,
         MineTx, Look, LookAnswered, Connect, StrangerShields, IndexLeaf, vars
<1> QED
  BY <1>1, <1>2, <1>3, <1>4, <1>5, <1>6, <1>7, <1>8

\* SpentStaysSpent for every client: a note the page holds as spent is never
\* listed again (NoteStore.add in sdk/src/notes), whatever a discovery under way
\* brings back, and whatever shield rolls back; only a refresh empties the page.
THEOREM SpentNotesStaySpent == Spec => SpentStaysSpent
<1>1. ClientInv /\ [Next]_vars =>
        [\A n \in Notes : store[n] = "spent" => store'[n] = "spent" \/ (token' = FALSE /\ tree' = <<>>)]_vars
  BY SpentKept
<1> QED
  BY <1>1, ClientInvariant, PTL DEF Spec, SpentStaysSpent

-----------------------------------------------------------------------------
(* Natural numbers.                                                        *)

LEMMA SmallestNumber ==
  ASSUME NEW Bad, Bad \subseteq Nat, Bad # {}
  PROVE  \E m \in Bad : \A k \in Bad : m <= k
<1>1. PICK m \in Bad : \A k \in Bad : <<k, m>> \notin OpToRel(<, Nat)
  BY NatLessThanWellFounded, WFMin
<1>2. \A k \in Bad : ~(k < m)
  BY <1>1 DEF OpToRel
<1> QED
  BY <1>2

LEMMA Powers ==
  \A l \in 0..(Depth + MaxPathLength) : 2 ^ l \in Nat \ {0}
<1> DEFINE top == Depth + MaxPathLength
           Bad == {l \in 0..top : 2 ^ l \notin Nat \ {0}}
<1> SUFFICES ASSUME Bad # {}
             PROVE  FALSE
  OBVIOUS
<1>1. top \in Nat /\ Bad \subseteq Nat
  BY DepthAssumption
<1> HIDE DEF top
<1>2. PICK m \in Bad : \A k \in Bad : m <= k
  <2> HIDE DEF Bad
  <2> QED
    BY <1>1, SmallestNumber
<1>3. m \in 0..top /\ m # 0
  <2>1. 2 ^ 0 \in Nat \ {0}
    BY PowersOfTwo
  <2>2. 2 ^ m \notin Nat \ {0}
    OBVIOUS
  <2> QED
    BY <2>1, <2>2, <1>1
<1>4. m - 1 \in 0..top /\ m - 1 \notin Bad
  BY <1>1, <1>2, <1>3
<1>5. 2 ^ (m - 1) \in Nat \ {0} /\ 2 ^ m = 2 * 2 ^ (m - 1)
  BY <1>1, <1>3, <1>4, PowersOfTwo DEF top
<1> QED
  BY <1>5

\* A power of two, as any number the provers can reason about.
LEMMA Power ==
  ASSUME NEW l \in 1..(Depth + MaxPathLength)
  PROVE  /\ 2 ^ l \in Nat \ {0} /\ 2 ^ (l - 1) \in Nat \ {0}
         /\ 2 ^ l = 2 * 2 ^ (l - 1)
BY Powers, PowersOfTwo, DepthAssumption

LEMMA Halves ==
  ASSUME NEW i \in Nat, NEW p \in Nat \ {0}
  PROVE  /\ i \div p \in Nat /\ i \div (2 * p) \in Nat
         /\ i \div (2 * p) = (i \div p) \div 2
         /\ i \div p = (2 * (i \div (2 * p))) + ((i \div p) % 2)
         /\ (i \div p) % 2 \in {0, 1}
<1> DEFINE q == i \div p
           b == q % 2
           h == q \div 2
<1>1. q \in Nat /\ (i % p) \in 0..(p - 1) /\ i = (q * p) + (i % p)
  OBVIOUS
<1>2. h \in Nat /\ b \in {0, 1} /\ q = (2 * h) + b
  BY <1>1
<1> HIDE DEF q, b, h
<1>3. i = (h * (2 * p)) + ((b * p) + (i % p))
  <2>1. q * p = ((2 * h) + b) * p
    BY <1>2
  <2>2. ((2 * h) + b) * p = (h * (2 * p)) + (b * p)
    BY <1>2
  <2> QED
    BY <1>1, <1>2, <2>1, <2>2
<1>4. (b * p) + (i % p) \in 0..(2 * p - 1)
  <2>1. CASE b = 0
    BY <1>1, <2>1
  <2>2. CASE b = 1
    BY <1>1, <2>2
  <2> QED
    BY <1>2, <2>1, <2>2
<1>5. ASSUME NEW x \in Nat, NEW y \in Nat \ {0}, NEW c \in Nat, NEW r \in 0..(y - 1), x = (c * y) + r
      PROVE  x \div y = c
  BY <1>5
<1>6. i \div (2 * p) = h
  <2>1. 2 * p \in Nat \ {0} /\ h \in Nat
    BY <1>2
  <2> QED
    BY <1>3, <1>4, <1>5, <2>1
<1> QED
  BY <1>1, <1>2, <1>6 DEF q, b, h

-----------------------------------------------------------------------------
(* The functions of the two trees are defined level by level: each exists, *)
(* and satisfies the equation that defines it.  One lemma does for all of  *)
(* them, h being what a definition is about.                               *)

Lowest(h) ==
  CASE h.of = "zeros"     -> EmptyLeaf
    [] h.of = "nodes"     -> Put(h.nodes, 0, h.index, h.value)
    [] h.of = "root"      -> h.leaf
    [] h.of = "index"     -> 0
    [] h.of = "reference" ->
         [i \in 0..(MaxLeaves - 1) |-> IF i < Len(h.list) THEN h.list[i + 1] ELSE EmptyLeaf]
    [] h.of = "levels"    -> [i \in DOMAIN h.statements |-> HashedLeaf(h.statements[i])]
    [] h.of = "siblings"  -> <<>>

Higher(h, l, v) ==
  CASE h.of = "zeros"     -> Hash(v, v)
    [] h.of = "nodes"     ->
         Put(v, l, Above(h.index, l), Parent(v, l - 1, Above(h.index, l - 1)))
    [] h.of = "root"      -> IF h.path[l].right THEN Hash(h.path[l].sibling, v)
                             ELSE Hash(v, h.path[l].sibling)
    [] h.of = "index"     -> v + (IF h.path[l].right THEN 2 ^ (l - 1) ELSE 0)
    [] h.of = "reference" -> [i \in 0..(2 ^ (Depth - l) - 1) |-> Hash(v[2 * i], v[2 * i + 1])]
    [] h.of = "levels"    -> Combined(v)
    [] h.of = "siblings"  ->
         LET s == SiblingOf(Above(h.index, l - 1))
         IN  v \o (IF s < Len(h.levels[l - 1]) THEN <<h.levels[l - 1][s + 1]>> ELSE <<>>)

Rises(h, f, n) == f = [l \in 0..n |-> IF l = 0 THEN Lowest(h) ELSE Higher(h, l, f[l - 1])]

LEMMA RisesExists ==
  ASSUME NEW h, NEW n \in Nat
  PROVE  \E f : Rises(h, f, n)
<1> DEFINE Bad == {m \in Nat : ~ \E f : Rises(h, f, m)}
<1> SUFFICES ASSUME Bad # {}
             PROVE  FALSE
  OBVIOUS
<1>1. PICK m \in Bad : \A k \in Bad : m <= k
  <2>1. Bad \subseteq Nat
    OBVIOUS
  <2> HIDE DEF Bad
  <2> QED
    BY <2>1, SmallestNumber
<1>2. m # 0
  <2> DEFINE f == [l \in 0..0 |-> Lowest(h)]
  <2>1. f = [l \in 0..0 |-> IF l = 0 THEN Lowest(h) ELSE Higher(h, l, f[l - 1])]
    OBVIOUS
  <2> QED
    BY <2>1 DEF Rises
<1>3. PICK f : Rises(h, f, m - 1)
  BY <1>1, <1>2
<1> DEFINE g == [l \in 0..m |-> IF l = 0 THEN Lowest(h) ELSE Higher(h, l, f[l - 1])]
<1>4. \A l \in 0..(m - 1) : g[l] = f[l]
  BY <1>3 DEF Rises
<1>5. g = [l \in 0..m |-> IF l = 0 THEN Lowest(h) ELSE Higher(h, l, g[l - 1])]
  <2>1. \A l \in 0..m : l # 0 => l - 1 \in 0..(m - 1)
    OBVIOUS
  <2>2. \A l \in 0..m : l # 0 => g[l - 1] = f[l - 1]
    BY <2>1, <1>4
  <2> QED
    BY <2>2
<1> QED
  BY <1>5 DEF Rises

Rise(h, n) == CHOOSE f : Rises(h, f, n)

LEMMA RiseIs ==
  ASSUME NEW h, NEW n \in Nat
  PROVE  /\ Rise(h, n)[0] = Lowest(h)
         /\ \A l \in 1..n : Rise(h, n)[l] = Higher(h, l, Rise(h, n)[l - 1])
<1> DEFINE f == Rise(h, n)
<1>1. Rises(h, f, n)
  BY RisesExists DEF Rise
<1>2. f = [l \in 0..n |-> IF l = 0 THEN Lowest(h) ELSE Higher(h, l, f[l - 1])]
  BY <1>1 DEF Rises
<1> HIDE DEF f
<1>3. \A l \in 0..n : f[l] = IF l = 0 THEN Lowest(h) ELSE Higher(h, l, f[l - 1])
  BY <1>2
<1>4. f[0] = Lowest(h) /\ \A l \in 1..n : f[l] = Higher(h, l, f[l - 1])
  BY <1>3
<1> QED
  BY <1>4 DEF f

\* The equations of the definitions.
LEMMA ZerosIs ==
  /\ Zeros[0] = EmptyLeaf
  /\ \A l \in 1..Depth : Zeros[l] = Hash(Zeros[l - 1], Zeros[l - 1])
<1> DEFINE h == [of |-> "zeros"]
<1>1. Zeros = Rise(h, Depth)
  BY DEF Zeros, Rise, Rises, Lowest, Higher
<1>2. Lowest(h) = EmptyLeaf /\ \A l, v : Higher(h, l, v) = Hash(v, v)
  BY DEF Lowest, Higher
<1> QED
  BY <1>1, <1>2, RiseIs, DepthAssumption

OnNodes(kept, index, value) ==
  Rise([of |-> "nodes", nodes |-> kept, index |-> index, value |-> value], Depth)

LEMMA SetLeafIs ==
  ASSUME NEW kept, NEW index, NEW value
  PROVE  LET up == OnNodes(kept, index, value) IN
         /\ up[0] = Put(kept, 0, index, value)
         /\ \A l \in 1..Depth : up[l] =
              Put(up[l - 1], l, Above(index, l), Parent(up[l - 1], l - 1, Above(index, l - 1)))
         /\ SetLeaf(kept, index, value) = up[Depth]
<1> DEFINE h == [of |-> "nodes", nodes |-> kept, index |-> index, value |-> value]
<1>1. SetLeaf(kept, index, value) = Rise(h, Depth)[Depth]
  BY DEF SetLeaf, Rise, Rises, Lowest, Higher
<1>2. /\ Lowest(h) = Put(kept, 0, index, value)
      /\ \A l, v : Higher(h, l, v) =
           Put(v, l, Above(index, l), Parent(v, l - 1, Above(index, l - 1)))
  BY DEF Lowest, Higher
<1> QED
  BY <1>1, <1>2, RiseIs, DepthAssumption DEF OnNodes

OnPath(leaf, path) == Rise([of |-> "root", leaf |-> leaf, path |-> path], Depth)

LEMMA ComputeMerkleRootIs ==
  ASSUME NEW leaf, NEW path
  PROVE  LET node == OnPath(leaf, path) IN
         /\ node[0] = leaf
         /\ \A l \in 1..Depth : node[l] =
              IF path[l].right THEN Hash(path[l].sibling, node[l - 1])
              ELSE Hash(node[l - 1], path[l].sibling)
         /\ ComputeMerkleRoot(leaf, path) = node[Depth]
<1> DEFINE h == [of |-> "root", leaf |-> leaf, path |-> path]
<1>1. ComputeMerkleRoot(leaf, path) = Rise(h, Depth)[Depth]
  BY DEF ComputeMerkleRoot, Rise, Rises, Lowest, Higher
<1>2. /\ Lowest(h) = leaf
      /\ \A l, v : Higher(h, l, v) = IF path[l].right THEN Hash(path[l].sibling, v)
                                     ELSE Hash(v, path[l].sibling)
  BY DEF Lowest, Higher
<1> QED
  BY <1>1, <1>2, RiseIs, DepthAssumption DEF OnPath

Bits(path) == Rise([of |-> "index", path |-> path], Depth)

LEMMA IndexBitsIs ==
  ASSUME NEW index, NEW path
  PROVE  LET value == Bits(path) IN
         /\ value[0] = 0
         /\ \A l \in 1..Depth : value[l] =
              value[l - 1] + (IF path[l].right THEN 2 ^ (l - 1) ELSE 0)
         /\ IndexBitsMatch(index, path) <=> value[Depth] = index
<1> DEFINE h == [of |-> "index", path |-> path]
<1>1. IndexBitsMatch(index, path) <=> Rise(h, Depth)[Depth] = index
  BY DEF IndexBitsMatch, Rise, Rises, Lowest, Higher
<1>2. /\ Lowest(h) = 0
      /\ \A l, v : Higher(h, l, v) = v + (IF path[l].right THEN 2 ^ (l - 1) ELSE 0)
  BY DEF Lowest, Higher
<1> QED
  BY <1>1, <1>2, RiseIs, DepthAssumption DEF Bits

\* The full tree over a sequence of leaves, level by level.
FullTree(list) == Rise([of |-> "reference", list |-> list], Depth)
Slots(list) ==
  [i \in 0..(MaxLeaves - 1) |-> IF i < Len(list) THEN list[i + 1] ELSE EmptyLeaf]

LEMMA ReferenceIs ==
  ASSUME NEW list
  PROVE  LET level == FullTree(list) IN
         /\ level[0] = Slots(list)
         /\ \A l \in 1..Depth : level[l] =
              [i \in 0..(2 ^ (Depth - l) - 1) |-> Hash(level[l - 1][2 * i], level[l - 1][2 * i + 1])]
         /\ Reference(list) = level[Depth][0]
<1> DEFINE h == [of |-> "reference", list |-> list]
<1>1. Reference(list) = Rise(h, Depth)[Depth][0]
  BY DEF Reference, Rise, Rises, Lowest, Higher
<1>2. Lowest(h) = Slots(list)
  BY DEF Lowest, Slots
<1>3. /\ Rise(h, Depth)[0] = Lowest(h)
      /\ \A l \in 1..Depth : Rise(h, Depth)[l] = Higher(h, l, Rise(h, Depth)[l - 1])
  BY RiseIs, DepthAssumption
<1> DEFINE level == Rise(h, Depth)
<1>4. FullTree(list) = level
  BY DEF FullTree
<1> HIDE DEF h
<1>5. ASSUME NEW l \in 1..Depth
      PROVE  level[l] =
               [i \in 0..(2 ^ (Depth - l) - 1) |-> Hash(level[l - 1][2 * i], level[l - 1][2 * i + 1])]
  <2> DEFINE v == level[l - 1]
  <2>1. level[l] = Higher(h, l, v)
    BY <1>3
  <2> HIDE DEF v, level
  <2>2. Higher(h, l, v) = [i \in 0..(2 ^ (Depth - l) - 1) |-> Hash(v[2 * i], v[2 * i + 1])]
    BY DEF Higher, h
  <2>3. level[l] = [i \in 0..(2 ^ (Depth - l) - 1) |-> Hash(v[2 * i], v[2 * i + 1])]
    BY <2>1, <2>2
  <2> QED
    BY <2>3 DEF v
<1>6. level[0] = Slots(list) /\ Reference(list) = level[Depth][0]
  BY <1>1, <1>2, <1>3
<1> HIDE DEF level
<1> QED
  BY <1>4, <1>5, <1>6

LEMMA AggregationLevelsIs ==
  ASSUME NEW statements
  PROVE  LET level == AggregationLevels(statements) IN
         /\ level[0] = [i \in DOMAIN statements |-> HashedLeaf(statements[i])]
         /\ \A l \in 1..MaxPathLength : level[l] = Combined(level[l - 1])
<1> DEFINE h == [of |-> "levels", statements |-> statements]
<1>1. AggregationLevels(statements) = Rise(h, MaxPathLength)
  BY DEF AggregationLevels, Rise, Rises, Lowest, Higher
<1>2. /\ Lowest(h) = [i \in DOMAIN statements |-> HashedLeaf(statements[i])]
      /\ \A l, v : Higher(h, l, v) = Combined(v)
  BY DEF Lowest, Higher
<1> QED
  BY <1>1, <1>2, RiseIs, DepthAssumption

SiblingsUpTo(statements, index) ==
  Rise([of |-> "siblings", levels |-> AggregationLevels(statements), index |-> index], MaxPathLength)

LEMMA InclusionPathIs ==
  ASSUME NEW statements, NEW index
  PROVE  LET path == SiblingsUpTo(statements, index)
             levels == AggregationLevels(statements)
             s(l) == SiblingOf(Above(index, l - 1)) IN
         /\ path[0] = <<>>
         /\ \A l \in 1..MaxPathLength : path[l] =
              path[l - 1] \o
                (IF s(l) < Len(levels[l - 1]) THEN <<levels[l - 1][s(l) + 1]>> ELSE <<>>)
         /\ InclusionPath(statements, index) = path[MaxPathLength]
<1> DEFINE levels == AggregationLevels(statements)
           s(l) == SiblingOf(Above(index, l - 1))
           h == [of |-> "siblings", levels |-> levels, index |-> index]
<1>1. InclusionPath(statements, index) = Rise(h, MaxPathLength)[MaxPathLength]
  BY DEF InclusionPath, Rise, Rises, Lowest, Higher
<1>2. /\ Lowest(h) = <<>>
      /\ \A l, v : Higher(h, l, v) =
           v \o (IF s(l) < Len(levels[l - 1]) THEN <<levels[l - 1][s(l) + 1]>> ELSE <<>>)
  BY DEF Lowest, Higher
<1>3. /\ Rise(h, MaxPathLength)[0] = Lowest(h)
      /\ \A l \in 1..MaxPathLength :
           Rise(h, MaxPathLength)[l] = Higher(h, l, Rise(h, MaxPathLength)[l - 1])
  BY RiseIs, DepthAssumption
<1>4. SiblingsUpTo(statements, index) = Rise(h, MaxPathLength)
  BY DEF SiblingsUpTo
<1> HIDE DEF h
<1> QED
  BY <1>1, <1>2, <1>3, <1>4

-----------------------------------------------------------------------------
(* The positions of the commitment tree.                                   *)

Width(l) == 2 ^ (Depth - l)
Levels == 0..Depth
Row(l) == 0..(Width(l) - 1)

LEMMA Widths ==
  /\ \A l \in Levels : Width(l) \in Nat \ {0}
  /\ \A l \in 1..Depth : Width(l - 1) = 2 * Width(l)
  /\ Width(Depth) = 1 /\ Width(0) = MaxLeaves /\ MaxLeaves \in Nat \ {0}
<1>1. \A l \in Levels : Depth - l \in 0..(Depth + MaxPathLength)
  BY DepthAssumption DEF Levels
<1>2. \A l \in Levels : Width(l) \in Nat \ {0}
  BY <1>1, Powers DEF Width
<1>3. ASSUME NEW l \in 1..Depth
      PROVE  Width(l - 1) = 2 * Width(l)
  <2>1. Depth - (l - 1) \in 1..(Depth + MaxPathLength) /\ (Depth - (l - 1)) - 1 = Depth - l
    BY DepthAssumption
  <2> QED
    BY <2>1, Power DEF Width
<1>4. Width(Depth) = 1 /\ Width(0) = MaxLeaves
  <2>1. Depth - Depth = 0 /\ Depth - 0 = Depth
    BY DepthAssumption
  <2> QED
    BY <2>1, PowersOfTwo DEF Width, MaxLeaves
<1> QED
  BY <1>2, <1>3, <1>4, DepthAssumption DEF Levels

LEMMA Children ==
  ASSUME NEW l \in 1..Depth, NEW i \in Row(l)
  PROVE  i \in Nat /\ 2 * i \in Row(l - 1) /\ (2 * i) + 1 \in Row(l - 1)
<1>1. Width(l) \in Nat \ {0} /\ Width(l - 1) = 2 * Width(l)
  BY Widths DEF Levels
<1> QED
  BY <1>1 DEF Row

LEMMA AboveIs ==
  ASSUME NEW i \in Nat, NEW l \in 1..(Depth + MaxPathLength)
  PROVE  /\ Above(i, l) \in Nat /\ Above(i, l - 1) \in Nat
         /\ Above(i, l) = Above(i, l - 1) \div 2
         /\ Above(i, l - 1) = (2 * Above(i, l)) + (Above(i, l - 1) % 2)
         /\ Above(i, l - 1) % 2 \in {0, 1}
<1> DEFINE p == 2 ^ (l - 1)
<1>1. p \in Nat \ {0} /\ 2 ^ l = 2 * p
  BY Power
<1>2. Above(i, l - 1) = i \div p /\ Above(i, l) = i \div (2 * p)
  BY <1>1 DEF Above
<1> HIDE DEF p
<1>3. /\ i \div p \in Nat /\ i \div (2 * p) \in Nat
      /\ i \div (2 * p) = (i \div p) \div 2
      /\ i \div p = (2 * (i \div (2 * p))) + ((i \div p) % 2)
      /\ (i \div p) % 2 \in {0, 1}
  BY <1>1, Halves
<1> QED
  BY <1>2, <1>3, Zenon

LEMMA AboveLeaf ==
  ASSUME NEW i \in Nat
  PROVE  Above(i, 0) = i
BY PowersOfTwo DEF Above

LEMMA AboveInside ==
  ASSUME NEW i \in Row(0)
  PROVE  \A l \in Levels : Above(i, l) \in Row(l)
<1> DEFINE Bad == {l \in Levels : Above(i, l) \notin Row(l)}
<1> SUFFICES ASSUME Bad # {}
             PROVE  FALSE
  OBVIOUS
<1>0. i \in Nat
  BY Widths DEF Row
<1>1. PICK m \in Bad : \A k \in Bad : m <= k
  <2>1. Bad \subseteq Nat
    BY DepthAssumption DEF Levels
  <2> HIDE DEF Bad
  <2> QED
    BY <2>1, SmallestNumber
<1>2. m \in Levels /\ Above(i, m) \notin Row(m)
  OBVIOUS
<1>3. m # 0
  BY <1>0, <1>2, AboveLeaf
<1>4. m \in 1..Depth /\ m - 1 \in Levels /\ m \in 1..(Depth + MaxPathLength)
  BY <1>2, <1>3, DepthAssumption DEF Levels
<1>5. Above(i, m - 1) \in Row(m - 1)
  <2>1. m - 1 \notin Bad
    BY <1>1, <1>4, DepthAssumption
  <2> QED
    BY <1>4, <2>1
<1>6. Above(i, m) \in Nat /\ Above(i, m - 1) \in Nat
      /\ Above(i, m - 1) = (2 * Above(i, m)) + (Above(i, m - 1) % 2)
      /\ Above(i, m - 1) % 2 \in {0, 1}
  BY <1>0, <1>4, AboveIs
<1>7. Width(m) \in Nat \ {0} /\ Width(m - 1) = 2 * Width(m)
  BY <1>2, <1>4, Widths
<1>8. Above(i, m) < Width(m)
  <2>1. Above(i, m - 1) < 2 * Width(m)
    BY <1>5, <1>6, <1>7 DEF Row
  <2> QED
    BY <1>6, <1>7, <2>1
<1> QED
  BY <1>2, <1>6, <1>7, <1>8 DEF Row

\* The side of a node, and its sibling.
LEMMA Sides ==
  ASSUME NEW a \in Nat, NEW b, b \in {0, 1}, NEW c, c = (2 * a) + b
  PROVE  /\ IsRight(c) <=> b = 1
         /\ SiblingOf(c) = (2 * a) + (1 - b)
<1>1. c % 2 = b
  BY Z3
<1> QED
  BY <1>1 DEF IsRight, SiblingOf

LEMMA GetPut ==
  ASSUME NEW kept, NEW l, NEW a, NEW v, NEW k, NEW j
  PROVE  Get(Put(kept, l, a, v), k, j) =
           IF k = l /\ j = a THEN v ELSE Get(kept, k, j)
<1>1. <<k, j>> = <<l, a>> <=> k = l /\ j = a
  OBVIOUS
<1> QED
  BY <1>1 DEF Get, Put

-----------------------------------------------------------------------------
(* The commitment tree.                                                    *)

\* A store holds, at every position, the hash of the leaves below it.
Holds(kept, list) ==
  \A l \in Levels : \A i \in Row(l) : Get(kept, l, i) = FullTree(list)[l][i]

\* Two sequences of leaves that differ in the slot i, where the second has x.
Differ(s, t, i, x) ==
  /\ Slots(t)[i] = x
  /\ \A j \in Row(0) : j # i => Slots(t)[j] = Slots(s)[j]

LEMMA FullTreeIs ==
  ASSUME NEW list
  PROVE  /\ FullTree(list)[0] = Slots(list)
         /\ Reference(list) = FullTree(list)[Depth][0]
         /\ \A l \in 1..Depth : \A a \in Row(l) :
              FullTree(list)[l][a] =
                Hash(FullTree(list)[l - 1][2 * a], FullTree(list)[l - 1][(2 * a) + 1])
<1> DEFINE level == FullTree(list)
<1>1. /\ level[0] = Slots(list)
      /\ \A l \in 1..Depth : level[l] =
           [i \in 0..(2 ^ (Depth - l) - 1) |-> Hash(level[l - 1][2 * i], level[l - 1][2 * i + 1])]
      /\ Reference(list) = level[Depth][0]
  BY ReferenceIs
<1> HIDE DEF level
<1>2. ASSUME NEW l \in 1..Depth, NEW a \in Row(l)
      PROVE  level[l][a] = Hash(level[l - 1][2 * a], level[l - 1][(2 * a) + 1])
  BY <1>1 DEF Row, Width
<1> QED
  BY <1>1, <1>2 DEF level

\* Where the nodes above a slot are, and their siblings.
LEMMA Around ==
  ASSUME NEW i \in Row(0), NEW l \in 1..Depth
  PROVE  LET a == Above(i, l)
             c == Above(i, l - 1) IN
         /\ l - 1 \in Levels /\ l \in Levels
         /\ a \in Row(l) /\ c \in Row(l - 1)
         /\ \/ c = 2 * a /\ ~IsRight(c) /\ SiblingOf(c) = (2 * a) + 1
            \/ c = (2 * a) + 1 /\ IsRight(c) /\ SiblingOf(c) = 2 * a
         /\ SiblingOf(c) # c /\ SiblingOf(c) \in Row(l - 1)
<1> DEFINE a == Above(i, l)
           c == Above(i, l - 1)
           b == c % 2
<1>0. i \in Nat /\ l \in 1..(Depth + MaxPathLength) /\ l \in Levels /\ l - 1 \in Levels
  BY Widths, DepthAssumption DEF Row, Levels
<1>1. a \in Row(l) /\ c \in Row(l - 1)
  BY <1>0, AboveInside
<1>2. a \in Nat /\ c \in Nat /\ c = (2 * a) + b /\ b \in {0, 1}
  BY <1>0, AboveIs
<1>3. 2 * a \in Row(l - 1) /\ (2 * a) + 1 \in Row(l - 1)
  BY <1>1, Children
<1> HIDE DEF a, c, b
<1>4. (IsRight(c) <=> b = 1) /\ SiblingOf(c) = (2 * a) + (1 - b)
  BY <1>2, Sides
<1>5. CASE b = 0
  <2>1. c = 2 * a /\ ~IsRight(c) /\ SiblingOf(c) = (2 * a) + 1
    BY <1>2, <1>4, <1>5
  <2> QED
    BY <1>0, <1>1, <1>2, <1>3, <2>1 DEF a, c
<1>6. CASE b = 1
  <2>1. c = (2 * a) + 1 /\ IsRight(c) /\ SiblingOf(c) = 2 * a
    BY <1>2, <1>4, <1>6
  <2> QED
    BY <1>0, <1>1, <1>2, <1>3, <2>1 DEF a, c
<1> QED
  BY <1>2, <1>5, <1>6

\* A slot matters to the nodes above it alone.
LEMMA OneSlot ==
  ASSUME NEW s, NEW t, NEW i \in Row(0), NEW x, Differ(s, t, i, x)
  PROVE  \A l \in Levels : \A j \in Row(l) :
           j # Above(i, l) => FullTree(t)[l][j] = FullTree(s)[l][j]
<1> DEFINE Same(l) == \A j \in Row(l) : j # Above(i, l) => FullTree(t)[l][j] = FullTree(s)[l][j]
           Bad == {l \in Levels : ~Same(l)}
<1> SUFFICES ASSUME Bad # {}
             PROVE  FALSE
  OBVIOUS
<1>0. i \in Nat
  BY Widths DEF Row
<1>1. PICK m \in Bad : \A k \in Bad : m <= k
  <2>1. Bad \subseteq Nat
    BY DepthAssumption DEF Levels
  <2> HIDE DEF Bad
  <2> QED
    BY <2>1, SmallestNumber
<1>2. m \in Levels /\ ~Same(m)
  OBVIOUS
<1>3. m # 0
  <2>1. Same(0)
    BY <1>0, AboveLeaf, FullTreeIs DEF Differ
  <2> QED
    BY <1>2, <2>1
<1>4. m \in 1..Depth /\ m - 1 \in Levels
  BY <1>2, <1>3, DepthAssumption DEF Levels
<1>5. Same(m - 1)
  <2>1. m - 1 \notin Bad
    BY <1>1, <1>4, DepthAssumption
  <2> QED
    BY <1>4, <2>1
<1>6. ASSUME NEW j \in Row(m), j # Above(i, m)
      PROVE  FullTree(t)[m][j] = FullTree(s)[m][j]
  <2>1. j \in Nat /\ 2 * j \in Row(m - 1) /\ (2 * j) + 1 \in Row(m - 1)
    BY <1>4, Children
  <2>2. Above(i, m - 1) = (2 * Above(i, m)) + (Above(i, m - 1) % 2) /\ Above(i, m) \in Nat
        /\ Above(i, m - 1) % 2 \in {0, 1}
    BY <1>0, <1>4, AboveIs, DepthAssumption
  <2>3. 2 * j # Above(i, m - 1) /\ (2 * j) + 1 # Above(i, m - 1)
    BY <1>6, <2>1, <2>2
  <2>4. /\ FullTree(t)[m - 1][2 * j] = FullTree(s)[m - 1][2 * j]
        /\ FullTree(t)[m - 1][(2 * j) + 1] = FullTree(s)[m - 1][(2 * j) + 1]
    BY <1>5, <2>1, <2>3
  <2> QED
    BY <1>4, <2>4, FullTreeIs
<1> QED
  BY <1>2, <1>6

\* Whatever is stored at the two children of a node, their parent hashes it.
LEMMA ParentIs ==
  ASSUME NEW kept, NEW i \in Row(0), NEW l \in 1..Depth
  PROVE  LET a == Above(i, l) IN
         Parent(kept, l - 1, Above(i, l - 1)) =
           Hash(Get(kept, l - 1, 2 * a), Get(kept, l - 1, (2 * a) + 1))
BY Around DEF Parent

\* An insertion rehashes what is above its slot, and nothing else.
LEMMA SetLeafHolds ==
  ASSUME NEW kept, NEW s, Holds(kept, s), NEW t, NEW i \in Row(0), NEW x, Differ(s, t, i, x)
  PROVE  Holds(SetLeaf(kept, i, x), t)
<1> DEFINE up == OnNodes(kept, i, x)
           Fresh(m) == \A l \in Levels : \A j \in Row(l) :
             Get(up[m], l, j) = IF l <= m THEN FullTree(t)[l][j] ELSE FullTree(s)[l][j]
           Bad == {m \in Levels : ~Fresh(m)}
<1>0. i \in Nat
  BY Widths DEF Row
<1>1. /\ up[0] = Put(kept, 0, i, x)
      /\ \A l \in 1..Depth : up[l] =
           Put(up[l - 1], l, Above(i, l), Parent(up[l - 1], l - 1, Above(i, l - 1)))
      /\ SetLeaf(kept, i, x) = up[Depth]
  BY SetLeafIs
<1> HIDE DEF up
<1>2. Fresh(0)
  <2> SUFFICES ASSUME NEW l \in Levels, NEW j \in Row(l)
               PROVE  Get(up[0], l, j) = IF l <= 0 THEN FullTree(t)[l][j] ELSE FullTree(s)[l][j]
    OBVIOUS
  <2>1. Get(up[0], l, j) = IF l = 0 /\ j = i THEN x ELSE Get(kept, l, j)
    BY <1>1, GetPut
  <2>2. Get(kept, l, j) = FullTree(s)[l][j]
    BY DEF Holds
  <2>3. FullTree(t)[0] = Slots(t) /\ FullTree(s)[0] = Slots(s)
    BY FullTreeIs
  <2>4. CASE l = 0
    BY <2>1, <2>2, <2>3, <2>4 DEF Differ
  <2>5. CASE l # 0
    <3>1. ~(l <= 0)
      BY <2>5, DepthAssumption DEF Levels
    <3> QED
      BY <2>1, <2>2, <2>5, <3>1
  <2> QED
    BY <2>4, <2>5
<1>3. ASSUME NEW m \in 1..Depth, Fresh(m - 1)
      PROVE  Fresh(m)
  <2> DEFINE a == Above(i, m)
             p == Parent(up[m - 1], m - 1, Above(i, m - 1))
  <2>0. m \in Levels /\ m - 1 \in Levels /\ a \in Row(m) /\ 2 * a \in Row(m - 1) /\ (2 * a) + 1 \in Row(m - 1)
    BY Around, Children
  <2>1. p = FullTree(t)[m][a]
    <3>1. p = Hash(Get(up[m - 1], m - 1, 2 * a), Get(up[m - 1], m - 1, (2 * a) + 1))
      BY ParentIs
    <3>2. m - 1 <= m - 1
      BY DepthAssumption
    <3>3. /\ Get(up[m - 1], m - 1, 2 * a) = FullTree(t)[m - 1][2 * a]
          /\ Get(up[m - 1], m - 1, (2 * a) + 1) = FullTree(t)[m - 1][(2 * a) + 1]
      BY <1>3, <2>0, <3>2
    <3>4. FullTree(t)[m][a] = Hash(FullTree(t)[m - 1][2 * a], FullTree(t)[m - 1][(2 * a) + 1])
      BY <2>0, FullTreeIs
    <3> QED
      BY <3>1, <3>3, <3>4
  <2>2. up[m] = Put(up[m - 1], m, a, p)
    BY <1>1
  <2> HIDE DEF p
  <2>3. ASSUME NEW l \in Levels, NEW j \in Row(l)
        PROVE  Get(up[m], l, j) = IF l <= m THEN FullTree(t)[l][j] ELSE FullTree(s)[l][j]
    <3>1. Get(up[m], l, j) = IF l = m /\ j = a THEN p ELSE Get(up[m - 1], l, j)
      BY <2>2, GetPut
    <3>2. Get(up[m - 1], l, j) = IF l <= m - 1 THEN FullTree(t)[l][j] ELSE FullTree(s)[l][j]
      BY <1>3
    <3>3. CASE l = m
      <4>1. ~(l <= m - 1) /\ l <= m
        BY <3>3
      <4>2. j # a => FullTree(t)[l][j] = FullTree(s)[l][j]
        BY <3>3, OneSlot
      <4> QED
        BY <2>1, <3>1, <3>2, <3>3, <4>1, <4>2
    <3>4. CASE l # m
      <4>1. l <= m - 1 <=> l <= m
        BY <3>4, DepthAssumption DEF Levels
      <4> QED
        BY <3>1, <3>2, <3>4, <4>1
    <3> QED
      BY <3>3, <3>4
  <2> QED
    BY <2>3
<1>4. Fresh(Depth)
  <2> SUFFICES ASSUME Bad # {}
               PROVE  FALSE
    BY DepthAssumption DEF Levels
  <2>1. PICK m \in Bad : \A k \in Bad : m <= k
    <3>1. Bad \subseteq Nat
      BY DepthAssumption DEF Levels
    <3> HIDE DEF Bad
    <3> QED
      BY <3>1, SmallestNumber
  <2>2. m \in Levels /\ ~Fresh(m)
    OBVIOUS
  <2> HIDE DEF Fresh
  <2>3. m \in 1..Depth /\ m - 1 \in Levels
    BY <1>2, <2>2, DepthAssumption DEF Levels
  <2>4. m - 1 \notin Bad
    BY <2>1, <2>3, DepthAssumption
  <2> QED
    BY <1>3, <2>2, <2>3, <2>4
<1> QED
  <2>1. \A l \in Levels : l <= Depth
    BY DepthAssumption DEF Levels
  <2>2. Depth \in Levels
    BY DepthAssumption DEF Levels
  <2> QED
    BY <1>1, <1>4, <2>1, <2>2 DEF Holds

\* An empty store is the tree over no leaf.
LEMMA EmptyHolds == Holds(<<>>, <<>>)
<1> DEFINE Empty(l) == \A i \in Row(l) : FullTree(<<>>)[l][i] = Zeros[l]
           Bad == {l \in Levels : ~Empty(l)}
<1>1. \A l, i : Get(<<>>, l, i) = Zeros[l]
  BY DEF Get
<1> SUFFICES ASSUME Bad # {}
             PROVE  FALSE
  BY <1>1 DEF Holds
<1>2. PICK m \in Bad : \A k \in Bad : m <= k
  <2>1. Bad \subseteq Nat
    BY DepthAssumption DEF Levels
  <2> HIDE DEF Bad
  <2> QED
    BY <2>1, SmallestNumber
<1>3. m \in Levels /\ ~Empty(m)
  OBVIOUS
<1>4. Empty(0)
  <2>1. FullTree(<<>>)[0] = Slots(<<>>) /\ Zeros[0] = EmptyLeaf
    BY FullTreeIs, ZerosIs
  <2>2. \A i \in Row(0) : Slots(<<>>)[i] = EmptyLeaf
    <3>1. Len(<<>>) = 0
      OBVIOUS
    <3>2. Row(0) = 0..(MaxLeaves - 1)
      BY Widths DEF Row
    <3>3. \A i \in Row(0) : ~(i < 0)
      BY <3>2, Widths
    <3> QED
      BY <3>1, <3>2, <3>3 DEF Slots
  <2> QED
    BY <2>1, <2>2
<1>5. m \in 1..Depth /\ m - 1 \in Levels
  <2>1. m # 0
    BY <1>3, <1>4
  <2> QED
    BY <1>3, <2>1, DepthAssumption DEF Levels
<1>6. Empty(m - 1)
  <2>1. m - 1 \notin Bad
    BY <1>2, <1>5, DepthAssumption
  <2> QED
    BY <1>5, <2>1
<1>7. ASSUME NEW i \in Row(m)
      PROVE  FullTree(<<>>)[m][i] = Zeros[m]
  <2>1. /\ FullTree(<<>>)[m - 1][2 * i] = Zeros[m - 1]
        /\ FullTree(<<>>)[m - 1][(2 * i) + 1] = Zeros[m - 1]
    BY <1>5, <1>6, Children
  <2> QED
    BY <1>5, <2>1, FullTreeIs, ZerosIs
<1> QED
  BY <1>3, <1>7

\* The path of a slot folds a leaf to the root of the tree with that leaf there.
LEMMA PathFolds ==
  ASSUME NEW kept, NEW s, Holds(kept, s), NEW t, NEW i \in Row(0), NEW x, Differ(s, t, i, x)
  PROVE  ComputeMerkleRoot(x, PathOf(kept, i)) = Reference(t)
<1> DEFINE path == PathOf(kept, i)
           node == OnPath(x, path)
           Right(l) == node[l] = FullTree(t)[l][Above(i, l)]
           Bad == {l \in Levels : ~Right(l)}
<1>0. i \in Nat
  BY Widths DEF Row
<1>1. /\ node[0] = x
      /\ \A l \in 1..Depth : node[l] =
           IF path[l].right THEN Hash(path[l].sibling, node[l - 1])
           ELSE Hash(node[l - 1], path[l].sibling)
      /\ ComputeMerkleRoot(x, path) = node[Depth]
  BY ComputeMerkleRootIs
<1>2. \A l \in 1..Depth :
        /\ path[l].right = IsRight(Above(i, l - 1))
        /\ path[l].sibling = Get(kept, l - 1, SiblingOf(Above(i, l - 1)))
  BY DEF PathOf
<1> HIDE DEF node, path
<1>3. Right(0)
  BY <1>0, <1>1, AboveLeaf, FullTreeIs DEF Differ
<1>4. ASSUME NEW m \in 1..Depth, Right(m - 1)
      PROVE  Right(m)
  <2> DEFINE a == Above(i, m)
             c == Above(i, m - 1)
             b == SiblingOf(c)
  <2>1. /\ m - 1 \in Levels /\ m \in Levels /\ a \in Row(m) /\ c \in Row(m - 1)
        /\ \/ c = 2 * a /\ ~IsRight(c) /\ b = (2 * a) + 1
           \/ c = (2 * a) + 1 /\ IsRight(c) /\ b = 2 * a
        /\ b # c /\ b \in Row(m - 1)
    BY Around
  <2>2. FullTree(t)[m][a] = Hash(FullTree(t)[m - 1][2 * a], FullTree(t)[m - 1][(2 * a) + 1])
    BY <2>1, FullTreeIs
  <2>3. node[m - 1] = FullTree(t)[m - 1][c]
    BY <1>4
  <2>4. path[m].sibling = FullTree(t)[m - 1][b]
    <3>1. path[m].sibling = Get(kept, m - 1, b)
      BY <1>2
    <3>2. Get(kept, m - 1, b) = FullTree(s)[m - 1][b]
      BY <2>1 DEF Holds
    <3>3. FullTree(t)[m - 1][b] = FullTree(s)[m - 1][b]
      BY <2>1, OneSlot
    <3> QED
      BY <3>1, <3>2, <3>3
  <2>5. path[m].right = IsRight(c)
    BY <1>2
  <2> HIDE DEF a, b, c
  <2>6. node[m] = FullTree(t)[m][a]
    BY <1>1, <2>1, <2>2, <2>3, <2>4, <2>5
  <2> QED
    BY <2>6 DEF a
<1>5. Right(Depth)
  <2> SUFFICES ASSUME Bad # {}
               PROVE  FALSE
    BY DepthAssumption DEF Levels
  <2>1. PICK m \in Bad : \A k \in Bad : m <= k
    <3>1. Bad \subseteq Nat
      BY DepthAssumption DEF Levels
    <3> HIDE DEF Bad
    <3> QED
      BY <3>1, SmallestNumber
  <2>2. m \in Levels /\ ~Right(m)
    OBVIOUS
  <2> HIDE DEF Right
  <2>3. m \in 1..Depth /\ m - 1 \in Levels
    BY <1>3, <2>2, DepthAssumption DEF Levels
  <2>4. m - 1 \notin Bad
    BY <2>1, <2>3, DepthAssumption
  <2> QED
    BY <1>4, <2>2, <2>3, <2>4
<1>6. Above(i, Depth) = 0
  <2>1. Above(i, Depth) \in Row(Depth)
    BY AboveInside, DepthAssumption DEF Levels
  <2> QED
    BY <2>1, Widths DEF Row
<1> QED
  BY <1>1, <1>5, <1>6, FullTreeIs DEF path

\* With one path, different leaves have different roots.
LEMMA PathBinds ==
  ASSUME NEW x, NEW y, NEW path, ComputeMerkleRoot(x, path) = ComputeMerkleRoot(y, path)
  PROVE  x = y
<1> DEFINE Bad == {l \in Levels : OnPath(x, path)[l] = OnPath(y, path)[l]}
<1>1. /\ OnPath(x, path)[0] = x /\ OnPath(y, path)[0] = y
      /\ ComputeMerkleRoot(x, path) = OnPath(x, path)[Depth]
      /\ ComputeMerkleRoot(y, path) = OnPath(y, path)[Depth]
  BY ComputeMerkleRootIs
<1>2. \A l \in 1..Depth :
        /\ OnPath(x, path)[l] = IF path[l].right THEN Hash(path[l].sibling, OnPath(x, path)[l - 1])
                                ELSE Hash(OnPath(x, path)[l - 1], path[l].sibling)
        /\ OnPath(y, path)[l] = IF path[l].right THEN Hash(path[l].sibling, OnPath(y, path)[l - 1])
                                ELSE Hash(OnPath(y, path)[l - 1], path[l].sibling)
  BY ComputeMerkleRootIs
<1>3. Depth \in Bad
  <2>1. OnPath(x, path)[Depth] = OnPath(y, path)[Depth]
    BY <1>1
  <2> QED
    BY <2>1, DepthAssumption DEF Levels
<1>4. PICK m \in Bad : \A k \in Bad : m <= k
  <2>1. Bad \subseteq Nat
    BY DepthAssumption DEF Levels
  <2> HIDE DEF Bad
  <2> QED
    BY <1>3, <2>1, SmallestNumber
<1>5. m \in Levels /\ OnPath(x, path)[m] = OnPath(y, path)[m]
  OBVIOUS
<1>6. ASSUME m # 0
      PROVE  FALSE
  <2>1. m \in 1..Depth /\ m - 1 \in Levels
    BY <1>5, <1>6, DepthAssumption DEF Levels
  <2>2. OnPath(x, path)[m - 1] = OnPath(y, path)[m - 1]
    <3> DEFINE u == OnPath(x, path)[m - 1]
               w == OnPath(y, path)[m - 1]
               z == path[m].sibling
    <3>1. (IF path[m].right THEN Hash(z, u) ELSE Hash(u, z))
            = (IF path[m].right THEN Hash(z, w) ELSE Hash(w, z))
      BY <1>2, <1>5, <2>1
    <3> HIDE DEF u, w, z
    <3>2. u = w
      BY <3>1 DEF Hash
    <3> QED
      BY <3>2 DEF u, w
  <2>3. m - 1 \in Bad
    BY <2>1, <2>2
  <2> QED
    BY <1>4, <2>1, <2>3, DepthAssumption
<1> QED
  BY <1>1, <1>5, <1>6

\* The sides of a path spell the index of its slot.
LEMMA PathSpells ==
  ASSUME NEW kept, NEW i \in Row(0)
  PROVE  IndexBitsMatch(i, PathOf(kept, i))
<1> DEFINE path == PathOf(kept, i)
           value == Bits(path)
           Spelt(l) == value[l] \in Nat /\ value[l] + (Above(i, l) * 2 ^ l) = i
           Bad == {l \in Levels : ~Spelt(l)}
<1>0. i \in Nat
  BY Widths DEF Row
<1>1. /\ value[0] = 0
      /\ \A l \in 1..Depth : value[l] = value[l - 1] + (IF path[l].right THEN 2 ^ (l - 1) ELSE 0)
      /\ IndexBitsMatch(i, path) <=> value[Depth] = i
  BY IndexBitsIs
<1>2. \A l \in 1..Depth : path[l].right = IsRight(Above(i, l - 1))
  BY DEF PathOf
<1> HIDE DEF path, value
<1>3. Spelt(0)
  BY <1>0, <1>1, AboveLeaf, PowersOfTwo
<1>4. ASSUME NEW m \in 1..Depth, Spelt(m - 1)
      PROVE  Spelt(m)
  <2> DEFINE a == Above(i, m)
             c == Above(i, m - 1)
             p == 2 ^ (m - 1)
             v == value[m - 1]
  <2>1. a \in Nat /\ c \in Nat
    BY <1>0, AboveIs, DepthAssumption
  <2>2. \/ c = 2 * a /\ ~IsRight(c)
        \/ c = (2 * a) + 1 /\ IsRight(c)
    BY Around
  <2>3. p \in Nat /\ 2 ^ m = 2 * p
    BY Power, DepthAssumption
  <2>4. v \in Nat /\ v + (c * p) = i
    BY <1>4
  <2>5. value[m] = v + (IF IsRight(c) THEN p ELSE 0)
    BY <1>1, <1>2
  <2> HIDE DEF a, c, p, v
  <2>6. a * (2 * p) = (2 * a) * p
    BY <2>1, <2>3
  <2>7. ((2 * a) + 1) * p = ((2 * a) * p) + p
    BY <2>1, <2>3
  <2>8. value[m] \in Nat /\ value[m] + (a * (2 * p)) = i
    <3>1. CASE c = 2 * a /\ ~IsRight(c)
      BY <2>1, <2>3, <2>4, <2>5, <2>6, <3>1
    <3>2. CASE c = (2 * a) + 1 /\ IsRight(c)
      BY <2>1, <2>3, <2>4, <2>5, <2>6, <2>7, <3>2
    <3> QED
      BY <2>2, <3>1, <3>2
  <2> QED
    BY <2>3, <2>8 DEF a
<1>5. Spelt(Depth)
  <2> SUFFICES ASSUME Bad # {}
               PROVE  FALSE
    BY DepthAssumption DEF Levels
  <2>1. PICK m \in Bad : \A k \in Bad : m <= k
    <3>1. Bad \subseteq Nat
      BY DepthAssumption DEF Levels
    <3> HIDE DEF Bad
    <3> QED
      BY <3>1, SmallestNumber
  <2>2. m \in Levels /\ ~Spelt(m)
    OBVIOUS
  <2> HIDE DEF Spelt
  <2>3. m \in 1..Depth /\ m - 1 \in Levels
    BY <1>3, <2>2, DepthAssumption DEF Levels
  <2>4. m - 1 \notin Bad
    BY <2>1, <2>3, DepthAssumption
  <2> QED
    BY <1>4, <2>2, <2>3, <2>4
<1>6. Above(i, Depth) = 0 /\ 2 ^ Depth \in Nat
  <2>1. Above(i, Depth) \in Row(Depth)
    BY AboveInside, DepthAssumption DEF Levels
  <2> QED
    BY <2>1, Widths DEF Row, MaxLeaves
<1>7. value[Depth] = i
  BY <1>5, <1>6
<1> QED
  BY <1>1, <1>7 DEF path

-----------------------------------------------------------------------------
(* The folds over a sequence: over the notes that arrive, and over a path  *)
(* of the aggregation tree, h being what a fold is about.                  *)

FoldStep(h, v, x) ==
  CASE h.of = "notes" -> SetLeaf(v, h.count + h.seq[x] - 1, NoteFeed[h.from + h.seq[x]])
    [] h.of = "path"  -> MerkleStep(v, h.seq[x])

Folds(h, f, D) ==
  f = [s \in D |-> IF s = {} THEN h.base ELSE FoldStep(h, f[s \ {Max(s)}], Max(s))]

LEMMA MaxIs ==
  ASSUME NEW n \in Nat, NEW s \in SUBSET (1..n), s # {}
  PROVE  Max(s) \in s /\ \A y \in s : y <= Max(s)
<1> DEFINE D == {n - x : x \in s}
<1>1. PICK d \in D : \A e \in D : d <= e
  <2>1. D \subseteq Nat
    <3>1. \A x \in s : n - x \in Nat
      OBVIOUS
    <3> QED
      BY <3>1
  <2>2. D # {}
    OBVIOUS
  <2> HIDE DEF D
  <2> QED
    BY <2>1, <2>2, SmallestNumber
<1>2. PICK x \in s : d = n - x
  OBVIOUS
<1>3. \A y \in s : x >= y
  <2> TAKE y \in s
  <2>1. n - x <= n - y
    BY <1>1, <1>2
  <2> QED
    BY <2>1
<1>4. Max(s) \in s /\ \A y \in s : Max(s) >= y
  BY <1>2, <1>3 DEF Max
<1> QED
  BY <1>4

LEMMA SubsetsFinite ==
  ASSUME NEW n \in Nat
  PROVE  \A s \in SUBSET (1..n) : IsFiniteSet(s) /\ Cardinality(s) \in Nat
<1>1. IsFiniteSet(1..n)
  BY FS_Interval
<1> QED
  BY <1>1, FS_Subset, FS_CardinalityType

LEMMA FoldsExists ==
  ASSUME NEW h, NEW n \in Nat
  PROVE  \E f : Folds(h, f, SUBSET (1..n))
<1> DEFINE S == 1..n
           Bad == {m \in Nat : ~ \E f : Folds(h, f, Sized(S, m))}
<1>0. \A s \in SUBSET S : IsFiniteSet(s) /\ Cardinality(s) \in Nat
  BY SubsetsFinite
<1>1. \A s \in SUBSET S : s # {} => Max(s) \in s
  BY MaxIs
<1> HIDE DEF S
<1>2. 0 \notin Bad
  <2>1. Sized(S, 0) = {{}}
    BY <1>0, FS_EmptySet DEF Sized
  <2> DEFINE f == [s \in {{}} |-> h.base]
  <2>2. f = [s \in {{}} |-> IF s = {} THEN h.base ELSE FoldStep(h, f[s \ {Max(s)}], Max(s))]
    OBVIOUS
  <2> QED
    BY <2>1, <2>2 DEF Folds
<1>3. ASSUME NEW m \in Nat, NEW f, Folds(h, f, Sized(S, m))
      PROVE  \E g : Folds(h, g, Sized(S, m + 1))
  <2> DEFINE g == [s \in Sized(S, m + 1) |->
                     IF s = {} THEN h.base ELSE FoldStep(h, f[s \ {Max(s)}], Max(s))]
  <2>1. \A s \in Sized(S, m) : s \in Sized(S, m + 1)
    BY <1>0 DEF Sized
  <2>2. \A s \in Sized(S, m) :
          f[s] = IF s = {} THEN h.base ELSE FoldStep(h, f[s \ {Max(s)}], Max(s))
    BY <1>3 DEF Folds
  <2>3. \A s \in Sized(S, m) : g[s] = f[s]
    BY <2>1, <2>2
  <2>4. \A s \in Sized(S, m + 1) : s # {} => s \ {Max(s)} \in Sized(S, m)
    <3> SUFFICES ASSUME NEW s \in Sized(S, m + 1), s # {}
                 PROVE  s \ {Max(s)} \in Sized(S, m)
      OBVIOUS
    <3>1. s \in SUBSET S /\ Cardinality(s) <= m + 1
      BY DEF Sized
    <3>2. Cardinality(s \ {Max(s)}) = Cardinality(s) - 1
      BY <1>0, <1>1, <3>1, FS_RemoveElement
    <3> QED
      BY <1>0, <3>1, <3>2 DEF Sized
  <2>5. g = [s \in Sized(S, m + 1) |->
               IF s = {} THEN h.base ELSE FoldStep(h, g[s \ {Max(s)}], Max(s))]
    BY <2>3, <2>4
  <2> QED
    BY <2>5 DEF Folds
<1>4. Bad = {}
  <2> SUFFICES ASSUME Bad # {}
               PROVE  FALSE
    OBVIOUS
  <2>1. PICK m \in Bad : \A k \in Bad : m <= k
    <3>1. Bad \subseteq Nat
      OBVIOUS
    <3> HIDE DEF Bad
    <3> QED
      BY <3>1, SmallestNumber
  <2>2. m \in Nat \ {0} /\ m - 1 \notin Bad
    BY <1>2, <2>1
  <2>3. PICK f : Folds(h, f, Sized(S, m - 1))
    BY <2>2
  <2>4. \E g : Folds(h, g, Sized(S, (m - 1) + 1))
    BY <1>3, <2>2, <2>3
  <2>5. (m - 1) + 1 = m
    BY <2>2
  <2> QED
    BY <2>4, <2>5
<1>5. Sized(S, n) = SUBSET S
  <2>1. Cardinality(S) = n
    BY FS_Interval DEF S
  <2>2. \A s \in SUBSET S : Cardinality(s) <= n
    BY <1>0, <2>1, FS_Subset
  <2> QED
    BY <2>2 DEF Sized
<1>6. \E f : Folds(h, f, Sized(S, n))
  BY <1>4
<1> QED
  BY <1>5, <1>6 DEF S

\* A fold, step by step.
Fold(h, n) == CHOOSE f : Folds(h, f, SUBSET (1..n))

LEMMA FoldLeftIs ==
  ASSUME NEW h, NEW n \in Nat
  PROVE  /\ Fold(h, n)[{}] = h.base
         /\ \A i \in 1..n : Fold(h, n)[1..i] = FoldStep(h, Fold(h, n)[1..(i - 1)], i)
<1> DEFINE f == Fold(h, n)
<1>1. Folds(h, f, SUBSET (1..n))
  BY FoldsExists DEF Fold
<1> HIDE DEF f
<1>2. \A s \in SUBSET (1..n) :
        f[s] = IF s = {} THEN h.base ELSE FoldStep(h, f[s \ {Max(s)}], Max(s))
  BY <1>1 DEF Folds
<1>3. ASSUME NEW i \in 1..n
      PROVE  f[1..i] = FoldStep(h, f[1..(i - 1)], i)
  <2>1. 1..i \in SUBSET (1..n) /\ 1..i # {} /\ i \in 1..i
    OBVIOUS
  <2>2. Max(1..i) = i
    <3>1. Max(1..i) \in 1..i /\ i <= Max(1..i)
      BY <2>1, MaxIs
    <3> QED
      BY <3>1
  <2>3. (1..i) \ {i} = 1..(i - 1)
    OBVIOUS
  <2> QED
    BY <1>2, <2>1, <2>2, <2>3
<1>4. f[{}] = h.base
  BY <1>2
<1> QED
  BY <1>3, <1>4 DEF f

-----------------------------------------------------------------------------
(* The leaves of a tree that holds n of them.                              *)

Lists(kept, n) == [i \in 1..n |-> Get(kept, 0, i - 1)]

LEMMA ListSlots ==
  ASSUME NEW kept, NEW n \in Nat
  PROVE  /\ Len(Lists(kept, n)) = n
         /\ \A i \in Row(0) : Slots(Lists(kept, n))[i] =
              IF i < n THEN Get(kept, 0, i) ELSE EmptyLeaf
<1> DEFINE s == Lists(kept, n)
<1>1. Len(s) = n
  <2>1. s \in [1..n -> {Get(kept, 0, i - 1) : i \in 1..n}]
    BY DEF Lists
  <2> HIDE DEF s
  <2> QED
    BY <2>1
<1>2. Row(0) = 0..(MaxLeaves - 1) /\ MaxLeaves \in Nat
  BY Widths DEF Row
<1>3. \A i \in Row(0) : i \in Nat /\ (i < n => i + 1 \in 1..n /\ (i + 1) - 1 = i)
  BY <1>2
<1>4. \A i \in Row(0) : i < n => s[i + 1] = Get(kept, 0, i)
  BY <1>3 DEF Lists
<1> HIDE DEF s
<1> QED
  BY <1>1, <1>2, <1>4 DEF Slots, s

\* One more leaf.
LEMMA NextLeaf ==
  ASSUME NEW kept, NEW n \in Nat, n < MaxLeaves, Holds(kept, Lists(kept, n)), NEW x
  PROVE  LET new == SetLeaf(kept, n, x) IN
         /\ Holds(new, Lists(new, n + 1))
         /\ Get(new, 0, n) = x
         /\ \A i \in 0..(n - 1) : Get(new, 0, i) = Get(kept, 0, i)
<1> DEFINE s == Lists(kept, n)
           t == [i \in 1..(n + 1) |-> IF i = n + 1 THEN x ELSE s[i]]
           new == SetLeaf(kept, n, x)
<1>1. n \in Row(0) /\ Row(0) = 0..(MaxLeaves - 1) /\ MaxLeaves \in Nat /\ 0 \in Levels
  BY Widths, DepthAssumption DEF Row, Levels
<1>2. Len(t) = n + 1 /\ t \in Seq({t[i] : i \in 1..(n + 1)})
  OBVIOUS
<1>3. \A i \in Row(0) : Slots(t)[i] = IF i < n THEN Get(kept, 0, i) ELSE IF i = n THEN x ELSE EmptyLeaf
  <2> TAKE i \in Row(0)
  <2>1. Slots(t)[i] = IF i < n + 1 THEN t[i + 1] ELSE EmptyLeaf
    BY <1>1, <1>2 DEF Slots
  <2>2. CASE i < n
    <3>1. i \in Nat /\ i + 1 \in 1..(n + 1) /\ i + 1 \in 1..n /\ i + 1 # n + 1 /\ i < n + 1
          /\ (i + 1) - 1 = i
      BY <1>1, <2>2
    <3>2. t[i + 1] = s[i + 1]
      BY <3>1
    <3>3. s[i + 1] = Get(kept, 0, i)
      BY <3>1 DEF Lists
    <3> HIDE DEF t, s
    <3> QED
      BY <2>1, <2>2, <3>1, <3>2, <3>3
  <2>3. CASE i = n
    <3>1. i < n + 1 /\ i + 1 = n + 1 /\ i + 1 \in 1..(n + 1) /\ ~(i < n)
      BY <2>3
    <3>2. t[i + 1] = x
      BY <3>1
    <3> HIDE DEF t, s
    <3> QED
      BY <2>1, <2>3, <3>1, <3>2
  <2>4. CASE i > n
    <3>1. ~(i < n + 1) /\ ~(i < n) /\ i # n
      BY <1>1, <2>4
    <3> HIDE DEF t, s
    <3> QED
      BY <2>1, <3>1
  <2> QED
    BY <1>1, <2>2, <2>3, <2>4
<1>4. Differ(s, t, n, x)
  <2>1. ~(n < n)
    OBVIOUS
  <2> HIDE DEF t, s
  <2> QED
    BY <1>1, <1>3, <2>1, ListSlots DEF Differ, s
<1>5. Holds(new, t)
  BY <1>1, <1>4, SetLeafHolds
<1>6. \A i \in Row(0) : Get(new, 0, i) = Slots(t)[i]
  BY <1>1, <1>5, FullTreeIs DEF Holds
<1>7. Get(new, 0, n) = x
  <2>1. ~(n < n)
    OBVIOUS
  <2> HIDE DEF new, t
  <2> QED
    BY <1>1, <1>3, <1>6, <2>1
<1>8. ASSUME NEW i \in 0..(n - 1)
      PROVE  Get(new, 0, i) = Get(kept, 0, i)
  <2>1. i \in Row(0) /\ i < n
    BY <1>1
  <2> QED
    BY <1>3, <1>6, <2>1
<1>9. Lists(new, n + 1) = t
  <2> SUFFICES ASSUME NEW i \in 1..(n + 1)
               PROVE  Get(new, 0, i - 1) = IF i = n + 1 THEN x ELSE s[i]
    BY DEF Lists
  <2>1. CASE i = n + 1
    <3>1. i - 1 = n
      BY <2>1
    <3> QED
      BY <1>7, <2>1, <3>1
  <2>2. CASE i # n + 1
    <3>1. i \in 1..n /\ i - 1 \in 0..(n - 1)
      BY <2>2
    <3>2. s[i] = Get(kept, 0, i - 1)
      BY <3>1 DEF Lists
    <3> QED
      BY <1>8, <2>2, <3>1, <3>2
  <2> QED
    BY <2>1, <2>2
<1> QED
  BY <1>5, <1>7, <1>8, <1>9

\* The tree after k notes of the feed were inserted behind n leaves.
Filled(kept, n, from, k) ==
  FoldLeft(LAMBDA t, i : SetLeaf(t, n + i - 1, NoteFeed[from + i]), kept, [i \in 1..k |-> i])

Fills(f, kept, n, from, k) ==
  /\ f[0] = kept
  /\ \A i \in 1..k : f[i] = SetLeaf(f[i - 1], n + i - 1, NoteFeed[from + i])
  /\ Filled(kept, n, from, k) = f[k]

LEMMA FilledIs ==
  ASSUME NEW kept, NEW n \in Nat, NEW from \in Nat, NEW k \in Nat
  PROVE  \E f : Fills(f, kept, n, from, k)
<1> DEFINE seq == [i \in 1..k |-> i]
           h == [of |-> "notes", count |-> n, from |-> from, base |-> kept, seq |-> seq]
           g == Fold(h, k)
<1>1. Filled(kept, n, from, k) = g[1..k]
  <2>1. DOMAIN seq = 1..k
    OBVIOUS
  <2> HIDE DEF seq
  <2> QED
    BY <2>1 DEF Filled, FoldLeft, MapThenFoldSet, Fold, Folds, FoldStep, seq
<1>2. /\ g[{}] = h.base
      /\ \A i \in 1..k : g[1..i] = FoldStep(h, g[1..(i - 1)], i)
  <2> HIDE DEF h
  <2> QED
    BY FoldLeftIs
<1>3. \A v : \A i \in 1..k : FoldStep(h, v, i) = SetLeaf(v, n + i - 1, NoteFeed[from + i])
  <2>1. \A i \in 1..k : h.seq[i] = i
    OBVIOUS
  <2>2. h.of = "notes" /\ h.count = n /\ h.from = from
    OBVIOUS
  <2> HIDE DEF h
  <2>3. \A v : \A i \in 1..k :
          FoldStep(h, v, i) = SetLeaf(v, h.count + h.seq[i] - 1, NoteFeed[h.from + h.seq[i]])
    BY <2>2 DEF FoldStep
  <2> QED
    BY <2>1, <2>2, <2>3
<1>4. h.base = kept /\ 1..0 = {}
  OBVIOUS
<1> HIDE DEF g, h
<1> DEFINE f == [i \in 0..k |-> g[1..i]]
<1>5. f[0] = kept /\ f[k] = g[1..k]
  BY <1>2, <1>4
<1>6. ASSUME NEW i \in 1..k
      PROVE  f[i] = SetLeaf(f[i - 1], n + i - 1, NoteFeed[from + i])
  <2>1. i \in 0..k /\ i - 1 \in 0..k
    OBVIOUS
  <2> QED
    BY <1>2, <1>3, <2>1
<1> HIDE DEF f
<1> QED
  BY <1>1, <1>5, <1>6 DEF Fills

-----------------------------------------------------------------------------
(* Choosing notes.                                                         *)

LEMMA SumAtMost ==
  ASSUME NEW V, NEW S, IsFiniteSet(S), NEW b \in Nat, \A x \in S : V[x] \in Nat /\ V[x] <= b
  PROVE  SumOf(V, S) <= Cardinality(S) * b
<1> DEFINE Bad == {T \in SUBSET S : ~(SumOf(V, T) <= Cardinality(T) * b)}
<1> SUFFICES ASSUME Bad # {}
             PROVE  FALSE
  OBVIOUS
<1>1. PICK T \in Bad : \A U \in Bad : ~(U \subseteq T /\ U # T)
  <2>1. Bad \subseteq SUBSET S
    OBVIOUS
  <2> HIDE DEF Bad
  <2> QED
    BY <2>1, SmallestSubset
<1>2. T \subseteq S /\ IsFiniteSet(T) /\ ~(SumOf(V, T) <= Cardinality(T) * b)
  BY FS_Subset
<1>3. T # {}
  <2>1. SumOf(V, {}) = 0 /\ Cardinality({}) = 0 /\ 0 * b = 0
    BY SumEmpty, FS_EmptySet
  <2> QED
    BY <1>2, <2>1
<1>4. PICK x \in T : TRUE
  BY <1>3
<1>5. SumOf(V, T) = V[x] + SumOf(V, T \ {x})
  BY <1>2, SumRemove
<1>6. IsFiniteSet(T \ {x}) /\ Cardinality(T \ {x}) = Cardinality(T) - 1
      /\ Cardinality(T) \in Nat /\ Cardinality(T \ {x}) \in Nat
  BY <1>2, FS_RemoveElement, FS_CardinalityType
<1>7. SumOf(V, T \ {x}) <= Cardinality(T \ {x}) * b
  BY <1>1, <1>2
<1>8. SumOf(V, T \ {x}) \in Nat /\ V[x] \in Nat /\ V[x] <= b
  BY <1>2, <1>6, SumType
<1>9. Cardinality(T) * b = (Cardinality(T \ {x}) * b) + b
  BY <1>6
<1> QED
  BY <1>2, <1>5, <1>6, <1>7, <1>8, <1>9

LEMMA SumAtLeast ==
  ASSUME NEW V, NEW S, IsFiniteSet(S), NEW b \in Nat, \A x \in S : V[x] \in Nat /\ b <= V[x]
  PROVE  Cardinality(S) * b <= SumOf(V, S)
<1> DEFINE Bad == {T \in SUBSET S : ~(Cardinality(T) * b <= SumOf(V, T))}
<1> SUFFICES ASSUME Bad # {}
             PROVE  FALSE
  OBVIOUS
<1>1. PICK T \in Bad : \A U \in Bad : ~(U \subseteq T /\ U # T)
  <2>1. Bad \subseteq SUBSET S
    OBVIOUS
  <2> HIDE DEF Bad
  <2> QED
    BY <2>1, SmallestSubset
<1>2. T \subseteq S /\ IsFiniteSet(T) /\ ~(Cardinality(T) * b <= SumOf(V, T))
  BY FS_Subset
<1>3. T # {}
  <2>1. SumOf(V, {}) = 0 /\ Cardinality({}) = 0 /\ 0 * b = 0
    BY SumEmpty, FS_EmptySet
  <2> QED
    BY <1>2, <2>1
<1>4. PICK x \in T : TRUE
  BY <1>3
<1>5. SumOf(V, T) = V[x] + SumOf(V, T \ {x})
  BY <1>2, SumRemove
<1>6. IsFiniteSet(T \ {x}) /\ Cardinality(T \ {x}) = Cardinality(T) - 1
      /\ Cardinality(T) \in Nat /\ Cardinality(T \ {x}) \in Nat
  BY <1>2, FS_RemoveElement, FS_CardinalityType
<1>7. Cardinality(T \ {x}) * b <= SumOf(V, T \ {x})
  BY <1>1, <1>2
<1>8. SumOf(V, T \ {x}) \in Nat /\ V[x] \in Nat /\ b <= V[x]
  BY <1>2, <1>6, SumType
<1>9. Cardinality(T) * b = (Cardinality(T \ {x}) * b) + b
  BY <1>6
<1> QED
  BY <1>2, <1>5, <1>6, <1>7, <1>8, <1>9

LEMMA SumSubset ==
  ASSUME NEW V, NEW S, IsFiniteSet(S), NEW T, T \subseteq S, \A x \in S : V[x] \in Nat
  PROVE  SumOf(V, T) <= SumOf(V, S) /\ SumOf(V, T) \in Nat /\ SumOf(V, S) \in Nat
<1> DEFINE R == S \ T
<1>1. /\ IsFiniteSet(T) /\ IsFiniteSet(R) /\ T \cap R = {} /\ T \cup R = S
      /\ \A x \in T \cup R : V[x] \in Nat
  BY FS_Subset
<1> HIDE DEF R
<1>2. SumOf(V, T \cup R) = SumOf(V, T) + SumOf(V, R)
  BY <1>1, SumUnion
<1>3. SumOf(V, T) \in Nat /\ SumOf(V, R) \in Nat
  BY <1>1, SumType
<1>4. SumOf(V, T \cup R) = SumOf(V, S)
  BY <1>1, Zenon
<1> QED
  BY <1>2, <1>3, <1>4

\* No more notes than those above a bound are worth more than they are.
LEMMA LargestAreWorthMost ==
  ASSUME NEW V, NEW U, IsFiniteSet(U), \A x \in U : V[x] \in Nat, NEW b \in Nat,
         NEW T, T \subseteq U, \A x \in T : b <= V[x], \A x \in U \ T : V[x] <= b,
         NEW O, O \subseteq U, Cardinality(O) <= Cardinality(T)
  PROVE  SumOf(V, O) <= SumOf(V, T)
<1> DEFINE C == O \cap T
<1>1. IsFiniteSet(O) /\ IsFiniteSet(T) /\ IsFiniteSet(C) /\ IsFiniteSet(O \ T) /\ IsFiniteSet(T \ O)
  BY FS_Subset
<1>2. /\ C \cup (O \ T) = O /\ C \cap (O \ T) = {}
      /\ C \cup (T \ O) = T /\ C \cap (T \ O) = {}
  OBVIOUS
<1>3. \A x \in O \ T : V[x] \in Nat /\ V[x] <= b
  OBVIOUS
<1>4. \A x \in T \ O : V[x] \in Nat /\ b <= V[x]
  OBVIOUS
<1>5. Cardinality(O) <= Cardinality(T)
  OBVIOUS
<1>6. \A x \in C \cup O \cup T : V[x] \in Nat
  OBVIOUS
<1> HIDE DEF C
<1>7. Cardinality(O) = Cardinality(C) + Cardinality(O \ T)
      /\ Cardinality(T) = Cardinality(C) + Cardinality(T \ O)
  <2>1. ASSUME NEW A, NEW B, IsFiniteSet(A), IsFiniteSet(B), A \cap B = {}
        PROVE  Cardinality(A \cup B) = Cardinality(A) + Cardinality(B)
    <3>1. Cardinality(A \cup B) = Cardinality(A) + Cardinality(B) - Cardinality(A \cap B)
      BY <2>1, FS_Union
    <3>2. Cardinality(A \cap B) = 0 /\ Cardinality(A) \in Nat /\ Cardinality(B) \in Nat
      BY <2>1, FS_EmptySet, FS_CardinalityType
    <3> QED
      BY <3>1, <3>2
  <2>2. Cardinality(C \cup (O \ T)) = Cardinality(C) + Cardinality(O \ T)
    BY <1>1, <1>2, <2>1
  <2>3. Cardinality(C \cup (T \ O)) = Cardinality(C) + Cardinality(T \ O)
    BY <1>1, <1>2, <2>1
  <2> QED
    BY <1>2, <2>2, <2>3
<1>8. Cardinality(O \ T) \in Nat /\ Cardinality(T \ O) \in Nat /\ Cardinality(C) \in Nat
  BY <1>1, FS_CardinalityType
<1>9. Cardinality(O \ T) <= Cardinality(T \ O)
  BY <1>5, <1>7, <1>8
<1>10. SumOf(V, O \ T) <= SumOf(V, T \ O)
  <2>1. SumOf(V, O \ T) <= Cardinality(O \ T) * b
    BY <1>1, <1>3, SumAtMost
  <2>2. Cardinality(T \ O) * b <= SumOf(V, T \ O)
    BY <1>1, <1>4, SumAtLeast
  <2>3. SumOf(V, O \ T) \in Nat /\ SumOf(V, T \ O) \in Nat
    BY <1>1, <1>3, <1>4, SumType
  <2>4. ASSUME NEW x \in Nat, NEW y \in Nat, x <= y
        PROVE  x * b <= y * b /\ x * b \in Nat /\ y * b \in Nat
    BY <2>4
  <2> QED
    BY <1>8, <1>9, <2>1, <2>2, <2>3, <2>4
<1>11. /\ SumOf(V, C \cup (O \ T)) = SumOf(V, C) + SumOf(V, O \ T)
       /\ SumOf(V, C \cup (T \ O)) = SumOf(V, C) + SumOf(V, T \ O)
  BY <1>1, <1>2, <1>6, SumUnion
<1>12. SumOf(V, C) \in Nat /\ SumOf(V, O \ T) \in Nat /\ SumOf(V, T \ O) \in Nat
  BY <1>1, <1>6, SumType
<1>13. SumOf(V, C \cup (O \ T)) = SumOf(V, O) /\ SumOf(V, C \cup (T \ O)) = SumOf(V, T)
  BY <1>2, Zenon
<1> QED
  BY <1>10, <1>11, <1>12, <1>13

\* Among finitely many things in line, one comes first.
LEMMA SomeFirst ==
  ASSUME NEW S, NEW After, IsFiniteSet(S), S # {},
         \A x, y \in S : x = y \/ y \in After[x] \/ x \in After[y],
         \A x, y, z \in S : y \in After[x] /\ z \in After[y] => z \in After[x]
  PROVE  \E n \in S : \A m \in S : m = n \/ m \in After[n]
<1> DEFINE First(T, n) == \A m \in T : m = n \/ m \in After[n]
           Bad == {T \in SUBSET S : T # {} /\ ~ \E n \in T : First(T, n)}
<1>1. Bad = {}
  <2> SUFFICES ASSUME Bad # {}
               PROVE  FALSE
    OBVIOUS
  <2>1. PICK T \in Bad : \A X \in Bad : ~(X \subseteq T /\ X # T)
    <3>1. Bad \subseteq SUBSET S
      OBVIOUS
    <3> HIDE DEF Bad
    <3> QED
      BY <3>1, SmallestSubset
  <2>2. T \subseteq S /\ T # {} /\ ~ \E n \in T : First(T, n)
    OBVIOUS
  <2>3. PICK x \in T : TRUE
    BY <2>2
  <2>4. T \ {x} # {}
    <3>1. T = {x} => First(T, x)
      OBVIOUS
    <3> QED
      BY <2>2, <2>3, <3>1
  <2>5. T \ {x} \notin Bad
    <3> HIDE DEF Bad
    <3> QED
      BY <2>1, <2>3
  <2>6. PICK y \in T \ {x} : First(T \ {x}, y)
    BY <2>2, <2>4, <2>5
  <2>7. CASE x \in After[y]
    BY <2>2, <2>6, <2>7
  <2>8. CASE y \in After[x]
    <3>1. \A m \in T : m = x \/ m = y \/ m \in After[y]
      BY <2>6
    <3>2. First(T, x)
      BY <2>2, <2>3, <2>6, <2>8, <3>1
    <3> QED
      BY <2>2, <2>3, <3>2
  <2> QED
    BY <2>2, <2>3, <2>6, <2>7, <2>8
<1>2. S \notin Bad /\ S \in SUBSET S
  BY <1>1
<1> QED
  BY <1>2

\* Taking the largest first, equal ones in the order W gives them, until they cover
\* the amount takes as few as can.
Ahead(V, W, m, n) == V[n] < V[m] \/ (V[m] = V[n] /\ W[m] < W[n])
Larger(V, W, U, n) == {m \in U : Ahead(V, W, m, n)}
Taken(V, W, U, amount) == {n \in U : SumOf(V, Larger(V, W, U, n)) < amount}

LEMMA AheadIsAnOrder ==
  ASSUME NEW V, NEW W, NEW U, \A x \in U : V[x] \in Nat /\ W[x] \in Nat,
         \A x, y \in U : W[x] = W[y] => x = y
  PROVE  /\ \A x \in U : ~Ahead(V, W, x, x)
         /\ \A x, y \in U : x = y \/ Ahead(V, W, x, y) \/ Ahead(V, W, y, x)
         /\ \A x, y, z \in U : Ahead(V, W, x, y) /\ Ahead(V, W, y, z) => Ahead(V, W, x, z)
BY DEF Ahead

LEMMA LargestFirst ==
  ASSUME NEW V, NEW W, NEW U, IsFiniteSet(U), \A x \in U : V[x] \in Nat /\ W[x] \in Nat,
         \A x, y \in U : W[x] = W[y] => x = y,
         NEW amount \in Nat \ {0}, amount <= SumOf(V, U)
  PROVE  /\ SumOf(V, Taken(V, W, U, amount)) >= amount
         /\ \A O \in SUBSET U : SumOf(V, O) >= amount =>
              Cardinality(Taken(V, W, U, amount)) <= Cardinality(O)
<1> DEFINE S == Taken(V, W, U, amount)
           L(n) == Larger(V, W, U, n)
           A(m, n) == Ahead(V, W, m, n)
<1>0. /\ \A x \in U : ~A(x, x)
      /\ \A x, y \in U : x = y \/ A(x, y) \/ A(y, x)
      /\ \A x, y, z \in U : A(x, y) /\ A(y, z) => A(x, z)
  BY AheadIsAnOrder
<1>1. /\ IsFiniteSet(S) /\ S \subseteq U
      /\ \A n \in U : IsFiniteSet(L(n)) /\ L(n) \subseteq U /\ SumOf(V, L(n)) \in Nat
  <2>1. S \subseteq U /\ \A n \in U : L(n) \subseteq U
    BY DEF Taken, Larger
  <2>2. ASSUME NEW T, T \subseteq U
        PROVE  IsFiniteSet(T) /\ SumOf(V, T) \in Nat
    BY <2>2, FS_Subset, SumType
  <2> QED
    BY <2>1, <2>2
<1>2. \A n \in U : n \in S <=> SumOf(V, L(n)) < amount
  BY DEF Taken
<1>l. \A m, n \in U : m \in L(n) <=> A(m, n)
  BY DEF Larger
<1> HIDE DEF A
\* Who is ahead of a note ahead is ahead.
<1>3. \A m, n \in U : A(m, n) => L(m) \subseteq L(n) /\ SumOf(V, L(m)) <= SumOf(V, L(n))
  <2> TAKE m \in U, n \in U
  <2> HAVE A(m, n)
  <2>1. L(m) \subseteq L(n)
    BY <1>0, <1>1, <1>l
  <2> QED
    BY <1>1, <2>1, SumSubset
\* So if a note is taken, all ahead of it are.
<1>4. \A m, n \in U : n \in S /\ A(m, n) => m \in S
  BY <1>1, <1>2, <1>3
<1> HIDE DEF S, L
<1>5. SumOf(V, S) >= amount
  <2>1. CASE S = U
    <3>1. SumOf(V, S) = SumOf(V, U)
      BY <2>1, Zenon
    <3>2. SumOf(V, U) \in Nat
      BY SumType
    <3> QED
      BY <3>1, <3>2
  <2>2. CASE S # U
    <3>1. PICK n \in U \ S : \A m \in U \ S : m = n \/ A(n, m)
      <4> DEFINE Q == U \ S
                 After == [x \in U |-> {y \in U : A(x, y)}]
      <4>1. IsFiniteSet(Q) /\ Q # {} /\ Q \subseteq U
        BY <1>1, <2>2, FS_Subset
      <4>2. \A x, y \in U : y \in After[x] <=> A(x, y)
        OBVIOUS
      <4> HIDE DEF Q, After
      <4>3. \A x, y \in Q : x = y \/ y \in After[x] \/ x \in After[y]
        BY <1>0, <4>1, <4>2
      <4>4. \A x, y, z \in Q : y \in After[x] /\ z \in After[y] => z \in After[x]
        BY <1>0, <4>1, <4>2
      <4>5. \E n \in Q : \A m \in Q : m = n \/ m \in After[n]
        BY <4>1, <4>3, <4>4, SomeFirst
      <4>6. \E n \in Q : \A m \in Q : m = n \/ A(n, m)
        BY <4>1, <4>2, <4>5
      <4> QED
        BY <4>6 DEF Q
    <3>2. S = L(n)
      <4>1. \A m \in U : m \in S => A(m, n)
        BY <1>0, <1>4, <3>1
      <4>2. \A m \in U : A(m, n) => m \in S
        BY <1>0, <3>1
      <4> QED
        BY <1>1, <1>l, <3>1, <4>1, <4>2
    <3>3. SumOf(V, L(n)) >= amount
      BY <1>1, <1>2, <3>1
    <3>4. SumOf(V, S) = SumOf(V, L(n))
      BY <3>2, Zenon
    <3> QED
      BY <3>3, <3>4
  <2> QED
    BY <2>1, <2>2
<1>6. ASSUME NEW O \in SUBSET U, SumOf(V, O) >= amount, ~(Cardinality(S) <= Cardinality(O))
      PROVE  FALSE
  <2>1. IsFiniteSet(O) /\ Cardinality(O) \in Nat /\ Cardinality(S) \in Nat
    BY <1>1, FS_Subset, FS_CardinalityType
  <2>2. S # {}
    BY <1>6, <2>1, FS_EmptySet
  <2>3. PICK n \in S : \A m \in S : m = n \/ A(m, n)
    <3> DEFINE After == [x \in U |-> {y \in U : A(y, x)}]
    <3>1. \A x, y \in U : y \in After[x] <=> A(y, x)
      OBVIOUS
    <3> HIDE DEF After
    <3>2. \A x, y \in S : x = y \/ y \in After[x] \/ x \in After[y]
      BY <1>0, <1>1, <3>1
    <3>3. \A x, y, z \in S : y \in After[x] /\ z \in After[y] => z \in After[x]
      BY <1>0, <1>1, <3>1
    <3>4. \E n \in S : \A m \in S : m = n \/ m \in After[n]
      BY <1>1, <2>2, <3>2, <3>3, SomeFirst
    <3> QED
      BY <1>1, <3>1, <3>4
  <2>4. n \in U /\ V[n] \in Nat /\ SumOf(V, L(n)) < amount
    BY <1>1, <1>2, <2>3
  <2>5. S \subseteq L(n) \cup {n}
    BY <1>1, <1>l, <2>3, <2>4
  <2>6. Cardinality(S) <= Cardinality(L(n)) + 1
    <3>1. n \notin L(n)
      BY <1>0, <1>l, <2>4
    <3>2. IsFiniteSet(L(n) \cup {n}) /\ Cardinality(L(n) \cup {n}) = Cardinality(L(n)) + 1
      BY <1>1, <2>4, <3>1, FS_AddElement
    <3> QED
      BY <2>5, <3>2, FS_Subset
  <2>7. Cardinality(O) <= Cardinality(L(n))
    <3>1. Cardinality(L(n)) \in Nat
      BY <1>1, <2>4, FS_CardinalityType
    <3> QED
      BY <1>6, <2>1, <2>6, <3>1
  <2>8. SumOf(V, O) <= SumOf(V, L(n))
    <3>1. \A x \in L(n) : V[n] <= V[x]
      BY <1>1, <1>l, <2>4 DEF A, Ahead
    <3>2. \A x \in U \ L(n) : V[x] <= V[n]
      BY <1>1, <1>l, <2>4 DEF A, Ahead
    <3> QED
      BY <1>1, <2>4, <2>7, <3>1, <3>2, LargestAreWorthMost
  <2>9. SumOf(V, O) \in Nat
    BY <2>1, SumType
  <2> QED
    BY <1>1, <1>6, <2>4, <2>8, <2>9
<1>7. /\ SumOf(V, S) >= amount
      /\ \A O \in SUBSET U : SumOf(V, O) >= amount => Cardinality(S) <= Cardinality(O)
  BY <1>5, <1>6
<1> QED
  BY <1>7 DEF S

-----------------------------------------------------------------------------
(* What the tree proves.                                                   *)

TreeInv == count \in 0..MaxLeaves /\ Holds(nodes, LeavesIn)

LEMMA LeavesAre == LeavesIn = Lists(nodes, count)
BY DEF LeavesIn, Lists

LEMMA PathsAlwaysProve ==
  ASSUME TreeInv
  PROVE  PathsProve
<1> DEFINE s == LeavesIn
<1>1. /\ count \in Nat /\ MaxLeaves \in Nat /\ Row(0) = 0..(MaxLeaves - 1) /\ count <= MaxLeaves
      /\ Depth \in Levels /\ Row(Depth) = 0..0
  BY Widths, DepthAssumption DEF TreeInv, Row, Levels
<1>2. s = Lists(nodes, count) /\ Holds(nodes, s)
  BY LeavesAre DEF TreeInv
<1>3. \A i \in Row(0) : Slots(s)[i] = IF i < count THEN Get(nodes, 0, i) ELSE EmptyLeaf
  BY <1>1, <1>2, ListSlots
<1>4. Root(nodes) = Reference(s)
  <2>1. 0 \in Row(Depth)
    BY <1>1
  <2> HIDE DEF s
  <2> QED
    BY <1>1, <1>2, <2>1, FullTreeIs DEF Holds, Root
<1> HIDE DEF s
\* A path of the tree folds what its slot holds to the root.
<1>5. \A i \in Row(0) : ComputeMerkleRoot(Slots(s)[i], PathOf(nodes, i)) = Root(nodes)
  <2> TAKE i \in Row(0)
  <2>1. Differ(s, s, i, Slots(s)[i])
    BY DEF Differ
  <2> QED
    BY <1>2, <1>4, <2>1, PathFolds
<1>6. ASSUME NEW i \in 0..(count - 1), NEW leaf
      PROVE  MembershipHolds(leaf, PathOf(nodes, i), Root(nodes)) <=> leaf = Get(nodes, 0, i)
  <2>1. i \in Row(0) /\ i < count
    BY <1>1
  <2>2. ComputeMerkleRoot(Get(nodes, 0, i), PathOf(nodes, i)) = Root(nodes)
    BY <1>3, <1>5, <2>1
  <2> QED
    BY <2>2, PathBinds DEF MembershipHolds
<1>7. ASSUME count < MaxLeaves, NEW leaf
      PROVE  LET w == InsertionWitness(nodes, count, leaf) IN
             InsertionHolds(leaf, count, w.path, Root(nodes), Reference(Append(s, leaf)))
  <2> DEFINE path == PathOf(nodes, count)
             new == Append(s, leaf)
  <2>1. count \in Row(0) /\ ~(count < count)
    BY <1>1, <1>7
  <2>2. ComputeMerkleRoot(EmptyLeaf, path) = Root(nodes)
    BY <1>3, <1>5, <2>1
  <2>3. s \in Seq({s[i] : i \in 1..count}) /\ Len(s) = count
    <3>1. s \in [1..count -> {Get(nodes, 0, i - 1) : i \in 1..count}]
      BY <1>2 DEF Lists
    <3> QED
      BY <1>1, <3>1
  <2>4. Len(new) = count + 1 /\ new[count + 1] = leaf /\ \A i \in 1..count : new[i] = s[i]
    BY <1>1, <2>3
  <2> HIDE DEF new
  <2>5. ASSUME NEW i \in Row(0)
        PROVE  Slots(new)[i] = IF i = count THEN leaf ELSE Slots(s)[i]
    <3>0. i \in Nat
      BY <1>1
    <3>1. Slots(new)[i] = IF i < count + 1 THEN new[i + 1] ELSE EmptyLeaf
      BY <1>1, <2>4 DEF Slots
    <3>2. Slots(s)[i] = IF i < count THEN s[i + 1] ELSE EmptyLeaf
      BY <1>1, <2>3 DEF Slots
    <3>3. CASE i < count
      <4>1. i < count + 1 /\ i + 1 \in 1..count /\ i # count
        BY <1>1, <3>0, <3>3
      <4> QED
        BY <2>4, <3>1, <3>2, <3>3, <4>1
    <3>4. CASE i = count
      <4>1. i < count + 1
        BY <1>1, <3>4
      <4> QED
        BY <2>4, <3>1, <3>4, <4>1
    <3>5. CASE count < i
      <4>1. ~(i < count + 1) /\ ~(i < count) /\ i # count
        BY <1>1, <3>0, <3>5
      <4> QED
        BY <3>1, <3>2, <4>1
    <3> QED
      BY <1>1, <3>0, <3>3, <3>4, <3>5
  <2>6. Differ(s, new, count, leaf)
    BY <2>1, <2>5 DEF Differ
  <2>7. ComputeMerkleRoot(leaf, path) = Reference(new)
    BY <1>2, <2>1, <2>6, PathFolds
  <2>8. IndexBitsMatch(count, path)
    BY <2>1, PathSpells
  <2> QED
    BY <2>2, <2>7, <2>8 DEF InsertionHolds, InsertionWitness, new
<1> QED
  BY <1>4, <1>6, <1>7 DEF PathsProve, s

\* What the tree holds once they are in.
Continues(new, kept, n, from, k) ==
  /\ Holds(new, Lists(new, n + k))
  /\ \A i \in 0..(n - 1) : Get(new, 0, i) = Get(kept, 0, i)
  /\ \A i \in 1..k : Get(new, 0, n + i - 1) = NoteFeed[from + i]

LEMMA Arrivals ==
  ASSUME NEW kept, NEW n \in Nat, NEW from \in Nat, NEW k \in Nat, n + k <= MaxLeaves,
         Holds(kept, Lists(kept, n))
  PROVE  Continues(Filled(kept, n, from, k), kept, n, from, k)
<1>0. MaxLeaves \in Nat
  BY Widths
<1>9. PICK f : Fills(f, kept, n, from, k)
  BY FilledIs
<1>1. /\ f[0] = kept
      /\ \A i \in 1..k : f[i] = SetLeaf(f[i - 1], n + i - 1, NoteFeed[from + i])
      /\ Filled(kept, n, from, k) = f[k]
  BY <1>9 DEF Fills
<1> DEFINE Good(j) ==
      /\ Holds(f[j], Lists(f[j], n + j))
      /\ \A i \in 0..(n - 1) : Get(f[j], 0, i) = Get(kept, 0, i)
      /\ \A i \in 1..j : Get(f[j], 0, n + i - 1) = NoteFeed[from + i]
           Bad == {j \in 0..k : ~Good(j)}
<1>2. Good(0)
  <2>1. n + 0 = n
    OBVIOUS
  <2> QED
    BY <1>1, <2>1
<1>3. ASSUME NEW j \in 0..(k - 1), Good(j)
      PROVE  Good(j + 1)
  <2>1. /\ n + j \in Nat /\ n + j < MaxLeaves /\ j + 1 \in 1..k /\ (j + 1) - 1 = j
        /\ n + (j + 1) - 1 = n + j /\ n + (j + 1) = (n + j) + 1
    BY <1>0
  <2>2. f[j + 1] = SetLeaf(f[j], n + j, NoteFeed[from + (j + 1)])
    BY <1>1, <2>1
  <2> DEFINE new == SetLeaf(f[j], n + j, NoteFeed[from + (j + 1)])
  <2>3. /\ Holds(new, Lists(new, (n + j) + 1))
        /\ Get(new, 0, n + j) = NoteFeed[from + (j + 1)]
        /\ \A i \in 0..((n + j) - 1) : Get(new, 0, i) = Get(f[j], 0, i)
    BY <1>3, <2>1, NextLeaf
  <2> HIDE DEF new
  <2>4. \A i \in 0..(n - 1) : Get(new, 0, i) = Get(kept, 0, i)
    <3> TAKE i \in 0..(n - 1)
    <3>1. i \in 0..((n + j) - 1)
      OBVIOUS
    <3> QED
      BY <1>3, <2>3, <3>1
  <2>5. \A i \in 1..(j + 1) : Get(new, 0, n + i - 1) = NoteFeed[from + i]
    <3> TAKE i \in 1..(j + 1)
    <3>1. CASE i = j + 1
      BY <2>1, <2>3, <3>1
    <3>2. CASE i # j + 1
      <4>1. i \in 1..j /\ n + i - 1 \in 0..((n + j) - 1)
        BY <3>2
      <4> QED
        BY <1>3, <2>3, <4>1
    <3> QED
      BY <3>1, <3>2
  <2>6. f[j + 1] = new
    BY <2>2 DEF new
  <2> QED
    BY <2>1, <2>3, <2>4, <2>5, <2>6
<1>4. Good(k)
  <2> SUFFICES ASSUME ~Good(k)
               PROVE  FALSE
    OBVIOUS
  <2>1. Bad # {} /\ Bad \subseteq Nat
    OBVIOUS
  <2>2. PICK m \in Bad : \A j \in Bad : m <= j
    <3> HIDE DEF Bad
    <3> QED
      BY <2>1, SmallestNumber
  <2>3. m \in 0..k /\ ~Good(m)
    OBVIOUS
  <2> HIDE DEF Good
  <2>4. m # 0
    BY <1>2, <2>3
  <2>5. m - 1 \in 0..(k - 1) /\ (m - 1) + 1 = m /\ m - 1 \in 0..k /\ ~(m <= m - 1)
    BY <2>3, <2>4
  <2>6. Good(m - 1)
    BY <2>2, <2>5
  <2>7. Good((m - 1) + 1)
    BY <1>3, <2>5, <2>6
  <2> QED
    BY <2>3, <2>5, <2>7
<1> QED
  BY <1>1, <1>4 DEF Continues

LEMMA LesserIs ==
  ASSUME NEW a \in Nat, NEW b \in Nat
  PROVE  /\ Min({a, b}) \in Nat /\ Min({a, b}) <= a /\ Min({a, b}) <= b
         /\ a <= b => Min({a, b}) = a
<1>1. CASE a <= b
  <2>1. a \in {a, b} /\ \A y \in {a, b} : a <= y
    BY <1>1
  <2>2. Min({a, b}) \in {a, b} /\ \A y \in {a, b} : Min({a, b}) <= y
    BY <2>1 DEF Min
  <2> QED
    BY <1>1, <2>2
<1>2. CASE ~(a <= b)
  <2>1. b \in {a, b} /\ \A y \in {a, b} : b <= y
    BY <1>2
  <2>2. Min({a, b}) \in {a, b} /\ \A y \in {a, b} : Min({a, b}) <= y
    BY <2>1 DEF Min
  <2> QED
    BY <1>2, <2>2
<1> QED
  BY <1>1, <1>2

\* The prefix of the feed that n notes long.
Fed(n) == {NoteFeed[i] : i \in 1..n}

LEMMA FeedIs ==
  ASSUME NEW n \in 0..Len(NoteFeed)
  PROVE  /\ Len(NoteFeed) \in Nat /\ DOMAIN NoteFeed = 1..Len(NoteFeed)
         /\ SubSeq(NoteFeed, 1, n) = [i \in 1..n |-> NoteFeed[i]]
         /\ ToSet(SubSeq(NoteFeed, 1, n)) = Fed(n)
         /\ Fed(n) \subseteq ToSet(NoteFeed)
<1>1. NoteFeed \in Seq(ToSet(NoteFeed))
  BY ScannerAssumption
<1>2. Len(NoteFeed) \in Nat /\ DOMAIN NoteFeed = 1..Len(NoteFeed)
  BY <1>1
<1>3. SubSeq(NoteFeed, 1, n) = [i \in 1..n |-> NoteFeed[i]]
  BY <1>1, <1>2
<1>4. ToSet([i \in 1..n |-> NoteFeed[i]]) = Fed(n)
  BY DEF ToSet, Fed
<1>5. Fed(n) \subseteq ToSet(NoteFeed)
  BY <1>2 DEF ToSet, Fed
<1> QED
  BY <1>2, <1>3, <1>4, <1>5

LEMMA MineFinite == IsFiniteSet(Mine) /\ IsFiniteSet(ToSet(NoteFeed))
<1>1. DOMAIN NoteFeed = 1..Len(NoteFeed) /\ Len(NoteFeed) \in Nat
  BY ScannerAssumption
<1>2. IsFiniteSet(1..Len(NoteFeed))
  BY <1>1, FS_Interval
<1>3. ToSet(NoteFeed) = {NoteFeed[i] : i \in 1..Len(NoteFeed)}
  BY <1>1 DEF ToSet
<1>4. IsFiniteSet({NoteFeed[i] : i \in 1..Len(NoteFeed)})
  <2> DEFINE f == [i \in 1..Len(NoteFeed) |-> NoteFeed[i]]
             T == {NoteFeed[i] : i \in 1..Len(NoteFeed)}
  <2>1. f \in Surjection(1..Len(NoteFeed), T)
    BY DEF Surjection
  <2> HIDE DEF f, T
  <2>2. IsFiniteSet(T)
    BY <1>2, <2>1, FS_Surjection
  <2> QED
    BY <2>2 DEF T
<1>5. IsFiniteSet(ToSet(NoteFeed))
  BY <1>3, <1>4
<1> QED
  BY <1>5, ScannerAssumption, FS_Subset

-----------------------------------------------------------------------------
(* The scanner.                                                            *)

Phases == {"idle", "notes", "nullifiers"}

ScannerTypes ==
  /\ published \in 0..Len(NoteFeed) /\ revealed \subseteq Mine
  /\ aggregated \in 0..Len(Statements)
  /\ nextIndex \in 0..published
  /\ DOMAIN owned \subseteq Mine
  /\ owned \in [DOMAIN owned -> [index : Nat, spent : BOOLEAN]]
  /\ call \in [Calls -> [phase : Phases, from : 0..published]]
  /\ overlapped \in BOOLEAN

TreeIsFull == count \in 0..MaxLeaves /\ Holds(nodes, Lists(nodes, count))

\* Only what the chain has revealed is marked; a note is where the feed put it.
Marked ==
  \A n \in DOMAIN owned :
    (owned[n].spent => n \in revealed) /\ NoteFeed[owned[n].index + 1] = n

\* While one call runs at a time, the tree and the owned map are a prefix of the
\* feed, and the notes under way continue it.
Follows ==
  ~overlapped =>
    /\ count = nextIndex /\ \A i \in 1..nextIndex : Get(nodes, 0, i - 1) = NoteFeed[i]
    /\ DOMAIN owned = Mine \cap Fed(nextIndex)
    /\ \A c, d \in Calls : call[c].phase # "idle" /\ call[d].phase # "idle" => c = d
    /\ \A c \in Calls : call[c].phase = "notes" => call[c].from = nextIndex

ScannerInv == ScannerTypes /\ TreeIsFull /\ Marked /\ Follows

LEMMA Lengths ==
  /\ Len(NoteFeed) \in Nat /\ Len(Statements) \in Nat /\ MaxLeaves \in Nat
  /\ Len(NoteFeed) <= MaxLeaves
<1>1. NoteFeed \in Seq(ToSet(NoteFeed)) /\ Statements \in Seq(ToSet(Statements))
  BY ScannerAssumption
<1> QED
  BY <1>1, Widths, ScannerAssumption

LEMMA ScannerStarts == ScannerInit => ScannerInv
<1> SUFFICES ASSUME ScannerInit
             PROVE  ScannerInv
  OBVIOUS
<1> USE DEF ScannerInit
<1>1. ScannerTypes
  <2>1. DOMAIN owned = {} /\ owned \in [{} -> [index : Nat, spent : BOOLEAN]]
    OBVIOUS
  <2>2. call \in [Calls -> [phase : Phases, from : 0..published]]
    BY DEF Idle, Phases
  <2>3. /\ published \in 0..Len(NoteFeed) /\ aggregated \in 0..Len(Statements)
        /\ nextIndex \in 0..published
    BY Lengths
  <2>4. DOMAIN owned \subseteq Mine /\ owned \in [DOMAIN owned -> [index : Nat, spent : BOOLEAN]]
    BY <2>1
  <2> QED
    BY <2>2, <2>3, <2>4 DEF ScannerTypes
<1>2. TreeIsFull
  <2>1. Lists(nodes, count) = <<>>
    BY DEF Lists
  <2> QED
    BY <2>1, EmptyHolds, Lengths DEF TreeIsFull
<1>3. Marked
  BY DEF Marked
<1>4. Follows
  <2>1. DOMAIN owned = {} /\ Fed(0) = {}
    BY DEF Fed
  <2> QED
    BY <2>1 DEF Follows, Idle
<1> QED
  BY <1>1, <1>2, <1>3, <1>4 DEF ScannerInv

\* The steps that touch neither the tree nor what is owned.
LEMMA ScannerKeeps ==
  ASSUME ScannerInv, UNCHANGED <<nodes, count, owned, nextIndex>>,
         ScannerTypes', revealed \subseteq revealed',
         ~overlapped' =>
           /\ ~overlapped
           /\ \A c, d \in Calls : call'[c].phase # "idle" /\ call'[d].phase # "idle" => c = d
           /\ \A c \in Calls : call'[c].phase = "notes" => call'[c].from = nextIndex
  PROVE  ScannerInv'
<1>1. TreeIsFull'
  BY DEF ScannerInv, TreeIsFull
<1>2. Marked'
  BY DEF ScannerInv, Marked
<1>3. Follows'
  BY DEF ScannerInv, Follows
<1> QED
  BY <1>1, <1>2, <1>3 DEF ScannerInv

LEMMA FeedStep ==
  ASSUME ScannerInv, Publish \/ Aggregate \/ \E n \in Mine : Spend(n)
  PROVE  ScannerInv'
<1>1. ScannerTypes
  BY DEF ScannerInv
<1>2. UNCHANGED <<nodes, count, owned, nextIndex, call, overlapped>>
  BY DEF Publish, Aggregate, Spend, scanVars
<1>3. ScannerTypes' /\ revealed \subseteq revealed'
  <2>1. CASE Publish
    <3>1. /\ published \in 0..Len(NoteFeed) /\ Len(NoteFeed) \in Nat
          /\ published' \in 0..Len(NoteFeed) /\ published' = published + 1
          /\ UNCHANGED <<revealed, aggregated>>
      BY <1>1, <2>1, Lengths DEF ScannerTypes, Publish
    <3>2. nextIndex' \in 0..published' /\ call' \in [Calls -> [phase : Phases, from : 0..published']]
      <4>1. 0..published \subseteq 0..published'
        BY <3>1
      <4>2. \A r \in [phase : Phases, from : 0..published] : r \in [phase : Phases, from : 0..published']
        BY <4>1
      <4> QED
        BY <1>1, <1>2, <4>1, <4>2 DEF ScannerTypes
    <3> QED
      BY <1>1, <1>2, <3>1, <3>2 DEF ScannerTypes
  <2>2. CASE Aggregate
    BY <1>1, <1>2, <2>2, Lengths DEF ScannerTypes, Aggregate
  <2>3. CASE \E n \in Mine : Spend(n)
    BY <1>1, <1>2, <2>3 DEF ScannerTypes, Spend
  <2> QED
    BY <2>1, <2>2, <2>3
<1> QED
  BY <1>2, <1>3, ScannerKeeps DEF ScannerInv, Follows

LEMMA SyncStep ==
  ASSUME ScannerInv, NEW c \in Calls, Sync(c)
  PROVE  ScannerInv'
<1>1. ScannerTypes
  BY DEF ScannerInv
<1>2. /\ UNCHANGED <<nodes, count, owned, nextIndex, published, revealed, aggregated>>
      /\ call' = [call EXCEPT ![c] = [phase |-> "notes", from |-> nextIndex]]
      /\ overlapped' = (overlapped \/ \E d \in Calls \ {c} : call[d].phase # "idle")
  BY DEF Sync, scanVars, feedVars
<1>3. ScannerTypes'
  BY <1>1, <1>2 DEF ScannerTypes, Phases
<1>4. ASSUME ~overlapped'
      PROVE  /\ ~overlapped
             /\ \A a, b \in Calls : call'[a].phase # "idle" /\ call'[b].phase # "idle" => a = b
             /\ \A a \in Calls : call'[a].phase = "notes" => call'[a].from = nextIndex
  <2>1. ~overlapped /\ \A d \in Calls \ {c} : call[d].phase = "idle"
    BY <1>2, <1>4
  <2>2. \A d \in Calls \ {c} : call'[d].phase = "idle"
    BY <1>1, <1>2, <2>1 DEF ScannerTypes
  <2>3. call'[c].from = nextIndex
    BY <1>1, <1>2 DEF ScannerTypes
  <2> QED
    BY <2>1, <2>2, <2>3
<1> QED
  BY <1>2, <1>3, <1>4, ScannerKeeps

LEMMA ThrowStep ==
  ASSUME ScannerInv, NEW c \in Calls, SyncThrows(c)
  PROVE  ScannerInv'
<1>1. ScannerTypes
  BY DEF ScannerInv
<1>2. /\ UNCHANGED <<nodes, count, owned, nextIndex, published, revealed, aggregated, overlapped>>
      /\ call' = [call EXCEPT ![c] = Idle]
  BY DEF SyncThrows, scanVars, feedVars
<1>3. ScannerTypes'
  BY <1>1, <1>2 DEF ScannerTypes, Phases, Idle
<1>4. \A a \in Calls : call'[a] = IF a = c THEN Idle ELSE call[a]
  BY <1>1, <1>2 DEF ScannerTypes
<1> QED
  BY <1>2, <1>3, <1>4, ScannerKeeps DEF ScannerInv, Follows, Idle

LEMMA RefreshStep ==
  ASSUME ScannerInv, NEW c \in Calls, RefreshSpent(c)
  PROVE  ScannerInv'
<1>1. ScannerTypes
  BY DEF ScannerInv
<1>2. /\ UNCHANGED <<nodes, count, nextIndex, published, revealed, aggregated, overlapped>>
      /\ call' = [call EXCEPT ![c] = Idle]
      /\ owned' = [n \in DOMAIN owned |->
                     [owned[n] EXCEPT !.spent = owned[n].spent \/ n \in revealed]]
  BY DEF RefreshSpent, feedVars
<1>3. \A n \in DOMAIN owned : owned[n] \in [index : Nat, spent : BOOLEAN]
  BY <1>1 DEF ScannerTypes
<1>4. DOMAIN owned' = DOMAIN owned
  BY <1>2
<1>5. \A n \in DOMAIN owned :
        /\ owned'[n] \in [index : Nat, spent : BOOLEAN]
        /\ owned'[n].index = owned[n].index
        /\ owned'[n].spent = (owned[n].spent \/ n \in revealed)
  <2> TAKE n \in DOMAIN owned
  <2>1. owned'[n] = [owned[n] EXCEPT !.spent = owned[n].spent \/ n \in revealed]
    BY <1>2
  <2>2. owned[n] \in [index : Nat, spent : BOOLEAN]
    BY <1>3
  <2> QED
    BY <2>1, <2>2
<1>6. \A a \in Calls : call'[a] = IF a = c THEN Idle ELSE call[a]
  BY <1>1, <1>2 DEF ScannerTypes
<1>7. ScannerTypes'
  <2>1. call' \in [Calls -> [phase : Phases, from : 0..published]]
    BY <1>1, <1>2 DEF ScannerTypes, Phases, Idle
  <2>2. owned' \in [DOMAIN owned' -> [index : Nat, spent : BOOLEAN]]
    BY <1>2, <1>4, <1>5
  <2> QED
    BY <1>1, <1>2, <1>4, <2>1, <2>2 DEF ScannerTypes
<1>8. Marked'
  BY <1>2, <1>4, <1>5 DEF ScannerInv, Marked
<1>9. TreeIsFull'
  BY <1>2 DEF ScannerInv, TreeIsFull
<1>10. Follows'
  BY <1>2, <1>4, <1>6 DEF ScannerInv, Follows, Idle
<1> QED
  BY <1>7, <1>8, <1>9, <1>10 DEF ScannerInv

LEMMA ArriveStep ==
  ASSUME ScannerInv, NEW c \in Calls, NotesArrive(c)
  PROVE  ScannerInv'
<1> DEFINE from == call[c].from
<1>1. ScannerTypes /\ TreeIsFull /\ call[c].phase = "notes"
  BY DEF ScannerInv, NotesArrive
<1>2. PICK to \in from..published :
        LET k == Min({to - from, MaxLeaves - count})
            found == {NoteFeed[i] : i \in (from + 1)..(from + k)} \intersect Mine
        IN  /\ nodes' = Filled(nodes, count, from, k)
            /\ count' = count + k
            /\ owned' = [n \in DOMAIN owned \union found |->
                 IF n \in found
                 THEN [index |-> (CHOOSE i \in DOMAIN NoteFeed : NoteFeed[i] = n) - 1, spent |-> FALSE]
                 ELSE owned[n]]
            /\ nextIndex' = IF k = 0 THEN nextIndex ELSE NextIndex(from + k - 1)
            /\ call' = [call EXCEPT ![c] = IF k < to - from THEN Idle ELSE [@ EXCEPT !.phase = "nullifiers"]]
  BY DEF NotesArrive, Filled
<1>3. UNCHANGED <<published, revealed, aggregated, overlapped>>
  BY DEF NotesArrive, feedVars
<1> DEFINE k == Min({to - from, MaxLeaves - count})
           found == {NoteFeed[i] : i \in (from + 1)..(from + k)} \intersect Mine
<1>4. /\ from \in 0..published /\ published \in Nat /\ published <= Len(NoteFeed)
      /\ count \in 0..MaxLeaves /\ count \in Nat /\ from \in Nat
      /\ Holds(nodes, Lists(nodes, count)) /\ nextIndex \in 0..published
  BY <1>1, Lengths DEF ScannerTypes, TreeIsFull
<1>5. /\ k \in Nat /\ k <= to - from /\ k <= MaxLeaves - count
      /\ (to - from <= MaxLeaves - count => k = to - from)
      /\ from + k \in 0..published /\ count + k <= MaxLeaves
  <2>1. to - from \in Nat /\ MaxLeaves - count \in Nat
    BY <1>4, Lengths
  <2>2. to \in Nat /\ to <= published
    BY <1>4
  <2>3. /\ k \in Nat /\ k <= to - from /\ k <= MaxLeaves - count
        /\ (to - from <= MaxLeaves - count => k = to - from)
    BY <2>1, LesserIs
  <2> HIDE DEF k, from, found
  <2>4. from + k <= published /\ from + k \in Nat /\ count + k <= MaxLeaves
    BY <1>4, <2>2, <2>3, Lengths
  <2> QED
    BY <1>4, <2>3, <2>4
<1>6. /\ nodes' = Filled(nodes, count, from, k)
      /\ count' = count + k
      /\ owned' = [n \in DOMAIN owned \union found |->
           IF n \in found
           THEN [index |-> (CHOOSE i \in DOMAIN NoteFeed : NoteFeed[i] = n) - 1, spent |-> FALSE]
           ELSE owned[n]]
      /\ nextIndex' = IF k = 0 THEN nextIndex ELSE NextIndex(from + k - 1)
      /\ call' = [call EXCEPT ![c] = IF k < to - from THEN Idle ELSE [@ EXCEPT !.phase = "nullifiers"]]
  BY <1>2
<1> HIDE DEF k
<1>7. nextIndex' = IF k = 0 THEN nextIndex ELSE from + k
  <2> HIDE DEF from, found
  <2>1. NextIndex(from + k - 1) = from + k
    BY <1>4, <1>5 DEF NextIndex
  <2> QED
    BY <1>6, <2>1
<1>8. nextIndex' \in 0..published
  BY <1>4, <1>5, <1>7
\* The tree.
<1>9. /\ Holds(nodes', Lists(nodes', count + k))
      /\ \A i \in 0..(count - 1) : Get(nodes', 0, i) = Get(nodes, 0, i)
      /\ \A i \in 1..k : Get(nodes', 0, count + i - 1) = NoteFeed[from + i]
  <2>1. Continues(Filled(nodes, count, from, k), nodes, count, from, k)
    BY <1>4, <1>5, Arrivals
  <2> QED
    BY <1>6, <2>1 DEF Continues
<1>10. TreeIsFull'
  <2>1. count' \in 0..MaxLeaves
    BY <1>4, <1>5, <1>6, Lengths
  <2> QED
    BY <1>6, <1>9, <2>1 DEF TreeIsFull
\* What is owned.
<1>11. DOMAIN NoteFeed = 1..Len(NoteFeed) /\ Len(NoteFeed) \in Nat
  BY ScannerAssumption
<1>12. ASSUME NEW n \in found
       PROVE  LET at == CHOOSE i \in DOMAIN NoteFeed : NoteFeed[i] = n IN
              n \in Mine /\ at \in 1..Len(NoteFeed) /\ NoteFeed[at] = n /\ at - 1 \in Nat
  <2>1. PICK i \in (from + 1)..(from + k) : NoteFeed[i] = n
    OBVIOUS
  <2>2. i \in DOMAIN NoteFeed
    BY <1>4, <1>5, <1>11, SMTT(30)
  <2> QED
    BY <1>11, <2>1, <2>2
<1> HIDE DEF found
<1>13. DOMAIN owned' = DOMAIN owned \cup found
  BY <1>6
<1>14. /\ \A n \in found : /\ owned'[n] \in [index : Nat, spent : BOOLEAN]
                           /\ ~owned'[n].spent /\ NoteFeed[owned'[n].index + 1] = n
       /\ \A n \in DOMAIN owned \ found : owned'[n] = owned[n]
  <2>1. ASSUME NEW n \in found
        PROVE  /\ owned'[n] \in [index : Nat, spent : BOOLEAN]
               /\ ~owned'[n].spent /\ NoteFeed[owned'[n].index + 1] = n
    <3> DEFINE at == CHOOSE i \in DOMAIN NoteFeed : NoteFeed[i] = n
    <3>1. at \in 1..Len(NoteFeed) /\ NoteFeed[at] = n /\ at - 1 \in Nat /\ at \in Nat
      BY <1>11, <1>12
    <3>2. owned'[n] = [index |-> at - 1, spent |-> FALSE]
      BY <1>6
    <3> HIDE DEF at
    <3>3. (at - 1) + 1 = at
      BY <3>1
    <3> QED
      BY <3>1, <3>2, <3>3
  <2>2. \A n \in DOMAIN owned \ found : owned'[n] = owned[n]
    BY <1>6
  <2> QED
    BY <2>1, <2>2
<1>15. found \subseteq Mine /\ \A n \in found : n \in Mine
  BY <1>12
<1>16. Marked'
  <2> SUFFICES ASSUME NEW n \in DOMAIN owned'
               PROVE  (owned'[n].spent => n \in revealed) /\ NoteFeed[owned'[n].index + 1] = n
    BY <1>3 DEF Marked
  <2>1. CASE n \in found
    BY <1>14, <2>1
  <2>2. CASE n \notin found
    BY <1>13, <1>14, <2>2 DEF ScannerInv, Marked
  <2> QED
    BY <2>1, <2>2
<1>17. ScannerTypes'
  <2>1. owned' \in [DOMAIN owned' -> [index : Nat, spent : BOOLEAN]]
    <3>1. \A n \in DOMAIN owned : owned[n] \in [index : Nat, spent : BOOLEAN]
      BY <1>1 DEF ScannerTypes
    <3>2. \A n \in DOMAIN owned' : owned'[n] \in [index : Nat, spent : BOOLEAN]
      BY <1>13, <1>14, <3>1
    <3> QED
      BY <1>6, <3>2
  <2>2. call' \in [Calls -> [phase : Phases, from : 0..published]]
    <3>1. Idle \in [phase : Phases, from : 0..published]
      BY <1>4 DEF Idle, Phases
    <3>2. [call[c] EXCEPT !.phase = "nullifiers"] \in [phase : Phases, from : 0..published]
      BY <1>1 DEF ScannerTypes, Phases
    <3> QED
      BY <1>1, <1>6, <3>1, <3>2 DEF ScannerTypes
  <2>3. DOMAIN owned' \subseteq Mine
    BY <1>1, <1>13, <1>15 DEF ScannerTypes
  <2> QED
    BY <1>1, <1>3, <1>8, <2>1, <2>2, <2>3 DEF ScannerTypes
\* One call at a time: all the notes it fetched enter, and the next scan resumes there.
<1>18. ASSUME ~overlapped
       PROVE  /\ count' = nextIndex' /\ \A i \in 1..nextIndex' : Get(nodes', 0, i - 1) = NoteFeed[i]
              /\ DOMAIN owned' = Mine \cap Fed(nextIndex')
              /\ \A a, b \in Calls : call'[a].phase # "idle" /\ call'[b].phase # "idle" => a = b
              /\ \A a \in Calls : call'[a].phase = "notes" => call'[a].from = nextIndex'
  <2>1. /\ count = nextIndex /\ \A i \in 1..nextIndex : Get(nodes, 0, i - 1) = NoteFeed[i]
        /\ DOMAIN owned = Mine \cap Fed(nextIndex)
        /\ \A a, b \in Calls : call[a].phase # "idle" /\ call[b].phase # "idle" => a = b
        /\ from = nextIndex
    BY <1>1, <1>18 DEF ScannerInv, Follows
  <2>2. count' = nextIndex' /\ nextIndex' = count + k /\ from = count /\ nextIndex = count
    BY <1>4, <1>5, <1>6, <1>7, <2>1
  <2>3. \A i \in 1..(count + k) : Get(nodes', 0, i - 1) = NoteFeed[i]
    <3> TAKE i \in 1..(count + k)
    <3>1. CASE i <= count
      <4>1. i - 1 \in 0..(count - 1) /\ i \in 1..nextIndex
        BY <1>4, <1>5, <2>2, <3>1
      <4> QED
        BY <1>9, <2>1, <4>1
    <3>2. CASE ~(i <= count)
      <4>1. i - count \in 1..k /\ count + (i - count) - 1 = i - 1 /\ from + (i - count) = i
        BY <1>4, <1>5, <2>2, <3>2
      <4>2. Get(nodes', 0, count + (i - count) - 1) = NoteFeed[from + (i - count)]
        BY <1>9, <4>1
      <4> QED
        BY <4>1, <4>2
    <3> QED
      BY <3>1, <3>2
  <2>4. DOMAIN owned' = Mine \cap Fed(count + k)
    <3>1. found = {NoteFeed[i] : i \in (count + 1)..(count + k)} \cap Mine
      BY <2>2 DEF found
    <3>2. Fed(count + k) = Fed(count) \cup {NoteFeed[i] : i \in (count + 1)..(count + k)}
      <4>1. 1..(count + k) = (1..count) \cup ((count + 1)..(count + k))
        BY <1>4, <1>5
      <4> QED
        BY <4>1 DEF Fed
    <3> QED
      BY <1>13, <2>1, <2>2, <3>1, <3>2
  <2>5. \A a \in Calls : a # c => call'[a] = call[a] /\ call[a].phase = "idle"
    BY <1>1, <1>6, <2>1 DEF ScannerTypes
  <2>6. call'[c].phase # "notes"
    <3>1. [call[c] EXCEPT !.phase = "nullifiers"].phase = "nullifiers"
      BY <1>1 DEF ScannerTypes
    <3>2. call'[c] = IF k < to - from THEN Idle ELSE [call[c] EXCEPT !.phase = "nullifiers"]
      BY <1>1, <1>6 DEF ScannerTypes
    <3> QED
      BY <3>1, <3>2 DEF Idle
  <2> QED
    BY <2>2, <2>3, <2>4, <2>5, <2>6
<1>19. Follows'
  BY <1>3, <1>18 DEF Follows
<1> QED
  BY <1>10, <1>16, <1>17, <1>19 DEF ScannerInv

LEMMA ScannerStep ==
  ASSUME ScannerInv, [ScannerNext]_scannerVars
  PROVE  ScannerInv'
<1>1. CASE Publish \/ Aggregate \/ \E n \in Mine : Spend(n)
  BY <1>1, FeedStep
<1>2. ASSUME NEW c \in Calls, Sync(c)
      PROVE  ScannerInv'
  BY <1>2, SyncStep
<1>3. ASSUME NEW c \in Calls, NotesArrive(c)
      PROVE  ScannerInv'
  BY <1>3, ArriveStep
<1>4. ASSUME NEW c \in Calls, RefreshSpent(c)
      PROVE  ScannerInv'
  BY <1>4, RefreshStep
<1>5. ASSUME NEW c \in Calls, SyncThrows(c)
      PROVE  ScannerInv'
  BY <1>5, ThrowStep
<1>6. CASE UNCHANGED scannerVars
  BY <1>6 DEF scannerVars, feedVars, scanVars, ScannerInv, ScannerTypes, TreeIsFull, Marked,
              Follows
<1> QED
  BY <1>1, <1>2, <1>3, <1>4, <1>5, <1>6 DEF ScannerNext

(* However syncs interleave and fail, the tree is that of the notes inserted, what is
   hidden is revealed, and while one call runs at a time all of it follows the feed. *)
THEOREM ScannerInvariant == ScannerSpec => []ScannerInv
BY ScannerStarts, ScannerStep, PTL DEF ScannerSpec

LEMMA InvariantFollows ==
  ASSUME ScannerInv
  PROVE  ScannerFollowsChain
<1> SUFFICES ASSUME ~overlapped
             PROVE  /\ count = nextIndex /\ LeavesIn = SubSeq(NoteFeed, 1, nextIndex)
                    /\ DOMAIN owned = Mine \intersect ToSet(SubSeq(NoteFeed, 1, nextIndex))
                    /\ \A n \in DOMAIN owned : NoteFeed[owned[n].index + 1] = n
  BY DEF ScannerFollowsChain
<1>1. /\ count = nextIndex /\ \A i \in 1..nextIndex : Get(nodes, 0, i - 1) = NoteFeed[i]
      /\ DOMAIN owned = Mine \cap Fed(nextIndex)
      /\ nextIndex \in 0..Len(NoteFeed)
      /\ \A n \in DOMAIN owned : NoteFeed[owned[n].index + 1] = n
  BY Lengths DEF ScannerInv, Follows, ScannerTypes, Marked
<1>2. LeavesIn = [i \in 1..nextIndex |-> NoteFeed[i]]
  BY <1>1 DEF LeavesIn
<1> QED
  BY <1>1, <1>2, FeedIs

LEMMA SumAmounts == \A S : Sum(S) = SumOf(AmountOf, S)
BY DEF Sum, SumOf

LEMMA InvariantCovers ==
  ASSUME ScannerInv
  PROVE  SelectionCovers
<1>1. \A n \in DOMAIN owned : owned[n].spent => n \in revealed
  BY DEF ScannerInv, Marked
<1>2. ASSUME NEW amount \in 1..Balance
      PROVE  /\ Sum(Select(amount)) >= amount
             /\ \A other \in SUBSET Unspent :
                  Sum(other) >= amount => Cardinality(Select(amount)) <= Cardinality(other)
  <2> DEFINE U == Unspent
  <2>1. U \subseteq Mine /\ IsFiniteSet(U)
    <3>1. U \subseteq Mine
      BY DEF Unspent, ScannerInv, ScannerTypes
    <3> HIDE DEF U
    <3> QED
      BY <3>1, MineFinite, FS_Subset
  <2>2. /\ \A x \in U : AmountOf[x] \in Nat /\ TieOf[x] \in Nat
        /\ \A x, y \in U : TieOf[x] = TieOf[y] => x = y
    BY <2>1, ScannerAssumption DEF IsInjective
  <2>3. SumOf(AmountOf, U) \in Nat /\ Balance = SumOf(AmountOf, U)
    <3>1. Balance = SumOf(AmountOf, U)
      BY SumAmounts DEF Balance
    <3> HIDE DEF U
    <3>2. SumOf(AmountOf, U) \in Nat
      <4>1. \A x \in U : AmountOf[x] \in Nat
        BY <2>2
      <4> QED
        BY <2>1, <4>1, SumType
    <3> QED
      BY <3>1, <3>2
  <2>4. amount \in Nat \ {0} /\ amount <= SumOf(AmountOf, U)
    BY <2>3
  <2>5. Select(amount) = Taken(AmountOf, TieOf, U, amount)
    <3>1. \A n \in U : {m \in Unspent : Before(m, n)} = Larger(AmountOf, TieOf, U, n)
      <4> SUFFICES ASSUME NEW n \in U, NEW m \in U
                   PROVE  Before(m, n) <=> Ahead(AmountOf, TieOf, m, n)
        BY DEF Larger
      <4> QED
        BY <2>2 DEF Before, Ahead
    <3>2. \A n \in U : Sum({m \in Unspent : Before(m, n)}) = SumOf(AmountOf, Larger(AmountOf, TieOf, U, n))
      <4> TAKE n \in U
      <4>1. {m \in Unspent : Before(m, n)} = Larger(AmountOf, TieOf, U, n)
        BY <3>1
      <4>2. Sum({m \in Unspent : Before(m, n)}) = Sum(Larger(AmountOf, TieOf, U, n))
        BY <4>1, Zenon
      <4> QED
        BY <4>2, SumAmounts
    <3> QED
      BY <3>2 DEF Select, Taken
  <2> HIDE DEF U
  <2>6. /\ SumOf(AmountOf, Taken(AmountOf, TieOf, U, amount)) >= amount
        /\ \A O \in SUBSET U : SumOf(AmountOf, O) >= amount =>
             Cardinality(Taken(AmountOf, TieOf, U, amount)) <= Cardinality(O)
    BY <2>1, <2>2, <2>4, LargestFirst
  <2>7. Sum(Select(amount)) >= amount
    <3>1. Sum(Select(amount)) = Sum(Taken(AmountOf, TieOf, U, amount))
      BY <2>5, Zenon
    <3> QED
      BY <2>6, <3>1, SumAmounts
  <2>8. ASSUME NEW other \in SUBSET Unspent, Sum(other) >= amount
        PROVE  Cardinality(Select(amount)) <= Cardinality(other)
    <3>1. other \in SUBSET U /\ SumOf(AmountOf, other) >= amount
      BY <2>8, SumAmounts DEF U
    <3>2. Cardinality(Taken(AmountOf, TieOf, U, amount)) <= Cardinality(other)
      BY <2>6, <3>1
    <3>3. Cardinality(Select(amount)) = Cardinality(Taken(AmountOf, TieOf, U, amount))
      BY <2>5, Zenon
    <3> QED
      BY <3>2, <3>3
  <2> QED
    BY <2>7, <2>8
<1> QED
  BY <1>1, <1>2 DEF SelectionCovers

(* While one sync runs at a time the tree and the owned notes are the feed's, only
   spent notes are hidden, and a selection covers its amount with the fewest notes:
   for every feed, key, amounts (equal or not, zero or not), order the sort gives
   equal ones, and number of concurrent calls. *)
THEOREM ScannerAlwaysExact == ScannerSpec => []ScannerExact
<1>1. ScannerInv => ScannerExact
  BY InvariantFollows, InvariantCovers DEF ScannerExact
<1> QED
  BY <1>1, ScannerInvariant, PTL

-----------------------------------------------------------------------------
(* The aggregation tree.                                                   *)

\* What a path makes of a leaf.
Leaf(statement, index, width) ==
  [hash |-> HashedLeaf(statement), position |-> index, width |-> width]
Climbed(base, path) == FoldLeft(MerkleStep, base, path)

Climb(base, path) == [of |-> "path", base |-> base, seq |-> path]

LEMMA ClimbedIs ==
  ASSUME NEW base, NEW n \in Nat, NEW path, DOMAIN path = 1..n
  PROVE  /\ Climbed(base, path) = Fold(Climb(base, path), n)[1..n]
         /\ Fold(Climb(base, path), n)[1..0] = base
         /\ \A i \in 1..n : Fold(Climb(base, path), n)[1..i] =
              MerkleStep(Fold(Climb(base, path), n)[1..(i - 1)], path[i])
<1> DEFINE h == Climb(base, path)
<1>1. Climbed(base, path) = Fold(h, n)[1..n]
  BY DEF Climbed, FoldLeft, MapThenFoldSet, Fold, Folds, FoldStep, Climb
<1>2. /\ Fold(h, n)[{}] = h.base
      /\ \A i \in 1..n : Fold(h, n)[1..i] = FoldStep(h, Fold(h, n)[1..(i - 1)], i)
  <2> HIDE DEF h
  <2> QED
    BY FoldLeftIs
<1>3. h.base = base /\ 1..0 = {}
  BY DEF Climb
<1>4. \A v, i : FoldStep(h, v, i) = MerkleStep(v, path[i])
  <2>1. h.of = "path" /\ h.seq = path
    BY DEF Climb
  <2> HIDE DEF h
  <2>2. \A v, i : FoldStep(h, v, i) = MerkleStep(v, h.seq[i])
    BY <2>1 DEF FoldStep
  <2> QED
    BY <2>1, <2>2
<1> HIDE DEF h
<1>5. \A i \in 1..n : Fold(h, n)[1..i] = MerkleStep(Fold(h, n)[1..(i - 1)], path[i])
  BY <1>2, <1>4
<1>6. Fold(h, n)[1..0] = base
  BY <1>2, <1>3
<1> QED
  BY <1>1, <1>5, <1>6 DEF h

LEMMA ClimbNothing ==
  ASSUME NEW base
  PROVE  Climbed(base, <<>>) = base
<1>1. DOMAIN <<>> = 1..0 /\ 0 \in Nat
  OBVIOUS
<1> QED
  BY <1>1, ClimbedIs

LEMMA ClimbOneMore ==
  ASSUME NEW base, NEW n \in Nat, NEW p, DOMAIN p = 1..n, NEW q, DOMAIN q = 1..(n + 1),
         \A i \in 1..n : q[i] = p[i]
  PROVE  Climbed(base, q) = MerkleStep(Climbed(base, p), q[n + 1])
<1> DEFINE f(i) == Fold(Climb(base, p), n)[1..i]
           g(i) == Fold(Climb(base, q), n + 1)[1..i]
           Bad == {i \in 0..n : f(i) # g(i)}
<1>1. /\ Climbed(base, p) = f(n) /\ f(0) = base
      /\ \A i \in 1..n : f(i) = MerkleStep(f(i - 1), p[i])
  BY ClimbedIs
<1>2. /\ Climbed(base, q) = g(n + 1) /\ g(0) = base
      /\ \A i \in 1..(n + 1) : g(i) = MerkleStep(g(i - 1), q[i])
  <2>1. n + 1 \in Nat
    OBVIOUS
  <2> QED
    BY <2>1, ClimbedIs
<1> HIDE DEF f, g
<1>3. f(n) = g(n)
  <2> SUFFICES ASSUME f(n) # g(n)
               PROVE  FALSE
    OBVIOUS
  <2>1. Bad # {} /\ Bad \subseteq Nat
    OBVIOUS
  <2>2. PICK m \in Bad : \A i \in Bad : m <= i
    <3> HIDE DEF Bad
    <3> QED
      BY <2>1, SmallestNumber
  <2>3. m \in 0..n /\ f(m) # g(m)
    OBVIOUS
  <2>4. m # 0
    BY <1>1, <1>2, <2>3
  <2>5. m \in 1..n /\ m \in 1..(n + 1) /\ m - 1 \in 0..n /\ ~(m <= m - 1)
    BY <2>3, <2>4
  <2>6. f(m - 1) = g(m - 1)
    BY <2>2, <2>5
  <2>7. f(m) = MerkleStep(f(m - 1), p[m]) /\ g(m) = MerkleStep(g(m - 1), q[m])
    BY <1>1, <1>2, <2>5
  <2> QED
    BY <2>3, <2>5, <2>6, <2>7
<1>4. n + 1 \in 1..(n + 1) /\ (n + 1) - 1 = n
  OBVIOUS
<1>5. g(n + 1) = MerkleStep(g(n), q[n + 1])
  BY <1>2, <1>4
<1> QED
  BY <1>1, <1>2, <1>3, <1>5

\* The widths of the levels: each half the one below, rounded up, and one at the top.
WidthAt(statements, l) == Len(AggregationLevels(statements)[l])

LEMMA LevelIs ==
  ASSUME NEW level, Len(level) \in Nat
  PROVE  Len(Combined(level)) = (Len(level) + 1) \div 2
<1> DEFINE n == (Len(level) + 1) \div 2
           c == Combined(level)
<1>1. n \in Nat
  OBVIOUS
<1>2. c \in [1..n -> {c[i] : i \in 1..n}]
  BY DEF Combined
<1> HIDE DEF c, n
<1>3. Len(c) = n
  BY <1>1, <1>2
<1> QED
  BY <1>3 DEF c, n

LEMMA WidthsAt ==
  ASSUME NEW statements, Len(statements) \in Nat \ {0}, DOMAIN statements = 1..Len(statements)
  PROVE  /\ WidthAt(statements, 0) = Len(statements)
         /\ \A l \in 0..MaxPathLength : WidthAt(statements, l) \in Nat \ {0}
         /\ \A l \in 1..MaxPathLength :
              WidthAt(statements, l) = (WidthAt(statements, l - 1) + 1) \div 2
<1> DEFINE levels == AggregationLevels(statements)
           N == Len(statements)
           W(l) == Len(levels[l])
           Bad == {l \in 0..MaxPathLength : W(l) \notin Nat \ {0}}
<1>1. /\ levels[0] = [i \in DOMAIN statements |-> HashedLeaf(statements[i])]
      /\ \A l \in 1..MaxPathLength : levels[l] = Combined(levels[l - 1])
  BY AggregationLevelsIs
<1> HIDE DEF levels
<1>2. W(0) = N
  <2> HIDE DEF N
  <2>1. N \in Nat /\ DOMAIN statements = 1..N
    BY DEF N
  <2>2. levels[0] \in [1..N -> {HashedLeaf(statements[i]) : i \in 1..N}]
    BY <1>1, <2>1
  <2> QED
    BY <2>1, <2>2
<1>3. \A l \in 1..MaxPathLength : W(l - 1) \in Nat => W(l) = (W(l - 1) + 1) \div 2
  BY <1>1, LevelIs
<1> HIDE DEF W
<1>4. Bad = {}
  <2> SUFFICES ASSUME Bad # {}
               PROVE  FALSE
    OBVIOUS
  <2>1. Bad \subseteq Nat /\ MaxPathLength \in Nat
    BY DepthAssumption
  <2>2. PICK m \in Bad : \A l \in Bad : m <= l
    <3> HIDE DEF Bad
    <3> QED
      BY <2>1, SmallestNumber
  <2>3. m \in 0..MaxPathLength /\ W(m) \notin Nat \ {0}
    OBVIOUS
  <2>4. m # 0
    BY <1>2, <2>3
  <2>5. m \in 1..MaxPathLength /\ m - 1 \in 0..MaxPathLength /\ ~(m <= m - 1)
    BY <2>1, <2>3, <2>4
  <2>6. W(m - 1) \in Nat \ {0}
    BY <2>2, <2>5
  <2>7. W(m) = (W(m - 1) + 1) \div 2
    BY <1>3, <2>5, <2>6
  <2> QED
    BY <2>3, <2>6, <2>7
<1>5. \A l \in 1..MaxPathLength : l - 1 \in 0..MaxPathLength
  BY DepthAssumption
<1>6. /\ W(0) = N /\ \A l \in 0..MaxPathLength : W(l) \in Nat \ {0}
      /\ \A l \in 1..MaxPathLength : W(l) = (W(l - 1) + 1) \div 2
  BY <1>2, <1>3, <1>4, <1>5
<1> QED
  BY <1>6 DEF W, levels, WidthAt

LEMMA WidthAtTop ==
  ASSUME NEW statements, Len(statements) \in Nat \ {0}, DOMAIN statements = 1..Len(statements),
         Len(statements) <= 2 ^ MaxPathLength
  PROVE  WidthAt(statements, MaxPathLength) = 1
<1> DEFINE W(l) == WidthAt(statements, l)
           D(l) == 2 ^ (MaxPathLength - l)
           Bad == {l \in 0..MaxPathLength : ~(W(l) <= D(l))}
<1>0. MaxPathLength \in Nat /\ Depth \in Nat
  BY DepthAssumption
<1>1. /\ W(0) = Len(statements) /\ \A l \in 0..MaxPathLength : W(l) \in Nat \ {0}
      /\ \A l \in 1..MaxPathLength : W(l) = (W(l - 1) + 1) \div 2
  BY WidthsAt
<1>2. \A l \in 0..MaxPathLength : D(l) \in Nat \ {0}
  <2>1. \A l \in 0..MaxPathLength : MaxPathLength - l \in 0..(Depth + MaxPathLength)
    BY <1>0
  <2> QED
    BY <2>1, Powers
<1>3. \A l \in 1..MaxPathLength : D(l - 1) = 2 * D(l)
  <2> TAKE l \in 1..MaxPathLength
  <2>1. MaxPathLength - (l - 1) \in 1..(Depth + MaxPathLength)
        /\ (MaxPathLength - (l - 1)) - 1 = MaxPathLength - l
    BY <1>0
  <2> QED
    BY <2>1, Power
<1>4. W(0) <= D(0) /\ D(MaxPathLength) = 1
  <2>1. MaxPathLength - 0 = MaxPathLength /\ MaxPathLength - MaxPathLength = 0
    BY <1>0
  <2> QED
    BY <1>1, <2>1, PowersOfTwo
<1> HIDE DEF W, D
<1>5. Bad = {}
  <2> SUFFICES ASSUME Bad # {}
               PROVE  FALSE
    OBVIOUS
  <2>1. PICK m \in Bad : \A l \in Bad : m <= l
    <3>1. Bad \subseteq Nat
      BY <1>0
    <3> HIDE DEF Bad
    <3> QED
      BY <3>1, SmallestNumber
  <2>2. m \in 0..MaxPathLength /\ ~(W(m) <= D(m))
    OBVIOUS
  <2>3. m # 0
    BY <1>4, <2>2
  <2>4. m \in 1..MaxPathLength /\ m - 1 \in 0..MaxPathLength /\ ~(m <= m - 1)
    BY <1>0, <2>2, <2>3
  <2>5. W(m - 1) <= D(m - 1)
    BY <2>1, <2>4
  <2>6. /\ W(m) = (W(m - 1) + 1) \div 2 /\ D(m - 1) = 2 * D(m)
        /\ W(m - 1) \in Nat /\ D(m) \in Nat
    BY <1>1, <1>2, <1>3, <2>4
  <2> QED
    BY <2>2, <2>5, <2>6
<1>6. MaxPathLength \in 0..MaxPathLength
  BY <1>0
<1>7. W(MaxPathLength) = 1
  BY <1>1, <1>4, <1>5, <1>6
<1> QED
  BY <1>7 DEF W

\* The node above a leaf at a level, and what is there one level up.
Node(statements, i, l) == AggregationLevels(statements)[l][Above(i, l) + 1]

LEMMA PlaceInside ==
  ASSUME NEW statements, Len(statements) \in Nat \ {0}, DOMAIN statements = 1..Len(statements),
         NEW i \in 0..(Len(statements) - 1)
  PROVE  \A l \in 0..MaxPathLength : Above(i, l) \in Nat /\ Above(i, l) < WidthAt(statements, l)
<1> DEFINE W(l) == WidthAt(statements, l)
           P(l) == Above(i, l)
           Bad == {l \in 0..MaxPathLength : ~(P(l) \in Nat /\ P(l) < W(l))}
<1>0. MaxPathLength \in Nat /\ Depth \in Nat /\ i \in Nat
  BY DepthAssumption
<1>1. /\ W(0) = Len(statements) /\ \A l \in 0..MaxPathLength : W(l) \in Nat \ {0}
      /\ \A l \in 1..MaxPathLength : W(l) = (W(l - 1) + 1) \div 2
  BY WidthsAt
<1>2. P(0) = i /\ \A l \in 1..MaxPathLength : P(l) = P(l - 1) \div 2
  <2>1. \A l \in 1..MaxPathLength : l \in 1..(Depth + MaxPathLength)
    BY <1>0
  <2> QED
    BY <1>0, <2>1, AboveIs, AboveLeaf
<1> HIDE DEF W, P
<1>3. Bad = {}
  <2> SUFFICES ASSUME Bad # {}
               PROVE  FALSE
    OBVIOUS
  <2>1. PICK m \in Bad : \A l \in Bad : m <= l
    <3>1. Bad \subseteq Nat
      BY <1>0
    <3> HIDE DEF Bad
    <3> QED
      BY <3>1, SmallestNumber
  <2>2. m \in 0..MaxPathLength /\ ~(P(m) \in Nat /\ P(m) < W(m))
    OBVIOUS
  <2>3. m # 0
    BY <1>0, <1>1, <1>2, <2>2
  <2>4. m \in 1..MaxPathLength /\ m - 1 \in 0..MaxPathLength /\ ~(m <= m - 1)
    BY <1>0, <2>2, <2>3
  <2>5. P(m - 1) \in Nat /\ P(m - 1) < W(m - 1) /\ W(m - 1) \in Nat
    BY <1>1, <2>1, <2>4
  <2>6. W(m) = (W(m - 1) + 1) \div 2 /\ P(m) = P(m - 1) \div 2
    BY <1>1, <1>2, <2>4
  <2> QED
    BY <2>2, <2>5, <2>6
<1> QED
  BY <1>3 DEF W, P

\* One level up: the hash with the sibling on its side, or the node carried.
LEMMA NodeAbove ==
  ASSUME NEW statements, Len(statements) \in Nat \ {0}, DOMAIN statements = 1..Len(statements),
         NEW i \in 0..(Len(statements) - 1), NEW l \in 1..MaxPathLength
  PROVE  LET p == Above(i, l - 1)
             w == WidthAt(statements, l - 1)
             sibling == AggregationLevels(statements)[l - 1][SiblingOf(p) + 1] IN
         /\ p \in Nat /\ w \in Nat /\ p < w
         /\ Above(i, l) = p \div 2 /\ WidthAt(statements, l) = (w + 1) \div 2
         /\ SiblingOf(p) < w =>
              Node(statements, i, l) =
                IF IsRight(p) THEN Hash(sibling, Node(statements, i, l - 1))
                ELSE Hash(Node(statements, i, l - 1), sibling)
         /\ ~(SiblingOf(p) < w) =>
              p + 1 = w /\ ~IsRight(p) /\ Node(statements, i, l) = Node(statements, i, l - 1)
<1> DEFINE p == Above(i, l - 1)
           w == WidthAt(statements, l - 1)
           level == AggregationLevels(statements)[l - 1]
           q == p \div 2
<1>0. l - 1 \in 0..MaxPathLength /\ l \in 0..MaxPathLength /\ l \in 1..(Depth + MaxPathLength)
      /\ i \in Nat
  BY DepthAssumption
<1>1. p \in Nat /\ w \in Nat /\ p < w /\ w = Len(level)
  BY <1>0, PlaceInside, WidthsAt DEF WidthAt
<1>2. Above(i, l) = q /\ WidthAt(statements, l) = (w + 1) \div 2
  BY <1>0, AboveIs, WidthsAt
<1>3. AggregationLevels(statements)[l] = Combined(level)
  BY AggregationLevelsIs
<1>4. Node(statements, i, l) = Combined(level)[q + 1] /\ Node(statements, i, l - 1) = level[p + 1]
  BY <1>2, <1>3 DEF Node
<1> HIDE DEF p, w, level
<1>5. q \in Nat /\ q + 1 \in 1..((w + 1) \div 2)
  BY <1>1
<1>6. Combined(level)[q + 1] =
        IF 2 * (q + 1) <= w THEN Hash(level[2 * (q + 1) - 1], level[2 * (q + 1)]) ELSE level[w]
  BY <1>1, <1>5 DEF Combined
<1>7. CASE IsRight(p)
  <2>1. /\ p = 2 * q + 1 /\ SiblingOf(p) = p - 1 /\ SiblingOf(p) < w
        /\ 2 * (q + 1) <= w /\ 2 * (q + 1) - 1 = SiblingOf(p) + 1 /\ 2 * (q + 1) = p + 1
    BY <1>1, <1>7 DEF IsRight, SiblingOf
  <2>2. Node(statements, i, l) = Hash(level[SiblingOf(p) + 1], level[p + 1])
    BY <1>4, <1>6, <2>1
  <2> QED
    BY <1>1, <1>2, <1>4, <1>7, <2>1, <2>2 DEF p, w, level
<1>8. CASE ~IsRight(p) /\ SiblingOf(p) < w
  <2>1. /\ p = 2 * q /\ SiblingOf(p) = p + 1
        /\ 2 * (q + 1) <= w /\ 2 * (q + 1) - 1 = p + 1 /\ 2 * (q + 1) = SiblingOf(p) + 1
    BY <1>1, <1>8 DEF IsRight, SiblingOf
  <2>2. Node(statements, i, l) = Hash(level[p + 1], level[SiblingOf(p) + 1])
    BY <1>4, <1>6, <2>1
  <2> QED
    BY <1>1, <1>2, <1>4, <1>8, <2>1, <2>2 DEF p, w, level
<1>9. CASE ~IsRight(p) /\ ~(SiblingOf(p) < w)
  <2>1. p = 2 * q /\ SiblingOf(p) = p + 1 /\ p + 1 = w /\ ~(2 * (q + 1) <= w)
    BY <1>1, <1>9 DEF IsRight, SiblingOf
  <2>2. Node(statements, i, l) = level[p + 1]
    BY <1>4, <1>6, <2>1
  <2> QED
    BY <1>1, <1>2, <1>4, <1>9, <2>1, <2>2 DEF p, w, level
<1> QED
  BY <1>7, <1>8, <1>9

\* After the siblings below a level, the contract's fold of any statement is at the
\* node's place, or both are at the end of their levels; and it has the node's hash
\* only for the statement at the leaf.
AtPlace(statements, i, l, position, width) ==
  \/ position = Above(i, l) /\ width = WidthAt(statements, l)
  \/ position + 1 = width /\ Above(i, l) + 1 = WidthAt(statements, l)

Follow(statements, i, l, statement) ==
  LET acc == Climbed(Leaf(statement, i, Len(statements)), SiblingsUpTo(statements, i)[l]) IN
  /\ acc.position \in Nat /\ acc.width \in Nat
  /\ AtPlace(statements, i, l, acc.position, acc.width)
  /\ acc.hash = Node(statements, i, l) <=> statement = statements[i + 1]

LEMMA FollowStart ==
  ASSUME NEW statements, Len(statements) \in Nat \ {0}, DOMAIN statements = 1..Len(statements),
         NEW i \in 0..(Len(statements) - 1), NEW statement
  PROVE  Follow(statements, i, 0, statement)
<1> DEFINE acc == Leaf(statement, i, Len(statements))
<1>1. Climbed(acc, SiblingsUpTo(statements, i)[0]) = acc
  <2>1. SiblingsUpTo(statements, i)[0] = <<>>
    BY InclusionPathIs
  <2> QED
    BY <2>1, ClimbNothing
<1>2. i \in Nat /\ i + 1 \in DOMAIN statements /\ Above(i, 0) = i
  BY AboveLeaf
<1>3. acc.position = i /\ acc.width = Len(statements) /\ acc.hash = HashedLeaf(statement)
  BY DEF Leaf
<1>4. WidthAt(statements, 0) = Len(statements)
  BY WidthsAt
<1>5. Node(statements, i, 0) = HashedLeaf(statements[i + 1])
  <2> DEFINE level == AggregationLevels(statements)[0]
  <2>1. level = [j \in DOMAIN statements |-> HashedLeaf(statements[j])]
    BY AggregationLevelsIs
  <2>2. Node(statements, i, 0) = level[i + 1]
    BY <1>2 DEF Node
  <2> HIDE DEF level
  <2> QED
    BY <1>2, <2>1, <2>2
<1>6. HashedLeaf(statement) = HashedLeaf(statements[i + 1]) <=> statement = statements[i + 1]
  BY DEF HashedLeaf
<1> HIDE DEF acc
<1>7. acc.position \in Nat /\ acc.width \in Nat
  BY <1>2, <1>3
<1>8. AtPlace(statements, i, 0, acc.position, acc.width)
  BY <1>2, <1>3, <1>4 DEF AtPlace
<1> QED
  BY <1>1, <1>3, <1>5, <1>6, <1>7, <1>8 DEF Follow, acc

\* One level up, in numbers: where the node and the fold are, before and after.
LEMMA PlaceAbove ==
  ASSUME NEW p \in Nat, NEW w \in Nat, p < w, NEW position \in Nat, NEW width \in Nat,
         (position = p /\ width = w) \/ (position + 1 = width /\ p + 1 = w)
  PROVE  /\ SiblingOf(p) < w =>
              /\ position \div 2 \in Nat /\ (width - 1) \div 2 + 1 \in Nat
              /\ (IsRight(position) \/ position + 1 = width) <=> IsRight(p)
              /\ \/ /\ position \div 2 = p \div 2
                    /\ (width - 1) \div 2 + 1 = (w + 1) \div 2
                 \/ /\ (position \div 2) + 1 = (width - 1) \div 2 + 1
                    /\ (p \div 2) + 1 = (w + 1) \div 2
         /\ p + 1 = w /\ ~IsRight(p) =>
              position + 1 = width /\ (p \div 2) + 1 = (w + 1) \div 2
<1>1. CASE position = p /\ width = w
  BY <1>1 DEF SiblingOf, IsRight
<1>2. CASE position + 1 = width /\ p + 1 = w
  BY <1>2 DEF SiblingOf, IsRight
<1> QED
  BY <1>1, <1>2

LEMMA FollowUp ==
  ASSUME NEW statements, Len(statements) \in Nat \ {0}, DOMAIN statements = 1..Len(statements),
         NEW i \in 0..(Len(statements) - 1), NEW l \in 1..MaxPathLength,
         NEW n \in Nat, DOMAIN SiblingsUpTo(statements, i)[l - 1] = 1..n,
         NEW S, SiblingsUpTo(statements, i)[l - 1] \in Seq(S),
         NEW statement, Follow(statements, i, l - 1, statement)
  PROVE  Follow(statements, i, l, statement)
<1> DEFINE p == Above(i, l - 1)
           w == WidthAt(statements, l - 1)
           x == AggregationLevels(statements)[l - 1][SiblingOf(p) + 1]
           base == Leaf(statement, i, Len(statements))
           below == SiblingsUpTo(statements, i)[l - 1]
           path == SiblingsUpTo(statements, i)[l]
           old == Climbed(base, below)
           acc == Climbed(base, path)
           node == Node(statements, i, l - 1)
           up == Node(statements, i, l)
<1>1. /\ p \in Nat /\ w \in Nat /\ p < w
      /\ Above(i, l) = p \div 2 /\ WidthAt(statements, l) = (w + 1) \div 2
      /\ SiblingOf(p) < w => up = IF IsRight(p) THEN Hash(x, node) ELSE Hash(node, x)
      /\ ~(SiblingOf(p) < w) => p + 1 = w /\ ~IsRight(p) /\ up = node
  BY NodeAbove
<1>2. /\ old.position \in Nat /\ old.width \in Nat
      /\ (old.position = p /\ old.width = w) \/ (old.position + 1 = old.width /\ p + 1 = w)
      /\ old.hash = node <=> statement = statements[i + 1]
  BY DEF Follow, AtPlace
<1>3. path = below \o (IF SiblingOf(p) < w THEN <<x>> ELSE <<>>)
  BY InclusionPathIs DEF WidthAt
<1>4. DOMAIN below = 1..n /\ below \in Seq(S) /\ Len(below) = n
  <2>1. DOMAIN below = 1..n /\ below \in Seq(S)
    OBVIOUS
  <2> HIDE DEF below
  <2> QED
    BY <2>1
<1> HIDE DEF p, w, x, base, node, up, below, path
<1>5. CASE SiblingOf(p) < w
  <2>1. path = below \o <<x>>
    BY <1>3, <1>5
  <2>2. DOMAIN path = 1..(n + 1) /\ path[n + 1] = x /\ \A j \in 1..n : path[j] = below[j]
    <3>1. below \in Seq(S \cup {x}) /\ <<x>> \in Seq(S \cup {x})
      BY <1>4
    <3> QED
      BY <1>4, <2>1, <3>1
  <2>3. acc = MerkleStep(old, x)
    BY <1>4, <2>2, ClimbOneMore
  <2> HIDE DEF acc, old
  <2>4. /\ acc.position = old.position \div 2
        /\ acc.width = (old.width - 1) \div 2 + 1
        /\ acc.hash = IF IsRight(old.position) \/ old.position + 1 = old.width
                      THEN Hash(x, old.hash) ELSE Hash(old.hash, x)
    BY <2>3 DEF MerkleStep
  <2>5. /\ old.position \div 2 \in Nat /\ (old.width - 1) \div 2 + 1 \in Nat
        /\ (IsRight(old.position) \/ old.position + 1 = old.width) <=> IsRight(p)
        /\ \/ /\ old.position \div 2 = p \div 2
              /\ (old.width - 1) \div 2 + 1 = (w + 1) \div 2
           \/ /\ (old.position \div 2) + 1 = (old.width - 1) \div 2 + 1
              /\ (p \div 2) + 1 = (w + 1) \div 2
    <3> DEFINE a == old.position
               b == old.width
    <3>1. a \in Nat /\ b \in Nat /\ ((a = p /\ b = w) \/ (a + 1 = b /\ p + 1 = w))
      BY <1>2
    <3> HIDE DEF a, b
    <3>2. /\ a \div 2 \in Nat /\ (b - 1) \div 2 + 1 \in Nat
          /\ (IsRight(a) \/ a + 1 = b) <=> IsRight(p)
          /\ \/ /\ a \div 2 = p \div 2
                /\ (b - 1) \div 2 + 1 = (w + 1) \div 2
             \/ /\ (a \div 2) + 1 = (b - 1) \div 2 + 1
                /\ (p \div 2) + 1 = (w + 1) \div 2
      BY <1>1, <1>5, <3>1, PlaceAbove
    <3> QED
      BY <3>2 DEF a, b
  <2>6. acc.hash = up <=> old.hash = node
    <3>1. acc.hash = IF IsRight(p) THEN Hash(x, old.hash) ELSE Hash(old.hash, x)
      BY <2>4, <2>5
    <3>2. up = IF IsRight(p) THEN Hash(x, node) ELSE Hash(node, x)
      BY <1>1, <1>5
    <3>3. /\ Hash(x, old.hash) = Hash(x, node) <=> old.hash = node
          /\ Hash(old.hash, x) = Hash(node, x) <=> old.hash = node
      BY DEF Hash
    <3> QED
      BY <3>1, <3>2, <3>3
  <2>7. acc.position \in Nat /\ acc.width \in Nat
    BY <2>4, <2>5
  <2>8. AtPlace(statements, i, l, acc.position, acc.width)
    BY <1>1, <2>4, <2>5 DEF AtPlace
  <2> QED
    BY <1>2, <2>6, <2>7, <2>8 DEF Follow, acc, path, base, up
<1>6. CASE ~(SiblingOf(p) < w)
  <2>1. path = below
    <3>1. path = below \o <<>>
      BY <1>3, <1>6
    <3> QED
      BY <1>4, <3>1
  <2>2. acc = old /\ up = node
    BY <1>1, <1>6, <2>1
  <2>3. old.position + 1 = old.width /\ (p \div 2) + 1 = (w + 1) \div 2
    BY <1>1, <1>2, <1>6, PlaceAbove
  <2> HIDE DEF acc, old
  <2>4. AtPlace(statements, i, l, acc.position, acc.width)
    BY <1>1, <2>2, <2>3 DEF AtPlace
  <2> QED
    BY <1>2, <2>2, <2>4 DEF Follow, acc, path, base, up
<1> QED
  BY <1>5, <1>6

\* A path accepts the statement at its leaf, and no other.
LEMMA PathAccepts ==
  ASSUME NEW statements, Len(statements) \in Nat \ {0}, DOMAIN statements = 1..Len(statements),
         Len(statements) <= 2 ^ MaxPathLength,
         NEW i \in 0..(Len(statements) - 1), NEW statement
  PROVE  ComputeAggregationRoot(statement, InclusionPath(statements, i), i, Len(statements))
           = AggregationRoot(statements)
         <=> statement = statements[i + 1]
<1> DEFINE P(l) == SiblingsUpTo(statements, i)[l]
           Good(l) == /\ \E S : P(l) \in Seq(S)
                      /\ Follow(statements, i, l, statement)
           Bad == {l \in 0..MaxPathLength : ~Good(l)}
<1>0. MaxPathLength \in Nat
  BY DepthAssumption
<1>1. Good(0)
  <2>1. P(0) = <<>>
    BY InclusionPathIs
  <2>2. <<>> \in Seq({})
    OBVIOUS
  <2>3. Follow(statements, i, 0, statement)
    BY FollowStart
  <2> QED
    BY <2>1, <2>2, <2>3
<1>2. ASSUME NEW l \in 1..MaxPathLength, Good(l - 1)
      PROVE  Good(l)
  <2>1. PICK S : P(l - 1) \in Seq(S)
    BY <1>2
  <2> DEFINE n == Len(P(l - 1))
  <2>2. n \in Nat /\ DOMAIN P(l - 1) = 1..n
    BY <2>1
  <2>3. Follow(statements, i, l, statement)
    <3> HIDE DEF n
    <3> QED
      BY <1>2, <2>1, <2>2, FollowUp
  <2> DEFINE s == SiblingOf(Above(i, l - 1))
             x == AggregationLevels(statements)[l - 1][s + 1]
             w == Len(AggregationLevels(statements)[l - 1])
  <2>4. P(l) = P(l - 1) \o (IF s < w THEN <<x>> ELSE <<>>)
    BY InclusionPathIs
  <2> HIDE DEF s, x, w, P
  <2>5. P(l) \in Seq(S \cup {x})
    <3>1. P(l - 1) \in Seq(S \cup {x}) /\ <<x>> \in Seq(S \cup {x}) /\ <<>> \in Seq(S \cup {x})
      BY <2>1
    <3>2. CASE s < w
      <4>1. P(l) = P(l - 1) \o <<x>>
        BY <2>4, <3>2
      <4> QED
        BY <3>1, <4>1
    <3>3. CASE ~(s < w)
      <4>1. P(l) = P(l - 1) \o <<>>
        BY <2>4, <3>3
      <4> QED
        BY <3>1, <4>1
    <3> QED
      BY <3>2, <3>3
  <2> QED
    BY <2>3, <2>5
<1> HIDE DEF Good
<1>3. Bad = {}
  <2> SUFFICES ASSUME Bad # {}
               PROVE  FALSE
    OBVIOUS
  <2>1. PICK m \in Bad : \A l \in Bad : m <= l
    <3>1. Bad \subseteq Nat
      BY <1>0
    <3> HIDE DEF Bad
    <3> QED
      BY <3>1, SmallestNumber
  <2>2. m \in 0..MaxPathLength /\ ~Good(m)
    OBVIOUS
  <2>3. m # 0
    BY <1>1, <2>2
  <2>4. m \in 1..MaxPathLength /\ m - 1 \in 0..MaxPathLength /\ ~(m <= m - 1)
    BY <1>0, <2>2, <2>3
  <2>5. Good(m - 1)
    BY <2>1, <2>4
  <2> QED
    BY <1>2, <2>2, <2>4, <2>5
<1>4. Follow(statements, i, MaxPathLength, statement)
  <2>1. MaxPathLength \in 0..MaxPathLength
    BY <1>0
  <2> QED
    BY <1>3, <2>1 DEF Good
<1>5. Node(statements, i, MaxPathLength) = AggregationRoot(statements)
  <2>1. Above(i, MaxPathLength) \in Nat /\ Above(i, MaxPathLength) < WidthAt(statements, MaxPathLength)
    BY <1>0, PlaceInside
  <2>2. WidthAt(statements, MaxPathLength) = 1
    BY WidthAtTop
  <2>3. Above(i, MaxPathLength) + 1 = 1
    BY <2>1, <2>2
  <2> QED
    BY <2>3 DEF Node, AggregationRoot
<1>6. InclusionPath(statements, i) = SiblingsUpTo(statements, i)[MaxPathLength]
  BY InclusionPathIs
<1>7. ComputeAggregationRoot(statement, InclusionPath(statements, i), i, Len(statements)) =
        Climbed(Leaf(statement, i, Len(statements)), SiblingsUpTo(statements, i)[MaxPathLength]).hash
  BY <1>6 DEF ComputeAggregationRoot, Climbed, Leaf
<1> QED
  BY <1>4, <1>5, <1>7 DEF Follow

LEMMA AggregationsAlwaysProve ==
  ASSUME aggregated \in 0..Len(Statements)
  PROVE  AggregationsProve
<1> DEFINE statements == SubSeq(Statements, 1, aggregated)
<1>1. Statements \in Seq(ToSet(Statements)) /\ Len(Statements) <= 2 ^ MaxPathLength
  BY ScannerAssumption
<1>2. 2 ^ MaxPathLength \in Nat
  <2>1. MaxPathLength \in 0..(Depth + MaxPathLength)
    BY DepthAssumption
  <2> QED
    BY <2>1, Powers
<1>3. /\ Len(statements) = aggregated /\ aggregated \in Nat /\ DOMAIN statements = 1..aggregated
      /\ aggregated <= 2 ^ MaxPathLength
  BY <1>1, <1>2
<1> HIDE DEF statements
<1>4. ASSUME NEW i \in 0..(aggregated - 1), NEW statement
      PROVE  ComputeAggregationRoot(statement, InclusionPath(statements, i), i, aggregated)
               = AggregationRoot(statements)
             <=> statement = statements[i + 1]
  <2>1. /\ Len(statements) \in Nat \ {0} /\ DOMAIN statements = 1..Len(statements)
        /\ Len(statements) <= 2 ^ MaxPathLength /\ i \in 0..(Len(statements) - 1)
    BY <1>3
  <2>2. ComputeAggregationRoot(statement, InclusionPath(statements, i), i, Len(statements))
          = AggregationRoot(statements)
        <=> statement = statements[i + 1]
    BY <2>1, PathAccepts
  <2> QED
    BY <1>3, <2>2
<1> QED
  BY <1>4 DEF AggregationsProve, statements

(* Whatever either tree hands out as a path proves its leaf and nothing else, for a
   commitment kept of any depth and an aggregation of any width (CommitmentTree against
   the circuits' asserts, merkle-step against zkVerify's kept). *)
THEOREM TreesAlwaysProve == ScannerSpec => []TreesProve
<1>1. ScannerInv => TreeInv
  BY LeavesAre DEF ScannerInv, TreeIsFull, TreeInv
<1>2. ScannerInv => PathsProve
  BY <1>1, PathsAlwaysProve
<1>3. ScannerInv => AggregationsProve
  BY AggregationsAlwaysProve DEF ScannerInv, ScannerTypes
<1>4. ScannerInv => TreesProve
  BY <1>2, <1>3 DEF TreesProve
<1> QED
  BY <1>4, ScannerInvariant, PTL
=============================================================================

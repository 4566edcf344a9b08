---------------------------- MODULE RelayerProofs ----------------------------
(***************************************************************************)
(* The relayer, for every set of jobs, operations and aggregations and any *)
(* number of incidents: its one nonce sequence, what it broadcasts for a   *)
(* job, and what the status endpoint answers.                              *)
(***************************************************************************)
EXTENDS Relayer, FiniteSetTheorems, SequenceTheorems, WellFoundedInduction, TLAPS

-----------------------------------------------------------------------------
(* The inductive invariant.                                                *)

InLine(a) == \E i \in 1..Len(line) : line[i] = a
Distinct(s) == \A i, j \in 1..Len(s) : s[i] = s[j] => i = j
Known == mempool \union ToSet(signed)

\* What the shared transaction manager and the node hold.
TxmTypes ==
  /\ nonce \in Nat \union {NoNonce}
  /\ line \in Seq(Actors) /\ Distinct(line)
  /\ wants \in [Actors -> Calls \union {NoCall}]
  /\ draft \in [Actors -> Transactions \union {NoTx}]
  /\ outcome \in [Actors -> {Pending, Threw} \union {TxidOf(tx) : tx \in Transactions}]
  /\ signed \in Seq(Transactions)
  /\ mempool \subseteq Transactions
  /\ mined \in Seq([call : Calls, ok : BOOLEAN])
  /\ faults \in Nat /\ drops \in Nat /\ restarts \in Nat /\ conflicts \in Nat

\* An actor in line has a call to make and no answer to read; only the head has
\* signed, under the counter's nonce.
Turns ==
  \A a \in Actors :
    /\ InLine(a) => wants[a] \in Calls /\ outcome[a] = Pending
    /\ draft[a] # NoTx => /\ MayProceed(a) /\ nonce # NoNonce
                          /\ draft[a] = [nonce |-> nonce, call |-> wants[a]]

\* The transactions the node and the manager hold have finitely many nonces.
Bounded == \E b \in Nat : \A tx \in Known : tx.nonce < b

\* Every nonce below n has been given out.
Reached(n) ==
  \/ n <= AccountNonce
  \/ nonce # NoNonce /\ n <= nonce
  \/ \E tx \in Known : n <= tx.nonce + 1

Gaps(n) == (AccountNonce..(n - 1)) \ NoncesInMempool

\* Nonces given out and held by nobody are those the node dropped.
GapsAreDrops == \A n \in Nat : Reached(n) => Cardinality(Gaps(n)) <= drops

\* While nothing has gone wrong the counter is above every nonce in use.
CounterLeads ==
  faults = 0 /\ drops = 0 /\ restarts = 0 =>
    /\ conflicts = 0
    /\ nonce = NoNonce => signed = <<>>
    /\ nonce # NoNonce => /\ nonce >= AccountNonce
                          /\ \A tx \in Known : tx.nonce < nonce

PublisherInv ==
  /\ todo \in [Publishers -> Seq(ToSet(VERIFIERS))]
  /\ publishing \in [Publishers -> Aggregations \union {NoAggregation}]
  /\ \A p \in Publishers :
       /\ todo[p] # <<>> => publishing[p] # NoAggregation
       /\ InLine(p) => wants[p] \in RootCalls
       /\ InLine(p) \/ outcome[p] # Pending => todo[p] # <<>>

Held(j) == running = j \/ \E i \in 1..Len(pending) : pending[i] = j

QueueTypes ==
  /\ jobs \in [Jobs -> [state : JobStates, tx : Transactions \union {NoTx}]]
  /\ request \in [Jobs -> Operations \union {NoJob}]
  /\ attempts \in [Jobs -> 0..MaxAttempts]
  /\ pending \in Seq(Jobs) /\ Distinct(pending)
  /\ dead \subseteq Jobs
  /\ running \in Jobs \union {NoJob}
  /\ windows \in 0..Rebroadcasts
  /\ IsFiniteSet({j \in Jobs : request[j] # NoJob})

\* A job is in one place at most: queued, with the worker, or done with.
Places ==
  /\ \A i \in 1..Len(pending) : pending[i] # running
  /\ \A j \in Jobs :
       /\ Held(j) => /\ request[j] # NoJob /\ attempts[j] < MaxAttempts
                     /\ jobs[j].state \notin Terminal /\ j \notin dead
       /\ request[j] = NoJob => jobs[j] = UnknownJob /\ attempts[j] = 0 /\ j \notin dead

\* What the worker submits, and what a job names, is the job's own operation.
OwnOperation ==
  /\ running = NoJob => ~InLine(Worker) /\ outcome[Worker] = Pending
  /\ InLine(Worker) => wants[Worker] = OpCall(request[running])
  /\ outcome[Worker].tag = "txid" => outcome[Worker].tx.call = OpCall(request[running])
  /\ \A j \in Jobs :
       /\ jobs[j].tx # NoTx => jobs[j].tx.call = OpCall(request[j])
       /\ jobs[j].state = "confirmed" => jobs[j].tx # NoTx /\ Succeeded(jobs[j].tx)

\* A job that cannot broadcast a new transaction unless something goes wrong.
IsSpent(j) ==
  /\ \A i \in 1..Len(pending) : pending[i] # j
  /\ running = j => ~InLine(Worker) /\ outcome[Worker] # Threw
SpentJobs(op) == {j \in Jobs : request[j] = op /\ IsSpent(j)}

\* Every nonce the operation can still be found or sent under.
Issued(op) ==
  {tx.nonce : tx \in {t \in Known : t.call = OpCall(op)}}
    \union {n \in 0..(AccountNonce - 1) : mined[n + 1].call = OpCall(op)}

Budget ==
  \A op \in Operations :
    Cardinality(Issued(op)) <= Cardinality(SpentJobs(op)) + faults + restarts

RelayerInv ==
  /\ TxmTypes /\ Turns /\ Bounded /\ GapsAreDrops /\ CounterLeads
  /\ PublisherInv /\ QueueTypes /\ Places /\ OwnOperation /\ Budget

-----------------------------------------------------------------------------
(* Sequences and numbers.                                                  *)

\* Removing the first occurrence of the head leaves the tail.
LEMMA RemoveHead ==
  ASSUME NEW S, NEW s \in Seq(S), s # <<>>
  PROVE  RemoveFirst(s, Head(s)) = Tail(s)
<1> DEFINE I == {i \in 1..Len(s) : s[i] = Head(s)}
<1>1. Len(s) \in Nat \ {0} /\ s[1] = Head(s)
  BY HeadTailProperties, LenProperties
<1>2. 1 \in I /\ I # {}
  BY <1>1
<1>3. Min(I) = 1
  BY <1>1, <1>2 DEF Min
<1>4. RemoveFirst(s, Head(s)) = RemoveAt(s, Min(I))
  BY <1>2 DEF RemoveFirst, SelectInSeq
<1> HIDE DEF I
<1>5. RemoveFirst(s, Head(s)) = SubSeq(s, 1, 0) \o SubSeq(s, 2, Len(s))
  BY <1>3, <1>4 DEF RemoveAt
<1>6. SubSeq(s, 1, 0) = <<>>
  BY SubSeqEmpty
<1>7. SubSeq(s, 2, Len(s)) = Tail(s) /\ Tail(s) \in Seq(S)
  BY <1>1, TailIsSubSeq, HeadTailProperties
<1> QED
  BY <1>5, <1>6, <1>7, ConcatEmptySeq

\* Taking the head out of a sequence without repetitions.
LEMMA TailDistinct ==
  ASSUME NEW S, NEW s \in Seq(S), s # <<>>, Distinct(s)
  PROVE  /\ Tail(s) \in Seq(S) /\ Distinct(Tail(s))
         /\ \A x : (\E i \in 1..Len(Tail(s)) : Tail(s)[i] = x)
                     <=> (\E i \in 1..Len(s) : s[i] = x) /\ x # Head(s)
<1>1. /\ Tail(s) \in Seq(S) /\ Len(Tail(s)) = Len(s) - 1
      /\ Len(s) \in Nat /\ Len(s) # 0
  BY HeadTailProperties, LenProperties
<1>2. \A i \in 1..Len(Tail(s)) : Tail(s)[i] = s[i + 1]
  BY HeadTailProperties
<1>3. Head(s) = s[1]
  OBVIOUS
<1>4. ASSUME NEW i \in 1..Len(s), s[i] # Head(s)
      PROVE  i - 1 \in 1..Len(Tail(s)) /\ Tail(s)[i - 1] = s[i]
  BY <1>1, <1>2, <1>3, <1>4
<1>5. ASSUME NEW i \in 1..Len(Tail(s)) PROVE i + 1 \in 1..Len(s) /\ s[i + 1] # Head(s)
  BY <1>1, <1>3 DEF Distinct
<1>6. Distinct(Tail(s))
  BY <1>1, <1>2, <1>5 DEF Distinct
<1> QED
  BY <1>1, <1>2, <1>4, <1>5, <1>6

LEMMA AppendDistinct ==
  ASSUME NEW S, NEW s \in Seq(S), Distinct(s), NEW e \in S,
         \A i \in 1..Len(s) : s[i] # e
  PROVE  /\ Append(s, e) \in Seq(S) /\ Distinct(Append(s, e))
         /\ \A x : (\E i \in 1..Len(Append(s, e)) : Append(s, e)[i] = x)
                     <=> (\E i \in 1..Len(s) : s[i] = x) \/ x = e
<1>1. /\ Append(s, e) \in Seq(S) /\ Len(Append(s, e)) = Len(s) + 1 /\ Len(s) \in Nat
      /\ Append(s, e)[Len(s) + 1] = e
      /\ \A i \in 1..Len(s) : Append(s, e)[i] = s[i]
  BY AppendProperties, LenProperties
<1>2. Len(s) + 1 \in 1..Len(Append(s, e))
  BY <1>1
<1>3. \A i \in 1..Len(Append(s, e)) : i \in 1..Len(s) \/ i = Len(s) + 1
  BY <1>1
<1>4. \A i \in 1..Len(s) : i \in 1..Len(Append(s, e))
  BY <1>1
<1>5. Distinct(Append(s, e))
  BY <1>1, <1>3 DEF Distinct
<1> QED
  BY <1>1, <1>2, <1>3, <1>4, <1>5

LEMMA ConsDistinct ==
  ASSUME NEW S, NEW s \in Seq(S), Distinct(s), NEW e \in S,
         \A i \in 1..Len(s) : s[i] # e
  PROVE  /\ <<e>> \o s \in Seq(S) /\ Distinct(<<e>> \o s)
         /\ \A x : (\E i \in 1..Len(<<e>> \o s) : (<<e>> \o s)[i] = x)
                     <=> (\E i \in 1..Len(s) : s[i] = x) \/ x = e
<1> DEFINE t == <<e>> \o s
<1>1. /\ t \in Seq(S) /\ Len(t) = Len(s) + 1 /\ Len(s) \in Nat
      /\ t[1] = e
      /\ \A i \in 1..Len(t) : i # 1 => t[i] = s[i - 1]
  <2>1. <<e>> \in Seq(S) /\ Len(<<e>>) = 1 /\ <<e>>[1] = e
    OBVIOUS
  <2>2. Len(s) \in Nat
    BY LenProperties
  <2> QED
    BY <2>1, <2>2, ConcatProperties
<1> HIDE DEF t
<1>2. \A i \in 1..Len(s) : i + 1 \in 1..Len(t) /\ t[i + 1] = s[i]
  BY <1>1
<1>3. \A i \in 1..Len(t) : i = 1 \/ i - 1 \in 1..Len(s)
  BY <1>1
<1>4. Distinct(t)
  <2> SUFFICES ASSUME NEW i \in 1..Len(t), NEW k \in 1..Len(t), t[i] = t[k] PROVE i = k
    BY DEF Distinct
  <2>1. CASE i = 1 \/ k = 1
    BY <1>1, <1>3, <2>1
  <2>2. CASE i # 1 /\ k # 1
    BY <1>1, <1>3, <2>2 DEF Distinct
  <2> QED
    BY <2>1, <2>2
<1>5. 1 \in 1..Len(t)
  BY <1>1
<1>6. \A x : (\E i \in 1..Len(t) : t[i] = x) <=> (\E i \in 1..Len(s) : s[i] = x) \/ x = e
  BY <1>1, <1>2, <1>3, <1>5, SMTT(30)
<1> QED
  BY <1>1, <1>4, <1>6 DEF t

\* A set of naturals with an upper bound has a greatest member.
LEMMA Greatest ==
  ASSUME NEW S, S \subseteq Nat, S # {}, NEW b \in Nat, \A n \in S : n < b
  PROVE  \E top \in S : \A m \in S : m <= top
<1> DEFINE Above == {c \in Nat : \A n \in S : n < c}
<1>1. PICK c \in Above : \A d \in Above : <<d, c>> \notin OpToRel(<, Nat)
  <2>1. Above \subseteq Nat /\ Above # {}
    OBVIOUS
  <2> QED
    BY <2>1, NatLessThanWellFounded, WFMin
<1>2. c \in Nat /\ c # 0
  <2>1. PICK n \in S : n \in Nat
    OBVIOUS
  <2>2. c \in Nat /\ n < c
    BY <1>1, <2>1
  <2> QED
    BY ONLY <2>1, <2>2
<1>3. c - 1 \in Nat /\ <<c - 1, c>> \in OpToRel(<, Nat)
  BY <1>2 DEF OpToRel
<1>4. PICK top \in S : ~(top < c - 1)
  BY <1>1, <1>3
<1>5. \A m \in S : m \in Nat /\ m < c
  BY <1>1
<1>6. \A m \in S : m <= top
  BY <1>2, <1>4, <1>5
<1> QED
  BY <1>6

-----------------------------------------------------------------------------
(* The transaction manager's turns: the promise chain and its head.        *)

TxmCore == TxmTypes /\ Turns
Outcomes == {Pending, Threw} \union {TxidOf(tx) : tx \in Transactions}

\* Transactions are never confused with the absence of one.
LEMMA TxFacts ==
  /\ NoTx \notin Transactions
  /\ \A tx \in Transactions : tx.nonce \in Nat /\ tx.call \in Calls
  /\ Pending # Threw /\ Pending.tag = "pending" /\ Threw.tag = "threw"
  /\ \A tx : TxidOf(tx).tag = "txid" /\ TxidOf(tx).tx = tx /\ TxidOf(tx) # Pending /\ TxidOf(tx) # Threw
<1>1. NoTx \notin Transactions
  BY DEF NoTx, Transactions, NoNonce
<1>2. \A tx \in Transactions : tx.nonce \in Nat /\ tx.call \in Calls
  BY DEF Transactions
<1>3. /\ Pending.tag = "pending" /\ Threw.tag = "threw"
      /\ \A tx : TxidOf(tx).tag = "txid" /\ TxidOf(tx).tx = tx
  BY DEF Pending, Threw, TxidOf
<1> QED
  BY <1>1, <1>2, <1>3

LEMMA HeadInLine ==
  ASSUME line \in Seq(Actors), NEW a, MayProceed(a)
  PROVE  line # <<>> /\ a = Head(line) /\ InLine(a)
<1>1. line # <<>> /\ a = Head(line)
  BY DEF MayProceed
<1>2. Len(line) \in Nat \ {0} /\ Head(line) = line[1]
  BY <1>1, LenProperties, EmptySeq
<1> QED
  BY <1>1, <1>2 DEF InLine

\* The head leaves: everybody else keeps their place and nobody has signed.
LEMMA SettleKeeps ==
  ASSUME TxmCore, NEW a \in Actors, MayProceed(a), NEW result \in Outcomes,
         Settle(a, result),
         nonce' \in Nat \union {NoNonce}, signed' \in Seq(Transactions),
         mempool' \subseteq Transactions, mined' \in Seq([call : Calls, ok : BOOLEAN]),
         faults' \in Nat, drops' \in Nat, restarts' \in Nat, conflicts' \in Nat
  PROVE  /\ TxmCore'
         /\ \A b : InLine(b)' <=> InLine(b) /\ b # a
         /\ \A b \in Actors : draft'[b] = NoTx
         /\ outcome'[a] = result
         /\ \A b \in Actors \ {a} : outcome'[b] = outcome[b] /\ wants'[b] = wants[b]
<1>1. line \in Seq(Actors) /\ line # <<>> /\ a = Head(line) /\ Distinct(line)
  BY HeadInLine DEF TxmCore, TxmTypes
<1>2. line' = Tail(line)
  BY <1>1, RemoveHead DEF Settle
<1>3. line' \in Seq(Actors) /\ Distinct(line)' /\ \A b : InLine(b)' <=> InLine(b) /\ b # a
  <2>1. /\ Tail(line) \in Seq(Actors) /\ Distinct(Tail(line))
        /\ \A x : (\E i \in 1..Len(Tail(line)) : Tail(line)[i] = x)
                    <=> (\E i \in 1..Len(line) : line[i] = x) /\ x # Head(line)
    BY <1>1, TailDistinct
  <2> QED
    BY <1>1, <1>2, <2>1, Zenon DEF InLine, Distinct
<1>4. /\ wants' = [wants EXCEPT ![a] = NoCall]
      /\ draft' = [draft EXCEPT ![a] = NoTx]
      /\ outcome' = [outcome EXCEPT ![a] = result]
  BY DEF Settle
<1>5. /\ wants \in [Actors -> Calls \union {NoCall}]
      /\ draft \in [Actors -> Transactions \union {NoTx}]
      /\ outcome \in [Actors -> Outcomes]
  BY DEF TxmCore, TxmTypes, Outcomes
<1>6. /\ wants' \in [Actors -> Calls \union {NoCall}]
      /\ draft' \in [Actors -> Transactions \union {NoTx}]
      /\ outcome' \in [Actors -> Outcomes]
      /\ outcome'[a] = result /\ draft'[a] = NoTx
      /\ \A b \in Actors \ {a} : outcome'[b] = outcome[b] /\ wants'[b] = wants[b]
                                 /\ draft'[b] = draft[b]
  BY <1>4, <1>5
<1>7. \A b \in Actors : draft'[b] = NoTx
  BY <1>1, <1>6 DEF TxmCore, Turns, MayProceed
<1>8. TxmTypes'
  BY <1>3, <1>6 DEF TxmTypes, Outcomes
<1>9. Turns'
  BY <1>3, <1>6, <1>7 DEF TxmCore, Turns
<1> QED
  BY <1>3, <1>6, <1>7, <1>8, <1>9 DEF TxmCore

\* An idle actor joins the line.
LEMMA JoinKeeps ==
  ASSUME TxmCore, NEW a \in Actors, ~InLine(a), outcome[a] = Pending, NEW call \in Calls,
         line' = Append(line, a), wants' = [wants EXCEPT ![a] = call], faults' \in Nat,
         UNCHANGED <<nonce, draft, outcome, signed, nodeVars, conflicts>>
  PROVE  /\ TxmCore'
         /\ \A b : InLine(b)' <=> InLine(b) \/ b = a
         /\ wants'[a] = call /\ \A b \in Actors \ {a} : wants'[b] = wants[b]
<1>1. line \in Seq(Actors) /\ Distinct(line) /\ wants \in [Actors -> Calls \union {NoCall}]
  BY DEF TxmCore, TxmTypes
<1>2. line' \in Seq(Actors) /\ Distinct(line)' /\ \A b : InLine(b)' <=> InLine(b) \/ b = a
  BY <1>1, AppendDistinct DEF InLine, Distinct
<1>3. /\ wants' \in [Actors -> Calls \union {NoCall}]
      /\ wants'[a] = call /\ \A b \in Actors \ {a} : wants'[b] = wants[b]
  BY <1>1
<1>4. TxmTypes'
  BY <1>2, <1>3 DEF TxmCore, TxmTypes, nodeVars
<1>5. \A b : MayProceed(b) => MayProceed(b)' /\ InLine(b)
  <2> SUFFICES ASSUME NEW b, MayProceed(b) PROVE MayProceed(b)' /\ InLine(b)
    OBVIOUS
  <2>1. line # <<>> /\ b = Head(line) /\ InLine(b)
    BY <1>1, HeadInLine
  <2>2. Append(line, a) # <<>> /\ Head(Append(line, a)) = Head(line)
    BY <1>1, <2>1
  <2> QED
    BY <2>1, <2>2 DEF MayProceed
<1>6. Turns'
  BY <1>2, <1>3, <1>5 DEF TxmCore, Turns, nodeVars
<1> QED
  BY <1>2, <1>3, <1>4, <1>6 DEF TxmCore

\* What leaves the line, the drafts and the counter alone.
LEMMA CoreFrame ==
  ASSUME TxmCore, UNCHANGED <<nonce, line, wants, draft>>,
         outcome' \in [Actors -> Outcomes],
         \A a \in Actors : outcome'[a] = outcome[a] \/ outcome'[a] = Pending,
         signed' \in Seq(Transactions), mempool' \subseteq Transactions,
         mined' \in Seq([call : Calls, ok : BOOLEAN]),
         faults' \in Nat, drops' \in Nat, restarts' \in Nat, conflicts' \in Nat
  PROVE  TxmCore' /\ \A b : InLine(b)' <=> InLine(b)
BY DEF TxmCore, TxmTypes, Turns, Outcomes, MayProceed, InLine, Distinct

\* The node's next nonce is above everything it has seen.
LEMMA KnownNext ==
  ASSUME TxmCore, Bounded
  PROVE  /\ PossibleNextNonce \in Nat /\ PossibleNextNonce >= AccountNonce
         /\ \A tx \in mempool : tx.nonce < PossibleNextNonce
         /\ PossibleNextNonce = AccountNonce
              \/ \E tx \in mempool : PossibleNextNonce = tx.nonce + 1
<1>1. AccountNonce \in Nat /\ \A tx \in mempool : tx.nonce \in Nat
  BY LenProperties, TxFacts DEF TxmCore, TxmTypes, AccountNonce
<1>2. CASE mempool = {}
  BY <1>1, <1>2 DEF PossibleNextNonce
<1>3. CASE mempool # {}
  <2>1. NoncesInMempool \subseteq Nat /\ NoncesInMempool # {}
    BY <1>1, <1>3 DEF NoncesInMempool
  <2>2. PICK b \in Nat : \A n \in NoncesInMempool : n < b
    BY DEF Bounded, Known, NoncesInMempool
  <2> DEFINE top == CHOOSE n \in NoncesInMempool : \A m \in NoncesInMempool : m <= n
  <2>3. top \in NoncesInMempool /\ \A m \in NoncesInMempool : m <= top
    BY <2>1, <2>2, Greatest
  <2>4. PossibleNextNonce = IF top + 1 > AccountNonce THEN top + 1 ELSE AccountNonce
    BY <1>3 DEF PossibleNextNonce
  <2> HIDE DEF top
  <2>5. \A tx \in mempool : tx.nonce \in Nat /\ tx.nonce <= top
    BY <1>1, <2>3 DEF NoncesInMempool
  <2>6. top \in Nat /\ \E tx \in mempool : tx.nonce = top
    BY <2>1, <2>3 DEF NoncesInMempool
  <2> QED
    BY <1>1, <2>4, <2>5, <2>6
<1> QED
  BY <1>2, <1>3

\* The actor is out of the line with its answer; the others wait as before.
Answered(a, result) ==
  /\ \A b : InLine(b)' <=> InLine(b) /\ b # a
  /\ outcome'[a] = result
  /\ \A b \in Actors \ {a} : outcome'[b] = outcome[b] /\ wants'[b] = wants[b]
  /\ \A b \in Actors : draft'[b] = NoTx

\* The five steps of a submission.
LEMMA FetchCore ==
  ASSUME TxmCore, Bounded, NEW a \in Actors, FetchNonce(a)
  PROVE  /\ TxmCore' /\ nonce = NoNonce
         /\ UNCHANGED <<signed, mempool, mined, drops, restarts, conflicts>>
         /\ \/ /\ nonce' = PossibleNextNonce /\ nonce' \in Nat
               /\ UNCHANGED <<line, wants, draft, outcome, faults>>
            \/ /\ faults' = faults + 1 /\ nonce' = nonce
               /\ Answered(a, Threw)
<1>1. /\ MayProceed(a) /\ nonce = NoNonce
      /\ UNCHANGED <<signed, mempool, mined, drops, restarts, conflicts>>
  BY DEF FetchNonce, nodeVars
<1>2. CASE nonce' = PossibleNextNonce /\ UNCHANGED <<line, wants, draft, outcome, faults>>
  <2>1. PossibleNextNonce \in Nat
    BY KnownNext
  <2>2. \A b \in Actors : draft[b] = NoTx
    BY <1>1 DEF TxmCore, Turns
  <2>3. TxmTypes'
    BY <1>1, <1>2, <2>1 DEF TxmCore, TxmTypes
  <2>4. Turns'
    BY <1>1, <1>2, <2>2 DEF TxmCore, Turns, InLine
  <2> QED
    BY <1>1, <1>2, <2>1, <2>3, <2>4 DEF TxmCore
<1>3. CASE UseFault /\ Settle(a, Threw) /\ nonce' = nonce
  <2>1. faults' = faults + 1
    BY <1>3 DEF UseFault
  <2>2. TxmTypes /\ Threw \in Outcomes
    BY DEF TxmCore, Outcomes
  <2>3. /\ nonce' \in Nat \union {NoNonce} /\ signed' \in Seq(Transactions)
        /\ mempool' \subseteq Transactions /\ mined' \in Seq([call : Calls, ok : BOOLEAN])
        /\ faults' \in Nat /\ drops' \in Nat /\ restarts' \in Nat /\ conflicts' \in Nat
    BY <1>1, <1>3, <2>1, <2>2 DEF TxmTypes
  <2> QED
    BY <1>1, <1>3, <2>1, <2>2, <2>3, SettleKeeps DEF Answered
<1> QED
  BY <1>2, <1>3 DEF FetchNonce

LEMMA SignCore ==
  ASSUME TxmCore, NEW a \in Actors, Sign(a)
  PROVE  /\ TxmCore'
         /\ UNCHANGED <<nonce, line, wants, outcome, signed, nodeVars, faults, conflicts>>
<1>1. /\ MayProceed(a) /\ nonce # NoNonce /\ draft[a] = NoTx
      /\ draft' = [draft EXCEPT ![a] = [nonce |-> nonce, call |-> wants[a]]]
      /\ UNCHANGED <<nonce, line, wants, outcome, signed, nodeVars, faults, conflicts>>
  BY DEF Sign
<1>2. InLine(a)
  BY <1>1, HeadInLine DEF TxmCore, TxmTypes
<1>3. [nonce |-> nonce, call |-> wants[a]] \in Transactions
  BY <1>1, <1>2 DEF TxmCore, TxmTypes, Turns, Transactions
<1>4. TxmTypes'
  BY <1>1, <1>3 DEF TxmCore, TxmTypes, nodeVars
<1>5. \A b \in Actors : draft'[b] = IF b = a THEN [nonce |-> nonce, call |-> wants[a]] ELSE draft[b]
  BY <1>1 DEF TxmCore, TxmTypes
<1>6. Turns'
  BY <1>1, <1>5 DEF TxmCore, Turns, InLine, MayProceed
<1> QED
  BY <1>1, <1>4, <1>6 DEF TxmCore

\* Remembering a transaction adds at most that one.
LEMMA RememberOne ==
  ASSUME TxmAssumption, signed \in Seq(Transactions), NEW tx \in Transactions
  PROVE  /\ Remember(tx) \in Seq(Transactions)
         /\ ToSet(Remember(tx)) \subseteq ToSet(signed) \union {tx}
<1> DEFINE longer == Append(signed, tx)
<1>1. /\ longer \in Seq(Transactions) /\ Len(longer) = Len(signed) + 1 /\ Len(signed) \in Nat
      /\ longer # <<>>
      /\ longer[Len(signed) + 1] = tx /\ \A i \in 1..Len(signed) : longer[i] = signed[i]
  BY AppendProperties, LenProperties
<1>2. ToSet(longer) \subseteq ToSet(signed) \union {tx}
  BY <1>1 DEF ToSet
<1> HIDE DEF longer
<1>3. Tail(longer) \in Seq(Transactions) /\ ToSet(Tail(longer)) \subseteq ToSet(longer)
  <2>1. /\ Tail(longer) \in Seq(Transactions) /\ Len(Tail(longer)) = Len(longer) - 1
        /\ \A i \in 1..Len(Tail(longer)) : Tail(longer)[i] = longer[i + 1]
    BY <1>1, HeadTailProperties
  <2>2. \A i \in 1..Len(Tail(longer)) : i + 1 \in 1..Len(longer)
    BY <1>1, <2>1
  <2> QED
    BY <1>1, <2>1, <2>2 DEF ToSet
<1>4. \/ Remember(tx) = signed \/ Remember(tx) = longer \/ Remember(tx) = Tail(longer)
  BY DEF Remember, longer
<1> QED
  BY <1>1, <1>2, <1>3, <1>4

\* What a broadcast is about: the head's transaction, under the counter.
LEMMA HeadDraft ==
  ASSUME TxmCore, NEW a \in Actors, MayProceed(a), draft[a] # NoTx
  PROVE  /\ draft[a] \in Transactions /\ nonce \in Nat
         /\ draft[a].nonce = nonce /\ draft[a].call = wants[a] /\ InLine(a)
BY HeadInLine DEF TxmCore, TxmTypes, Turns

LEMMA AcceptedCore ==
  ASSUME TxmAssumption, TxmCore, NEW a \in Actors, BroadcastAccepted(a)
  PROVE  TxmCore' /\ Answered(a, TxidOf(draft[a]))
<1>1. /\ MayProceed(a) /\ draft[a] # NoTx
      /\ mempool' = mempool \union {draft[a]} /\ nonce' = nonce + 1
      /\ signed' = Remember(draft[a]) /\ Settle(a, TxidOf(draft[a]))
      /\ UNCHANGED <<mined, drops, restarts, faults, conflicts>>
  BY DEF BroadcastAccepted
<1>2. draft[a] \in Transactions /\ nonce \in Nat
  BY <1>1, HeadDraft
<1>3. signed' \in Seq(Transactions) /\ TxidOf(draft[a]) \in Outcomes
  BY <1>1, <1>2, RememberOne DEF TxmCore, TxmTypes, Outcomes
<1>4. TxmTypes
  BY DEF TxmCore
<1>5. /\ nonce' \in Nat \union {NoNonce} /\ mempool' \subseteq Transactions
      /\ mined' \in Seq([call : Calls, ok : BOOLEAN])
      /\ faults' \in Nat /\ drops' \in Nat /\ restarts' \in Nat /\ conflicts' \in Nat
  BY <1>1, <1>2, <1>4 DEF TxmTypes
<1> QED
  BY <1>1, <1>3, <1>5, SettleKeeps DEF Answered

LEMMA RejectedCore ==
  ASSUME TxmCore, NEW a \in Actors, BroadcastRejected(a)
  PROVE  TxmCore' /\ Answered(a, Threw)
<1>1. /\ MayProceed(a) /\ nonce' = NoNonce /\ conflicts' = conflicts + 1 /\ Settle(a, Threw)
      /\ UNCHANGED <<signed, mempool, mined, drops, restarts, faults>>
  BY DEF BroadcastRejected, nodeVars
<1>2. TxmTypes /\ Threw \in Outcomes
  BY DEF TxmCore, Outcomes
<1>3. /\ nonce' \in Nat \union {NoNonce} /\ signed' \in Seq(Transactions)
      /\ mempool' \subseteq Transactions /\ mined' \in Seq([call : Calls, ok : BOOLEAN])
      /\ faults' \in Nat /\ drops' \in Nat /\ restarts' \in Nat /\ conflicts' \in Nat
  BY <1>1, <1>2 DEF TxmTypes
<1> QED
  BY <1>1, <1>2, <1>3, SettleKeeps DEF Answered

LEMMA LostCore ==
  ASSUME TxmCore, NEW a \in Actors, BroadcastLost(a)
  PROVE  TxmCore' /\ Answered(a, Threw)
<1>1. /\ MayProceed(a) /\ draft[a] # NoTx /\ faults' = faults + 1 /\ Settle(a, Threw)
      /\ mempool' = mempool \/ mempool' = mempool \union {draft[a]}
      /\ UNCHANGED <<nonce, signed, mined, drops, restarts, conflicts>>
  BY DEF BroadcastLost, UseFault
<1>2. draft[a] \in Transactions
  BY <1>1, HeadDraft
<1>3. TxmTypes /\ Threw \in Outcomes
  BY DEF TxmCore, Outcomes
<1>4. /\ nonce' \in Nat \union {NoNonce} /\ signed' \in Seq(Transactions)
      /\ mempool' \subseteq Transactions /\ mined' \in Seq([call : Calls, ok : BOOLEAN])
      /\ faults' \in Nat /\ drops' \in Nat /\ restarts' \in Nat /\ conflicts' \in Nat
  BY <1>1, <1>2, <1>3 DEF TxmTypes
<1> QED
  BY <1>1, <1>3, <1>4, SettleKeeps DEF Answered

\* A restart leaves the line empty and every answer unread.
LEMMA RestartCore ==
  ASSUME TxmCore, TxmRestart
  PROVE  /\ TxmCore' /\ (\A b : ~InLine(b)') /\ (\A b \in Actors : outcome'[b] = Pending)
<1>1. /\ line' = <<>> /\ signed' = <<>> /\ nonce' = NoNonce /\ restarts' = restarts + 1
      /\ wants' = [a \in Actors |-> NoCall] /\ draft' = [a \in Actors |-> NoTx]
      /\ outcome' = [a \in Actors |-> Pending]
      /\ UNCHANGED <<mined, drops, faults, conflicts>>
      /\ \/ mempool' = mempool
         \/ \E a \in Actors : draft[a] # NoTx /\ mempool' = mempool \union {draft[a]}
  BY DEF TxmRestart
<1>2. mempool' \subseteq Transactions
  BY <1>1 DEF TxmCore, TxmTypes
<1>3. \A b : ~InLine(b)'
  BY <1>1 DEF InLine
<1>4. Distinct(line)' /\ line' \in Seq(Actors) /\ signed' \in Seq(Transactions)
  BY <1>1 DEF Distinct
<1>5. TxmTypes'
  BY <1>1, <1>2, <1>4 DEF TxmCore, TxmTypes
<1>6. Turns'
  BY <1>1, <1>3 DEF Turns
<1> QED
  BY <1>1, <1>3, <1>5, <1>6 DEF TxmCore

-----------------------------------------------------------------------------
(* The account's nonces.                                                   *)

LEMMA Numbers ==
  ASSUME TxmTypes
  PROVE  /\ AccountNonce \in Nat
         /\ \A tx \in Known : tx \in Transactions /\ tx.nonce \in Nat
         /\ \A n \in Nat : IsFiniteSet(Gaps(n)) /\ Cardinality(Gaps(n)) \in Nat
         /\ NoncesInMempool \subseteq Nat
<1>1. AccountNonce \in Nat
  BY LenProperties DEF TxmTypes, AccountNonce
<1>2. \A i \in 1..Len(signed) : signed[i] \in Transactions
  BY ElementOfSeq DEF TxmTypes
<1>3. \A tx \in Known : tx \in Transactions /\ tx.nonce \in Nat
  BY <1>2, TxFacts DEF TxmTypes, Known, ToSet
<1>4. ASSUME NEW n \in Nat PROVE IsFiniteSet(Gaps(n)) /\ Cardinality(Gaps(n)) \in Nat
  <2>1. IsFiniteSet(AccountNonce..(n - 1))
    BY <1>1, FS_Interval
  <2>2. IsFiniteSet(Gaps(n))
    BY <2>1, FS_Subset DEF Gaps
  <2> QED
    BY <2>2, FS_CardinalityType
<1> QED
  BY <1>1, <1>3, <1>4 DEF NoncesInMempool, Known

\* Gaps stay few when every nonce given out now was given out before, and every
\* gap below it was a gap.
LEMMA FewerGaps ==
  ASSUME TxmTypes, TxmTypes', GapsAreDrops, drops' = drops,
         \A n \in Nat : Reached(n)' => \E m \in Nat : Reached(m) /\ Gaps(n)' \subseteq Gaps(m)
  PROVE  GapsAreDrops'
<1> SUFFICES ASSUME NEW n \in Nat, Reached(n)' PROVE Cardinality(Gaps(n)') <= drops
  BY DEF GapsAreDrops
<1>1. PICK m \in Nat : Reached(m) /\ Gaps(n)' \subseteq Gaps(m)
  OBVIOUS
<1>2. IsFiniteSet(Gaps(m)) /\ Cardinality(Gaps(m)) \in Nat
  BY Numbers
<1>3. Cardinality(Gaps(m)) <= drops
  BY <1>1 DEF GapsAreDrops
<1>4. Cardinality(Gaps(n)') <= Cardinality(Gaps(m)) /\ Cardinality(Gaps(n)') \in Nat
  BY <1>1, <1>2, FS_Subset, FS_CardinalityType
<1> QED
  BY <1>2, <1>3, <1>4 DEF TxmTypes

\* One more transaction, under the counter, is the most a step can add.
LEMMA GrowKeeps ==
  ASSUME TxmTypes, TxmTypes', Bounded, GapsAreDrops,
         mempool \subseteq mempool', mined' = mined, drops' = drops,
         \/ Known' \subseteq Known
         \/ \E t \in mempool' : t.nonce = nonce /\ nonce \in Nat /\ Known' \subseteq Known \union {t},
         \/ nonce' = nonce
         \/ nonce' = NoNonce
         \/ nonce' = nonce + 1 /\ nonce \in NoncesInMempool'
         \/ nonce' \in Nat /\ Reached(nonce')
  PROVE  Bounded' /\ GapsAreDrops'
<1>1. /\ AccountNonce \in Nat /\ AccountNonce' = AccountNonce
      /\ \A tx \in Known : tx.nonce \in Nat
      /\ NoncesInMempool \subseteq NoncesInMempool' /\ NoncesInMempool' \subseteq Nat
  BY Numbers DEF AccountNonce, NoncesInMempool, Known, TxmTypes, Transactions
<1>2. Bounded'
  <2>1. PICK b \in Nat : \A tx \in Known : tx.nonce < b
    BY DEF Bounded
  <2>2. CASE Known' \subseteq Known
    BY <2>1, <2>2 DEF Bounded
  <2>3. CASE \E t \in mempool' : t.nonce = nonce /\ nonce \in Nat /\ Known' \subseteq Known \union {t}
    <3>1. PICK t \in mempool' : t.nonce = nonce /\ nonce \in Nat /\ Known' \subseteq Known \union {t}
      BY <2>3
    <3> DEFINE c == IF b > nonce THEN b ELSE nonce + 1
    <3>2. c \in Nat /\ b <= c /\ nonce < c
      BY <3>1
    <3> HIDE DEF c
    <3>3. \A tx \in Known' : tx.nonce < c
      BY <1>1, <2>1, <3>1, <3>2
    <3> QED
      BY <3>2, <3>3 DEF Bounded
  <2> QED
    BY <2>2, <2>3
<1>3. ASSUME NEW n \in Nat, Reached(n)'
      PROVE  Reached(n) \/ (nonce \in Nat /\ n = nonce + 1 /\ nonce \in NoncesInMempool')
  <2>1. CASE n <= AccountNonce'
    BY <1>1, <2>1 DEF Reached
  <2>2. CASE nonce' # NoNonce /\ n <= nonce'
    <3>1. CASE nonce' = nonce
      BY <2>2, <3>1 DEF Reached
    <3>2. CASE nonce' = nonce + 1 /\ nonce \in NoncesInMempool'
      <4>1. nonce \in Nat /\ nonce # NoNonce
        BY <1>1, <3>2 DEF NoNonce
      <4> QED
        BY <2>2, <3>2, <4>1 DEF Reached
    <3>3. CASE nonce' \in Nat /\ Reached(nonce')
      <4>1. CASE nonce' <= AccountNonce
        BY <1>1, <2>2, <3>3, <4>1 DEF Reached
      <4>2. CASE nonce # NoNonce /\ nonce' <= nonce
        BY <2>2, <3>3, <4>2 DEF Reached, TxmTypes
      <4>3. CASE \E tx \in Known : nonce' <= tx.nonce + 1
        BY <1>1, <2>2, <3>3, <4>3 DEF Reached
      <4> QED
        BY <3>3, <4>1, <4>2, <4>3 DEF Reached
    <3> QED
      BY <2>2, <3>1, <3>2, <3>3
  <2>3. CASE \E tx \in Known' : n <= tx.nonce + 1
    <3>1. PICK tx \in Known' : n <= tx.nonce + 1
      BY <2>3
    <3>2. CASE tx \in Known
      BY <3>1, <3>2 DEF Reached
    <3>3. CASE tx \notin Known
      <4>1. tx \in mempool' /\ tx.nonce = nonce /\ nonce \in Nat
        BY <3>3
      <4>2. nonce \in NoncesInMempool' /\ nonce # NoNonce
        BY <4>1 DEF NoncesInMempool, NoNonce
      <4> QED
        BY <3>1, <4>1, <4>2 DEF Reached
    <3> QED
      BY <3>2, <3>3
  <2> QED
    BY <1>3, <2>1, <2>2, <2>3 DEF Reached
<1>4. ASSUME NEW n \in Nat, Reached(n)'
      PROVE  \E m \in Nat : Reached(m) /\ Gaps(n)' \subseteq Gaps(m)
  <2>1. CASE Reached(n)
    <3>1. Gaps(n)' \subseteq Gaps(n)
      BY <1>1 DEF Gaps
    <3> QED
      BY <2>1, <3>1
  <2>2. CASE nonce \in Nat /\ n = nonce + 1 /\ nonce \in NoncesInMempool'
    <3>1. Reached(nonce)
      BY <2>2 DEF Reached, NoNonce
    <3>2. Gaps(n)' \subseteq Gaps(nonce)
      BY <1>1, <2>2 DEF Gaps
    <3> QED
      BY <2>2, <3>1, <3>2
  <2> QED
    BY <1>3, <1>4, <2>1, <2>2
<1> QED
  BY <1>2, <1>4, FewerGaps

\* A block takes the transaction under the account's nonce.
LEMMA MineKeeps ==
  ASSUME TxmTypes, TxmTypes', Bounded, GapsAreDrops, drops' = drops,
         NEW tx \in mempool, tx.nonce = AccountNonce, mempool' = mempool \ {tx},
         AccountNonce' = AccountNonce + 1, UNCHANGED <<nonce, signed>>
  PROVE  Bounded' /\ GapsAreDrops'
<1>1. AccountNonce \in Nat /\ Known' \subseteq Known /\ \A t \in Known : t.nonce \in Nat
  BY Numbers DEF Known
<1>2. Bounded'
  BY <1>1 DEF Bounded
<1>3. ASSUME NEW n \in Nat, Reached(n)'
      PROVE  \E m \in Nat : Reached(m) /\ Gaps(n)' \subseteq Gaps(m)
  <2>1. CASE n <= AccountNonce + 1
    <3>1. Gaps(n)' = {}
      BY <1>1, <2>1 DEF Gaps
    <3>2. Reached(0)
      BY <1>1 DEF Reached
    <3> QED
      BY <3>1, <3>2
  <2>2. CASE ~(n <= AccountNonce + 1)
    <3>1. Reached(n)
      BY <1>1, <1>3, <2>2 DEF Reached
    <3>2. \A m \in NoncesInMempool : m # AccountNonce => m \in NoncesInMempool'
      BY DEF NoncesInMempool
    <3>3. Gaps(n)' \subseteq Gaps(n)
      BY <1>1, <3>2 DEF Gaps
    <3> QED
      BY <3>1, <3>3
  <2> QED
    BY <2>1, <2>2
<1> QED
  BY <1>2, <1>3, FewerGaps

\* A dropped transaction is one gap more, and one drop more.
LEMMA DropKeeps ==
  ASSUME TxmTypes, TxmTypes', Bounded, GapsAreDrops, drops' = drops + 1,
         NEW tx \in mempool, mempool' = mempool \ {tx}, UNCHANGED <<nonce, signed, mined>>
  PROVE  Bounded' /\ GapsAreDrops'
<1>1. AccountNonce' = AccountNonce /\ Known' \subseteq Known
  BY DEF Known, AccountNonce
<1>2. Bounded'
  BY <1>1 DEF Bounded
<1>3. ASSUME NEW n \in Nat, Reached(n)' PROVE Cardinality(Gaps(n)') <= drops + 1
  <2>1. Reached(n)
    BY <1>1, <1>3 DEF Reached
  <2>2. Gaps(n)' \subseteq Gaps(n) \union {tx.nonce}
    BY <1>1 DEF Gaps, NoncesInMempool
  <2>3. IsFiniteSet(Gaps(n)) /\ Cardinality(Gaps(n)) \in Nat
    BY Numbers
  <2>4. /\ IsFiniteSet(Gaps(n) \union {tx.nonce})
        /\ Cardinality(Gaps(n) \union {tx.nonce}) <= Cardinality(Gaps(n)) + 1
        /\ Cardinality(Gaps(n) \union {tx.nonce}) \in Nat
    BY <2>3, FS_AddElement, FS_CardinalityType
  <2>5. /\ Cardinality(Gaps(n)') <= Cardinality(Gaps(n) \union {tx.nonce})
        /\ Cardinality(Gaps(n)') \in Nat
    BY <2>2, <2>4, FS_Subset, FS_CardinalityType
  <2>6. Cardinality(Gaps(n)) <= drops /\ drops \in Nat
    BY <2>1 DEF GapsAreDrops, TxmTypes
  <2> QED
    BY <2>3, <2>4, <2>5, <2>6
<1> QED
  BY <1>2, <1>3 DEF GapsAreDrops

-----------------------------------------------------------------------------
(* The invariant of the shared transaction manager and its node.           *)

TxmInv == TxmCore /\ Bounded /\ GapsAreDrops /\ CounterLeads

LEMMA TxmParts == TxmInv => TxmTypes /\ Turns /\ TxmCore /\ Bounded /\ GapsAreDrops /\ CounterLeads
BY DEF TxmInv, TxmCore

\* A fault, a drop or a restart ends CounterLeads' premise.
LEMMA Incident ==
  ASSUME TxmTypes, faults' = faults + 1 \/ drops' = drops + 1 \/ restarts' = restarts + 1,
         faults' \in Nat, drops' \in Nat, restarts' \in Nat
  PROVE  CounterLeads'
BY DEF TxmTypes, CounterLeads

LEMMA SubmitTxm ==
  ASSUME TxmAssumption, TxmInv, NEW a \in Actors, SubmitStep(a)
  PROVE  TxmInv'
<1>1. TxmTypes /\ TxmCore /\ Bounded /\ GapsAreDrops /\ CounterLeads
  BY TxmParts
<1>2. CASE FetchNonce(a)
  <2>1. /\ TxmCore' /\ nonce = NoNonce
        /\ UNCHANGED <<signed, mempool, mined, drops, restarts, conflicts>>
        /\ \/ nonce' = PossibleNextNonce /\ nonce' \in Nat /\ faults' = faults
           \/ faults' = faults + 1 /\ nonce' = nonce
    BY <1>1, <1>2, FetchCore
  <2>2. Known' = Known /\ TxmTypes'
    BY <2>1 DEF Known, TxmCore
  <2>3. CASE nonce' = PossibleNextNonce /\ nonce' \in Nat /\ faults' = faults
    <3>1. /\ nonce' >= AccountNonce /\ \A tx \in mempool : tx.nonce < nonce'
          /\ nonce' = AccountNonce \/ \E tx \in mempool : nonce' = tx.nonce + 1
      BY <1>1, <2>3, KnownNext
    <3>2. Reached(nonce')
      BY <1>1, <2>3, <3>1, Numbers DEF Reached, Known
    <3>3. Bounded' /\ GapsAreDrops'
      BY <1>1, <2>1, <2>2, <2>3, <3>2, GrowKeeps
    <3>4. CounterLeads'
      <4>1. signed = <<>> => Known = mempool
        BY DEF Known, ToSet
      <4>2. AccountNonce' = AccountNonce
        BY <2>1 DEF AccountNonce
      <4> QED
        BY <1>1, <2>1, <2>2, <2>3, <3>1, <4>1, <4>2 DEF CounterLeads, NoNonce
    <3> QED
      BY <2>1, <3>3, <3>4 DEF TxmInv
  <2>4. CASE faults' = faults + 1 /\ nonce' = nonce
    <3>1. Bounded' /\ GapsAreDrops'
      BY <1>1, <2>1, <2>2, <2>4, GrowKeeps
    <3>2. CounterLeads'
      BY <1>1, <2>2, <2>4, Incident DEF TxmTypes
    <3> QED
      BY <2>1, <3>1, <3>2 DEF TxmInv
  <2> QED
    BY <2>1, <2>3, <2>4
<1>3. CASE Sign(a)
  <2>1. TxmCore' /\ UNCHANGED <<nonce, signed, mempool, mined, drops, restarts, faults, conflicts>>
    BY <1>1, <1>3, SignCore DEF nodeVars
  <2>2. Known' = Known /\ TxmTypes' /\ AccountNonce' = AccountNonce
    BY <2>1 DEF Known, TxmCore, AccountNonce
  <2>3. Bounded' /\ GapsAreDrops'
    BY <1>1, <2>1, <2>2, GrowKeeps
  <2>4. CounterLeads'
    BY <1>1, <2>1, <2>2 DEF CounterLeads
  <2> QED
    BY <2>1, <2>3, <2>4 DEF TxmInv
<1>4. CASE BroadcastAccepted(a)
  <2>1. /\ MayProceed(a) /\ draft[a] # NoTx /\ TxmCore'
        /\ mempool' = mempool \union {draft[a]} /\ nonce' = nonce + 1
        /\ signed' = Remember(draft[a])
        /\ UNCHANGED <<mined, drops, restarts, faults, conflicts>>
    BY <1>1, <1>4, AcceptedCore DEF BroadcastAccepted
  <2>2. draft[a] \in Transactions /\ nonce \in Nat /\ draft[a].nonce = nonce
    BY <1>1, <2>1, HeadDraft
  <2>3. ToSet(signed') \subseteq ToSet(signed) \union {draft[a]}
    BY <1>1, <2>1, <2>2, RememberOne DEF TxmTypes
  <2>4. Known' \subseteq Known \union {draft[a]} /\ nonce \in NoncesInMempool' /\ TxmTypes'
    BY <2>1, <2>2, <2>3 DEF Known, NoncesInMempool, TxmCore
  <2>5. Bounded' /\ GapsAreDrops'
    BY <1>1, <2>1, <2>2, <2>4, GrowKeeps
  <2>6. CounterLeads'
    <3>1. /\ AccountNonce' = AccountNonce /\ AccountNonce \in Nat
          /\ \A tx \in Known : tx.nonce \in Nat
      BY <1>1, <2>1, Numbers DEF AccountNonce
    <3>2. nonce # NoNonce /\ nonce' # NoNonce
      BY <2>1, <2>2 DEF NoNonce
    <3> QED
      BY <1>1, <2>1, <2>2, <2>4, <3>1, <3>2 DEF CounterLeads
  <2> QED
    BY <2>1, <2>5, <2>6 DEF TxmInv
<1>5. CASE BroadcastRejected(a)
  <2>1. /\ MayProceed(a) /\ draft[a] # NoTx /\ ~Admissible(draft[a]) /\ TxmCore'
        /\ nonce' = NoNonce
        /\ UNCHANGED <<signed, mempool, mined, drops, restarts, faults>>
    BY <1>1, <1>5, RejectedCore DEF BroadcastRejected, nodeVars
  <2>2. draft[a] \in Transactions /\ nonce \in Nat /\ draft[a].nonce = nonce
    BY <1>1, <2>1, HeadDraft
  <2>3. Known' = Known /\ TxmTypes'
    BY <2>1 DEF Known, TxmCore
  <2>4. Bounded' /\ GapsAreDrops'
    BY <1>1, <2>1, <2>3, GrowKeeps
  <2>5. ~(faults = 0 /\ drops = 0 /\ restarts = 0)
    <3>1. SUFFICES ASSUME faults = 0 /\ drops = 0 /\ restarts = 0 PROVE Admissible(draft[a])
      BY <2>1
    <3>2. nonce >= AccountNonce /\ \A tx \in mempool : tx.nonce < nonce
      BY <1>1, <2>2, <3>1 DEF CounterLeads, Known, NoNonce
    <3> QED
      BY <2>2, <3>2 DEF Admissible, NoncesInMempool
  <2>6. CounterLeads'
    BY <2>1, <2>5 DEF CounterLeads
  <2> QED
    BY <2>1, <2>4, <2>6 DEF TxmInv
<1>6. CASE BroadcastLost(a)
  <2>1. /\ MayProceed(a) /\ draft[a] # NoTx /\ TxmCore' /\ faults' = faults + 1
        /\ mempool' = mempool \/ mempool' = mempool \union {draft[a]}
        /\ UNCHANGED <<nonce, signed, mined, drops, restarts>>
    BY <1>1, <1>6, LostCore DEF BroadcastLost, UseFault
  <2>2. draft[a] \in Transactions /\ nonce \in Nat /\ draft[a].nonce = nonce
    BY <1>1, <2>1, HeadDraft
  <2>3. TxmTypes'
    BY <2>1 DEF TxmCore
  <2>4. \/ Known' \subseteq Known
        \/ \E t \in mempool' : t.nonce = nonce /\ nonce \in Nat /\ Known' \subseteq Known \union {t}
    BY <2>1, <2>2 DEF Known
  <2>5. Bounded' /\ GapsAreDrops'
    BY <1>1, <2>1, <2>3, <2>4, GrowKeeps
  <2>6. CounterLeads'
    BY <1>1, <2>1, <2>3, Incident DEF TxmTypes
  <2> QED
    BY <2>1, <2>5, <2>6 DEF TxmInv
<1> QED
  BY <1>2, <1>3, <1>4, <1>5, <1>6 DEF SubmitStep

LEMMA RestartTxm == ASSUME TxmInv, TxmRestart PROVE TxmInv'
<1>1. TxmTypes /\ TxmCore /\ Bounded /\ GapsAreDrops
  BY TxmParts
<1>2. /\ TxmCore' /\ nonce' = NoNonce /\ restarts' = restarts + 1 /\ signed' = <<>>
      /\ UNCHANGED <<mined, drops, faults>>
      /\ \/ mempool' = mempool
         \/ \E a \in Actors : draft[a] # NoTx /\ mempool' = mempool \union {draft[a]}
  BY <1>1, RestartCore DEF TxmRestart
<1>3. Known' = mempool' /\ TxmTypes'
  BY <1>2 DEF Known, ToSet, TxmCore
<1>4. \/ Known' \subseteq Known
      \/ \E t \in mempool' : t.nonce = nonce /\ nonce \in Nat /\ Known' \subseteq Known \union {t}
  <2>1. CASE mempool' = mempool
    BY <1>3, <2>1 DEF Known
  <2>2. CASE \E a \in Actors : draft[a] # NoTx /\ mempool' = mempool \union {draft[a]}
    <3>1. PICK a \in Actors : draft[a] # NoTx /\ mempool' = mempool \union {draft[a]}
      BY <2>2
    <3>2. MayProceed(a)
      BY <1>1, <3>1 DEF TxmCore, Turns
    <3>3. nonce \in Nat /\ draft[a].nonce = nonce
      BY <1>1, <3>1, <3>2, HeadDraft
    <3> QED
      BY <1>3, <3>1, <3>3 DEF Known
  <2> QED
    BY <1>2, <2>1, <2>2
<1>5. Bounded' /\ GapsAreDrops'
  BY <1>1, <1>2, <1>3, <1>4, GrowKeeps
<1>6. CounterLeads'
  BY <1>1, <1>2, <1>3, Incident DEF TxmTypes
<1> QED
  BY <1>2, <1>5, <1>6 DEF TxmInv

LEMMA ChainTxm ==
  ASSUME TxmInv, NEW ok \in BOOLEAN, NEW tx \in mempool, tx.nonce = AccountNonce,
         mined' = Append(mined, [call |-> tx.call, ok |-> ok]), mempool' = mempool \ {tx},
         UNCHANGED <<nonce, line, wants, draft, outcome, signed, faults, drops, restarts, conflicts>>
  PROVE  TxmInv' /\ AccountNonce' = AccountNonce + 1 /\ \A b : InLine(b)' <=> InLine(b)
<1>1. TxmTypes /\ TxmCore /\ Bounded /\ GapsAreDrops /\ CounterLeads
  BY TxmParts
<1>2. tx.call \in Calls /\ tx.nonce \in Nat
  BY <1>1, TxFacts DEF TxmTypes
<1>3. /\ mined' \in Seq([call : Calls, ok : BOOLEAN]) /\ Len(mined') = Len(mined) + 1
  BY <1>1, <1>2, AppendProperties DEF TxmTypes
<1>4. TxmCore' /\ \A b : InLine(b)' <=> InLine(b)
  BY <1>1, <1>3, CoreFrame DEF TxmTypes, Outcomes
<1>5. AccountNonce' = AccountNonce + 1 /\ TxmTypes'
  BY <1>3, <1>4 DEF AccountNonce, TxmCore
<1>6. Bounded' /\ GapsAreDrops'
  BY <1>1, <1>5, MineKeeps
<1>7. CounterLeads'
  <2>1. Known' \subseteq Known /\ tx \in Known
    BY DEF Known
  <2>2. AccountNonce \in Nat /\ nonce \in Nat \union {NoNonce}
    BY <1>1, Numbers DEF TxmTypes
  <2> QED
    BY <1>1, <1>2, <1>5, <2>1, <2>2 DEF CounterLeads, NoNonce
<1> QED
  BY <1>4, <1>5, <1>6, <1>7 DEF TxmInv

LEMMA DropTxm == ASSUME TxmInv, Drop PROVE TxmInv' /\ \A b : InLine(b)' <=> InLine(b)
<1>1. TxmTypes /\ TxmCore /\ Bounded /\ GapsAreDrops
  BY TxmParts
<1>2. /\ drops' = drops + 1 /\ \E tx \in mempool : mempool' = mempool \ {tx}
      /\ UNCHANGED <<nonce, line, wants, draft, outcome, signed, mined, faults, restarts, conflicts>>
  BY DEF Drop
<1>3. TxmCore' /\ \A b : InLine(b)' <=> InLine(b)
  BY <1>1, <1>2, CoreFrame DEF TxmTypes, Outcomes
<1>4. TxmTypes'
  BY <1>3 DEF TxmCore
<1>5. Bounded' /\ GapsAreDrops'
  BY <1>1, <1>2, <1>4, DropKeeps
<1>6. CounterLeads'
  BY <1>1, <1>2, <1>4, Incident DEF TxmTypes
<1> QED
  BY <1>3, <1>5, <1>6 DEF TxmInv

\* Reading an answer, a request that fails and a verbatim re-send.
LEMMA ClientTxm ==
  ASSUME TxmInv,
         \/ outcome' = outcome
         \/ \E a \in Actors : TakeOutcome(a),
         \/ mempool' = mempool
         \/ \E tx \in ToSet(signed) : mempool' = Resent(tx),
         faults' = faults \/ faults' = faults + 1,
         UNCHANGED <<nonce, line, wants, draft, signed, mined, drops, restarts, conflicts>>
  PROVE  TxmInv' /\ (\A b : InLine(b)' <=> InLine(b)) /\ Known' = Known
<1>1. TxmTypes /\ TxmCore /\ Bounded /\ GapsAreDrops /\ CounterLeads
  BY TxmParts
<1>2. mempool \subseteq mempool' /\ Known' = Known
  BY DEF Resent, Known
<1>3. mempool' \subseteq Transactions
  BY <1>1, <1>2, Numbers DEF Known
<1>4. /\ outcome' \in [Actors -> Outcomes]
      /\ \A a \in Actors : outcome'[a] = outcome[a] \/ outcome'[a] = Pending
  BY <1>1 DEF TakeOutcome, TxmTypes, Outcomes
<1>5. /\ signed' \in Seq(Transactions) /\ mined' \in Seq([call : Calls, ok : BOOLEAN])
      /\ faults' \in Nat /\ drops' \in Nat /\ restarts' \in Nat /\ conflicts' \in Nat
  BY <1>1 DEF TxmTypes
<1>6. TxmCore' /\ \A b : InLine(b)' <=> InLine(b)
  BY <1>1, <1>3, <1>4, <1>5, CoreFrame
<1>7. TxmTypes' /\ AccountNonce' = AccountNonce
  BY <1>6 DEF TxmCore, AccountNonce
<1>8. Bounded' /\ GapsAreDrops'
  BY <1>1, <1>2, <1>7, GrowKeeps
<1>9. CounterLeads'
  <2>1. CASE faults' = faults
    BY <1>1, <1>2, <1>7, <2>1 DEF CounterLeads
  <2>2. CASE faults' = faults + 1
    BY <1>1, <1>5, <2>2, Incident
  <2> QED
    BY <2>1, <2>2
<1> QED
  BY <1>2, <1>6, <1>8, <1>9 DEF TxmInv

\* A call joins the line, with or without a failed read before it.
LEMMA JoinTxm ==
  ASSUME TxmInv, NEW a \in Actors, ~InLine(a), outcome[a] = Pending, NEW call \in Calls,
         line' = Append(line, a), wants' = [wants EXCEPT ![a] = call],
         faults' = faults \/ faults' = faults + 1,
         UNCHANGED <<nonce, draft, outcome, signed, nodeVars, conflicts>>
  PROVE  /\ TxmInv'
         /\ \A b : InLine(b)' <=> InLine(b) \/ b = a
         /\ wants'[a] = call /\ \A b \in Actors \ {a} : wants'[b] = wants[b]
<1>1. TxmTypes /\ TxmCore /\ Bounded /\ GapsAreDrops /\ CounterLeads
  BY TxmParts
<1>2. faults' \in Nat
  BY <1>1 DEF TxmTypes
<1>3. /\ TxmCore'
      /\ \A b : InLine(b)' <=> InLine(b) \/ b = a
      /\ wants'[a] = call /\ \A b \in Actors \ {a} : wants'[b] = wants[b]
  BY <1>1, <1>2, JoinKeeps
<1>4. UNCHANGED <<mempool, mined, drops, restarts>>
  BY DEF nodeVars
<1>5. Known' = Known /\ TxmTypes' /\ AccountNonce' = AccountNonce
  BY <1>3, <1>4 DEF Known, TxmCore, AccountNonce
<1>6. Bounded' /\ GapsAreDrops'
  BY <1>1, <1>4, <1>5, GrowKeeps
<1>7. CounterLeads'
  <2>1. CASE faults' = faults
    BY <1>1, <1>4, <1>5, <2>1 DEF CounterLeads
  <2>2. CASE faults' = faults + 1
    BY <1>1, <1>2, <1>4, <1>5, <2>2, Incident DEF TxmTypes
  <2> QED
    BY <2>1, <2>2
<1> QED
  BY <1>3, <1>6, <1>7 DEF TxmInv

-----------------------------------------------------------------------------
(* What a step of a submission shows to the rest of the relayer.           *)

\* The actor's turn ends in nothing new, in a broadcast, or in a lost answer.
Sent(a) ==
  /\ InLine(a) /\ UNCHANGED <<mined, restarts>>
  /\ \A b \in Actors : InLine(b)' => InLine(b) /\ wants'[b] = wants[b]
  /\ \A b \in Actors \ {a} : outcome'[b] = outcome[b] /\ (InLine(b) => InLine(b)')
  /\ \/ /\ Known' \subseteq Known /\ outcome'[a] \in {outcome[a], Threw}
        /\ faults' \in {faults, faults + 1}
     \/ /\ ~InLine(a)' /\ faults' = faults
        /\ \E t \in Transactions : /\ Known' \subseteq Known \union {t} /\ t.call = wants[a]
                                   /\ outcome'[a] = TxidOf(t)
     \/ /\ outcome'[a] = Threw /\ faults' = faults + 1
        /\ \E t \in Transactions : Known' \subseteq Known \union {t} /\ t.call = wants[a]

LEMMA SendEffects ==
  ASSUME TxmAssumption, TxmInv, NEW a \in Actors, SubmitStep(a)
  PROVE  TxmInv' /\ Sent(a)
<1>1. TxmTypes /\ TxmCore /\ Bounded /\ Turns
  BY TxmParts
<1>2. MayProceed(a) /\ InLine(a)
  <2>1. MayProceed(a)
    BY DEF SubmitStep, FetchNonce, Sign, BroadcastAccepted, BroadcastRejected, BroadcastLost
  <2> QED
    BY <1>1, <2>1, HeadInLine DEF TxmTypes
<1>3. TxmInv'
  BY SubmitTxm
<1>4. outcome[a] = Pending
  BY <1>1, <1>2 DEF Turns
<1>5. CASE FetchNonce(a)
  <2>1. /\ UNCHANGED <<signed, mempool, mined, drops, restarts, conflicts>>
        /\ \/ UNCHANGED <<line, wants, draft, outcome, faults>>
           \/ faults' = faults + 1 /\ Answered(a, Threw)
    BY <1>1, <1>5, FetchCore
  <2>2. Known' = Known
    BY <2>1 DEF Known
  <2> QED
    BY <1>2, <1>3, <2>1, <2>2 DEF Sent, Answered, InLine
<1>6. CASE Sign(a)
  <2>1. UNCHANGED <<line, wants, outcome, signed, mempool, mined, restarts, faults>>
    BY <1>1, <1>6, SignCore DEF nodeVars
  <2>2. Known' = Known
    BY <2>1 DEF Known
  <2> QED
    BY <1>2, <1>3, <2>1, <2>2 DEF Sent, InLine
<1>7. CASE BroadcastAccepted(a)
  <2>1. /\ draft[a] # NoTx /\ mempool' = mempool \union {draft[a]}
        /\ signed' = Remember(draft[a]) /\ UNCHANGED <<mined, restarts, faults>>
        /\ Answered(a, TxidOf(draft[a]))
    BY <1>1, <1>7, AcceptedCore DEF BroadcastAccepted
  <2>2. draft[a] \in Transactions /\ draft[a].call = wants[a]
    BY <1>1, <1>2, <2>1, HeadDraft
  <2>3. ToSet(signed') \subseteq ToSet(signed) \union {draft[a]}
    BY <1>1, <2>1, <2>2, RememberOne DEF TxmTypes
  <2>4. Known' \subseteq Known \union {draft[a]}
    BY <2>1, <2>3 DEF Known
  <2> QED
    BY <1>2, <1>3, <2>1, <2>2, <2>4 DEF Sent, Answered
<1>8. CASE BroadcastRejected(a)
  <2>1. UNCHANGED <<signed, mempool, mined, restarts, faults>> /\ Answered(a, Threw)
    BY <1>1, <1>8, RejectedCore DEF BroadcastRejected, nodeVars
  <2>2. Known' = Known
    BY <2>1 DEF Known
  <2> QED
    BY <1>2, <1>3, <2>1, <2>2 DEF Sent, Answered
<1>9. CASE BroadcastLost(a)
  <2>1. /\ draft[a] # NoTx /\ faults' = faults + 1 /\ UNCHANGED <<signed, mined, restarts>>
        /\ mempool' = mempool \/ mempool' = mempool \union {draft[a]}
        /\ Answered(a, Threw)
    BY <1>1, <1>9, LostCore DEF BroadcastLost, UseFault
  <2>2. draft[a] \in Transactions /\ draft[a].call = wants[a]
    BY <1>1, <1>2, <2>1, HeadDraft
  <2>3. Known' \subseteq Known \union {draft[a]}
    BY <2>1 DEF Known
  <2> QED
    BY <1>2, <1>3, <2>1, <2>2, <2>3 DEF Sent, Answered
<1> QED
  BY <1>5, <1>6, <1>7, <1>8, <1>9 DEF SubmitStep

\* The publishers are not concerned by what is no turn of theirs.
LEMMA PublisherFrame ==
  ASSUME PublisherInv, UNCHANGED <<todo, publishing>>,
         \A p \in Publishers : /\ InLine(p)' => InLine(p) /\ wants'[p] = wants[p]
                               /\ outcome'[p] # Pending => outcome[p] # Pending \/ InLine(p)
  PROVE  PublisherInv'
BY DEF PublisherInv

\* A success stays one: the node's history only grows.
Grown == mined' = mined \/ \E m \in [call : Calls, ok : BOOLEAN] : mined' = Append(mined, m)

LEMMA SuccessStays ==
  ASSUME TxmTypes, Grown, NEW tx, tx.nonce \in Nat, Succeeded(tx)
  PROVE  Succeeded(tx)'
<1>1. CASE mined' = mined
  BY <1>1 DEF Succeeded, WasMined, AccountNonce
<1>2. CASE \E m \in [call : Calls, ok : BOOLEAN] : mined' = Append(mined, m)
  <2>1. /\ Len(mined') = Len(mined) + 1 /\ Len(mined) \in Nat
        /\ \A i \in 1..Len(mined) : mined'[i] = mined[i]
    BY <1>2, AppendProperties, LenProperties DEF TxmTypes
  <2>2. tx.nonce + 1 \in 1..Len(mined)
    BY <2>1 DEF Succeeded, WasMined, AccountNonce
  <2> QED
    BY <2>1, <2>2 DEF Succeeded, WasMined, AccountNonce
<1> QED
  BY <1>1, <1>2 DEF Grown

-----------------------------------------------------------------------------
(* Counting broadcasts.                                                    *)

LEMMA OpCalls1 ==
  /\ \A o, p : OpCall(o) = OpCall(p) => o = p
  /\ \A o, v, g : OpCall(o) # RootCall(v, g)
  /\ \A o : \A c \in RootCalls : c # OpCall(o)
<1>1. \A o : OpCall(o).op = o /\ OpCall(o).kind = "op"
  BY DEF OpCall
<1>2. \A v, g : RootCall(v, g).kind = "root"
  BY DEF RootCall
<1> QED
  BY <1>1, <1>2 DEF RootCalls

LEMMA Counts ==
  ASSUME TxmTypes, Bounded, QueueTypes, RelayerAssumption, NEW op \in Operations
  PROVE  /\ IsFiniteSet(Issued(op)) /\ Cardinality(Issued(op)) \in Nat
         /\ IsFiniteSet(SpentJobs(op)) /\ Cardinality(SpentJobs(op)) \in Nat
<1>1. PICK b \in Nat : \A tx \in Known : tx.nonce < b
  BY DEF Bounded
<1>2. AccountNonce \in Nat /\ \A tx \in Known : tx.nonce \in Nat
  BY Numbers
<1>3. Issued(op) \subseteq 0..(b + AccountNonce)
  BY <1>1, <1>2 DEF Issued
<1>4. IsFiniteSet(Issued(op))
  <2>1. IsFiniteSet(0..(b + AccountNonce))
    BY <1>2, FS_Interval
  <2> QED
    BY <1>3, <2>1, FS_Subset
<1>5. SpentJobs(op) \subseteq {j \in Jobs : request[j] # NoJob}
  BY DEF SpentJobs, RelayerAssumption
<1>6. IsFiniteSet(SpentJobs(op))
  BY <1>5, FS_Subset DEF QueueTypes
<1> QED
  BY <1>4, <1>6, FS_CardinalityType

\* The ways a step may change the account, each within the budget.
LEMMA Within ==
  ASSUME NEW I, NEW I1, NEW S, NEW S1, IsFiniteSet(I), IsFiniteSet(S1),
         NEW e \in Nat, NEW e1 \in Nat, Cardinality(I) <= Cardinality(S) + e,
         IsFiniteSet(S),
         \/ I1 \subseteq I /\ S \subseteq S1 /\ e <= e1
         \/ (\E n : I1 \subseteq I \union {n}) /\ (\E j : j \notin S /\ S \union {j} \subseteq S1) /\ e <= e1
         \/ (\E n : I1 \subseteq I \union {n}) /\ S \subseteq S1 /\ e1 = e + 1
         \/ I1 \subseteq I /\ (\E j : S \ {j} \subseteq S1) /\ e1 = e + 1
  PROVE  Cardinality(I1) <= Cardinality(S1) + e1
<1>1. /\ Cardinality(I) \in Nat /\ Cardinality(S) \in Nat /\ Cardinality(S1) \in Nat
  BY FS_CardinalityType
<1>2. ASSUME I1 \subseteq I PROVE Cardinality(I1) \in Nat /\ Cardinality(I1) <= Cardinality(I)
  BY <1>2, FS_Subset, FS_CardinalityType
<1>3. ASSUME NEW n, I1 \subseteq I \union {n}
      PROVE  Cardinality(I1) \in Nat /\ Cardinality(I1) <= Cardinality(I) + 1
  <2>1. /\ IsFiniteSet(I \union {n}) /\ Cardinality(I \union {n}) <= Cardinality(I) + 1
        /\ Cardinality(I \union {n}) \in Nat
    <3>1. /\ IsFiniteSet(I \union {n})
          /\ Cardinality(I \union {n}) = IF n \in I THEN Cardinality(I) ELSE Cardinality(I) + 1
      BY FS_AddElement
    <3> QED
      BY <1>1, <3>1
  <2>2. Cardinality(I1) <= Cardinality(I \union {n}) /\ Cardinality(I1) \in Nat
    BY <1>3, <2>1, FS_Subset, FS_CardinalityType
  <2> QED
    BY <1>1, <2>1, <2>2
<1>4. ASSUME S \subseteq S1 PROVE Cardinality(S) <= Cardinality(S1)
  BY <1>4, FS_Subset
<1>5. ASSUME NEW j, j \notin S, S \union {j} \subseteq S1
      PROVE  Cardinality(S) + 1 <= Cardinality(S1)
  <2>1. Cardinality(S \union {j}) = Cardinality(S) + 1
    BY <1>5, FS_AddElement
  <2> QED
    BY <1>5, <2>1, FS_Subset
<1>6. ASSUME NEW j, S \ {j} \subseteq S1 PROVE Cardinality(S) <= Cardinality(S1) + 1
  <2>1. /\ IsFiniteSet(S \ {j}) /\ Cardinality(S \ {j}) \in Nat
        /\ Cardinality(S) <= Cardinality(S \ {j}) + 1
    <3>1. /\ IsFiniteSet(S \ {j})
          /\ Cardinality(S \ {j}) = IF j \in S THEN Cardinality(S) - 1 ELSE Cardinality(S)
      BY FS_RemoveElement
    <3>2. Cardinality(S \ {j}) \in Nat
      BY <3>1, FS_CardinalityType
    <3> QED
      BY <1>1, <3>1, <3>2
  <2>2. Cardinality(S \ {j}) <= Cardinality(S1)
    BY <1>6, FS_Subset
  <2> QED
    BY <1>1, <2>1, <2>2
<1>7. CASE I1 \subseteq I /\ S \subseteq S1 /\ e <= e1
  BY <1>1, <1>2, <1>4, <1>7
<1>8. CASE (\E n : I1 \subseteq I \union {n}) /\ (\E j : j \notin S /\ S \union {j} \subseteq S1) /\ e <= e1
  BY <1>1, <1>3, <1>5, <1>8
<1>9. CASE (\E n : I1 \subseteq I \union {n}) /\ S \subseteq S1 /\ e1 = e + 1
  <2>1. Cardinality(I1) \in Nat /\ Cardinality(I1) <= Cardinality(I) + 1
    BY <1>3, <1>9
  <2>2. Cardinality(S) <= Cardinality(S1) /\ e1 = e + 1
    BY <1>4, <1>9
  <2> QED
    BY <1>1, <2>1, <2>2
<1>10. CASE I1 \subseteq I /\ (\E j : S \ {j} \subseteq S1) /\ e1 = e + 1
  BY <1>1, <1>2, <1>6, <1>10
<1> QED
  BY <1>7, <1>8, <1>9, <1>10

\* What a step may add to an operation's nonces.
LEMMA IssuedGrows ==
  ASSUME NEW op, mined' = mined
  PROVE  /\ Known' \subseteq Known => Issued(op)' \subseteq Issued(op)
         /\ \A t : Known' \subseteq Known \union {t} =>
              /\ Issued(op)' \subseteq Issued(op) \union {t.nonce}
              /\ t.call # OpCall(op) => Issued(op)' \subseteq Issued(op)
BY DEF Issued, AccountNonce

-----------------------------------------------------------------------------
(* The queue's part of the invariant, by what a step touches.              *)

QueueInv == QueueTypes /\ Places
Trusted == TxmAssumption /\ PublisherAssumption /\ RelayerAssumption

LEMMA RelayerParts ==
  ASSUME RelayerInv
  PROVE  TxmInv /\ PublisherInv /\ QueueInv /\ OwnOperation /\ Budget
BY DEF RelayerInv, TxmInv, TxmCore, QueueInv

LEMMA QueueFrame ==
  ASSUME QueueInv, UNCHANGED queueVars
  PROVE  QueueInv'
BY DEF QueueInv, QueueTypes, Places, Held, Distinct, queueVars

\* The worker's turn may end, in an answer to what it submitted.
LEMMA OwnFrame ==
  ASSUME TxmTypes, QueueTypes, OwnOperation, Grown, UNCHANGED <<jobs, request, running>>,
         InLine(Worker)' => InLine(Worker) /\ wants'[Worker] = wants[Worker],
         \/ outcome'[Worker] = outcome[Worker]
         \/ InLine(Worker) /\ outcome'[Worker] = Threw
         \/ InLine(Worker) /\ \E t : outcome'[Worker] = TxidOf(t) /\ t.call = wants[Worker]
  PROVE  OwnOperation'
<1>1. \A j \in Jobs : jobs[j].tx # NoTx => jobs[j].tx.nonce \in Nat
  BY TxFacts DEF QueueTypes
<1>2. \A j \in Jobs : jobs[j].state = "confirmed" => jobs[j].tx # NoTx /\ Succeeded(jobs[j].tx)'
  BY <1>1, SuccessStays DEF OwnOperation
<1>3. running = NoJob => ~InLine(Worker)' /\ outcome'[Worker] = Pending
  BY DEF OwnOperation
<1>4. outcome'[Worker].tag = "txid" => outcome'[Worker].tx.call = OpCall(request[running])
  <2>1. CASE outcome'[Worker] = outcome[Worker]
    BY <2>1 DEF OwnOperation
  <2>2. CASE InLine(Worker) /\ outcome'[Worker] = Threw
    BY <2>2, TxFacts
  <2>3. CASE InLine(Worker) /\ \E t : outcome'[Worker] = TxidOf(t) /\ t.call = wants[Worker]
    BY <2>3, TxFacts DEF OwnOperation
  <2> QED
    BY <2>1, <2>2, <2>3
<1> QED
  BY <1>2, <1>3, <1>4 DEF OwnOperation, Succeeded, WasMined, AccountNonce

\* Jobs stay spent while the queue is left alone and the worker is not asked
\* to start over.
LEMMA SpentFrame ==
  ASSUME NEW op, UNCHANGED <<request, pending, running>>,
         InLine(Worker)' => InLine(Worker),
         outcome'[Worker] = Threw => outcome[Worker] = Threw \/ InLine(Worker)
  PROVE  SpentJobs(op) \subseteq SpentJobs(op)'
BY DEF SpentJobs, IsSpent

\* The account of a step, operation by operation.
LEMMA BudgetStep ==
  ASSUME RelayerAssumption, TxmTypes, TxmTypes', Bounded, Bounded', QueueTypes, QueueTypes', Budget,
         faults' + restarts' \in Nat,
         \A op \in Operations :
           \/ /\ Issued(op)' \subseteq Issued(op) /\ SpentJobs(op) \subseteq SpentJobs(op)'
              /\ faults + restarts <= faults' + restarts'
           \/ /\ \E n : Issued(op)' \subseteq Issued(op) \union {n}
              /\ \E j : j \notin SpentJobs(op) /\ SpentJobs(op) \union {j} \subseteq SpentJobs(op)'
              /\ faults + restarts <= faults' + restarts'
           \/ /\ \E n : Issued(op)' \subseteq Issued(op) \union {n}
              /\ SpentJobs(op) \subseteq SpentJobs(op)'
              /\ faults' + restarts' = faults + restarts + 1
           \/ /\ Issued(op)' \subseteq Issued(op)
              /\ \E j : SpentJobs(op) \ {j} \subseteq SpentJobs(op)'
              /\ faults' + restarts' = faults + restarts + 1
  PROVE  Budget'
<1>1. ASSUME NEW op \in Operations
      PROVE  /\ Cardinality(SpentJobs(op)') \in Nat
             /\ Cardinality(Issued(op)') <= Cardinality(SpentJobs(op)') + (faults' + restarts')
  <2>1. IsFiniteSet(Issued(op)) /\ IsFiniteSet(SpentJobs(op)) /\ Cardinality(SpentJobs(op)) \in Nat
    BY Counts
  <2>2. IsFiniteSet(SpentJobs(op)') /\ Cardinality(SpentJobs(op)') \in Nat
    <3>1. SpentJobs(op)' \subseteq {j \in Jobs : request'[j] # NoJob}
      BY DEF SpentJobs, RelayerAssumption
    <3>2. IsFiniteSet({j \in Jobs : request'[j] # NoJob})
      BY DEF QueueTypes
    <3> QED
      BY <3>1, <3>2, FS_Subset, FS_CardinalityType
  <2>3. faults + restarts \in Nat
    BY DEF TxmTypes
  <2>4. Cardinality(Issued(op)) <= Cardinality(SpentJobs(op)) + (faults + restarts)
    BY <2>1, <2>3, SMTT(30) DEF Budget, TxmTypes
  <2>5. Cardinality(Issued(op)') <= Cardinality(SpentJobs(op)') + (faults' + restarts')
    BY <2>1, <2>2, <2>3, <2>4, Within
  <2> QED
    BY <2>2, <2>5
<1>2. faults' \in Nat /\ restarts' \in Nat
  BY DEF TxmTypes
<1>3. \A op \in Operations : Cardinality(SpentJobs(op)') + (faults' + restarts')
                               = Cardinality(SpentJobs(op)') + faults' + restarts'
  BY <1>1, <1>2
<1> QED
  BY <1>1, <1>3 DEF Budget

-----------------------------------------------------------------------------
(* The worker's steps.                                                     *)

LEMMA ActorFacts ==
  ASSUME RelayerAssumption, PublisherAssumption
  PROVE  /\ Worker \in Actors /\ Worker \notin Publishers
         /\ \A p \in Publishers : p \in Actors /\ p # Worker
         /\ NoJob \notin Jobs /\ NoJob \notin Operations
         /\ \A op \in Operations : OpCall(op) \in Calls
         /\ \A c \in RootCalls : c \in Calls
BY DEF RelayerAssumption, PublisherAssumption, Publishers, OpCalls

\* Nothing of the transaction manager moves.
LEMMA StillTxm ==
  ASSUME TxmInv, UNCHANGED txmVars
  PROVE  TxmInv' /\ (\A b : InLine(b)' <=> InLine(b)) /\ Known' = Known
BY ClientTxm DEF txmVars

LEMMA AcceptKeeps ==
  ASSUME Trusted, RelayerInv, NEW j \in Jobs, NEW op \in Operations, Accept(j, op)
  PROVE  RelayerInv'
<1>1. TxmInv /\ TxmTypes /\ Bounded /\ PublisherInv /\ QueueInv /\ QueueTypes /\ Places /\ OwnOperation /\ Budget
  BY RelayerParts, TxmParts DEF QueueInv
<1>2. /\ request[j] = NoJob /\ request' = [request EXCEPT ![j] = op]
      /\ jobs' = [jobs EXCEPT ![j] = NewJob] /\ pending' = Append(pending, j)
      /\ UNCHANGED <<attempts, dead, running, windows, driver, txmVars, todo, publishing>>
  BY DEF Accept, publisherVars
<1>3. /\ Worker \in Actors /\ NoJob \notin Jobs /\ NoJob \notin Operations
  BY ActorFacts DEF Trusted
<1>4. ~Held(j) /\ jobs[j] = UnknownJob /\ attempts[j] = 0 /\ j \notin dead
  BY <1>1, <1>2 DEF Places
<1>5. TxmInv' /\ TxmTypes' /\ Bounded' /\ (\A b : InLine(b)' <=> InLine(b)) /\ Known' = Known
  BY <1>1, <1>2, StillTxm DEF TxmInv, TxmCore
<1>6. PublisherInv'
  BY <1>1, <1>2, <1>5, PublisherFrame DEF txmVars
<1>7. /\ pending' \in Seq(Jobs) /\ Distinct(pending)'
      /\ \A x : (\E i \in 1..Len(pending') : pending'[i] = x)
                 <=> (\E i \in 1..Len(pending) : pending[i] = x) \/ x = j
  <2>1. \A i \in 1..Len(pending) : pending[i] # j
    BY <1>4 DEF Held
  <2> QED
    BY <1>1, <1>2, <2>1, AppendDistinct DEF QueueTypes, Distinct
<1>8. \A k \in Jobs : /\ request'[k] = IF k = j THEN op ELSE request[k]
                      /\ jobs'[k] = IF k = j THEN NewJob ELSE jobs[k]
  BY <1>1, <1>2 DEF QueueTypes
<1>9. QueueTypes'
  <2>1. NewJob \in [state : JobStates, tx : Transactions \union {NoTx}]
    BY DEF NewJob, JobStates
  <2>2. {k \in Jobs : request'[k] # NoJob} = {k \in Jobs : request[k] # NoJob} \union {j}
    BY <1>3, <1>8
  <2> DEFINE known == {k \in Jobs : request[k] # NoJob}
  <2>3. IsFiniteSet(known)
    BY <1>1 DEF QueueTypes
  <2>4. IsFiniteSet(known \union {j})
    BY <2>3, FS_AddElement
  <2>5. IsFiniteSet({k \in Jobs : request'[k] # NoJob})
    BY <2>2, <2>4
  <2> QED
    BY <1>1, <1>2, <1>7, <2>1, <2>5 DEF QueueTypes, Transactions
<1>10. Places'
  <2>1. NewJob.state \notin Terminal
    BY DEF NewJob, Terminal
  <2>2. \A i \in 1..Len(pending') : pending'[i] # running
    BY <1>1, <1>4, <1>7 DEF Places, Held
  <2>3. 0 < MaxAttempts
    BY DEF Trusted, RelayerAssumption
  <2>4. \A k \in Jobs : Held(k)' => k = j \/ Held(k)
    BY <1>2, <1>7 DEF Held
  <2> QED
    BY <1>1, <1>2, <1>3, <1>4, <1>8, <2>1, <2>2, <2>3, <2>4 DEF Places
<1>11. OwnOperation'
  <2>1. running # j
    BY <1>4 DEF Held
  <2>2. running # NoJob => running \in Jobs
    BY <1>1 DEF QueueTypes
  <2>3. NewJob.tx = NoTx /\ NewJob.state # "confirmed"
    BY DEF NewJob
  <2>4. UNCHANGED <<outcome, wants, mined>>
    BY <1>2 DEF txmVars
  <2>5. outcome[Worker].tag = "txid" => running # NoJob
    BY <1>1, TxFacts DEF OwnOperation
  <2> QED
    BY <1>1, <1>2, <1>5, <1>8, <2>1, <2>2, <2>3, <2>4, <2>5
       DEF OwnOperation, Succeeded, WasMined, AccountNonce
<1>12. Budget'
  <2>1. UNCHANGED <<mined, faults, restarts, outcome>>
    BY <1>2 DEF txmVars
  <2>2. \A o \in Operations : Issued(o)' \subseteq Issued(o)
    BY <1>5, <2>1, IssuedGrows
  <2>3. \A o \in Operations : SpentJobs(o) \subseteq SpentJobs(o)'
    BY <1>2, <1>3, <1>5, <1>7, <1>8, <2>1 DEF SpentJobs, IsSpent
  <2>4. faults' + restarts' \in Nat /\ faults + restarts <= faults' + restarts'
    BY <1>1, <2>1 DEF TxmTypes
  <2> QED
    BY <1>1, <1>5, <1>9, <2>2, <2>3, <2>4, BudgetStep DEF Trusted
<1> QED
  BY <1>5, <1>6, <1>9, <1>10, <1>11, <1>12 DEF RelayerInv, TxmInv, TxmCore

LEMMA StartKeeps ==
  ASSUME Trusted, RelayerInv, StartJob
  PROVE  RelayerInv'
<1>1. TxmInv /\ TxmTypes /\ Bounded /\ PublisherInv /\ QueueInv /\ QueueTypes /\ Places /\ OwnOperation /\ Budget
  BY RelayerParts, TxmParts DEF QueueInv
<1> DEFINE j == Head(pending)
<1>2. /\ running = NoJob /\ pending # <<>> /\ running' = j /\ pending' = Tail(pending)
      /\ jobs' = [jobs EXCEPT ![j] =
            IF driver = "bullmq" THEN [NewJob EXCEPT !.state = "submitting"]
            ELSE [@ EXCEPT !.state = "submitting"]]
      /\ line' = Append(line, Worker) /\ wants' = [wants EXCEPT ![Worker] = OpCall(request[j])]
      /\ UNCHANGED <<nonce, draft, outcome, signed, nodeVars, faults, conflicts>>
      /\ UNCHANGED <<request, attempts, dead, windows, todo, publishing>>
  BY DEF StartJob, MayStart, Enqueue, publisherVars
<1>3. /\ Worker \in Actors /\ NoJob \notin Jobs /\ NoJob \notin Operations
      /\ \A p \in Publishers : p \in Actors /\ p # Worker
  BY ActorFacts DEF Trusted
<1>4. /\ Tail(pending) \in Seq(Jobs) /\ Distinct(Tail(pending)) /\ j \in Jobs
      /\ \A x : (\E i \in 1..Len(Tail(pending)) : Tail(pending)[i] = x)
                 <=> (\E i \in 1..Len(pending) : pending[i] = x) /\ x # j
      /\ \E i \in 1..Len(pending) : pending[i] = j
  <2>1. Len(pending) \in Nat \ {0} /\ pending[1] = j /\ j \in Jobs
    BY <1>1, <1>2, LenProperties, HeadTailProperties DEF QueueTypes
  <2> QED
    <3>1. pending \in Seq(Jobs) /\ Distinct(pending)
      BY <1>1 DEF QueueTypes
    <3>2. /\ Tail(pending) \in Seq(Jobs) /\ Distinct(Tail(pending))
          /\ \A x : (\E i \in 1..Len(Tail(pending)) : Tail(pending)[i] = x)
                     <=> (\E i \in 1..Len(pending) : pending[i] = x) /\ x # Head(pending)
      BY <1>2, <3>1, TailDistinct
    <3>3. 1 \in 1..Len(pending)
      BY <2>1
    <3> QED
      BY <2>1, <3>2, <3>3, Zenon
<1> HIDE DEF j
<1>5. Held(j) /\ request[j] \in Operations
  BY <1>1, <1>4 DEF Places, Held, QueueTypes
<1>6. ~InLine(Worker) /\ outcome[Worker] = Pending
  BY <1>1, <1>2 DEF OwnOperation
<1>7. OpCall(request[j]) \in Calls
  BY <1>5, ActorFacts DEF Trusted
<1>8. /\ TxmInv' /\ TxmTypes' /\ Bounded'
      /\ \A b : InLine(b)' <=> InLine(b) \/ b = Worker
      /\ wants'[Worker] = OpCall(request[j]) /\ \A b \in Actors \ {Worker} : wants'[b] = wants[b]
  BY <1>1, <1>2, <1>3, <1>6, <1>7, JoinTxm DEF TxmInv, TxmCore
<1>9. PublisherInv'
  BY <1>1, <1>2, <1>3, <1>8, PublisherFrame
<1>10. \A k \in Jobs : k # j => jobs'[k] = jobs[k]
  BY <1>1, <1>2 DEF QueueTypes
<1>11. /\ jobs' \in [Jobs -> [state : JobStates, tx : Transactions \union {NoTx}]]
       /\ jobs'[j].state = "submitting" /\ jobs'[j].tx \in {NoTx, jobs[j].tx}
  <2>1. jobs \in [Jobs -> [state : JobStates, tx : Transactions \union {NoTx}]] /\ j \in Jobs
    BY <1>1, <1>4 DEF QueueTypes
  <2>2. CASE driver = "bullmq"
    BY <1>2, <2>1, <2>2 DEF NewJob, JobStates
  <2>3. CASE driver # "bullmq"
    <3>1. jobs' = [jobs EXCEPT ![j] = [@ EXCEPT !.state = "submitting"]]
      BY <1>2, <2>3
    <3> QED
      BY <2>1, <3>1 DEF JobStates
  <2> QED
    BY <2>2, <2>3
<1>12. QueueTypes'
  BY <1>1, <1>2, <1>4, <1>11 DEF QueueTypes, Distinct
<1>13. Places'
  <2>1. \A i \in 1..Len(pending') : pending'[i] # running'
    BY <1>2, <1>4
  <2>2. \A k \in Jobs : Held(k)' => Held(k)
    BY <1>2, <1>4, <1>5 DEF Held
  <2>3. \A k \in Jobs : request[k] = NoJob => k # j
    BY <1>3, <1>5
  <2> QED
    BY <1>1, <1>2, <1>10, <1>11, <2>1, <2>2, <2>3 DEF Places, Terminal
<1>14. OwnOperation'
  <2>1. j # NoJob
    BY <1>3, <1>4
  <2>2. mined' = mined /\ Pending.tag # "txid"
    BY <1>2, TxFacts DEF nodeVars
  <2>3. \A k \in Jobs : /\ jobs'[k].tx # NoTx => jobs'[k].tx = jobs[k].tx
                        /\ jobs'[k].state = "confirmed" => jobs'[k] = jobs[k]
    BY <1>10, <1>11
  <2> QED
    BY <1>1, <1>2, <1>6, <1>8, <2>1, <2>2, <2>3 DEF OwnOperation, Succeeded, WasMined, AccountNonce
<1>15. Budget'
  <2>1. UNCHANGED <<mined, faults, restarts>> /\ Known' = Known
    BY <1>2 DEF nodeVars, Known
  <2>2. \A o \in Operations : Issued(o)' \subseteq Issued(o)
    BY <2>1, IssuedGrows
  <2>3. \A o \in Operations : SpentJobs(o) \subseteq SpentJobs(o)'
    BY <1>2, <1>4 DEF SpentJobs, IsSpent
  <2>4. faults' + restarts' \in Nat /\ faults + restarts <= faults' + restarts'
    BY <1>1, <2>1 DEF TxmTypes
  <2> QED
    BY <1>1, <1>8, <1>12, <2>2, <2>3, <2>4, BudgetStep DEF Trusted
<1> QED
  BY <1>8, <1>9, <1>12, <1>13, <1>14, <1>15 DEF RelayerInv, TxmInv, TxmCore

\* What the worker's other steps share: the line stays as it is.
LEMMA WorkerSees ==
  ASSUME Trusted, RelayerInv
  PROVE  /\ TxmInv /\ TxmTypes /\ Bounded /\ PublisherInv /\ QueueInv /\ QueueTypes /\ Places
         /\ OwnOperation /\ Budget
         /\ Worker \in Actors /\ NoJob \notin Jobs /\ NoJob \notin Operations
         /\ \A p \in Publishers : p \in Actors /\ p # Worker
         /\ running # NoJob => running \in Jobs /\ Held(running)
<1>1. TxmInv /\ TxmTypes /\ Bounded /\ PublisherInv /\ QueueInv /\ QueueTypes /\ Places /\ OwnOperation /\ Budget
  BY RelayerParts, TxmParts DEF QueueInv
<1>2. /\ Worker \in Actors /\ NoJob \notin Jobs /\ NoJob \notin Operations
      /\ \A p \in Publishers : p \in Actors /\ p # Worker
  BY ActorFacts DEF Trusted
<1> QED
  BY <1>1, <1>2 DEF QueueTypes, Held

LEMMA SubmittedKeeps ==
  ASSUME Trusted, RelayerInv, Submitted
  PROVE  RelayerInv'
<1>1. /\ TxmInv /\ TxmTypes /\ Bounded /\ PublisherInv /\ QueueTypes /\ Places /\ OwnOperation /\ Budget
      /\ Worker \in Actors /\ NoJob \notin Jobs
      /\ \A p \in Publishers : p \in Actors /\ p # Worker
  BY WorkerSees
<1>2. /\ running # NoJob /\ outcome[Worker].tag = "txid" /\ TakeOutcome(Worker)
      /\ jobs' = [jobs EXCEPT ![running].tx = outcome[Worker].tx] /\ windows' = Rebroadcasts
      /\ UNCHANGED <<request, attempts, pending, dead, running, todo, publishing, nonce, line,
                     wants, draft, signed, mempool, mined, drops, restarts, faults, conflicts>>
  BY DEF Submitted, publisherVars, nodeVars
<1>3. running \in Jobs /\ Held(running)
  BY <1>2, WorkerSees
<1>4. /\ TxmInv' /\ TxmTypes' /\ Bounded' /\ (\A b : InLine(b)' <=> InLine(b)) /\ Known' = Known
  BY <1>1, <1>2, ClientTxm DEF TxmInv, TxmCore
<1>5. /\ outcome'[Worker] = Pending /\ \A a \in Actors \ {Worker} : outcome'[a] = outcome[a]
      /\ outcome[Worker].tx \in Transactions
  BY <1>1, <1>2, TxFacts DEF TakeOutcome, TxmTypes
<1>6. PublisherInv'
  BY <1>1, <1>2, <1>4, <1>5, PublisherFrame
<1>7. /\ jobs' \in [Jobs -> [state : JobStates, tx : Transactions \union {NoTx}]]
      /\ jobs'[running].tx = outcome[Worker].tx /\ jobs'[running].state = jobs[running].state
      /\ \A k \in Jobs : k # running => jobs'[k] = jobs[k]
  BY <1>1, <1>2, <1>3, <1>5 DEF QueueTypes
<1>8. QueueTypes'
  BY <1>1, <1>2, <1>7 DEF QueueTypes, Distinct, Trusted, RelayerAssumption
<1>9. Places'
  BY <1>1, <1>2, <1>3, <1>7 DEF Places, Held
<1>10. OwnOperation'
  <2>1. jobs[running].state # "confirmed"
    BY <1>1, <1>3 DEF Places, Terminal
  <2>2. outcome[Worker].tx.call = OpCall(request[running]) /\ Pending.tag # "txid"
    BY <1>1, <1>2, TxFacts DEF OwnOperation
  <2> QED
    BY <1>1, <1>2, <1>4, <1>5, <1>7, <2>1, <2>2 DEF OwnOperation, Succeeded, WasMined, AccountNonce
<1>11. Budget'
  <2>1. \A o \in Operations : Issued(o)' \subseteq Issued(o)
    BY <1>2, <1>4, IssuedGrows
  <2>2. \A o \in Operations : SpentJobs(o) \subseteq SpentJobs(o)'
    BY <1>2, <1>4, <1>5, TxFacts, SpentFrame
  <2>3. faults' + restarts' \in Nat /\ faults + restarts <= faults' + restarts'
    BY <1>1, <1>2 DEF TxmTypes
  <2> QED
    BY <1>1, <1>4, <1>8, <2>1, <2>2, <2>3, BudgetStep DEF Trusted
<1> QED
  BY <1>4, <1>6, <1>8, <1>9, <1>10, <1>11 DEF RelayerInv, TxmInv, TxmCore

\* The handler rejected: the job is back in the queue or given up.
LEMMA ThrowsQueue ==
  ASSUME Trusted, RelayerInv, running # NoJob, HandlerThrows
  PROVE  /\ QueueTypes' /\ Places' /\ running' = NoJob /\ request' = request
         /\ \A k \in Jobs : /\ jobs'[k].tx = jobs[k].tx
                            /\ jobs'[k].state = "confirmed" => jobs'[k] = jobs[k]
         /\ \A o : SpentJobs(o) \ {running} \subseteq SpentJobs(o)'
<1>1. /\ QueueTypes /\ Places /\ NoJob \notin Jobs /\ running \in Jobs /\ Held(running)
  BY WorkerSees
<1> DEFINE j == running
           again == attempts[j] + 1 < MaxAttempts
<1>2. /\ attempts' = [attempts EXCEPT ![j] = @ + 1] /\ running' = NoJob
      /\ pending' = IF again THEN Append(pending, j) ELSE pending
      /\ dead' = IF again THEN dead ELSE dead \union {j}
      /\ jobs' = IF driver = "bullmq" THEN jobs
                 ELSE [jobs EXCEPT ![j].state = IF again THEN "queued" ELSE "failed"]
      /\ windows' = 0 /\ request' = request
  BY DEF HandlerThrows
<1> HIDE DEF again
<1>3. /\ attempts \in [Jobs -> 0..MaxAttempts] /\ attempts[j] < MaxAttempts
      /\ MaxAttempts \in Nat \ {0} /\ Rebroadcasts \in Nat
      /\ jobs[j].state \notin Terminal /\ j \notin dead /\ request[j] # NoJob
  BY <1>1 DEF Places, QueueTypes, Trusted, RelayerAssumption
<1>4. /\ attempts' \in [Jobs -> 0..MaxAttempts] /\ attempts'[j] = attempts[j] + 1
      /\ \A k \in Jobs : k # j => attempts'[k] = attempts[k]
  BY <1>1, <1>2, <1>3
<1>5. \A i \in 1..Len(pending) : pending[i] # j
  BY <1>1 DEF Places
<1>6. /\ pending' \in Seq(Jobs) /\ Distinct(pending)'
      /\ \A x : (\E i \in 1..Len(pending') : pending'[i] = x)
                 <=> (\E i \in 1..Len(pending) : pending[i] = x) \/ (again /\ x = j)
  <2>1. pending \in Seq(Jobs) /\ Distinct(pending)
    BY <1>1 DEF QueueTypes
  <2>2. CASE again
    <3>1. pending' = Append(pending, j)
      BY <1>2, <2>2
    <3> QED
      BY <1>1, <1>5, <2>1, <2>2, <3>1, AppendDistinct DEF Distinct
  <2>3. CASE ~again
    BY <1>2, <2>1, <2>3 DEF Distinct
  <2> QED
    BY <2>2, <2>3
<1>7. /\ jobs' \in [Jobs -> [state : JobStates, tx : Transactions \union {NoTx}]]
      /\ \A k \in Jobs : jobs'[k].tx = jobs[k].tx /\ (k # j => jobs'[k] = jobs[k])
      /\ jobs'[j].state # "confirmed" /\ (again => jobs'[j].state \notin Terminal)
  <2>1. jobs \in [Jobs -> [state : JobStates, tx : Transactions \union {NoTx}]]
    BY <1>1 DEF QueueTypes
  <2>2. CASE jobs' = jobs
    BY <1>3, <2>1, <2>2 DEF Terminal
  <2>3. CASE jobs' = [jobs EXCEPT ![j].state = IF again THEN "queued" ELSE "failed"]
    BY <1>1, <2>1, <2>3 DEF JobStates, Terminal
  <2> QED
    BY <1>2, <2>2, <2>3
<1>8. dead' \subseteq Jobs /\ dead' \subseteq dead \union {j} /\ (again => dead' = dead)
  BY <1>1, <1>2 DEF QueueTypes
<1>9. QueueTypes'
  BY <1>1, <1>2, <1>3, <1>4, <1>6, <1>7, <1>8 DEF QueueTypes
<1>10. Places'
  <2>1. \A i \in 1..Len(pending') : pending'[i] # running'
    BY <1>1, <1>2, <1>6, ElementOfSeq
  <2>2. \A k \in Jobs : Held(k)' => (k # j /\ Held(k)) \/ (again /\ k = j)
    BY <1>1, <1>2, <1>5, <1>6 DEF Held
  <2>3. again => attempts'[j] < MaxAttempts
    BY <1>3, <1>4 DEF again
  <2> QED
    BY <1>1, <1>2, <1>3, <1>4, <1>7, <1>8, <2>1, <2>2, <2>3 DEF Places
<1>11. \A o : SpentJobs(o) \ {j} \subseteq SpentJobs(o)'
  BY <1>1, <1>2, <1>6 DEF SpentJobs, IsSpent
<1> QED
  BY <1>2, <1>7, <1>9, <1>10, <1>11

LEMMA ThrewKeeps ==
  ASSUME Trusted, RelayerInv, SubmitThrew \/ PollThrew
  PROVE  RelayerInv'
<1>1. /\ TxmInv /\ TxmTypes /\ Bounded /\ PublisherInv /\ QueueTypes /\ OwnOperation /\ Budget
      /\ Worker \in Actors /\ NoJob \notin Jobs
      /\ \A p \in Publishers : p \in Actors /\ p # Worker
  BY WorkerSees
<1>2. /\ running # NoJob /\ HandlerThrows
      /\ outcome'[Worker] = Pending /\ \A a \in Actors \ {Worker} : outcome'[a] = outcome[a]
      /\ outcome' = outcome \/ TakeOutcome(Worker)
      /\ \/ faults' = faults /\ outcome[Worker] = Threw
         \/ faults' = faults + 1
      /\ ~InLine(Worker)
      /\ UNCHANGED <<todo, publishing, nonce, line, wants, draft, signed, mempool, mined, drops,
                     restarts, conflicts>>
  <2>1. CASE SubmitThrew
    <3>1. /\ running # NoJob /\ HandlerThrows /\ outcome[Worker].tag = "threw"
          /\ TakeOutcome(Worker)
          /\ UNCHANGED <<todo, publishing, nonce, line, wants, draft, signed, mempool, mined,
                         drops, restarts, faults, conflicts>>
      BY <2>1 DEF SubmitThrew, publisherVars, nodeVars
    <3>2. outcome[Worker] = Threw
      BY <1>1, <3>1, TxFacts DEF TxmTypes
    <3>3. ~InLine(Worker)
      BY <1>1, <3>2, TxFacts DEF TxmInv, TxmCore, Turns
    <3>4. outcome'[Worker] = Pending /\ \A a \in Actors \ {Worker} : outcome'[a] = outcome[a]
      BY <1>1, <3>1 DEF TakeOutcome, TxmTypes
    <3> QED
      BY <3>1, <3>2, <3>3, <3>4
  <2>2. CASE PollThrew
    <3>1. /\ Waiting /\ HandlerThrows /\ faults' = faults + 1
          /\ UNCHANGED <<todo, publishing, nonce, line, wants, draft, outcome, signed, mempool,
                         mined, drops, restarts, conflicts>>
      BY <2>2 DEF PollThrew, UseFault, publisherVars, nodeVars
    <3> QED
      BY <3>1 DEF Waiting, Idle, InLine
  <2> QED
    BY <2>1, <2>2
<1>3. /\ TxmInv' /\ TxmTypes' /\ Bounded' /\ (\A b : InLine(b)' <=> InLine(b)) /\ Known' = Known
  BY <1>1, <1>2, ClientTxm DEF TxmInv, TxmCore
<1>4. PublisherInv'
  BY <1>1, <1>2, <1>3, PublisherFrame
<1>5. /\ QueueTypes' /\ Places' /\ running' = NoJob /\ request' = request
      /\ \A k \in Jobs : /\ jobs'[k].tx = jobs[k].tx
                         /\ jobs'[k].state = "confirmed" => jobs'[k] = jobs[k]
      /\ \A o : SpentJobs(o) \ {running} \subseteq SpentJobs(o)'
  BY <1>2, ThrowsQueue
<1>6. OwnOperation'
  BY <1>1, <1>2, <1>3, <1>5, TxFacts DEF OwnOperation, Succeeded, WasMined, AccountNonce
<1>7. Budget'
  <2>1. \A o \in Operations : Issued(o)' \subseteq Issued(o)
    BY <1>2, <1>3, IssuedGrows
  <2>2. outcome[Worker] = Threw => \A o : running \notin SpentJobs(o)
    BY DEF SpentJobs, IsSpent
  <2>3. /\ faults' + restarts' \in Nat
        /\ \/ faults' = faults /\ faults + restarts <= faults' + restarts'
           \/ faults' + restarts' = faults + restarts + 1
    <3>1. faults \in Nat /\ restarts \in Nat
      BY <1>1 DEF TxmTypes
    <3>2. restarts' = restarts /\ (faults' = faults \/ faults' = faults + 1)
      BY <1>2
    <3> QED
      BY <3>1, <3>2
  <2>4. CASE faults' = faults /\ outcome[Worker] = Threw
    <3>1. \A o \in Operations : SpentJobs(o) \subseteq SpentJobs(o)'
      BY <1>5, <2>2, <2>4
    <3>2. faults + restarts <= faults' + restarts'
      BY <1>1, <1>2, <2>4 DEF TxmTypes
    <3> QED
      BY <1>1, <1>3, <1>5, <2>1, <2>3, <3>1, <3>2, BudgetStep DEF Trusted
  <2>5. CASE faults' = faults + 1
    <3>1. \A o \in Operations : \E k : SpentJobs(o) \ {k} \subseteq SpentJobs(o)'
      BY <1>5
    <3>2. faults' + restarts' = faults + restarts + 1
      BY <1>1, <1>2, <2>5 DEF TxmTypes
    <3> QED
      BY <1>1, <1>3, <1>5, <2>1, <2>3, <3>1, <3>2, BudgetStep DEF Trusted
  <2> QED
    BY <1>2, <2>4, <2>5
<1> QED
  BY <1>3, <1>4, <1>5, <1>6, <1>7 DEF RelayerInv, TxmInv, TxmCore

\* The wait ends: with what the chain says, or without an outcome.
LEMMA FinishKeeps ==
  ASSUME Trusted, RelayerInv, PollSucceeded \/ PollAborted \/ WindowExpires
  PROVE  RelayerInv'
<1>1. /\ TxmInv /\ TxmTypes /\ Bounded /\ PublisherInv /\ QueueTypes /\ Places /\ OwnOperation /\ Budget
      /\ Worker \in Actors /\ NoJob \notin Jobs
      /\ \A p \in Publishers : p \in Actors /\ p # Worker
  BY WorkerSees
<1>2. /\ Waiting /\ faults' \in {faults, faults + 1}
      /\ mempool' = mempool \/ \E tx \in ToSet(signed) : mempool' = Resent(tx)
      /\ \/ \E state \in {"confirmed", "failed"} :
              Finish(state) /\ (state = "confirmed" => Succeeded(Tx))
         \/ /\ windows > 0 /\ windows' = windows - 1
            /\ UNCHANGED <<jobs, request, attempts, pending, dead, running>>
      /\ UNCHANGED <<todo, publishing, nonce, line, wants, draft, outcome, signed, mined, drops,
                     restarts, conflicts>>
  <2>1. CASE PollSucceeded
    BY <2>1 DEF PollSucceeded, publisherVars, txmVars
  <2>2. CASE PollAborted
    BY <2>2 DEF PollAborted, publisherVars, txmVars
  <2>3. CASE WindowExpires
    BY <2>3 DEF WindowExpires, CanRebroadcast, UseFault, publisherVars
  <2> QED
    BY <2>1, <2>2, <2>3
<1>3. /\ running \in Jobs /\ Held(running) /\ jobs[running].tx # NoTx
      /\ ~InLine(Worker) /\ outcome[Worker] = Pending
  BY <1>2, WorkerSees DEF Waiting, Idle, InLine
<1>4. /\ TxmInv' /\ TxmTypes' /\ Bounded' /\ (\A b : InLine(b)' <=> InLine(b)) /\ Known' = Known
  BY <1>1, <1>2, ClientTxm DEF TxmInv, TxmCore
<1>5. PublisherInv'
  BY <1>1, <1>2, <1>4, PublisherFrame
<1>6. CASE windows > 0 /\ windows' = windows - 1
           /\ UNCHANGED <<jobs, request, attempts, pending, dead, running>>
  <2>1. QueueTypes' /\ Places'
    BY <1>1, <1>6, SMTT(30) DEF QueueTypes, Places, Held, Distinct, Trusted, RelayerAssumption
  <2>2. OwnOperation'
    BY <1>1, <1>2, <1>4, <1>6 DEF OwnOperation, Succeeded, WasMined, AccountNonce
  <2>3. \A o \in Operations : SpentJobs(o) \subseteq SpentJobs(o)'
    BY <1>2, <1>4, <1>6, SpentFrame
  <2>4. Budget'
    <3>1. \A o \in Operations : Issued(o)' \subseteq Issued(o)
      BY <1>2, <1>4, IssuedGrows
    <3>2. faults' + restarts' \in Nat /\ faults + restarts <= faults' + restarts'
      <4>1. faults \in Nat /\ restarts \in Nat
        BY <1>1 DEF TxmTypes
      <4>2. restarts' = restarts /\ (faults' = faults \/ faults' = faults + 1)
        BY <1>2
      <4> QED
        BY <4>1, <4>2
    <3> QED
      BY <1>1, <1>4, <2>1, <2>3, <3>1, <3>2, BudgetStep DEF Trusted
  <2> QED
    BY <1>4, <1>5, <2>1, <2>2, <2>4 DEF RelayerInv, TxmInv, TxmCore
<1>7. CASE \E state \in {"confirmed", "failed"} :
              Finish(state) /\ (state = "confirmed" => Succeeded(Tx))
  <2>1. PICK state \in {"confirmed", "failed"} :
              Finish(state) /\ (state = "confirmed" => Succeeded(Tx))
    BY <1>7
  <2>2. /\ jobs' = [jobs EXCEPT ![running].state = state] /\ running' = NoJob /\ windows' = 0
        /\ UNCHANGED <<request, attempts, pending, dead>>
    BY <2>1 DEF Finish
  <2>3. /\ jobs' \in [Jobs -> [state : JobStates, tx : Transactions \union {NoTx}]]
        /\ jobs'[running].state = state /\ jobs'[running].tx = jobs[running].tx
        /\ \A k \in Jobs : k # running => jobs'[k] = jobs[k]
    BY <1>1, <1>3, <2>2 DEF QueueTypes, JobStates
  <2>4. QueueTypes'
    BY <1>1, <2>2, <2>3 DEF QueueTypes, Distinct, Trusted, RelayerAssumption
  <2>5. Places'
    <3>1. \A i \in 1..Len(pending) : pending[i] # running /\ pending[i] \in Jobs
      BY <1>1, ElementOfSeq DEF Places, QueueTypes
    <3>2. \A k \in Jobs : Held(k)' => Held(k) /\ k # running
      BY <1>1, <2>2, <3>1 DEF Held
    <3>3. request[running] # NoJob
      BY <1>1, <1>3 DEF Places
    <3> QED
      BY <1>1, <2>2, <2>3, <3>1, <3>2, <3>3 DEF Places
  <2>6. OwnOperation'
    BY <1>1, <1>2, <1>3, <1>4, <2>1, <2>2, <2>3, TxFacts
       DEF OwnOperation, Succeeded, WasMined, AccountNonce, Tx
  <2>7. \A o \in Operations : SpentJobs(o) \subseteq SpentJobs(o)'
    BY <1>1, <2>2 DEF SpentJobs, IsSpent
  <2>8. Budget'
    <3>1. \A o \in Operations : Issued(o)' \subseteq Issued(o)
      BY <1>2, <1>4, IssuedGrows
    <3>2. faults' + restarts' \in Nat /\ faults + restarts <= faults' + restarts'
      <4>1. faults \in Nat /\ restarts \in Nat
        BY <1>1 DEF TxmTypes
      <4>2. restarts' = restarts /\ (faults' = faults \/ faults' = faults + 1)
        BY <1>2
      <4> QED
        BY <4>1, <4>2
    <3> QED
      BY <1>1, <1>4, <2>4, <2>7, <3>1, <3>2, BudgetStep DEF Trusted
  <2> QED
    BY <1>4, <1>5, <2>4, <2>5, <2>6, <2>8 DEF RelayerInv, TxmInv, TxmCore
<1> QED
  BY <1>2, <1>6, <1>7

-----------------------------------------------------------------------------
(* The other actors, the chain and a restart.                              *)

\* A step of a submission, whoever's turn it is.
LEMMA SendKeeps ==
  ASSUME Trusted, RelayerInv, NEW a \in Actors, Send(a)
  PROVE  RelayerInv'
<1>1. /\ TxmInv /\ TxmTypes /\ Turns /\ Bounded /\ PublisherInv /\ QueueInv /\ QueueTypes /\ OwnOperation /\ Budget
      /\ Worker \in Actors /\ NoJob \notin Jobs
      /\ \A p \in Publishers : p \in Actors /\ p # Worker
  BY WorkerSees, TxmParts
<1>2. SubmitStep(a) /\ UNCHANGED <<todo, publishing, queueVars>>
  BY DEF Send, publisherVars
<1>3. TxmInv' /\ Sent(a) /\ TxmTypes' /\ Bounded'
  BY <1>1, <1>2, SendEffects DEF Trusted, TxmInv, TxmCore
<1>4. /\ InLine(a) /\ UNCHANGED <<mined, restarts>>
      /\ \A b \in Actors : InLine(b)' => InLine(b) /\ wants'[b] = wants[b]
      /\ \A b \in Actors \ {a} : outcome'[b] = outcome[b] /\ (InLine(b) => InLine(b)')
  BY <1>3 DEF Sent
<1>5. PublisherInv'
  BY <1>1, <1>2, <1>4, PublisherFrame
<1>6. QueueTypes' /\ Places'
  BY <1>1, <1>2, QueueFrame DEF QueueInv
<1>7. \/ outcome'[a] \in {outcome[a], Threw}
      \/ \E t : outcome'[a] = TxidOf(t) /\ t.call = wants[a]
  BY <1>3 DEF Sent
<1>8. OwnOperation'
  <2>1. UNCHANGED <<jobs, request, running>> /\ Grown
    BY <1>2, <1>4 DEF queueVars, Grown
  <2>2. \/ outcome'[Worker] = outcome[Worker]
        \/ InLine(Worker) /\ outcome'[Worker] = Threw
        \/ InLine(Worker) /\ \E t : outcome'[Worker] = TxidOf(t) /\ t.call = wants[Worker]
    BY <1>1, <1>4, <1>7
  <2> QED
    BY <1>1, <1>4, <2>1, <2>2, OwnFrame
<1>9. Budget'
  <2>1. UNCHANGED <<request, pending, running>>
    BY <1>2 DEF queueVars
  <2>2. \A o : SpentJobs(o) \subseteq SpentJobs(o)'
    BY <1>1, <1>4, <2>1, SpentFrame
  <2>3. faults \in Nat /\ restarts \in Nat /\ restarts' = restarts
    BY <1>1, <1>4 DEF TxmTypes
  <2>4. CASE /\ Known' \subseteq Known /\ faults' \in {faults, faults + 1}
    <3>1. \A o \in Operations : Issued(o)' \subseteq Issued(o)
      BY <1>4, <2>4, IssuedGrows
    <3>2. faults' + restarts' \in Nat /\ faults + restarts <= faults' + restarts'
      <4>1. faults' = faults \/ faults' = faults + 1
        BY <2>4
      <4> QED
        BY <2>3, <4>1
    <3> QED
      BY <1>1, <1>3, <1>6, <2>2, <3>1, <3>2, BudgetStep DEF Trusted
  <2>5. CASE /\ ~InLine(a)' /\ faults' = faults
             /\ \E t \in Transactions : /\ Known' \subseteq Known \union {t} /\ t.call = wants[a]
                                        /\ outcome'[a] = TxidOf(t)
    <3>1. PICK t \in Transactions : /\ Known' \subseteq Known \union {t} /\ t.call = wants[a]
                                    /\ outcome'[a] = TxidOf(t)
      BY <2>5
    <3>2. faults' + restarts' \in Nat /\ faults + restarts <= faults' + restarts'
      BY <2>3, <2>5
    <3>3. ASSUME NEW o \in Operations, t.call # OpCall(o)
          PROVE  Issued(o)' \subseteq Issued(o)
      BY <1>4, <3>1, <3>3, IssuedGrows
    <3>4. ASSUME NEW o \in Operations, t.call = OpCall(o)
          PROVE  /\ \E n : Issued(o)' \subseteq Issued(o) \union {n}
                 /\ running \notin SpentJobs(o) /\ SpentJobs(o) \union {running} \subseteq SpentJobs(o)'
      <4>1. a = Worker
        <5>1. SUFFICES ASSUME a \in Publishers PROVE FALSE
          BY DEF Trusted, RelayerAssumption, Publishers
        <5>2. wants[a] \in RootCalls
          BY <1>1, <1>4, <5>1 DEF PublisherInv
        <5> QED
          BY <3>1, <3>4, <5>2, OpCalls1
      <4>2. running \in Jobs /\ request[running] = o
        <5>1. wants[Worker] = OpCall(request[running]) /\ running # NoJob
          BY <1>1, <1>4, <4>1 DEF OwnOperation
        <5>2. running \in Jobs
          BY <1>1, <5>1 DEF QueueTypes
        <5> QED
          BY <3>1, <3>4, <4>1, <5>1, <5>2, OpCalls1
      <4>3. running \notin SpentJobs(o)
        BY <1>4, <4>1 DEF SpentJobs, IsSpent
      <4>4. running \in SpentJobs(o)'
        <5>1. \A i \in 1..Len(pending) : pending[i] # running
          BY <1>1 DEF QueueInv, Places
        <5>2. ~InLine(Worker)' /\ outcome'[Worker] # Threw
          BY <2>5, <3>1, <4>1, TxFacts
        <5> QED
          BY <2>1, <4>2, <5>1, <5>2 DEF SpentJobs, IsSpent
      <4>5. \E n : Issued(o)' \subseteq Issued(o) \union {n}
        BY <1>4, <3>1, IssuedGrows
      <4> QED
        BY <2>2, <4>3, <4>4, <4>5
    <3> QED
      BY <1>1, <1>3, <1>6, <2>2, <3>2, <3>3, <3>4, BudgetStep DEF Trusted
  <2>6. CASE /\ faults' = faults + 1
             /\ \E t \in Transactions : Known' \subseteq Known \union {t} /\ t.call = wants[a]
    <3>1. \A o \in Operations : \E n : Issued(o)' \subseteq Issued(o) \union {n}
      BY <1>4, <2>6, IssuedGrows
    <3>2. faults' + restarts' \in Nat /\ faults' + restarts' = faults + restarts + 1
      BY <2>3, <2>6
    <3> QED
      BY <1>1, <1>3, <1>6, <2>2, <3>1, <3>2, BudgetStep DEF Trusted
  <2> QED
    BY <1>3, <2>4, <2>5, <2>6 DEF Sent
<1> QED
  BY <1>3, <1>5, <1>6, <1>8, <1>9 DEF RelayerInv, TxmInv, TxmCore

\* What the publishers and the chain do leaves the queue's books alone.
LEMMA OutsideKeeps ==
  ASSUME Trusted, RelayerInv, TxmInv', PublisherInv', UNCHANGED queueVars, Grown,
         InLine(Worker)' => InLine(Worker) /\ wants'[Worker] = wants[Worker],
         outcome'[Worker] = outcome[Worker], restarts' = restarts,
         faults' \in {faults, faults + 1},
         \A o \in Operations : Issued(o)' \subseteq Issued(o)
  PROVE  RelayerInv'
<1>1. TxmInv /\ TxmTypes /\ Bounded /\ QueueInv /\ QueueTypes /\ OwnOperation /\ Budget
  BY WorkerSees
<1>2. TxmTypes' /\ Bounded'
  BY DEF TxmInv, TxmCore
<1>3. QueueTypes' /\ Places'
  BY <1>1, QueueFrame DEF QueueInv
<1>4. UNCHANGED <<jobs, request, running, pending>>
  BY DEF queueVars
<1>5. OwnOperation'
  BY <1>1, <1>4, OwnFrame
<1>6. \A o : SpentJobs(o) \subseteq SpentJobs(o)'
  BY <1>4, SpentFrame
<1>7. faults' + restarts' \in Nat /\ faults + restarts <= faults' + restarts'
  BY <1>1 DEF TxmTypes
<1>8. Budget'
  BY <1>1, <1>2, <1>3, <1>6, <1>7, BudgetStep DEF Trusted
<1> QED
  BY <1>2, <1>3, <1>5, <1>8 DEF RelayerInv, TxmInv, TxmCore

LEMMA ChainKeeps ==
  ASSUME Trusted, RelayerInv, ChainStep
  PROVE  RelayerInv'
<1>1. TxmInv /\ TxmTypes /\ Bounded /\ PublisherInv
  BY WorkerSees
<1>2. UNCHANGED <<todo, publishing, queueVars>> /\ (MineNext(Results) \/ Drop)
  BY DEF ChainStep, publisherVars
<1>3. CASE MineNext(Results)
  <2>1. PICK tx \in mempool, ok \in BOOLEAN :
          /\ tx.nonce = AccountNonce
          /\ mined' = Append(mined, [call |-> tx.call, ok |-> ok]) /\ mempool' = mempool \ {tx}
          /\ UNCHANGED <<nonce, line, wants, draft, outcome, signed, faults, drops, restarts, conflicts>>
    BY <1>3 DEF MineNext, Results
  <2>2. TxmInv' /\ AccountNonce' = AccountNonce + 1 /\ \A b : InLine(b)' <=> InLine(b)
    BY <1>1, <2>1, ChainTxm
  <2>3. PublisherInv'
    BY <1>1, <1>2, <2>1, <2>2, PublisherFrame
  <2>4. tx.call \in Calls
    BY <1>1, <2>1, TxFacts DEF TxmTypes
  <2>5. Grown
    BY <2>1, <2>4 DEF Grown
  <2>6. ASSUME NEW o \in Operations PROVE Issued(o)' \subseteq Issued(o)
    <3>1. /\ AccountNonce \in Nat /\ Len(mined) = AccountNonce
          /\ mined'[AccountNonce + 1] = [call |-> tx.call, ok |-> ok]
          /\ \A i \in 1..AccountNonce : mined'[i] = mined[i]
      BY <1>1, <2>1, AppendProperties, LenProperties DEF TxmTypes, AccountNonce
    <3>2. Known' \subseteq Known /\ tx \in Known
      BY <2>1 DEF Known
    <3>3. \A n \in 0..AccountNonce : mined'[n + 1].call = OpCall(o) => n \in Issued(o)
      <4> SUFFICES ASSUME NEW n \in 0..AccountNonce, mined'[n + 1].call = OpCall(o)
                   PROVE  n \in Issued(o)
        OBVIOUS
      <4>1. CASE n = AccountNonce
        BY <2>1, <3>1, <3>2, <4>1 DEF Issued
      <4>2. CASE n # AccountNonce
        <5>1. n \in 0..(AccountNonce - 1) /\ n + 1 \in 1..AccountNonce
          BY <3>1, <4>2
        <5> QED
          BY <3>1, <5>1 DEF Issued
      <4> QED
        BY <4>1, <4>2
    <3>4. 0..(AccountNonce' - 1) = 0..AccountNonce
      BY <2>2, <3>1
    <3> QED
      BY <3>2, <3>3, <3>4 DEF Issued
  <2> QED
    BY <1>2, <2>1, <2>2, <2>3, <2>5, <2>6, OutsideKeeps
<1>4. CASE Drop
  <2>1. /\ \E tx \in mempool : mempool' = mempool \ {tx}
        /\ UNCHANGED <<line, wants, outcome, signed, mined, faults, restarts>>
    BY <1>4 DEF Drop
  <2>2. TxmInv' /\ \A b : InLine(b)' <=> InLine(b)
    BY <1>1, <1>4, DropTxm
  <2>3. PublisherInv'
    BY <1>1, <1>2, <2>1, <2>2, PublisherFrame
  <2>4. Known' \subseteq Known
    BY <2>1 DEF Known
  <2>5. \A o \in Operations : Issued(o)' \subseteq Issued(o)
    BY <2>1, <2>4, IssuedGrows
  <2> QED
    BY <1>2, <2>1, <2>2, <2>3, <2>5, OutsideKeeps DEF Grown
<1> QED
  BY <1>2, <1>3, <1>4

LEMMA PublisherFacts ==
  ASSUME Trusted, NEW p \in Publishers
  PROVE  /\ p \in Actors /\ p # Worker
         /\ \A v \in ToSet(VERIFIERS), g \in Aggregations : RootCall(v, g) \in RootCalls
         /\ \A c \in RootCalls : c \in Calls
         /\ NoAggregation \notin Aggregations
         /\ VERIFIERS \in Seq(ToSet(VERIFIERS)) /\ VERIFIERS # <<>>
<1>1. VERIFIERS \in Seq(ToSet(VERIFIERS)) /\ VERIFIERS # <<>>
  <2>1. ToSet(VERIFIERS) = {NATIVE_VERIFIER, SIP10_VERIFIER}
    BY DEF VERIFIERS, ToSet
  <2> QED
    BY <2>1 DEF VERIFIERS
<1> QED
  BY <1>1, ActorFacts DEF Trusted, RootCalls, PublisherAssumption

\* A publisher turns to the next verifier, submits, or starts and ends a walk.
LEMMA PublishKeeps ==
  ASSUME Trusted, RelayerInv, NEW p \in Publishers,
         \/ PublishStep(p)
         \/ \E g \in Aggregations : SubmitterPublish(g) /\ UNCHANGED <<queueVars, driver>>
  PROVE  RelayerInv'
<1>1. TxmInv /\ TxmTypes /\ Turns /\ Bounded /\ PublisherInv
  BY WorkerSees, TxmParts
<1>2. /\ p \in Actors /\ p # Worker /\ Worker \in Actors
      /\ \A v \in ToSet(VERIFIERS), g \in Aggregations : RootCall(v, g) \in RootCalls
      /\ \A c \in RootCalls : c \in Calls
      /\ NoAggregation \notin Aggregations
      /\ VERIFIERS \in Seq(ToSet(VERIFIERS)) /\ VERIFIERS # <<>>
  BY PublisherFacts, ActorFacts DEF Trusted
<1>3. UNCHANGED queueVars
  BY DEF PublishStep
<1>4. /\ todo \in [Publishers -> Seq(ToSet(VERIFIERS))]
      /\ publishing \in [Publishers -> Aggregations \union {NoAggregation}]
  BY <1>1 DEF PublisherInv
<1>5. ASSUME NEW q \in Publishers, NEW g \in Aggregations,
             StartPublishRoot(q, g), UNCHANGED txmVars
      PROVE  RelayerInv'
  <2>1. /\ publishing' = [publishing EXCEPT ![q] = g] /\ todo' = [todo EXCEPT ![q] = VERIFIERS]
    BY <1>5 DEF StartPublishRoot
  <2>2. TxmInv' /\ (\A b : InLine(b)' <=> InLine(b)) /\ Known' = Known
    BY <1>1, <1>5, StillTxm
  <2>3. UNCHANGED <<outcome, wants, mined, faults, restarts>>
    BY <1>5 DEF txmVars
  <2>4. PublisherInv'
    BY <1>1, <1>2, <1>4, <2>1, <2>2, <2>3 DEF PublisherInv
  <2>5. \A o \in Operations : Issued(o)' \subseteq Issued(o)
    BY <2>2, <2>3, IssuedGrows
  <2> QED
    BY <1>3, <2>2, <2>3, <2>4, <2>5, OutsideKeeps DEF Grown
<1>6. CASE \E g \in Aggregations : PollerPublish(g) \/ SubmitterPublish(g)
  <2>1. PICK g \in Aggregations, q \in {Poller, Submitter} : StartPublishRoot(q, g) /\ UNCHANGED txmVars
    BY <1>6 DEF PollerPublish, SubmitterPublish
  <2> QED
    BY <1>5, <2>1 DEF Publishers
<1>7. CASE CheckPosted(p)
  <2> DEFINE v == Head(todo[p])
  <2>1. /\ todo[p] # <<>> /\ ~InLine(p) /\ outcome[p] = Pending /\ UNCHANGED publishing
        /\ \/ todo' = [todo EXCEPT ![p] = Tail(@)] /\ UNCHANGED txmVars
           \/ /\ line' = Append(line, p)
              /\ wants' = [wants EXCEPT ![p] = RootCall(v, publishing[p])]
              /\ faults' \in {faults, faults + 1} /\ todo' = todo
              /\ UNCHANGED <<nonce, draft, outcome, signed, nodeVars, conflicts>>
    BY <1>7 DEF CheckPosted, Enqueue, Idle, InLine, UseFault
  <2>2. v \in ToSet(VERIFIERS) /\ Tail(todo[p]) \in Seq(ToSet(VERIFIERS)) /\ publishing[p] \in Aggregations
    BY <1>1, <1>4, <2>1, HeadTailProperties DEF PublisherInv
  <2> HIDE DEF v
  <2>3. CASE todo' = [todo EXCEPT ![p] = Tail(@)] /\ UNCHANGED txmVars
    <3>1. TxmInv' /\ (\A b : InLine(b)' <=> InLine(b)) /\ Known' = Known
      BY <1>1, <2>3, StillTxm
    <3>2. UNCHANGED <<outcome, wants, mined, faults, restarts>>
      BY <2>3 DEF txmVars
    <3>3. /\ todo' \in [Publishers -> Seq(ToSet(VERIFIERS))]
          /\ \A q \in Publishers \ {p} : todo'[q] = todo[q]
      BY <1>4, <2>2, <2>3
    <3>4. PublisherInv'
      <4> SUFFICES ASSUME NEW q \in Publishers
                   PROVE  /\ todo'[q] # <<>> => publishing[q] # NoAggregation
                          /\ InLine(q) => wants[q] \in RootCalls
                          /\ InLine(q) \/ outcome[q] # Pending => todo'[q] # <<>>
        BY <1>4, <2>1, <3>1, <3>2, <3>3 DEF PublisherInv
      <4>1. CASE q = p
        BY <1>2, <2>1, <2>2, <4>1
      <4>2. CASE q # p
        BY <1>1, <3>3, <4>2 DEF PublisherInv
      <4> QED
        BY <4>1, <4>2
    <3>5. \A o \in Operations : Issued(o)' \subseteq Issued(o)
      BY <3>1, <3>2, IssuedGrows
    <3> QED
      BY <1>3, <3>1, <3>2, <3>4, <3>5, OutsideKeeps DEF Grown
  <2>4. CASE /\ line' = Append(line, p)
             /\ wants' = [wants EXCEPT ![p] = RootCall(v, publishing[p])]
             /\ faults' \in {faults, faults + 1} /\ todo' = todo
             /\ UNCHANGED <<nonce, draft, outcome, signed, nodeVars, conflicts>>
    <3>1. RootCall(v, publishing[p]) \in RootCalls /\ RootCall(v, publishing[p]) \in Calls
      BY <1>2, <2>2
    <3>2. /\ TxmInv'
          /\ \A b : InLine(b)' <=> InLine(b) \/ b = p
          /\ wants'[p] = RootCall(v, publishing[p])
          /\ \A b \in Actors \ {p} : wants'[b] = wants[b]
      BY <1>1, <1>2, <2>1, <2>4, <3>1, JoinTxm
    <3>3. UNCHANGED <<outcome, signed, mempool, mined, restarts, publishing, todo>>
      BY <2>1, <2>4 DEF nodeVars
    <3>4. PublisherInv'
      <4> SUFFICES ASSUME NEW q \in Publishers
                   PROVE  /\ todo[q] # <<>> => publishing[q] # NoAggregation
                          /\ InLine(q)' => wants'[q] \in RootCalls
                          /\ InLine(q)' \/ outcome[q] # Pending => todo[q] # <<>>
        BY <1>4, <3>3 DEF PublisherInv
      <4>1. q \in Actors
        BY PublisherFacts
      <4>2. CASE q = p
        BY <1>1, <2>1, <3>1, <3>2, <4>2 DEF PublisherInv
      <4>3. CASE q # p
        BY <1>1, <3>2, <4>1, <4>3 DEF PublisherInv
      <4> QED
        BY <4>2, <4>3
    <3>5. Known' = Known
      BY <3>3 DEF Known
    <3>6. \A o \in Operations : Issued(o)' \subseteq Issued(o)
      BY <3>3, <3>5, IssuedGrows
    <3> QED
      BY <1>2, <1>3, <2>4, <3>2, <3>3, <3>4, <3>6, OutsideKeeps DEF Grown
  <2> QED
    BY <2>1, <2>3, <2>4
<1>8. CASE VerifierDone(p)
  <2>1. /\ outcome[p] # Pending /\ TakeOutcome(p) /\ todo' = [todo EXCEPT ![p] = Tail(@)]
        /\ UNCHANGED <<publishing, nonce, line, wants, draft, signed, mempool, mined, drops,
                       restarts, faults, conflicts>>
    BY <1>8 DEF VerifierDone, nodeVars
  <2>2. todo[p] # <<>> /\ ~InLine(p)
    BY <1>1, <1>2, <2>1 DEF PublisherInv, Turns
  <2>3. Tail(todo[p]) \in Seq(ToSet(VERIFIERS)) /\ publishing[p] # NoAggregation
    BY <1>1, <1>4, <2>2, HeadTailProperties DEF PublisherInv
  <2>4. TxmInv' /\ (\A b : InLine(b)' <=> InLine(b)) /\ Known' = Known
    BY <1>1, <1>2, <2>1, ClientTxm
  <2>5. outcome'[p] = Pending /\ \A a \in Actors \ {p} : outcome'[a] = outcome[a]
    BY <1>1, <1>2, <2>1 DEF TakeOutcome, TxmTypes
  <2>6. /\ todo' \in [Publishers -> Seq(ToSet(VERIFIERS))]
        /\ \A q \in Publishers \ {p} : todo'[q] = todo[q]
    BY <1>4, <2>1, <2>3
  <2>7. PublisherInv'
    <3> SUFFICES ASSUME NEW q \in Publishers
                 PROVE  /\ todo'[q] # <<>> => publishing[q] # NoAggregation
                        /\ InLine(q) => wants[q] \in RootCalls
                        /\ InLine(q) \/ outcome'[q] # Pending => todo'[q] # <<>>
      BY <1>4, <2>1, <2>4, <2>6 DEF PublisherInv
    <3>1. q \in Actors
      BY PublisherFacts
    <3>2. CASE q = p
      BY <2>2, <2>3, <2>5, <3>2
    <3>3. CASE q # p
      BY <1>1, <2>5, <2>6, <3>1, <3>3 DEF PublisherInv
    <3> QED
      BY <3>2, <3>3
  <2>8. \A o \in Operations : Issued(o)' \subseteq Issued(o)
    BY <2>1, <2>4, IssuedGrows
  <2> QED
    BY <1>2, <1>3, <2>1, <2>4, <2>5, <2>7, <2>8, OutsideKeeps DEF Grown
<1>9. CASE PublishRootDone(p)
  <2>1. /\ todo[p] = <<>> /\ publishing' = [publishing EXCEPT ![p] = NoAggregation]
        /\ UNCHANGED <<todo, txmVars>>
    BY <1>9 DEF PublishRootDone
  <2>2. TxmInv' /\ (\A b : InLine(b)' <=> InLine(b)) /\ Known' = Known
    BY <1>1, <2>1, StillTxm
  <2>3. UNCHANGED <<outcome, wants, mined, faults, restarts>>
    BY <2>1 DEF txmVars
  <2>4. PublisherInv'
    BY <1>1, <1>4, <2>1, <2>2, <2>3 DEF PublisherInv
  <2>5. \A o \in Operations : Issued(o)' \subseteq Issued(o)
    BY <2>2, <2>3, IssuedGrows
  <2> QED
    BY <1>3, <2>2, <2>3, <2>4, <2>5, OutsideKeeps DEF Grown
<1> QED
  BY <1>6, <1>7, <1>8, <1>9 DEF PublishStep

LEMMA FinalizeKeeps ==
  ASSUME Trusted, RelayerInv, NEW g, FinalizeAggregation(g), UNCHANGED queueVars
  PROVE  RelayerInv'
<1>1. TxmInv /\ PublisherInv
  BY WorkerSees
<1>2. UNCHANGED <<todo, publishing, txmVars>>
  BY DEF FinalizeAggregation
<1>3. TxmInv' /\ (\A b : InLine(b)' <=> InLine(b)) /\ Known' = Known
  BY <1>1, <1>2, StillTxm
<1>4. UNCHANGED <<outcome, wants, mined, faults, restarts>>
  BY <1>2 DEF txmVars
<1>5. PublisherInv'
  BY <1>1, <1>2, <1>3, <1>4, PublisherFrame
<1>6. \A o \in Operations : Issued(o)' \subseteq Issued(o)
  BY <1>3, <1>4, IssuedGrows
<1> QED
  BY <1>3, <1>4, <1>5, <1>6, OutsideKeeps DEF Grown

\* The process restarts: what was on its way may still be accepted.
LEMMA RestartKeeps ==
  ASSUME Trusted, RelayerInv, Restart
  PROVE  RelayerInv'
<1>1. /\ TxmInv /\ TxmTypes /\ Turns /\ Bounded /\ PublisherInv /\ QueueTypes /\ Places
      /\ OwnOperation /\ Budget /\ TxmCore
      /\ Worker \in Actors /\ NoJob \notin Jobs
      /\ \A p \in Publishers : p \in Actors /\ p # Worker
      /\ running # NoJob => running \in Jobs /\ Held(running)
  BY WorkerSees, TxmParts
<1>2. /\ TxmRestart /\ PublisherRestart
      /\ jobs' = [j \in Jobs |-> UnknownJob] /\ running' = NoJob /\ windows' = 0
      /\ request' = request
      /\ \/ pending' = <<>> /\ dead' = {} /\ attempts' = [j \in Jobs |-> 0]
         \/ /\ pending' = IF running = NoJob THEN pending ELSE <<running>> \o pending
            /\ UNCHANGED <<dead, attempts>>
  BY DEF Restart
<1>3. /\ restarts' = restarts + 1 /\ signed' = <<>> /\ UNCHANGED <<mined, faults>>
      /\ \/ mempool' = mempool
         \/ \E a \in Actors : draft[a] # NoTx /\ mempool' = mempool \union {draft[a]}
  BY <1>2 DEF TxmRestart
<1>4. /\ TxmInv' /\ TxmTypes' /\ Bounded'
      /\ (\A b : ~InLine(b)') /\ (\A b \in Actors : outcome'[b] = Pending)
  BY <1>1, <1>2, RestartTxm, RestartCore DEF TxmInv, TxmCore
<1>5. PublisherInv'
  <2>1. /\ publishing' = [p \in Publishers |-> NoAggregation]
        /\ todo' = [p \in Publishers |-> <<>>]
    BY <1>2 DEF PublisherRestart
  <2>2. <<>> \in Seq(ToSet(VERIFIERS))
    OBVIOUS
  <2> QED
    BY <1>1, <1>4, <2>1, <2>2 DEF PublisherInv
<1>6. /\ pending' \in Seq(Jobs) /\ Distinct(pending)'
      /\ \A x : (\E i \in 1..Len(pending') : pending'[i] = x)
                 => (\E i \in 1..Len(pending) : pending[i] = x) \/ (x = running /\ running # NoJob)
  <2>1. pending \in Seq(Jobs) /\ Distinct(pending) /\ \A i \in 1..Len(pending) : pending[i] # running
    BY <1>1 DEF QueueTypes, Places
  <2>2. CASE pending' = <<>>
    BY <2>2 DEF Distinct
  <2>3. CASE running = NoJob /\ pending' = pending
    BY <2>1, <2>3 DEF Distinct
  <2>4. CASE running # NoJob /\ pending' = <<running>> \o pending
    BY <1>1, <2>1, <2>4, ConsDistinct DEF Distinct
  <2> QED
    BY <1>2, <2>2, <2>3, <2>4
<1>7. \A j \in Jobs : jobs'[j] = UnknownJob
  BY <1>2
<1>8. MaxAttempts \in Nat \ {0} /\ Rebroadcasts \in Nat
  BY DEF Trusted, RelayerAssumption
<1>9. QueueTypes'
  <2>1. UnknownJob \in [state : JobStates, tx : Transactions \union {NoTx}]
    BY DEF UnknownJob, JobStates
  <2>2. attempts' \in [Jobs -> 0..MaxAttempts] /\ dead' \subseteq Jobs
    BY <1>1, <1>2, <1>8 DEF QueueTypes
  <2>3. jobs' \in [Jobs -> [state : JobStates, tx : Transactions \union {NoTx}]]
    BY <1>2, <2>1
  <2>4. /\ request' \in [Jobs -> Operations \union {NoJob}]
        /\ IsFiniteSet({j \in Jobs : request'[j] # NoJob})
    BY <1>1, <1>2 DEF QueueTypes
  <2> QED
    BY <1>2, <1>6, <1>8, <2>2, <2>3, <2>4 DEF QueueTypes, Transactions
<1>10. Places'
  <2>1. \A i \in 1..Len(pending') : pending'[i] # running'
    BY <1>1, <1>2, <1>6, ElementOfSeq
  <2>2. \A j \in Jobs : Held(j)' => Held(j)
    BY <1>1, <1>2, <1>6 DEF Held
  <2>3. UnknownJob.state \notin Terminal
    BY DEF UnknownJob, Terminal
  <2>4. \A j \in Jobs : attempts'[j] \in {0, attempts[j]} /\ (j \in dead' => j \in dead)
    BY <1>2
  <2> QED
    BY <1>1, <1>2, <1>7, <1>8, <2>1, <2>2, <2>3, <2>4 DEF Places
<1>11. OwnOperation'
  <2>1. UnknownJob.tx = NoTx /\ UnknownJob.state # "confirmed"
    BY DEF UnknownJob
  <2> QED
    BY <1>1, <1>4, <1>7, <2>1, TxFacts DEF OwnOperation
<1>12. Budget'
  <2>1. faults' + restarts' \in Nat /\ faults' + restarts' = faults + restarts + 1
    BY <1>1, <1>3 DEF TxmTypes
  <2>2. \A o : SpentJobs(o) \ {running} \subseteq SpentJobs(o)'
    BY <1>1, <1>2, <1>4, <1>6, TxFacts DEF SpentJobs, IsSpent
  <2>3. Known' = mempool'
    BY <1>3 DEF Known, ToSet
  <2>4. CASE mempool' = mempool
    <3>1. \A o \in Operations : Issued(o)' \subseteq Issued(o)
      BY <1>3, <2>3, <2>4, IssuedGrows DEF Known
    <3>2. \A o \in Operations : \E k : SpentJobs(o) \ {k} \subseteq SpentJobs(o)'
      BY <2>2
    <3> QED
      BY <1>1, <1>4, <1>9, <2>1, <3>1, <3>2, BudgetStep DEF Trusted
  <2>5. ASSUME NEW a \in Actors, draft[a] # NoTx, mempool' = mempool \union {draft[a]}
        PROVE  Budget'
    <3>1. InLine(a) /\ draft[a].call = wants[a]
      <4>1. MayProceed(a)
        BY <1>1, <2>5 DEF Turns
      <4> QED
        BY <1>1, <2>5, <4>1, HeadDraft
    <3>2. Known' \subseteq Known \union {draft[a]}
      BY <2>3, <2>5 DEF Known
    <3>3. CASE a = Worker
      <4>1. \A o \in Operations : \E n : Issued(o)' \subseteq Issued(o) \union {n}
        BY <1>3, <3>2, IssuedGrows
      <4>2. \A o : running \notin SpentJobs(o)
        BY <3>1, <3>3 DEF SpentJobs, IsSpent
      <4>3. \A o \in Operations : SpentJobs(o) \subseteq SpentJobs(o)'
        BY <2>2, <4>2
      <4> QED
        BY <1>1, <1>4, <1>9, <2>1, <4>1, <4>3, BudgetStep DEF Trusted
    <3>4. CASE a # Worker
      <4>1. a \in Publishers
        BY <3>4 DEF Trusted, RelayerAssumption, Publishers
      <4>2. draft[a].call \in RootCalls
        BY <1>1, <3>1, <4>1 DEF PublisherInv
      <4>3. \A o \in Operations : Issued(o)' \subseteq Issued(o)
        BY <1>3, <3>2, <4>2, OpCalls1, IssuedGrows
      <4>4. \A o \in Operations : \E k : SpentJobs(o) \ {k} \subseteq SpentJobs(o)'
        BY <2>2
      <4> QED
        BY <1>1, <1>4, <1>9, <2>1, <4>3, <4>4, BudgetStep DEF Trusted
    <3> QED
      BY <3>3, <3>4
  <2> QED
    BY <1>3, <2>4, <2>5
<1> QED
  BY <1>4, <1>5, <1>9, <1>10, <1>11, <1>12 DEF RelayerInv, TxmInv, TxmCore

-----------------------------------------------------------------------------
(* The inductive invariant holds.                                          *)

LEMMA InitKeeps ==
  ASSUME Trusted, RelayerInit
  PROVE  RelayerInv
<1>1. /\ nonce = NoNonce /\ line = <<>> /\ signed = <<>> /\ mempool = {} /\ mined = <<>>
      /\ wants = [a \in Actors |-> NoCall] /\ draft = [a \in Actors |-> NoTx]
      /\ outcome = [a \in Actors |-> Pending]
      /\ faults = 0 /\ drops = 0 /\ restarts = 0 /\ conflicts = 0
      /\ publishing = [p \in Publishers |-> NoAggregation] /\ todo = [p \in Publishers |-> <<>>]
  BY DEF RelayerInit, TxmInit, TxmStart, PublisherInit, PublishersIdle
<1>2. /\ jobs = [j \in Jobs |-> UnknownJob] /\ request = [j \in Jobs |-> NoJob]
      /\ attempts = [j \in Jobs |-> 0] /\ pending = <<>> /\ dead = {} /\ running = NoJob
      /\ windows = 0
  BY DEF RelayerInit, QueueInit
<1>3. /\ Worker \in Actors /\ MaxAttempts \in Nat \ {0} /\ Rebroadcasts \in Nat
      /\ \A p \in Publishers : p \in Actors
  BY ActorFacts DEF Trusted, RelayerAssumption
<1>4. (\A b : ~InLine(b)) /\ Known = {} /\ AccountNonce = 0
  BY <1>1 DEF InLine, Known, ToSet, AccountNonce
<1>5. TxmTypes
  BY <1>1 DEF TxmTypes, Distinct, NoNonce
<1>6. Turns /\ Bounded
  BY <1>1, <1>4 DEF Turns, Bounded
<1>7. GapsAreDrops
  <2>1. SUFFICES ASSUME NEW n \in Nat, Reached(n) PROVE Cardinality(Gaps(n)) <= 0
    BY <1>1 DEF GapsAreDrops
  <2>2. n = 0
    BY <1>1, <1>4, <2>1 DEF Reached
  <2>3. Gaps(n) = {}
    BY <1>4, <2>2 DEF Gaps
  <2> QED
    BY <2>3, FS_EmptySet
<1>8. CounterLeads
  BY <1>1 DEF CounterLeads
<1>9. PublisherInv
  BY <1>1, <1>3, <1>4 DEF PublisherInv
<1>10. QueueTypes
  <2>1. UnknownJob \in [state : JobStates, tx : Transactions \union {NoTx}]
    BY DEF UnknownJob, JobStates
  <2>2. IsFiniteSet({j \in Jobs : request[j] # NoJob})
    <3>1. {j \in Jobs : request[j] # NoJob} = {}
      BY <1>2
    <3> QED
      BY <3>1, FS_EmptySet
  <2>3. jobs \in [Jobs -> [state : JobStates, tx : Transactions \union {NoTx}]]
    BY <1>2, <2>1
  <2>4. attempts \in [Jobs -> 0..MaxAttempts] /\ windows \in 0..Rebroadcasts
    BY <1>2, <1>3
  <2> QED
    BY <1>2, <2>2, <2>3, <2>4 DEF QueueTypes, Distinct
<1>11. Places
  BY <1>2, ActorFacts DEF Places, Held, Trusted
<1>12. OwnOperation
  <2>1. UnknownJob.tx = NoTx /\ UnknownJob.state # "confirmed"
    BY DEF UnknownJob
  <2> QED
    BY <1>1, <1>2, <1>3, <1>4, <2>1, TxFacts DEF OwnOperation
<1>13. Budget
  <2>1. SUFFICES ASSUME NEW op \in Operations
                 PROVE  Cardinality(Issued(op)) <= Cardinality(SpentJobs(op)) + 0 + 0
    BY <1>1 DEF Budget
  <2>2. Issued(op) = {}
    BY <1>4 DEF Issued
  <2>3. Cardinality(SpentJobs(op)) \in Nat
    BY <1>5, <1>6, <1>10, Counts DEF Trusted
  <2>4. Cardinality({}) = 0
    BY FS_EmptySet
  <2> QED
    BY <2>2, <2>3, <2>4
<1> QED
  BY <1>5, <1>6, <1>7, <1>8, <1>9, <1>10, <1>11, <1>12, <1>13 DEF RelayerInv

LEMMA StutterKeeps ==
  ASSUME Trusted, RelayerInv, UNCHANGED vars
  PROVE  RelayerInv'
<1>1. TxmInv /\ PublisherInv
  BY WorkerSees
<1>2. UNCHANGED txmVars /\ UNCHANGED queueVars /\ UNCHANGED <<todo, publishing>>
  BY DEF vars, publisherVars
<1>3. TxmInv' /\ (\A b : InLine(b)' <=> InLine(b)) /\ Known' = Known
  BY <1>1, <1>2, StillTxm
<1>4. UNCHANGED <<outcome, wants, mined, faults, restarts>>
  BY <1>2 DEF txmVars
<1>5. PublisherInv'
  BY <1>1, <1>2, <1>3, <1>4, PublisherFrame
<1>6. \A o \in Operations : Issued(o)' \subseteq Issued(o)
  BY <1>3, <1>4, IssuedGrows
<1> QED
  BY <1>2, <1>3, <1>4, <1>5, <1>6, OutsideKeeps DEF Grown

LEMMA NextKeeps ==
  ASSUME Trusted, RelayerInv, [Next]_vars
  PROVE  RelayerInv'
<1>1. CASE \E j \in Jobs, op \in Operations : Accept(j, op)
  BY <1>1, AcceptKeeps
<1>2. CASE WorkerStep
  BY <1>2, StartKeeps, SubmittedKeeps, ThrewKeeps, FinishKeeps DEF WorkerStep
<1>3. CASE \E a \in Actors : Send(a)
  BY <1>3, SendKeeps
<1>4. CASE \E p \in Publishers : PublishStep(p)
  BY <1>4, PublishKeeps
<1>5. CASE \E g \in Aggregations : FinalizeAggregation(g) /\ UNCHANGED <<queueVars, driver>>
  BY <1>5, FinalizeKeeps
<1>6. CASE \E g \in Aggregations : SubmitterPublish(g) /\ UNCHANGED <<queueVars, driver>>
  <2>1. Poller \in Publishers
    BY DEF Publishers
  <2> QED
    BY <1>6, <2>1, PublishKeeps
<1>7. CASE ChainStep
  BY <1>7, ChainKeeps
<1>8. CASE Restart
  BY <1>8, RestartKeeps
<1>9. CASE UNCHANGED vars
  BY <1>9, StutterKeeps
<1> QED
  BY <1>1, <1>2, <1>3, <1>4, <1>5, <1>6, <1>7, <1>8, <1>9 DEF Next

LEMMA RelayerInvariant == Spec => []RelayerInv
<1>1. Trusted
  BY TxmAssumption, PublisherAssumption, RelayerAssumption DEF Trusted
<1>2. RelayerInit => RelayerInv
  BY <1>1, InitKeeps
<1>3. RelayerInv /\ [Next]_vars => RelayerInv'
  BY <1>1, NextKeeps
<1> QED
  BY <1>2, <1>3, PTL DEF Spec

-----------------------------------------------------------------------------
(* What a reader should know.                                              *)

\* Every contract call of the relayer, user operations and aggregation roots
\* alike, goes out under one locally tracked nonce (submitRaw, behind the promise
\* chain of enqueue).  However many jobs, publications, lost answers, dropped
\* transactions and restarts there are: the manager's state keeps its type; the
\* nonces below the counter that neither the chain nor the mempool has are at
\* most as many as the transactions the node dropped; and while nothing is lost,
\* dropped or restarted the node never rejects a broadcast.
THEOREM NonceNeverSkipsOrCollides == Spec => []NonceDiscipline
<1>1. ASSUME RelayerInv PROVE NonceDiscipline
  <2>1. RelayerTypeOK
    <3>1. TxmTypes /\ QueueTypes
      BY <1>1 DEF RelayerInv
    <3>2. ToSet(signed) \subseteq Transactions
      BY <3>1, Numbers DEF Known
    <3> QED
      BY <3>1, <3>2 DEF RelayerTypeOK, TxmTypes, QueueTypes
  <2>2. OnlyDropsLeaveNonceGaps
    <3>1. SUFFICES ASSUME nonce # NoNonce
                   PROVE  Cardinality((AccountNonce..(nonce - 1)) \ NoncesInMempool) <= drops
      BY DEF OnlyDropsLeaveNonceGaps
    <3>2. nonce \in Nat /\ Reached(nonce)
      BY <1>1, <3>1 DEF RelayerInv, TxmTypes, Reached
    <3> QED
      BY <1>1, <3>2 DEF RelayerInv, GapsAreDrops, Gaps
  <2>3. SerializedSubmissionsNeverConflict
    BY <1>1 DEF RelayerInv, CounterLeads, SerializedSubmissionsNeverConflict
  <2> QED
    BY <2>1, <2>2, <2>3 DEF NonceDiscipline
<1> QED
  BY <1>1, RelayerInvariant, PTL

\* An expired window re-sends the job's own transaction (rebroadcast), it does
\* not sign another.  So the nonces under which the node holds or has mined an
\* operation are no more than the jobs accepted for it, one more for each
\* answer that was lost and each restart of the process, which are what makes
\* the handler run, and sign, again.
THEOREM ExtraTransactionsAreAccountedFor == Spec => []ExtraTransactionsNeedALostAnswer
<1>1. ASSUME RelayerInv PROVE ExtraTransactionsNeedALostAnswer
  <2>1. TxmTypes /\ Bounded /\ QueueTypes /\ Budget
    BY <1>1 DEF RelayerInv
  <2> SUFFICES ASSUME NEW op \in Operations
               PROVE  Cardinality(TransactionsOf(op)) <=
                        Cardinality({j \in Jobs : request[j] = op}) + faults + restarts
    BY DEF ExtraTransactionsNeedALostAnswer
  <2> DEFINE of == {j \in Jobs : request[j] = op}
  <2>2. /\ IsFiniteSet(Issued(op)) /\ Cardinality(Issued(op)) \in Nat
        /\ IsFiniteSet(SpentJobs(op)) /\ Cardinality(SpentJobs(op)) \in Nat
    BY <2>1, Counts, RelayerAssumption
  <2>3. TransactionsOf(op) \subseteq Issued(op)
    BY DEF TransactionsOf, Issued, Known
  <2>4. Cardinality(TransactionsOf(op)) \in Nat /\ Cardinality(TransactionsOf(op)) <= Cardinality(Issued(op))
    BY <2>2, <2>3, FS_Subset, FS_CardinalityType
  <2>5. IsFiniteSet(of)
    <3>1. of \subseteq {j \in Jobs : request[j] # NoJob}
      BY RelayerAssumption
    <3>2. IsFiniteSet({j \in Jobs : request[j] # NoJob})
      BY <2>1 DEF QueueTypes
    <3> QED
      BY <3>1, <3>2, FS_Subset
  <2>6. SpentJobs(op) \subseteq of
    BY DEF SpentJobs
  <2>7. Cardinality(of) \in Nat /\ Cardinality(SpentJobs(op)) <= Cardinality(of)
    BY <2>5, <2>6, FS_Subset, FS_CardinalityType
  <2>8. Cardinality(Issued(op)) <= Cardinality(SpentJobs(op)) + faults + restarts
    BY <2>1 DEF Budget
  <2>9. faults \in Nat /\ restarts \in Nat
    BY <2>1 DEF TxmTypes
  <2> HIDE DEF of
  <2>10. Cardinality(TransactionsOf(op)) <= Cardinality(of) + faults + restarts
    BY <2>2, <2>4, <2>7, <2>8, <2>9
  <2> QED
    BY <2>10 DEF of
<1> QED
  BY <1>1, RelayerInvariant, PTL

\* waitForConfirmation answers "confirmed" for what the chain says of the
\* transaction it polls.  Whatever was retried, re-sent, given up or restarted
\* in between, that transaction carries the job's own operation, the node has
\* mined it, and the contract accepted it.
THEOREM ConfirmedJobsAreApplied == Spec => []ConfirmedIsApplied
<1>1. ASSUME RelayerInv PROVE ConfirmedIsApplied
  BY <1>1 DEF RelayerInv, OwnOperation, ConfirmedIsApplied
<1> QED
  BY <1>1, RelayerInvariant, PTL

\* What GET /status has answered for good (confirmed, failed) is not answered
\* differently before the process restarts, and no step of the queue hands a
\* dead-lettered job to the worker again, a restart included.
THEOREM OutcomesStay == Spec => OutcomesAreFinal
<1> DEFINE Stay == /\ \A j \in Jobs : jobs[j].state \in Terminal => jobs'[j] = jobs[j] \/ restarts' # restarts
                   /\ \A j \in dead : running' # j
<1>1. ASSUME RelayerInv, [Next]_vars PROVE [Stay]_vars
  <2>1. /\ QueueTypes /\ Places /\ TxmTypes /\ NoJob \notin Jobs
    BY <1>1, RelayerAssumption DEF RelayerInv
  <2>2. /\ \A j \in Jobs : Held(j) \/ request[j] = NoJob => jobs[j].state \notin Terminal
        /\ \A j \in dead : j \in Jobs /\ ~Held(j) /\ j # NoJob
    BY <2>1 DEF Places, QueueTypes, UnknownJob, Terminal
  <2>3. ASSUME running' \in {running, NoJob} PROVE \A j \in dead : running' # j
    BY <2>2, <2>3 DEF Held
  <2>4. ASSUME jobs' = jobs, running' = running PROVE Stay
    BY <2>3, <2>4
  <2>5. ASSUME NEW k \in Jobs, Held(k) \/ request[k] = NoJob,
               \A j \in Jobs : j # k => jobs'[j] = jobs[j]
        PROVE  \A j \in Jobs : jobs[j].state \in Terminal => jobs'[j] = jobs[j]
    BY <2>2, <2>5
  <2>6. running # NoJob => running \in Jobs /\ Held(running)
    BY <2>1 DEF QueueTypes, Held
  <2>7. jobs \in [Jobs -> [state : JobStates, tx : Transactions \union {NoTx}]]
    BY <2>1 DEF QueueTypes
  <2>8. CASE \E j \in Jobs, op \in Operations : Accept(j, op)
    <3>1. PICK k \in Jobs : /\ request[k] = NoJob /\ jobs' = [jobs EXCEPT ![k] = NewJob]
                            /\ running' = running
      BY <2>8 DEF Accept
    <3> QED
      BY <2>3, <2>5, <2>7, <3>1
  <2>9. CASE StartJob
    <3> DEFINE k == Head(pending)
    <3>1. /\ pending # <<>> /\ running' = k
          /\ \E r : jobs' = [jobs EXCEPT ![k] = r]
      BY <2>9 DEF StartJob
    <3>2. k \in Jobs /\ Held(k)
      <4>1. Len(pending) \in Nat \ {0} /\ pending[1] = k /\ k \in Jobs
        BY <2>1, <3>1, LenProperties, HeadTailProperties DEF QueueTypes
      <4>2. 1 \in 1..Len(pending)
        BY <4>1
      <4> QED
        BY <4>1, <4>2 DEF Held
    <3> HIDE DEF k
    <3>3. \A j \in dead : running' # j
      BY <2>2, <3>1, <3>2
    <3> QED
      BY <2>5, <2>7, <3>1, <3>2, <3>3
  <2>10. CASE Submitted \/ SubmitThrew \/ PollThrew \/ PollSucceeded \/ PollAborted \/ WindowExpires
    <3>1. running # NoJob
      BY <2>10 DEF Submitted, SubmitThrew, PollThrew, PollSucceeded, PollAborted, WindowExpires, Waiting
    <3>2. running' \in {running, NoJob}
      BY <2>10 DEF Submitted, SubmitThrew, PollThrew, PollSucceeded, PollAborted, WindowExpires,
                   HandlerThrows, Finish
    <3>3. jobs' = jobs \/ \E tx : jobs' = [jobs EXCEPT ![running].tx = tx]
            \/ \E s : jobs' = [jobs EXCEPT ![running].state = s]
      BY <2>10 DEF Submitted, SubmitThrew, PollThrew, PollSucceeded, PollAborted, WindowExpires,
                   HandlerThrows, Finish
    <3>4. \A j \in Jobs : j # running => jobs'[j] = jobs[j]
      BY <2>7, <3>3
    <3> QED
      BY <2>3, <2>5, <2>6, <3>1, <3>2, <3>4
  <2>11. CASE \/ \E a \in Actors : Send(a)
              \/ \E p \in Publishers : PublishStep(p)
              \/ \E g \in Aggregations : /\ FinalizeAggregation(g) \/ SubmitterPublish(g)
                                         /\ UNCHANGED <<queueVars, driver>>
              \/ ChainStep
    <3>1. UNCHANGED queueVars
      BY <2>11 DEF Send, PublishStep, ChainStep
    <3> QED
      BY <2>4, <3>1 DEF queueVars
  <2>12. CASE Restart
    <3>1. restarts' = restarts + 1 /\ running' = NoJob
      BY <2>12 DEF Restart, TxmRestart
    <3>2. restarts' # restarts
      BY <2>1, <3>1 DEF TxmTypes
    <3> QED
      BY <2>3, <3>1, <3>2
  <2> QED
    BY <1>1, <2>8, <2>9, <2>10, <2>11, <2>12 DEF Next, WorkerStep
<1> QED
  BY <1>1, RelayerInvariant, PTL DEF Spec, OutcomesAreFinal
=============================================================================

---------------------------- MODULE IndexerProofs ----------------------------
(***************************************************************************)
(* The indexer, for every set of indexers, transactions and commitments,   *)
(* every page size, page limit, overlap and lag, and any number of         *)
(* failures: what its tables hold, what a row may lose, and what a cursor  *)
(* promises of the events below it.                                        *)
(***************************************************************************)
EXTENDS Indexer, FiniteSetTheorems, SequenceTheorems, WellFoundedInduction, TLAPS

-----------------------------------------------------------------------------
(* The inductive invariant.                                                *)

Contracts == ToSet(CONTRACTS)
Heights == 0..MaxHeight
Events == [op : Ops, note : Commitments \union {NoNote}, height : Nat]
Aims == [table : {"root", "aggregation", "note", "leaf", "tx", "fee"},
         op : Ops, note : Commitments \union {NoNote}]
Rows == [status : {"none", "pending", "confirmed"},
         leaf : BOOLEAN, root : BOOLEAN, claim : Claims \union {NoClaim}, spent : BOOLEAN]
Tables == [notes : [Commitments -> Rows], roots : SUBSET Ops, transactions : SUBSET Ops,
           fees : Nat, aggregations : SUBSET Ops]
Scans == [phase : {"idle", "start", "fetch", "dispatch", "finish"},
          tip : Heights, since : Heights, cursor : Heights, reached : Nat, at : 1..4,
          page : 0..MAX_PAGES, last : BOOLEAN, top : Nat, events : Seq(Events), writes : Seq(Aims)]

\* The logs are chronological, and the event API trails the tip by Lag at most.
ChainOK ==
  /\ tip \in Heights /\ visible \in 0..tip /\ tip - visible <= Lag
  /\ log \in [Contracts -> Seq(Events)]
  /\ \A c \in Contracts : \A k \in 1..Len(log[c]) : log[c][k].height \in 1..tip
  /\ \A c \in Contracts : \A j, k \in 1..Len(log[c]) :
       j <= k => log[c][j].height <= log[c][k].height
  /\ \A k \in 1..Len(log["privacy-registry"]) : log["privacy-registry"][k].note \in Commitments

\* What a statement writes is about something on chain.
Aimed(st) ==
  /\ st.table \in {"note", "leaf"} => st.note \in Commitments
  /\ st.table \in {"root", "tx"} => st.op \in Mined

TablesOK ==
  /\ db \in Tables /\ cursor \in 0..tip
  /\ db.transactions \subseteq Mined /\ db.roots \subseteq Mined
  /\ \A c \in Commitments : db.notes[c].status = "none" => db.notes[c] = NoRow
  /\ registering \subseteq Commitments \X Claims

Scanning(s) == s.phase \in {"fetch", "dispatch", "finish"}

\* A scan holds work only while it dispatches a page, and reads below the tip.
ScanOK(s) ==
  /\ s \in Scans
  /\ s.phase # "dispatch" => s.events = <<>> /\ s.writes = <<>>
  /\ s.phase = "start" => s.at = 1 /\ s.page = 0 /\ ~s.last
  /\ s.phase \in {"fetch", "dispatch"} => s.at <= 3
  /\ s.phase = "finish" => s.at = 4
  /\ s.phase = "fetch" => s.page < MAX_PAGES
  /\ s.phase = "dispatch" /\ ~s.last => s.page < MAX_PAGES
  /\ Scanning(s) => s.tip <= tip /\ s.cursor <= tip /\ s.since = Since(s.cursor)
  /\ \A k \in 1..Len(s.writes) : Aimed(s.writes[k]) /\ (k # 1 => s.writes[k].table # "fee")
  /\ \A k \in 1..Len(s.events) : s.events[k] \in EventsOf(CONTRACTS[s.at])

ScansOK == scan \in [Indexers -> Scans] /\ \A i \in Indexers : ScanOK(scan[i])

\* Fees.
FeeDue(s) == s.writes # <<>> /\ Head(s.writes).table = "fee"
DueFees == {i \in Indexers : FeeDue(scan[i])}
Recorded == {o \in db.transactions : HasFee(o)}
FeesOK ==
  /\ IsFiniteSet(db.transactions) /\ IsFiniteSet(DueFees) /\ incidents \in Nat
  /\ db.fees + Cardinality(DueFees) <= Cardinality(Recorded)
  /\ Cardinality(Recorded) <= db.fees + Cardinality(DueFees) + incidents

\* Everything of a contract up to a height is stored.
StoredTo(c, h) == \A e \in EventsOf(c) : e.height <= h => Stored(c, e)

\* Stored, or a statement of the scan is due to do it.
Handled(s, c, e) ==
  e \in ToSet(s.events) \/ \A st \in ToSet(Statements(c, e)) : Done(st) \/ st \in ToSet(s.writes)

\* What a scan has covered: all it began above, the contracts it is done with, and
\* of the contract at hand what lies above the page it has reached, or all of it
\* after the last page.
Covers(s) ==
  Scanning(s) =>
    \A k \in 1..3 : CONTRACTS[k] \notin gaps =>
      /\ StoredTo(CONTRACTS[k], s.cursor - OVERLAP)
      /\ k < s.at => StoredTo(CONTRACTS[k], s.tip - OVERLAP)
      /\ k = s.at => \A d \in 1..Len(log[CONTRACTS[k]]) :
           /\ log[CONTRACTS[k]][d].height <= s.tip - OVERLAP
           /\ s.last \/ d > Listed(CONTRACTS[k]) - s.page * PAGE
           => Handled(s, CONTRACTS[k], log[CONTRACTS[k]][d])

Coverage ==
  /\ \A k \in 1..3 : CONTRACTS[k] \notin gaps => StoredTo(CONTRACTS[k], cursor - OVERLAP)
  /\ \A i \in Indexers : Covers(scan[i])

IndexerInv == ChainOK /\ TablesOK /\ ScansOK /\ FeesOK /\ Coverage

-----------------------------------------------------------------------------
(* The operators the indexer is built from.                                *)

LEMMA ContractsAre ==
  /\ Contracts = {"pool", "zk-verifier", "privacy-registry"} /\ Len(CONTRACTS) = 3
  /\ CONTRACTS[1] = "pool" /\ CONTRACTS[2] = "zk-verifier" /\ CONTRACTS[3] = "privacy-registry"
  /\ \A k \in 1..3 : CONTRACTS[k] \in Contracts
  /\ \A c \in Contracts : \E k \in 1..3 : c = CONTRACTS[k]
<1>1. /\ Len(CONTRACTS) = 3 /\ DOMAIN CONTRACTS = 1..3
      /\ CONTRACTS[1] = "pool" /\ CONTRACTS[2] = "zk-verifier" /\ CONTRACTS[3] = "privacy-registry"
  BY DEF CONTRACTS
<1>2. Contracts = {CONTRACTS[k] : k \in 1..3}
  BY <1>1 DEF Contracts, ToSet
<1> HIDE DEF Contracts
<1>3. Contracts = {"pool", "zk-verifier", "privacy-registry"}
  BY <1>1, <1>2
<1> QED
  BY <1>1, <1>2, <1>3

LEMMA MembersOf ==
  ASSUME NEW S, NEW s \in Seq(S)
  PROVE  /\ ToSet(s) \subseteq S /\ ToSet(s) = {s[i] : i \in 1..Len(s)}
         /\ DOMAIN s = 1..Len(s) /\ Len(s) \in Nat /\ s \in [1..Len(s) -> S]
BY LenProperties, ElementOfSeq DEF ToSet

LEMMA ConcatMembers ==
  ASSUME NEW S, NEW s \in Seq(S), NEW t \in Seq(S)
  PROVE  s \o t \in Seq(S) /\ ToSet(s \o t) = ToSet(s) \union ToSet(t)
<1>1. ToSet(s \o t) = Range(s \o t) /\ ToSet(s) = Range(s) /\ ToSet(t) = Range(t)
  BY DEF Range, ToSet
<1> QED
  BY <1>1, RangeConcatenation, ConcatProperties

LEMMA HeadAndTail ==
  ASSUME NEW S, NEW v \in Seq(S), v # <<>>
  PROVE  ToSet(v) = {Head(v)} \union ToSet(Tail(v))
<1> DEFINE rest == Tail(v)
<1>1. Len(v) \in Nat \ {0} /\ Head(v) = v[1]
  BY EmptySeq, LenProperties
<1>2. rest \in Seq(S) /\ Len(rest) = Len(v) - 1 /\ \A k \in 1..Len(rest) : rest[k] = v[k + 1]
  BY HeadTailProperties
<1> HIDE DEF rest
<1>3. ToSet(v) = {v[k] : k \in 1..Len(v)} /\ ToSet(rest) = {rest[k] : k \in 1..Len(rest)}
  BY <1>2, MembersOf
<1>4. ASSUME NEW k \in 1..Len(v) PROVE v[k] \in {Head(v)} \union ToSet(rest)
  <2>1. CASE k = 1
    BY <1>1, <2>1
  <2>2. CASE k # 1
    <3>1. k - 1 \in 1..Len(rest) /\ (k - 1) + 1 = k
      BY <1>1, <1>2, <2>2
    <3>2. v[k] = rest[k - 1]
      BY <1>2, <3>1
    <3> QED
      BY <1>3, <3>1, <3>2
  <2> QED
    BY <2>1, <2>2
<1>5. 1 \in 1..Len(v) /\ \A k \in 1..Len(rest) : k + 1 \in 1..Len(v)
  BY <1>1, <1>2
<1> QED
  BY <1>1, <1>2, <1>3, <1>4, <1>5 DEF rest

\* A function of the positions up to n is a sequence of its values.
LEMMA Listing ==
  ASSUME NEW n \in Nat, NEW S, NEW f \in [1..n -> S]
  PROVE  f \in Seq(S) /\ Len(f) = n /\ ToSet(f) = {f[k] : k \in 1..n}
<1>1. f \in Seq(S)
  BY SeqDef
<1>2. DOMAIN f = 1..n /\ Len(f) = n
  BY <1>1, LenProperties
<1> QED
  BY <1>1, <1>2 DEF ToSet

\* A set of naturals has a least member.
LEMMA Least ==
  ASSUME NEW S, S \subseteq Nat, S # {}
  PROVE  \E low \in S : \A m \in S : low <= m
<1>1. PICK low \in S : \A m \in S : <<m, low>> \notin OpToRel(<, Nat)
  BY NatLessThanWellFounded, WFMin
<1>2. \A m \in S : ~(m < low)
  BY <1>1 DEF OpToRel
<1>3. \A m \in S : m \in Nat /\ low \in Nat
  OBVIOUS
<1> QED
  BY <1>2, <1>3

\* A chronological log has a prefix of what lies up to a height.
LEMMA PrefixUpTo ==
  ASSUME NEW s \in Seq(Events), NEW v \in Nat,
         \A j, k \in 1..Len(s) : j <= k => s[j].height <= s[k].height
  PROVE  LET p == CHOOSE n \in 0..Len(s) : \A k \in 1..Len(s) : k <= n <=> s[k].height <= v
         IN  p \in 0..Len(s) /\ \A k \in 1..Len(s) : k <= p <=> s[k].height <= v
<1> DEFINE L == Len(s)
           h(k) == s[k].height
           Hidden == {k \in 1..(L + 1) : k = L + 1 \/ h(k) > v}
<1>1. L \in Nat /\ \A k \in 1..L : h(k) \in Nat
  <2>1. Len(s) \in Nat
    BY LenProperties
  <2>2. \A k \in 1..Len(s) : s[k] \in Events
    BY ElementOfSeq
  <2>3. \A k \in 1..Len(s) : s[k].height \in Nat
    BY <2>2 DEF Events
  <2> QED
    BY <2>1, <2>3
<1>2. \A j, k \in 1..L : j <= k => h(j) <= h(k)
  OBVIOUS
<1> HIDE DEF L, h
<1>3. L + 1 \in Hidden /\ Hidden \subseteq Nat
  BY <1>1
<1>4. PICK low \in Hidden : \A m \in Hidden : low <= m
  BY <1>3, Least
<1>5. low - 1 \in 0..L /\ low \in 1..(L + 1)
  BY <1>1, <1>4
<1>6. ASSUME NEW k \in 1..L PROVE k <= low - 1 <=> h(k) <= v
  <2>1. CASE k <= low - 1
    <3>1. k \notin Hidden
      BY <1>1, <1>4, <1>5, <2>1
    <3> QED
      BY <1>1, <2>1, <3>1
  <2>2. CASE ~(k <= low - 1)
    <3>1. low <= k /\ low \in 1..L
      BY <1>1, <1>5, <2>2
    <3>2. h(low) > v /\ h(low) <= h(k)
      BY <1>1, <1>2, <1>4, <3>1
    <3> QED
      BY <1>1, <2>2, <3>1, <3>2
  <2> QED
    BY <2>1, <2>2
<1> DEFINE p == CHOOSE n \in 0..L : \A k \in 1..L : k <= n <=> h(k) <= v
<1>7. p \in 0..L /\ \A k \in 1..L : k <= p <=> h(k) <= v
  BY <1>5, <1>6
<1> QED
  BY <1>7 DEF L, h

\* The events listed are a prefix of the log.
LEMMA ListedIs ==
  ASSUME ChainOK, NEW c \in Contracts
  PROVE  /\ Listed(c) \in 0..Len(log[c]) /\ Len(log[c]) \in Nat
         /\ \A k \in 1..Len(log[c]) : k <= Listed(c) <=> log[c][k].height <= visible
<1>1. log[c] \in Seq(Events) /\ visible \in Nat
  BY IndexerAssumption DEF ChainOK, Heights
<1>2. \A j, k \in 1..Len(log[c]) : j <= k => log[c][j].height <= log[c][k].height
  BY DEF ChainOK
<1> QED
  BY <1>1, <1>2, PrefixUpTo, LenProperties DEF Listed

LEMMA ListedNext ==
  ASSUME ChainOK', NEW c \in Contracts
  PROVE  /\ Listed(c)' \in 0..Len(log'[c]) /\ Len(log'[c]) \in Nat
         /\ \A k \in 1..Len(log'[c]) : k <= Listed(c)' <=> log'[c][k].height <= visible'
<1>1. log'[c] \in Seq(Events) /\ visible' \in Nat
  BY IndexerAssumption DEF ChainOK, Heights
<1>2. \A j, k \in 1..Len(log'[c]) : j <= k => log'[c][j].height <= log'[c][k].height
  BY DEF ChainOK
<1> QED
  BY <1>1, <1>2, PrefixUpTo, LenProperties DEF Listed

\* A page is the events next to the newest it may show, downwards.
LEMMA PageIs ==
  ASSUME ChainOK, NEW c \in Contracts, NEW n \in Nat
  PROVE  LET newest == Listed(c) - n * PAGE
             size == IF newest < 0 THEN 0 ELSE IF newest < PAGE THEN newest ELSE PAGE
         IN  /\ newest \in Int /\ size \in Nat
             /\ Page(c, n) \in Seq(Events) /\ Len(Page(c, n)) = size
             /\ size # 0 => newest \in 1..Len(log[c]) /\ newest + 1 - size \in 1..newest
             /\ \A k \in 1..size : /\ newest + 1 - k \in 1..Len(log[c])
                                   /\ Page(c, n)[k] = log[c][newest + 1 - k]
             /\ Page(c, n) = <<>> <=> size = 0
             /\ ToSet(Page(c, n)) = {log[c][newest + 1 - k] : k \in 1..size}
<1> DEFINE m == n * PAGE
           newest == Listed(c) - m
           size == IF newest < 0 THEN 0 ELSE IF newest < PAGE THEN newest ELSE PAGE
           page == [k \in 1..size |-> log[c][newest + 1 - k]]
<1>1. m \in Nat /\ PAGE \in Nat \ {0}
  BY IndexerAssumption
<1>2. Listed(c) \in 0..Len(log[c]) /\ Len(log[c]) \in Nat /\ log[c] \in Seq(Events)
  BY ListedIs DEF ChainOK
<1> HIDE DEF m
<1>3. newest \in Int /\ size \in Nat
  BY <1>1, <1>2
<1>4. /\ size # 0 => newest \in 1..Len(log[c]) /\ newest + 1 - size \in 1..newest
      /\ \A k \in 1..size : newest + 1 - k \in 1..Len(log[c])
  <2>1. newest <= Listed(c) /\ Listed(c) <= Len(log[c]) /\ size <= PAGE
    BY <1>1, <1>2
  <2>2. newest > 0 => size <= newest
    BY <1>1, <1>3
  <2>3. newest <= 0 => size = 0
    BY <1>1, <1>3
  <2> HIDE DEF newest, size
  <2> QED
    BY <1>2, <1>3, <2>1, <2>2, <2>3
<1>5. Page(c, n) = page
  BY DEF Page, m
<1> HIDE DEF newest, size
<1>6. \A k \in 1..size : log[c][newest + 1 - k] \in Events
  BY <1>2, <1>4, ElementOfSeq
<1>7. page \in [1..size -> Events]
  BY <1>6
<1> HIDE DEF page
<1>8. page \in Seq(Events) /\ Len(page) = size /\ ToSet(page) = {page[k] : k \in 1..size}
  BY <1>3, <1>7, Listing
<1>9. page = <<>> <=> size = 0
  <2>1. page = <<>> => Len(page) = 0
    BY EmptySeq
  <2>2. page # <<>> => Len(page) # 0
    BY <1>8, EmptySeq
  <2> QED
    BY <1>8, <2>1, <2>2
<1>10. \A k \in 1..size : page[k] = log[c][newest + 1 - k]
  BY DEF page
<1>11. ToSet(page) = {log[c][newest + 1 - k] : k \in 1..size}
  BY <1>8, <1>10
<1> QED
  BY <1>3, <1>4, <1>5, <1>8, <1>9, <1>10, <1>11 DEF newest, size, m

-----------------------------------------------------------------------------
(* Statements and tables.                                                  *)

Plain == {"root", "aggregation", "note", "leaf", "tx"}

LEMMA OutsAre ==
  ASSUME NEW o \in Ops
  PROVE  /\ OutsOf[o] \in Seq(Commitments) /\ Len(OutsOf[o]) \in Nat
         /\ \A k \in 1..Len(OutsOf[o]) : OutsOf[o][k] \in Commitments
<1>1. OutsOf[o] \in Seq(Commitments)
  BY IndexerAssumption
<1> QED
  BY <1>1, LenProperties, ElementOfSeq

LEMMA LoggedEvents ==
  ASSUME ChainOK, NEW c \in Contracts, NEW e \in EventsOf(c)
  PROVE  /\ e \in Events /\ e.op \in Ops /\ e.height \in 1..tip
         /\ \E d \in 1..Len(log[c]) : e = log[c][d]
         /\ c = "privacy-registry" => e.note \in Commitments
         /\ c # "privacy-registry" => e.op \in Mined
<1>1. log[c] \in Seq(Events)
  BY DEF ChainOK
<1>2. PICK d \in 1..Len(log[c]) : e = log[c][d]
  BY <1>1, MembersOf DEF EventsOf
<1>3. e \in Events
  BY <1>1, MembersOf DEF EventsOf
<1>4. c = "privacy-registry" \/ c = "pool" \/ c = "zk-verifier"
  BY ContractsAre
<1>5. c # "privacy-registry" => e.op \in Mined
  BY <1>4 DEF Mined
<1> QED
  BY <1>2, <1>3, <1>5 DEF ChainOK, Events

\* Every statement of an event writes about the event.
LEMMA StatementTypes ==
  ASSUME ChainOK, NEW c \in Contracts, NEW e \in EventsOf(c)
  PROVE  /\ Statements(c, e) \in Seq(Aims)
         /\ \A st \in ToSet(Statements(c, e)) : st.table \in Plain /\ Aimed(st)
<1>1. /\ e \in Events /\ e.op \in Ops /\ e.note \in Commitments \union {NoNote}
      /\ c = "privacy-registry" => e.note \in Commitments
      /\ c # "privacy-registry" => e.op \in Mined
  BY LoggedEvents DEF Events
<1>2. ASSUME NEW t \in Plain
      PROVE  /\ Statement(t, e) \in Aims /\ Statement(t, e).table = t
             /\ Statement(t, e).op = e.op /\ Statement(t, e).note = e.note
  BY <1>1 DEF Statement, Aims, Plain
<1>3. ASSUME NEW x \in Commitments
      PROVE  OnNote("note", e, x) \in Aims /\ OnNote("note", e, x).table = "note"
             /\ OnNote("note", e, x).note = x
  BY <1>1 DEF OnNote, Aims
<1>4. \A x \in Aims : <<x>> \in Seq(Aims) /\ ToSet(<<x>>) = {x}
  BY DEF ToSet
<1>5. <<>> \in Seq(Aims) /\ ToSet(<<>>) = {}
  BY DEF ToSet
<1>6. CASE c = "privacy-registry"
  <2>1. Statements(c, e) = <<Statement("leaf", e)>>
    BY <1>6 DEF Statements
  <2>2. "leaf" \in Plain
    BY DEF Plain
  <2> DEFINE st == Statement("leaf", e)
  <2>3. st \in Aims /\ st.table = "leaf" /\ st.note \in Commitments
    BY <1>1, <1>2, <1>6, <2>2
  <2> HIDE DEF st
  <2>4. Aimed(st) /\ st.table \in Plain
    BY <2>2, <2>3 DEF Aimed
  <2>5. <<st>> \in Seq(Aims) /\ ToSet(<<st>>) = {st}
    BY <1>4, <2>3
  <2> QED
    BY <2>1, <2>4, <2>5 DEF st
<1>7. CASE c = "zk-verifier"
  <2> DEFINE a == Statement("aggregation", e)
             r == Statement("root", e)
             t == Statement("tx", e)
  <2>1. Statements(c, e) = <<a, r, t>>
    BY <1>7 DEF Statements
  <2>2. /\ a \in Aims /\ r \in Aims /\ t \in Aims /\ e.op \in Mined
        /\ a.table = "aggregation" /\ r.table = "root" /\ t.table = "tx"
        /\ r.op = e.op /\ t.op = e.op
    BY <1>1, <1>2, <1>7 DEF Plain
  <2> HIDE DEF a, r, t
  <2>3. <<a, r, t>> \in Seq(Aims) /\ ToSet(<<a, r, t>>) = {a, r, t}
    BY <2>2 DEF ToSet
  <2>4. \A st \in {a, r, t} : st.table \in Plain /\ Aimed(st)
    BY <2>2 DEF Plain, Aimed
  <2> QED
    BY <2>1, <2>3, <2>4
<1>8. CASE c = "pool"
  <2> DEFINE named == NamedOutputs(e.op)
             first == IF HasRoot(e.op) THEN <<Statement("root", e)>> ELSE <<>>
             notes == [n \in 1..Len(named) |-> OnNote("note", e, named[n])]
             t == Statement("tx", e)
  <2>1. Statements(c, e) = first \o notes \o <<t>>
    BY <1>8 DEF Statements
  <2>2. named \in Seq(Commitments)
    BY <1>1, OutsAre, EmptySeq DEF NamedOutputs
  <2> HIDE DEF named
  <2>3. Len(named) \in Nat /\ \A k \in 1..Len(named) : named[k] \in Commitments
    BY <2>2, LenProperties, ElementOfSeq
  <2>4. notes \in [1..Len(named) -> Aims] /\ \A k \in 1..Len(named) : notes[k] = OnNote("note", e, named[k])
    BY <1>3, <2>3
  <2>5. e.op \in Mined
    BY <1>1, <1>8
  <2>6. /\ first \in Seq(Aims)
        /\ \A st \in ToSet(first) : st.table = "root" /\ st.op \in Mined
    <3>1. CASE HasRoot(e.op)
      <4> DEFINE r == Statement("root", e)
      <4>1. r \in Aims /\ r.table = "root" /\ r.op = e.op
        BY <1>2 DEF Plain
      <4> HIDE DEF r
      <4>2. first = <<r>>
        BY <3>1 DEF r
      <4> QED
        BY <1>4, <2>5, <4>1, <4>2
    <3>2. CASE ~HasRoot(e.op)
      <4>1. first = <<>>
        BY <3>2
      <4> QED
        BY <1>5, <4>1
    <3> QED
      BY <3>1, <3>2
  <2>7. t \in Aims /\ t.table = "tx" /\ t.op \in Mined
    BY <1>2, <2>5 DEF Plain
  <2> HIDE DEF first, notes, t
  <2>8. notes \in Seq(Aims) /\ ToSet(notes) = {notes[k] : k \in 1..Len(named)}
    BY <2>3, <2>4, Listing
  <2>9. <<t>> \in Seq(Aims) /\ ToSet(<<t>>) = {t}
    BY <1>4, <2>7
  <2>10. /\ first \o notes \in Seq(Aims)
         /\ ToSet(first \o notes) = ToSet(first) \union ToSet(notes)
    BY <2>6, <2>8, ConcatMembers
  <2>11. /\ first \o notes \o <<t>> \in Seq(Aims)
         /\ ToSet(first \o notes \o <<t>>) = ToSet(first \o notes) \union {t}
    <3> DEFINE x == first \o notes
               y == <<t>>
    <3>1. x \in Seq(Aims) /\ y \in Seq(Aims) /\ ToSet(y) = {t}
      BY <2>9, <2>10
    <3> HIDE DEF x, y
    <3>2. x \o y \in Seq(Aims) /\ ToSet(x \o y) = ToSet(x) \union ToSet(y)
      BY <3>1, ConcatMembers
    <3> QED
      BY <3>1, <3>2 DEF x, y
  <2>12. \A st \in ToSet(notes) : st.table = "note" /\ st.note \in Commitments
    BY <1>3, <2>3, <2>4, <2>8
  <2>13. \A st \in ToSet(first) \union ToSet(notes) \union {t} : st.table \in Plain /\ Aimed(st)
    BY <2>6, <2>7, <2>12 DEF Plain, Aimed
  <2> QED
    BY <2>1, <2>10, <2>11, <2>13
<1> QED
  BY <1>6, <1>7, <1>8, ContractsAre

\* A row keeps what has been written to it.
RowKeeps(old, new) ==
  /\ old.status = "confirmed" => new.status = "confirmed"
  /\ old.status = "pending" => new.status # "none"
  /\ \A column \in {"leaf", "root", "spent"} : old[column] => new[column]
  /\ old.claim # NoClaim => new.claim # NoClaim
  /\ new.claim # old.claim /\ old.status # "none" => new = [old EXCEPT !.claim = new.claim]

\* So do the tables.
TablesGrow ==
  /\ db.roots \subseteq db'.roots /\ db.transactions \subseteq db'.transactions
  /\ db.aggregations \subseteq db'.aggregations
  /\ \A c \in Commitments : RowKeeps(db.notes[c], db'.notes[c])

LEMMA DoneStays ==
  ASSUME TablesGrow, NEW st, st.table \in Plain, Aimed(st), Done(st)
  PROVE  Done(st)'
<1>1. CASE st.table \in {"root", "aggregation", "tx"}
  BY <1>1 DEF TablesGrow, Done
<1>2. CASE st.table \in {"note", "leaf"}
  <2>1. RowKeeps(db.notes[st.note], db'.notes[st.note])
    BY <1>2 DEF TablesGrow, Aimed
  <2> QED
    BY <1>2, <2>1 DEF Done, RowKeeps
<1> QED
  BY <1>1, <1>2 DEF Plain

LEMMA RowKept ==
  ASSUME NEW row \in Rows, NEW new \in Rows, new.status = row.status \/ new.status = "confirmed",
         row.leaf => new.leaf, row.root => new.root, new.claim = row.claim, row.spent => new.spent
  PROVE  RowKeeps(row, new)
<1>1. \A column \in {"leaf", "root", "spent"} : row[column] => new[column]
  OBVIOUS
<1> QED
  BY <1>1 DEF RowKeeps

\* A registration replaces the claim and nothing else.
LEMMA ClaimKept ==
  ASSUME NEW row \in Rows, NEW claim \in Claims
  PROVE  /\ Claimed(row, claim) \in Rows /\ RowKeeps(row, Claimed(row, claim))
         /\ Claimed(row, claim).status = row.status
<1> DEFINE new == Claimed(row, claim)
<1>1. claim # NoClaim
  BY IndexerAssumption DEF Wallets
<1>2. new \in Rows
  BY DEF Claimed, Rows
<1>3. /\ new.status = row.status /\ new.leaf = row.leaf /\ new.root = row.root
      /\ new.claim = claim /\ new.spent = row.spent
      /\ new = [row EXCEPT !.claim = claim]
  BY DEF Claimed, Rows
<1> HIDE DEF new
<1>4. \A column \in {"leaf", "root", "spent"} : row[column] => new[column]
  BY <1>3
<1>5. RowKeeps(row, new)
  BY <1>1, <1>3, <1>4 DEF RowKeeps
<1> QED
  BY <1>2, <1>3, <1>5 DEF new

LEMMA RowTypes ==
  ASSUME NEW row \in Rows
  PROVE  /\ InsertNote(row) \in Rows /\ RowKeeps(row, InsertNote(row))
         /\ InsertNote(row).status = "confirmed" /\ InsertNote(row).leaf
         /\ UpsertCommitmentLeaf(row) \in Rows /\ RowKeeps(row, UpsertCommitmentLeaf(row))
         /\ UpsertCommitmentLeaf(row).status = "confirmed" /\ UpsertCommitmentLeaf(row).leaf
         /\ [row EXCEPT !.spent = TRUE] \in Rows /\ RowKeeps(row, [row EXCEPT !.spent = TRUE])
         /\ RowKeeps(row, row)
<1>1. /\ InsertNote(row) \in Rows /\ RowKeeps(row, InsertNote(row))
      /\ InsertNote(row).status = "confirmed" /\ InsertNote(row).leaf
  <2> DEFINE new == InsertNote(row)
  <2>1. new \in Rows
    BY DEF InsertNote, Rows
  <2>2. /\ new.status = "confirmed" /\ new.leaf = TRUE /\ new.root = TRUE
        /\ new.claim = row.claim /\ new.spent = row.spent
    BY DEF InsertNote, Rows
  <2> HIDE DEF new
  <2>3. RowKeeps(row, new)
    BY <2>1, <2>2, RowKept
  <2> QED
    BY <2>1, <2>2, <2>3 DEF new
<1>2. /\ UpsertCommitmentLeaf(row) \in Rows /\ RowKeeps(row, UpsertCommitmentLeaf(row))
      /\ UpsertCommitmentLeaf(row).status = "confirmed" /\ UpsertCommitmentLeaf(row).leaf
  <2> DEFINE new == UpsertCommitmentLeaf(row)
  <2>1. new \in Rows
    BY DEF UpsertCommitmentLeaf, Rows
  <2>2. /\ new.status = "confirmed" /\ new.leaf = TRUE /\ new.root = row.root
        /\ new.claim = row.claim /\ new.spent = row.spent
    BY DEF UpsertCommitmentLeaf, Rows
  <2> HIDE DEF new
  <2>3. RowKeeps(row, new)
    BY <2>1, <2>2, RowKept
  <2> QED
    BY <2>1, <2>2, <2>3 DEF new
<1>3. /\ [row EXCEPT !.spent = TRUE] \in Rows /\ RowKeeps(row, [row EXCEPT !.spent = TRUE])
  <2> DEFINE new == [row EXCEPT !.spent = TRUE]
  <2>1. new \in Rows
    BY DEF Rows
  <2>2. /\ new.status = row.status /\ new.leaf = row.leaf /\ new.root = row.root
        /\ new.claim = row.claim /\ new.spent = TRUE
    BY DEF Rows
  <2> HIDE DEF new
  <2>3. RowKeeps(row, new)
    BY <2>1, <2>2, RowKept
  <2> QED
    BY <2>1, <2>2, <2>3 DEF new
<1>4. RowKeeps(row, row)
  BY DEF RowKeeps
<1> QED
  BY <1>1, <1>2, <1>3, <1>4

\* One row written.
LEMMA RowWritten ==
  ASSUME db \in Tables, NEW c \in Commitments, NEW new \in Rows, RowKeeps(db.notes[c], new),
         db' = [db EXCEPT !.notes[c] = new]
  PROVE  /\ db' \in Tables /\ TablesGrow
         /\ db'.notes[c] = new /\ \A x \in Commitments \ {c} : db'.notes[x] = db.notes[x]
         /\ db'.transactions = db.transactions /\ db'.roots = db.roots
         /\ db'.aggregations = db.aggregations /\ db'.fees = db.fees
<1> DEFINE notes == [db.notes EXCEPT ![c] = new]
<1>1. db.notes \in [Commitments -> Rows]
  BY DEF Tables
<1>2. notes \in [Commitments -> Rows] /\ notes[c] = new /\ \A x \in Commitments \ {c} : notes[x] = db.notes[x]
  BY <1>1
<1>3. db' = [db EXCEPT !.notes = notes]
  OBVIOUS
<1> HIDE DEF notes
<1>4. /\ db' \in Tables /\ db'.notes = notes
      /\ db'.transactions = db.transactions /\ db'.roots = db.roots
      /\ db'.aggregations = db.aggregations /\ db'.fees = db.fees
  BY <1>2, <1>3 DEF Tables
<1>5. \A x \in Commitments : RowKeeps(db.notes[x], db'.notes[x])
  <2> SUFFICES ASSUME NEW x \in Commitments PROVE RowKeeps(db.notes[x], db'.notes[x])
    OBVIOUS
  <2>1. CASE x = c
    BY <1>2, <1>4, <2>1
  <2>2. CASE x # c
    <3>1. db'.notes[x] = db.notes[x] /\ db.notes[x] \in Rows
      BY <1>1, <1>2, <1>4, <2>2
    <3> QED
      BY <3>1, RowTypes
  <2> QED
    BY <2>1, <2>2
<1> QED
  BY <1>2, <1>4, <1>5 DEF TablesGrow

\* One statement applied.
LEMMA Applied ==
  ASSUME db \in Tables, NEW st \in Aims, Aimed(st), db' = Apply(st)
  PROVE  /\ db' \in Tables /\ TablesGrow
         /\ st.table \in Plain => Done(st)'
         /\ db'.transactions = IF st.table = "tx" THEN db.transactions \union {st.op} ELSE db.transactions
         /\ db'.roots \subseteq db.roots \union (IF st.table = "root" THEN {st.op} ELSE {})
         /\ db'.fees = IF st.table = "fee" THEN db.fees + 1 ELSE db.fees
         /\ \A c \in Commitments : db'.notes[c] = db.notes[c] \/ db'.notes[c].status = "confirmed"
<1>1. st.op \in Ops /\ st.table \in Plain \union {"fee"}
  BY DEF Aims, Plain
<1>2. \A c \in Commitments : db.notes[c] \in Rows /\ RowKeeps(db.notes[c], db.notes[c])
  BY RowTypes DEF Tables
<1>3. CASE st.table = "root"
  <2>1. db' = [db EXCEPT !.roots = db.roots \union {st.op}]
    BY <1>3 DEF Apply
  <2>2. /\ db' \in Tables /\ db'.roots = db.roots \union {st.op} /\ db'.notes = db.notes
        /\ db'.transactions = db.transactions /\ db'.aggregations = db.aggregations /\ db'.fees = db.fees
    BY <1>1, <2>1 DEF Tables
  <2> QED
    BY <1>2, <1>3, <2>2 DEF TablesGrow, Done
<1>4. CASE st.table = "aggregation"
  <2>1. db' = [db EXCEPT !.aggregations = db.aggregations \union {st.op}]
    BY <1>4 DEF Apply
  <2>2. /\ db' \in Tables /\ db'.aggregations = db.aggregations \union {st.op} /\ db'.notes = db.notes
        /\ db'.transactions = db.transactions /\ db'.roots = db.roots /\ db'.fees = db.fees
    BY <1>1, <2>1 DEF Tables
  <2> QED
    BY <1>2, <1>4, <2>2 DEF TablesGrow, Done
<1>5. CASE st.table = "tx"
  <2>1. db' = [db EXCEPT !.transactions = db.transactions \union {st.op}]
    BY <1>5 DEF Apply
  <2>2. /\ db' \in Tables /\ db'.transactions = db.transactions \union {st.op} /\ db'.notes = db.notes
        /\ db'.aggregations = db.aggregations /\ db'.roots = db.roots /\ db'.fees = db.fees
    BY <1>1, <2>1 DEF Tables
  <2> QED
    BY <1>2, <1>5, <2>2 DEF TablesGrow, Done
<1>6. CASE st.table = "fee"
  <2>1. db' = [db EXCEPT !.fees = db.fees + 1]
    BY <1>6 DEF Apply
  <2>2. /\ db' \in Tables /\ db'.transactions = db.transactions /\ db'.notes = db.notes
        /\ db'.aggregations = db.aggregations /\ db'.roots = db.roots /\ db'.fees = db.fees + 1
    BY <1>1, <2>1 DEF Tables
  <2> QED
    BY <1>2, <1>6, <2>2 DEF TablesGrow, Plain
<1>7. CASE st.table \in {"note", "leaf"}
  <2> DEFINE c == st.note
             row == db.notes[c]
             new == IF st.table = "note" THEN InsertNote(row) ELSE UpsertCommitmentLeaf(row)
  <2>1. c \in Commitments
    BY <1>7 DEF Aimed
  <2>2. row \in Rows
    BY <1>2, <2>1
  <2>3. new \in Rows /\ RowKeeps(row, new) /\ new.status = "confirmed" /\ new.leaf
    BY <2>2, RowTypes
  <2>4. db' = [db EXCEPT !.notes[c] = new]
    BY <1>7 DEF Apply
  <2> HIDE DEF c, row, new
  <2>5. /\ db' \in Tables /\ TablesGrow
        /\ db'.notes[c] = new /\ \A x \in Commitments \ {c} : db'.notes[x] = db.notes[x]
        /\ db'.transactions = db.transactions /\ db'.roots = db.roots
        /\ db'.aggregations = db.aggregations /\ db'.fees = db.fees
    BY <2>1, <2>3, <2>4, RowWritten DEF row
  <2>6. Done(st)'
    BY <1>7, <2>3, <2>5 DEF Done, c
  <2> QED
    BY <1>7, <2>3, <2>5, <2>6
<1> QED
  BY <1>1, <1>3, <1>4, <1>5, <1>6, <1>7 DEF Plain

-----------------------------------------------------------------------------
(* The chain.                                                              *)

LEMMA Parameters ==
  /\ OVERLAP \in Nat /\ Lag \in Nat /\ Lag <= OVERLAP /\ MaxHeight \in Nat /\ MaxIncidents \in Nat
  /\ PAGE \in Nat \ {0} /\ MAX_PAGES \in Nat \ {0}
BY IndexerAssumption

LEMMA PrintsAre ==
  ASSUME NEW c \in Contracts, NEW o \in Ops, NEW h \in Nat
  PROVE  /\ Prints(c, o, h) \in Seq(Events) /\ Len(Prints(c, o, h)) \in Nat
         /\ \A k \in 1..Len(Prints(c, o, h)) :
              /\ Prints(c, o, h)[k].height = h
              /\ c = "privacy-registry" => Prints(c, o, h)[k].note \in Commitments
<1> DEFINE p == Prints(c, o, h)
<1>1. CASE c = "privacy-registry"
  <2> DEFINE n == Len(OutsOf[o])
             f == [k \in 1..n |-> Event(o, OutsOf[o][k], h)]
  <2>1. p = f
    BY <1>1 DEF Prints
  <2>2. n \in Nat /\ \A k \in 1..n : OutsOf[o][k] \in Commitments
    BY OutsAre
  <2>3. \A k \in 1..n : /\ f[k] \in Events /\ f[k].height = h /\ f[k].note \in Commitments
    BY <2>2 DEF Event, Events
  <2>4. f \in [1..n -> Events]
    BY <2>3
  <2> HIDE DEF f, n, p
  <2>5. f \in Seq(Events) /\ Len(f) = n
    BY <2>2, <2>4, Listing
  <2> QED
    BY <2>1, <2>2, <2>3, <2>5 DEF p
<1>2. CASE c # "privacy-registry"
  <2> DEFINE e == Event(o, NoNote, h)
  <2>1. p = <<e>> \/ p = <<>>
    BY <1>2 DEF Prints
  <2>2. e \in Events /\ e.height = h
    BY DEF Event, Events
  <2> HIDE DEF e, p
  <2>3. /\ <<e>> \in Seq(Events) /\ Len(<<e>>) = 1 /\ <<e>>[1] = e
        /\ <<>> \in Seq(Events) /\ Len(<<>>) = 0
    BY <2>2
  <2>4. CASE p = <<e>>
    <3>1. p \in Seq(Events) /\ Len(p) = 1 /\ p[1] = e
      BY <2>3, <2>4
    <3> HIDE DEF p
    <3> QED
      BY <1>2, <2>2, <3>1 DEF p
  <2>5. CASE p = <<>>
    BY <2>3, <2>5 DEF p
  <2> QED
    BY <2>1, <2>4, <2>5
<1> QED
  BY <1>1, <1>2

\* How the chain goes on.
ChainGrows ==
  /\ tip' >= tip /\ visible' >= visible
  /\ \A c \in Contracts :
       /\ Len(log'[c]) >= Len(log[c])
       /\ \A d \in 1..Len(log[c]) : log'[c][d] = log[c][d]
       /\ \A d \in (Len(log[c]) + 1)..Len(log'[c]) : log'[c][d].height > tip

LEMMA ChainSame ==
  ASSUME ChainOK, UNCHANGED chainVars
  PROVE  ChainOK' /\ ChainGrows
<1>1. ChainOK'
  BY DEF ChainOK, chainVars
<1>2. /\ tip \in Int /\ visible \in Int /\ \A c \in Contracts : Len(log[c]) \in Nat
  BY ListedIs DEF ChainOK, Heights
<1> QED
  BY <1>1, <1>2 DEF ChainGrows, chainVars

LEMMA BlockMined ==
  ASSUME ChainOK, NEW o \in Ops, tip < MaxHeight, tip - visible < Lag, tip' = tip + 1,
         visible' = visible,
         log' = [c \in Contracts |-> log[c] \o Prints(c, o, tip')]
  PROVE  ChainOK' /\ ChainGrows
<1>1. tip \in Nat /\ visible \in 0..tip /\ tip' \in Nat /\ tip' \in Heights
  BY Parameters DEF ChainOK, Heights
<1>2. ASSUME NEW c \in Contracts
      PROVE  /\ log'[c] \in Seq(Events) /\ Len(log'[c]) >= Len(log[c])
             /\ \A d \in 1..Len(log[c]) : log'[c][d] = log[c][d]
             /\ \A d \in (Len(log[c]) + 1)..Len(log'[c]) :
                  /\ log'[c][d].height = tip'
                  /\ c = "privacy-registry" => log'[c][d].note \in Commitments
             /\ Len(log[c]) \in Nat /\ Len(log'[c]) \in Nat
  <2> DEFINE p == Prints(c, o, tip')
             s == log[c]
  <2>1. /\ p \in Seq(Events) /\ Len(p) \in Nat
        /\ \A k \in 1..Len(p) : p[k].height = tip' /\ (c = "privacy-registry" => p[k].note \in Commitments)
    BY <1>1, PrintsAre
  <2>2. s \in Seq(Events) /\ Len(s) \in Nat
    BY ListedIs DEF ChainOK
  <2> DEFINE t == s \o p
  <2>3. log'[c] = t
    OBVIOUS
  <2> HIDE DEF p, s
  <2>4. /\ t \in Seq(Events) /\ Len(t) = Len(s) + Len(p)
        /\ \A i \in 1..Len(t) : t[i] = IF i <= Len(s) THEN s[i] ELSE p[i - Len(s)]
    <3>1. /\ t \in Seq(Events) /\ Len(t) = Len(s) + Len(p)
          /\ \A i \in 1..Len(s) + Len(p) : t[i] = IF i <= Len(s) THEN s[i] ELSE p[i - Len(s)]
      BY <2>1, <2>2, ConcatProperties
    <3> QED
      BY <3>1
  <2> HIDE DEF t
  <2>5. ASSUME NEW d \in 1..Len(s) PROVE t[d] = s[d]
    <3>1. d \in 1..Len(t) /\ d <= Len(s)
      BY <2>1, <2>2, <2>4
    <3> QED
      BY <2>4, <3>1
  <2>6. ASSUME NEW d \in (Len(s) + 1)..Len(t)
        PROVE  t[d].height = tip' /\ (c = "privacy-registry" => t[d].note \in Commitments)
    <3>1. d \in 1..Len(t) /\ ~(d <= Len(s)) /\ d - Len(s) \in 1..Len(p)
      BY <2>1, <2>2, <2>4
    <3>2. t[d] = p[d - Len(s)]
      BY <2>4, <3>1
    <3> QED
      BY <2>1, <3>1, <3>2
  <2>7. Len(t) \in Nat /\ Len(t) >= Len(s)
    BY <2>1, <2>2, <2>4
  <2> QED
    BY <2>2, <2>3, <2>4, <2>5, <2>6, <2>7 DEF s
<1>3. log' \in [Contracts -> Seq(Events)]
  BY <1>2
<1>4. ASSUME NEW c \in Contracts, NEW k \in 1..Len(log'[c])
      PROVE  /\ log'[c][k].height \in 1..tip'
             /\ k <= Len(log[c]) => log'[c][k].height <= tip
             /\ k > Len(log[c]) => log'[c][k].height = tip'
             /\ c = "privacy-registry" => log'[c][k].note \in Commitments
  <2>1. CASE k <= Len(log[c])
    <3>1. k \in 1..Len(log[c]) /\ log'[c][k] = log[c][k] /\ log[c][k].height \in 1..tip
      BY <1>2, <2>1 DEF ChainOK
    <3> QED
      BY <1>1, <2>1, <1>2, <3>1 DEF ChainOK
  <2>2. CASE k > Len(log[c])
    <3>1. Len(log[c]) \in Nat /\ Len(log'[c]) \in Nat
      BY <1>2
    <3>2. k \in (Len(log[c]) + 1)..Len(log'[c]) /\ ~(k <= Len(log[c]))
      <4> DEFINE m == Len(log[c])
                 n == Len(log'[c])
      <4>1. m \in Nat /\ n \in Nat /\ k \in 1..n /\ k > m
        BY <2>2, <3>1
      <4> HIDE DEF m, n
      <4>2. k \in (m + 1)..n /\ ~(k <= m)
        BY <4>1
      <4> QED
        BY <4>2 DEF m, n
    <3>3. log'[c][k].height = tip' /\ (c = "privacy-registry" => log'[c][k].note \in Commitments)
      BY <1>2, <3>2
    <3>4. tip' \in 1..tip'
      BY <1>1
    <3> QED
      BY <2>2, <3>2, <3>3, <3>4
  <2> QED
    BY <1>2, <2>1, <2>2
<1>5. ASSUME NEW c \in Contracts, NEW j \in 1..Len(log'[c]), NEW k \in 1..Len(log'[c]), j <= k
      PROVE  log'[c][j].height <= log'[c][k].height
  <2>1. CASE k <= Len(log[c])
    <3>1. j \in 1..Len(log[c]) /\ k \in 1..Len(log[c]) /\ log'[c][j] = log[c][j] /\ log'[c][k] = log[c][k]
      BY <1>2, <1>5, <2>1
    <3> QED
      BY <1>5, <3>1 DEF ChainOK
  <2>2. CASE k > Len(log[c])
    <3>1. log'[c][j].height \in 1..tip' /\ log'[c][k].height = tip'
      BY <1>4, <2>2
    <3> QED
      BY <1>1, <3>1
  <2> QED
    BY <1>2, <2>1, <2>2
<1>6. visible' \in 0..tip' /\ tip' - visible' <= Lag
  BY <1>1, Parameters
<1>7. "privacy-registry" \in Contracts
  BY ContractsAre
<1>8. ChainOK'
  BY <1>1, <1>3, <1>4, <1>5, <1>6, <1>7, SMTT(30) DEF ChainOK
<1>9. \A c \in Contracts : \A d \in (Len(log[c]) + 1)..Len(log'[c]) : log'[c][d].height > tip
  <2> SUFFICES ASSUME NEW c \in Contracts, NEW d \in (Len(log[c]) + 1)..Len(log'[c])
               PROVE  log'[c][d].height > tip
    OBVIOUS
  <2>1. log'[c][d].height = tip'
    BY <1>2
  <2> QED
    BY <1>1, <2>1
<1>10. tip' >= tip /\ visible' >= visible
  BY <1>1
<1> QED
  BY <1>2, <1>8, <1>9, <1>10 DEF ChainGrows

LEMMA ChainStep ==
  ASSUME ChainOK, [Next]_vars
  PROVE  ChainOK' /\ ChainGrows
<1>1. CASE MineBlock
  <2>1. CASE UNCHANGED log
    <3>1. /\ tip' = tip + 1 /\ visible' = visible /\ tip < MaxHeight /\ tip - visible < Lag
          /\ tip \in Nat /\ visible \in 0..tip
      BY <1>1 DEF MineBlock, ChainOK, Heights
    <3>2. tip' \in Heights /\ visible' \in 0..tip' /\ tip' - visible' <= Lag /\ 1..tip \subseteq 1..tip'
      BY <3>1, Parameters DEF Heights
    <3>3. ChainOK'
      BY <2>1, <3>2 DEF ChainOK
    <3>4. \A c \in Contracts : Len(log[c]) \in Nat
      BY ListedIs
    <3> QED
      BY <2>1, <3>1, <3>3, <3>4 DEF ChainGrows
  <2>2. CASE \E o \in Ops : log' = [c \in Contracts |-> log[c] \o Prints(c, o, tip')]
    BY <1>1, <2>2, BlockMined DEF MineBlock
  <2> QED
    BY <1>1, <2>1, <2>2 DEF MineBlock, Contracts
<1>2. CASE ListBlock
  <2>1. /\ UNCHANGED <<tip, log>> /\ visible' = visible + 1 /\ visible < tip
        /\ tip \in Nat /\ visible \in 0..tip /\ tip - visible <= Lag
    BY <1>2 DEF ListBlock, ChainOK, Heights
  <2>2. visible' \in 0..tip' /\ tip' - visible' <= Lag /\ visible' >= visible
    BY <2>1, Parameters
  <2>3. ChainOK'
    BY <2>1, <2>2 DEF ChainOK
  <2>4. \A c \in Contracts : Len(log[c]) \in Nat
    BY ListedIs
  <2> QED
    BY <2>1, <2>2, <2>3, <2>4 DEF ChainGrows
<1>3. CASE ~MineBlock /\ ~ListBlock
  <2>1. UNCHANGED chainVars
    BY <1>3 DEF Next, ScanStep, Tick, ScanOnce, FetchPage, PageDone, Dispatch, Execute, FinishScan,
          ScanFails, TickThrows, Restart, RegisterUpdate, RegisterInsert, MarkSpent, vars
  <2> QED
    BY <2>1, ChainSame
<1> QED
  BY <1>1, <1>2, <1>3

\* What was on chain is, and what was listed is.
LEMMA ChainKeeps ==
  ASSUME ChainOK, ChainOK', ChainGrows
  PROVE  /\ \A c \in Contracts : EventsOf(c) \subseteq EventsOf(c)' /\ Listed(c) <= Listed(c)'
         /\ Mined \subseteq Mined'
<1>1. ASSUME NEW c \in Contracts
      PROVE  EventsOf(c) \subseteq EventsOf(c)' /\ Listed(c) <= Listed(c)'
  <2>1. /\ log[c] \in Seq(Events) /\ log'[c] \in Seq(Events)
        /\ Len(log[c]) \in Nat /\ Len(log'[c]) \in Nat
    BY ListedIs, ListedNext DEF ChainOK
  <2>2. Len(log'[c]) >= Len(log[c]) /\ \A d \in 1..Len(log[c]) : log'[c][d] = log[c][d]
    BY DEF ChainGrows
  <2>3. 1..Len(log[c]) \subseteq 1..Len(log'[c])
    BY <2>1, <2>2
  <2>4. /\ EventsOf(c) = {log[c][d] : d \in 1..Len(log[c])}
        /\ EventsOf(c)' = {log'[c][d] : d \in 1..Len(log'[c])}
    BY <2>1, MembersOf DEF EventsOf
  <2>5. EventsOf(c) \subseteq EventsOf(c)'
    BY <2>2, <2>3, <2>4
  <2>6. /\ Listed(c) \in 0..Len(log[c])
        /\ \A k \in 1..Len(log[c]) : k <= Listed(c) => log[c][k].height <= visible
    BY ListedIs
  <2>7. /\ Listed(c)' \in 0..Len(log'[c])
        /\ \A k \in 1..Len(log'[c]) : log'[c][k].height <= visible' => k <= Listed(c)'
    BY ListedNext
  <2>8. CASE Listed(c) = 0
    <3>1. Listed(c)' \in Nat
      BY <2>1, <2>7
    <3> QED
      BY <2>5, <2>8, <3>1
  <2>9. CASE Listed(c) # 0
    <3> DEFINE k == Listed(c)
    <3>1. k \in 1..Len(log[c]) /\ k \in 1..Len(log'[c])
      BY <2>1, <2>3, <2>6, <2>9
    <3>2. log'[c][k].height <= visible
      BY <2>2, <2>6, <3>1
    <3>3. log'[c][k].height \in Nat /\ visible \in Int /\ visible' \in Int /\ visible' >= visible
      <4>1. log'[c][k].height \in 1..tip' /\ tip' \in Nat /\ tip \in Nat
        BY <3>1 DEF ChainOK, Heights
      <4> QED
        BY <4>1 DEF ChainOK, ChainGrows
    <3>4. log'[c][k].height <= visible'
      BY <3>2, <3>3
    <3>5. k <= Listed(c)'
      BY <2>7, <3>1, <3>4
    <3> QED
      BY <2>5, <3>5
  <2> QED
    BY <2>5, <2>8, <2>9
<1>2. Mined \subseteq Mined'
  BY <1>1, ContractsAre DEF Mined
<1> QED
  BY <1>1, <1>2

-----------------------------------------------------------------------------
(* Largest and least heights.                                              *)

LEMMA MaxIs ==
  ASSUME NEW S, S \subseteq Int, NEW m \in S, \A x \in S : x <= m
  PROVE  Max(S) = m
<1>1. m \in S /\ \A y \in S : m >= y
  OBVIOUS
<1>2. Max(S) \in S /\ \A y \in S : Max(S) >= y
  BY <1>1 DEF Max
<1>3. Max(S) >= m /\ m >= Max(S) /\ Max(S) \in Int /\ m \in Int
  BY <1>1, <1>2
<1> QED
  BY <1>3

LEMMA MinIs ==
  ASSUME NEW S, S \subseteq Int, NEW m \in S, \A x \in S : m <= x
  PROVE  Min(S) = m
<1>1. m \in S /\ \A y \in S : m <= y
  OBVIOUS
<1>2. Min(S) \in S /\ \A y \in S : Min(S) <= y
  BY <1>1 DEF Min
<1>3. Min(S) >= m /\ m >= Min(S) /\ Min(S) \in Int /\ m \in Int
  BY <1>1, <1>2
<1> QED
  BY <1>3

LEMMA OfTwo ==
  ASSUME NEW a \in Int, NEW b \in Int
  PROVE  /\ Max({a, b}) = IF a >= b THEN a ELSE b
         /\ Min({a, b}) = IF a <= b THEN a ELSE b
<1>1. {a, b} \subseteq Int /\ a \in {a, b} /\ b \in {a, b}
  OBVIOUS
<1>2. CASE a >= b
  <2>1. \A x \in {a, b} : x <= a
    BY <1>2
  <2>2. \A x \in {a, b} : b <= x
    BY <1>2
  <2>3. Max({a, b}) = a /\ Min({a, b}) = b
    BY <1>1, <2>1, <2>2, MaxIs, MinIs
  <2> QED
    BY <1>2, <2>3
<1>3. CASE ~(a >= b)
  <2>1. \A x \in {a, b} : x <= b
    BY <1>3
  <2>2. \A x \in {a, b} : a <= x
    BY <1>3
  <2>3. Max({a, b}) = b /\ Min({a, b}) = a
    BY <1>1, <2>1, <2>2, MaxIs, MinIs
  <2> QED
    BY <1>3, <2>3
<1> QED
  BY <1>2, <1>3

LEMMA SinceIs ==
  ASSUME NEW c \in Heights
  PROVE  Since(c) \in Heights /\ Since(c) <= c /\ c - OVERLAP <= Since(c)
BY Parameters DEF Since, Heights

\* The cursor a scan leaves: never above the tip it began with, never below
\* the cursor it began with.
LEMMA NewCursorIs ==
  ASSUME NEW s \in Scans
  PROVE  /\ NewCursor(s) \in Nat
         /\ NewCursor(s) = s.cursor \/ NewCursor(s) <= s.tip
<1>1. s.cursor \in Nat /\ s.reached \in Nat /\ s.tip \in Nat
  BY DEF Scans, Heights
<1> DEFINE low == Min({s.reached, s.tip})
<1>2. low \in Nat /\ low <= s.tip
  <2>1. low = IF s.reached <= s.tip THEN s.reached ELSE s.tip
    BY <1>1, OfTwo, SMTT(30)
  <2> QED
    BY <1>1, <2>1
<1> HIDE DEF low
<1>3. Max({s.cursor, low}) = IF s.cursor >= low THEN s.cursor ELSE low
  BY <1>1, <1>2, OfTwo
<1> QED
  BY <1>1, <1>2, <1>3 DEF NewCursor, low

-----------------------------------------------------------------------------
(* The tables over a step.                                                 *)

LEMMA WorkAtHand ==
  ASSUME NEW s, ScanOK(s), s.writes # <<>>
  PROVE  /\ s.writes \in Seq(Aims) /\ Head(s.writes) \in Aims /\ Aimed(Head(s.writes))
         /\ Tail(s.writes) \in Seq(Aims) /\ Len(s.writes) \in Nat \ {0}
         /\ Len(Tail(s.writes)) = Len(s.writes) - 1
         /\ \A k \in 1..Len(Tail(s.writes)) :
              /\ Tail(s.writes)[k] = s.writes[k + 1] /\ Aimed(Tail(s.writes)[k])
              /\ Tail(s.writes)[k].table # "fee"
         /\ ToSet(s.writes) = {Head(s.writes)} \union ToSet(Tail(s.writes))
<1> DEFINE w == s.writes
<1>1. w \in Seq(Aims) /\ \A k \in 1..Len(w) : Aimed(w[k]) /\ (k # 1 => w[k].table # "fee")
  BY DEF ScanOK, Scans
<1>2. w # <<>>
  OBVIOUS
<1> HIDE DEF w
<1>3. Len(w) \in Nat \ {0} /\ Head(w) = w[1] /\ w[1] \in Aims
  BY <1>1, <1>2, EmptySeq, LenProperties, ElementOfSeq
<1>4. /\ Tail(w) \in Seq(Aims) /\ Len(Tail(w)) = Len(w) - 1
      /\ \A k \in 1..Len(Tail(w)) : Tail(w)[k] = w[k + 1]
  BY <1>1, <1>2, HeadTailProperties
<1>5. \A k \in 1..Len(Tail(w)) : k + 1 \in 1..Len(w) /\ k + 1 # 1
  BY <1>3, <1>4
<1>6. \A k \in 1..Len(Tail(w)) : Aimed(Tail(w)[k]) /\ Tail(w)[k].table # "fee"
  BY <1>1, <1>4, <1>5
<1>7. ToSet(w) = {w[1]} \union ToSet(Tail(w))
  BY <1>1, <1>2, <1>3, HeadAndTail
<1> QED
  BY <1>1, <1>3, <1>4, <1>6, <1>7 DEF w

LEMMA OneRow ==
  ASSUME TablesOK, NEW c \in Commitments, NEW new \in Rows, RowKeeps(db.notes[c], new),
         new.status # "none", db' = [db EXCEPT !.notes[c] = new]
  PROVE  /\ db' \in Tables /\ TablesGrow
         /\ db'.transactions = db.transactions /\ db'.roots = db.roots
         /\ \A x \in Commitments : db'.notes[x].status = "none" => db'.notes[x] = NoRow
BY RowWritten DEF TablesOK

LEMMA TablesStep ==
  ASSUME ChainOK, Mined \subseteq Mined', TablesOK, ScansOK, [Next]_vars
  PROVE  /\ db' \in Tables /\ TablesGrow
         /\ db'.transactions \subseteq Mined' /\ db'.roots \subseteq Mined'
         /\ \A c \in Commitments : db'.notes[c].status = "none" => db'.notes[c] = NoRow
         /\ registering' \subseteq Commitments \X Claims
<1>1. CASE UNCHANGED <<db, registering>>
  <2>1. \A c \in Commitments : RowKeeps(db.notes[c], db.notes[c])
    BY RowTypes DEF TablesOK, Tables
  <2> QED
    BY <1>1, <2>1 DEF TablesOK, TablesGrow
<1>2. ASSUME NEW i \in Indexers, Execute(i)
      PROVE  /\ db' \in Tables /\ TablesGrow
             /\ db'.transactions \subseteq Mined' /\ db'.roots \subseteq Mined'
             /\ \A c \in Commitments : db'.notes[c].status = "none" => db'.notes[c] = NoRow
             /\ registering' \subseteq Commitments \X Claims
  <2> PICK st : st = Head(scan[i].writes)
    OBVIOUS
  <2>1. ScanOK(scan[i]) /\ scan[i].writes # <<>>
    BY <1>2 DEF ScansOK, Execute
  <2>2. st \in Aims /\ Aimed(st)
    BY <2>1, WorkAtHand
  <2>3. db' = Apply(st) /\ registering' = registering
    BY <1>2 DEF Execute
  <2>4. /\ db' \in Tables /\ TablesGrow
        /\ db'.transactions = IF st.table = "tx" THEN db.transactions \union {st.op} ELSE db.transactions
        /\ db'.roots \subseteq db.roots \union (IF st.table = "root" THEN {st.op} ELSE {})
        /\ \A c \in Commitments : db'.notes[c] = db.notes[c] \/ db'.notes[c].status = "confirmed"
    BY <2>2, <2>3, Applied DEF TablesOK
  <2>5. st.table \in {"root", "tx"} => st.op \in Mined
    BY <2>2 DEF Aimed
  <2>6. db'.transactions \subseteq Mined' /\ db'.roots \subseteq Mined'
    BY <2>4, <2>5 DEF TablesOK
  <2> QED
    BY <2>3, <2>4, <2>6 DEF TablesOK
<1>3. ASSUME NEW c \in Commitments,
             \/ \E claim \in Claims : RegisterUpdate(c, claim) \/ RegisterInsert(c, claim)
             \/ \E wallet \in Wallets : MarkSpent(c, wallet)
      PROVE  /\ db' \in Tables /\ TablesGrow
             /\ db'.transactions \subseteq Mined' /\ db'.roots \subseteq Mined'
             /\ \A x \in Commitments : db'.notes[x].status = "none" => db'.notes[x] = NoRow
             /\ registering' \subseteq Commitments \X Claims
  <2> PICK row : row = db.notes[c]
    OBVIOUS
  <2>1. row \in Rows /\ (row.status = "none" => row = NoRow)
    BY DEF TablesOK, Tables
  <2>2. registering' \subseteq Commitments \X Claims
    <3>1. registering \subseteq Commitments \X Claims
      BY DEF TablesOK
    <3>2. \/ registering' = registering
          \/ \E claim \in Claims : registering' = registering \union {<<c, claim>>}
          \/ \E claim \in Claims : registering' = registering \ {<<c, claim>>}
      BY <1>3 DEF RegisterUpdate, RegisterInsert, MarkSpent
    <3>3. \A claim \in Claims : <<c, claim>> \in Commitments \X Claims
      OBVIOUS
    <3> QED
      BY <3>1, <3>2, <3>3
  <2>3. ASSUME NEW claim \in Claims, RegisterUpdate(c, claim), ~Exists(c)
        PROVE  db' \in Tables /\ TablesGrow /\ db' = db
    <3>1. db' = db /\ \A x \in Commitments : RowKeeps(db.notes[x], db.notes[x])
      BY <2>3, RowTypes DEF RegisterUpdate, TablesOK, Tables
    <3> QED
      BY <3>1 DEF TablesOK, TablesGrow
  <2>4. ASSUME NEW claim \in Claims, RegisterUpdate(c, claim) \/ RegisterInsert(c, claim), Exists(c)
        PROVE  \E new \in Rows : /\ db' = [db EXCEPT !.notes[c] = new]
                                 /\ RowKeeps(row, new) /\ new.status # "none"
    <3>1. db' = [db EXCEPT !.notes[c] = Claimed(row, claim)]
      BY <2>4 DEF RegisterUpdate, RegisterInsert, InsertPending
    <3>2. /\ Claimed(row, claim) \in Rows /\ RowKeeps(row, Claimed(row, claim))
          /\ Claimed(row, claim).status # "none"
      BY <2>1, <2>4, ClaimKept DEF Exists
    <3> QED
      BY <3>1, <3>2
  <2>5. ASSUME NEW claim \in Claims, RegisterInsert(c, claim), ~Exists(c)
        PROVE  \E new \in Rows : /\ db' = [db EXCEPT !.notes[c] = new]
                                 /\ RowKeeps(row, new) /\ new.status # "none"
    <3> PICK new : new = [Claimed(NoRow, claim) EXCEPT !.status = "pending"]
      OBVIOUS
    <3>1. db' = [db EXCEPT !.notes[c] = new]
      BY <2>5 DEF RegisterInsert, InsertPending
    <3>2. row = NoRow
      BY <2>1, <2>5 DEF Exists
    <3>3. new \in Rows /\ new.status = "pending"
      BY DEF Claimed, NoRow, Rows
    <3>4. row.status = "none" /\ ~row.leaf /\ ~row.root /\ row.claim = NoClaim /\ ~row.spent
      BY <3>2 DEF NoRow
    <3>5. \A column \in {"leaf", "root", "spent"} : row[column] => new[column]
      BY <3>4
    <3>6. RowKeeps(row, new)
      BY <3>4, <3>5 DEF RowKeeps
    <3> QED
      BY <3>1, <3>3, <3>6
  <2>6. ASSUME NEW wallet \in Wallets, MarkSpent(c, wallet)
        PROVE  \E new \in Rows : /\ db' = [db EXCEPT !.notes[c] = new]
                                 /\ RowKeeps(row, new) /\ new.status # "none"
    <3> PICK new : new = [row EXCEPT !.spent = TRUE]
      OBVIOUS
    <3>1. db' = [db EXCEPT !.notes[c] = new]
      BY <2>6 DEF MarkSpent
    <3>2. new \in Rows /\ RowKeeps(row, new) /\ new.status = row.status
      BY <2>1, RowTypes DEF Rows
    <3>3. row.claim.wallet = wallet /\ NoClaim.wallet \notin Wallets
      BY <2>6, IndexerAssumption DEF MarkSpent
    <3>4. row # NoRow
      BY <3>3 DEF NoRow
    <3> QED
      BY <2>1, <3>1, <3>2, <3>4
  <2>7. ASSUME NEW new \in Rows, db' = [db EXCEPT !.notes[c] = new], RowKeeps(row, new),
               new.status # "none"
        PROVE  /\ db' \in Tables /\ TablesGrow
               /\ db'.transactions \subseteq Mined' /\ db'.roots \subseteq Mined'
               /\ \A x \in Commitments : db'.notes[x].status = "none" => db'.notes[x] = NoRow
    BY <2>7, OneRow DEF TablesOK
  <2> QED
    BY <1>3, <2>2, <2>3, <2>4, <2>5, <2>6, <2>7 DEF TablesOK
<1>4. ASSUME NEW i \in Indexers, ScanStep(i) \/ ScanFails(i) \/ TickThrows(i) \/ Restart(i), ~Execute(i)
      PROVE  UNCHANGED <<db, registering>>
  BY <1>4 DEF ScanStep, Tick, ScanOnce, FetchPage, PageDone, Dispatch, FinishScan,
        ScanFails, TickThrows, Restart, tableVars
<1>5. MineBlock \/ ListBlock \/ UNCHANGED vars => UNCHANGED <<db, registering>>
  BY DEF MineBlock, ListBlock, vars, tableVars
<1> QED
  BY <1>1, <1>2, <1>3, <1>4, <1>5 DEF Next

-----------------------------------------------------------------------------
(* The scans over a step.                                                  *)

\* What a scan may hold stays on chain.
LEMMA ScanStays ==
  ASSUME ChainOK, tip' >= tip, \A c \in Contracts : EventsOf(c) \subseteq EventsOf(c)',
         Mined \subseteq Mined', NEW s, ScanOK(s), tip' \in Nat
  PROVE  ScanOK(s)'
<1>1. s \in Scans /\ tip \in Nat
  BY DEF ScanOK, ChainOK, Heights
<1>2. Scanning(s) => s.tip <= tip' /\ s.cursor <= tip'
  <2>1. s.tip \in Nat /\ s.cursor \in Nat
    BY <1>1 DEF Scans, Heights
  <2> QED
    BY <1>1, <2>1 DEF ScanOK
<1>3. ASSUME NEW k \in 1..Len(s.writes)
      PROVE  Aimed(s.writes[k])' /\ (k # 1 => s.writes[k].table # "fee")
  BY DEF ScanOK, Aimed
<1>4. ASSUME NEW k \in 1..Len(s.events)
      PROVE  s.events[k] \in EventsOf(CONTRACTS[s.at])'
  <2>1. s.at \in 1..4
    BY <1>1 DEF Scans
  <2>2. s.phase = "dispatch"
    <3>1. s.events # <<>>
      BY <1>1, EmptySeq DEF Scans
    <3> QED
      BY <3>1 DEF ScanOK
  <2>3. s.at \in 1..3
    BY <2>1, <2>2 DEF ScanOK
  <2> QED
    BY <2>3, ContractsAre DEF ScanOK
<1> QED
  BY <1>1, <1>2, <1>3, <1>4 DEF ScanOK, Scanning

\* A scan that rests, and one at the beginning.
LEMMA FreshScans ==
  ASSUME ChainOK
  PROVE  /\ ScanOK(NoScan) /\ ScanOK([NoScan EXCEPT !.phase = "start"])
         /\ ~FeeDue(NoScan) /\ ~FeeDue([NoScan EXCEPT !.phase = "start"])
<1> DEFINE start == [NoScan EXCEPT !.phase = "start"]
<1>1. NoScan \in Scans /\ start \in Scans
  <2>1. 0 \in Heights /\ 0 \in 0..MAX_PAGES /\ <<>> \in Seq(Aims) /\ <<>> \in Seq(Events)
    BY Parameters DEF Heights
  <2>2. 1 \in 1..4 /\ 0 \in Nat
    OBVIOUS
  <2>3. NoScan \in Scans
    BY <2>1, <2>2 DEF NoScan, Scans
  <2> HIDE DEF NoScan
  <2>4. start \in Scans
    BY <2>3 DEF Scans
  <2> QED
    BY <2>3, <2>4
<1>2. /\ NoScan.phase = "idle" /\ NoScan.events = <<>> /\ NoScan.writes = <<>>
      /\ start.phase = "start" /\ start.events = <<>> /\ start.writes = <<>>
      /\ start.at = 1 /\ start.page = 0 /\ ~start.last
  BY DEF NoScan
<1> HIDE DEF start
<1>3. ASSUME NEW s \in {NoScan, start} PROVE ScanOK(s) /\ ~FeeDue(s)
  <2>1. /\ s \in Scans /\ s.phase \in {"idle", "start"} /\ s.events = <<>> /\ s.writes = <<>>
        /\ s.phase = "start" => s.at = 1 /\ s.page = 0 /\ ~s.last
    BY <1>1, <1>2
  <2>2. Len(s.events) = 0 /\ Len(s.writes) = 0
    BY <2>1
  <2> QED
    BY <2>1, <2>2 DEF ScanOK, Scanning, FeeDue
<1> QED
  BY <1>3 DEF start

\* The scan of the next contract, and after a contract it is done with.
LEMMA NextContractOK ==
  ASSUME ChainOK, NEW s, ScanOK(s), s.phase \in {"fetch", "dispatch"}
  PROVE  /\ ScanOK(NextContract(s)) /\ ScanOK(Returned(s))
         /\ \A t \in {NextContract(s), Returned(s)} :
              /\ t.tip = s.tip /\ t.cursor = s.cursor /\ t.since = s.since /\ t.at = s.at + 1
              /\ t.page = 0 /\ t.last = FALSE /\ t.events = <<>> /\ t.writes = <<>>
              /\ t.phase = IF s.at = 3 THEN "finish" ELSE "fetch"
<1> DEFINE Next1(t) == /\ t \in Scans
                       /\ t.tip = s.tip /\ t.cursor = s.cursor /\ t.since = s.since /\ t.at = s.at + 1
                       /\ t.page = 0 /\ t.last = FALSE /\ t.events = <<>> /\ t.writes = <<>>
                       /\ t.phase = IF s.at = 3 THEN "finish" ELSE "fetch"
<1>1. s \in Scans /\ s.at \in 1..3
  BY DEF ScanOK, Scans
<1>2. ASSUME NEW u \in Scans, u.tip = s.tip, u.cursor = s.cursor, u.since = s.since, u.at = s.at
      PROVE  Next1(NextContract(u))
  <2> DEFINE t == NextContract(u)
  <2>1. t = [u EXCEPT !.phase = IF s.at = 3 THEN "finish" ELSE "fetch",
                      !.at = s.at + 1, !.page = 0, !.top = u.since, !.last = FALSE,
                      !.events = <<>>, !.writes = <<>>]
    BY <1>2, ContractsAre DEF NextContract
  <2>2. s.at + 1 \in 1..4 /\ 0 \in 0..MAX_PAGES /\ u.since \in Nat
    BY <1>1, Parameters, SMTT(30) DEF Scans, Heights
  <2>3. <<>> \in Seq(Events) /\ <<>> \in Seq(Aims)
    OBVIOUS
  <2> HIDE DEF t
  <2>4. t \in Scans
    BY <2>1, <2>2, <2>3 DEF Scans
  <2>5. /\ t.tip = u.tip /\ t.cursor = u.cursor /\ t.since = u.since /\ t.at = s.at + 1
        /\ t.page = 0 /\ t.last = FALSE /\ t.events = <<>> /\ t.writes = <<>>
        /\ t.phase = IF s.at = 3 THEN "finish" ELSE "fetch"
    BY <2>1 DEF Scans
  <2> QED
    BY <1>2, <2>4, <2>5 DEF t
<1>3. ASSUME NEW t, Next1(t) PROVE ScanOK(t)
  <2>1. Len(t.events) = 0 /\ Len(t.writes) = 0
    BY <1>3
  <2>2. /\ t.phase \in {"fetch", "dispatch"} => t.at <= 3
        /\ t.phase = "finish" => t.at = 4
    BY <1>1, <1>3
  <2>3. t.phase = "fetch" => t.page < MAX_PAGES
    BY <1>3, Parameters
  <2>4. t.tip <= tip /\ t.cursor <= tip /\ t.since = Since(t.cursor)
    BY <1>3 DEF ScanOK, Scanning
  <2> QED
    BY <1>3, <2>1, <2>2, <2>3, <2>4 DEF ScanOK
<1>4. Next1(NextContract(s))
  BY <1>1, <1>2
<1>5. Next1(Returned(s))
  <2> DEFINE high == Max({s.reached, s.top})
             u == [s EXCEPT !.reached = high]
  <2>1. high \in Nat
    <3>1. s.reached \in Nat /\ s.top \in Nat
      BY <1>1 DEF Scans
    <3>2. high = IF s.reached >= s.top THEN s.reached ELSE s.top
      BY <3>1, OfTwo
    <3> QED
      BY <3>1, <3>2
  <2> HIDE DEF high
  <2>2. u \in Scans /\ u.tip = s.tip /\ u.cursor = s.cursor /\ u.since = s.since /\ u.at = s.at
    BY <1>1, <2>1 DEF Scans
  <2>3. Returned(s) = NextContract(u)
    BY DEF Returned, high
  <2> HIDE DEF u
  <2>4. Next1(NextContract(u))
    BY <1>2, <2>2, Zenon
  <2> HIDE DEF Next1
  <2> QED
    BY <2>3, <2>4, Zenon
<1> QED
  BY <1>3, <1>4, <1>5

\* The scan that has read the tip and the cursor.
LEMMA ScanBegun ==
  ASSUME ChainOK, cursor \in 0..tip, NEW s, ScanOK(s), s.phase = "start"
  PROVE  LET t == [s EXCEPT !.phase = "fetch", !.tip = tip, !.cursor = cursor,
                            !.since = Since(cursor), !.reached = cursor, !.top = Since(cursor)]
         IN  /\ ScanOK(t) /\ t.phase = "fetch" /\ t.tip = tip /\ t.cursor = cursor
             /\ t.at = 1 /\ t.page = 0 /\ ~t.last /\ t.events = <<>> /\ t.writes = <<>>
<1> DEFINE since == Since(cursor)
           t == [s EXCEPT !.phase = "fetch", !.tip = tip, !.cursor = cursor,
                          !.since = since, !.reached = cursor, !.top = since]
<1>1. /\ s \in Scans /\ s.events = <<>> /\ s.writes = <<>> /\ s.at = 1 /\ s.page = 0 /\ ~s.last
      /\ tip \in Heights /\ cursor \in Heights /\ cursor \in Nat /\ cursor <= tip
  <2>1. /\ s \in Scans /\ s.events = <<>> /\ s.writes = <<>> /\ s.at = 1 /\ s.page = 0 /\ ~s.last
    BY DEF ScanOK
  <2>2. tip \in Heights /\ cursor \in Heights /\ cursor \in Nat /\ cursor <= tip
    BY Parameters DEF ChainOK, Heights
  <2> QED
    BY <2>1, <2>2
<1>2. since \in Heights /\ since \in Nat
  BY <1>1, SinceIs DEF Heights
<1> HIDE DEF since
<1>3. t \in Scans
  BY <1>1, <1>2 DEF Scans
<1>4. /\ t.phase = "fetch" /\ t.tip = tip /\ t.cursor = cursor /\ t.since = since
      /\ t.events = <<>> /\ t.writes = <<>> /\ t.at = 1 /\ t.page = 0 /\ ~t.last
  BY <1>1 DEF Scans
<1> HIDE DEF t
<1>5. Len(t.events) = 0 /\ Len(t.writes) = 0 /\ 0 < MAX_PAGES
  BY <1>4, Parameters
<1>6. t.tip <= tip
  BY <1>1, <1>4 DEF Heights
<1>7. ScanOK(t)
  BY <1>1, <1>3, <1>4, <1>5, <1>6 DEF ScanOK, since
<1> QED
  BY <1>4, <1>7 DEF t, since

\* A page that leaves nothing to read below it, and the scan that has fetched one.
Exhausts(s) ==
  LET events == Page(CONTRACTS[s.at], s.page)
  IN  (Min({e.height : e \in ToSet(events)}) <= s.since) \/ (Len(events) < PAGE)

Fetched(s) ==
  LET events == Page(CONTRACTS[s.at], s.page)
  IN  [s EXCEPT !.phase = "dispatch", !.page = s.page + 1, !.events = events,
                !.last = Exhausts(s) \/ (s.page + 1 = MAX_PAGES),
                !.top = Max({s.top} \union {e.height : e \in ToSet(events)})]

LEMMA PageFetched ==
  ASSUME ChainOK, NEW s, ScanOK(s), s.phase = "fetch", Page(CONTRACTS[s.at], s.page) # <<>>
  PROVE  LET c == CONTRACTS[s.at]
             newest == Listed(c) - s.page * PAGE
             size == IF newest < PAGE THEN newest ELSE PAGE
             t == Fetched(s)
         IN  /\ ScanOK(t) /\ t.phase = "dispatch" /\ t.tip = s.tip /\ t.cursor = s.cursor
             /\ t.since = s.since /\ t.at = s.at /\ t.page = s.page + 1 /\ t.writes = <<>>
             /\ t.events = Page(c, s.page)
             /\ newest \in 1..Len(log[c]) /\ size \in 1..newest /\ size <= PAGE
             /\ \A d \in (newest + 1 - size)..newest : log[c][d] \in ToSet(t.events)
             /\ Exhausts(s) <=> log[c][newest + 1 - size].height <= s.since \/ size < PAGE
             /\ t.last <=> Exhausts(s) \/ s.page + 1 = MAX_PAGES
<1> DEFINE c == CONTRACTS[s.at]
           newest == Listed(c) - s.page * PAGE
           size == IF newest < PAGE THEN newest ELSE PAGE
           events == Page(c, s.page)
           low == newest + 1 - size
           heights == {e.height : e \in ToSet(events)}
           h(d) == log[c][d].height
           bottom == h(low)
           reaches == (Min(heights) <= s.since) \/ (Len(events) < PAGE)
           ends == reaches \/ (s.page + 1 = MAX_PAGES)
           top == Max({s.top} \union heights)
           t == [s EXCEPT !.phase = "dispatch", !.page = s.page + 1, !.events = events,
                          !.last = ends, !.top = top]
<1>1. /\ s \in Scans /\ s.at \in 1..3 /\ s.page \in Nat /\ s.page < MAX_PAGES /\ s.writes = <<>>
      /\ s.top \in Nat /\ s.since \in Nat
  BY DEF ScanOK, Scans, Heights
<1>2. c \in Contracts
  BY <1>1, ContractsAre
<1>3. log[c] \in Seq(Events) /\ \A d \in 1..Len(log[c]) : log[c][d].height \in Nat
  <2>1. tip \in Nat
    BY DEF ChainOK, Heights
  <2> QED
    BY <1>2, <2>1 DEF ChainOK
<1>4. events # <<>>
  OBVIOUS
<1>5. PAGE \in Nat \ {0} /\ MAX_PAGES \in Nat
  BY Parameters
<1> HIDE DEF c, events, newest
<1>6. /\ newest \in 1..Len(log[c]) /\ size \in 1..newest /\ size <= PAGE
      /\ events \in Seq(Events) /\ Len(events) = size
      /\ ToSet(events) = {log[c][newest + 1 - k] : k \in 1..size}
  <2> DEFINE n == IF newest < 0 THEN 0 ELSE IF newest < PAGE THEN newest ELSE PAGE
  <2>1. /\ newest \in Int /\ n \in Nat /\ (n # 0 => newest \in 1..Len(log[c]))
        /\ (events = <<>> <=> n = 0) /\ events \in Seq(Events) /\ Len(events) = n
        /\ ToSet(events) = {log[c][newest + 1 - k] : k \in 1..n}
    BY <1>1, <1>2, PageIs DEF newest, events
  <2>2. n # 0 /\ newest \in 1..Len(log[c])
    BY <1>4, <2>1
  <2> HIDE DEF n
  <2>3. n = size
    BY <2>1, <2>2 DEF n
  <2> HIDE DEF size
  <2>4. n \in 1..newest /\ n <= PAGE
    BY <1>5, <2>1, <2>2, <2>3 DEF size
  <2> QED
    BY <2>1, <2>2, <2>3, <2>4
<1> HIDE DEF size
<1>7. /\ low \in 1..newest /\ 1..newest \subseteq 1..Len(log[c]) /\ newest \in Nat /\ size \in Nat
      /\ \A k \in 1..size : newest + 1 - k \in low..newest
      /\ \A d \in low..newest : newest + 1 - d \in 1..size /\ newest + 1 - (newest + 1 - d) = d
  BY <1>2, <1>6, ListedIs
<1>8. \A d \in low..newest : log[c][d] \in ToSet(events)
  BY <1>6, <1>7
<1>9. heights = {h(d) : d \in low..newest}
  <2>1. heights \subseteq {h(d) : d \in low..newest}
    BY <1>6, <1>7
  <2>2. {h(d) : d \in low..newest} \subseteq heights
    BY <1>8
  <2> QED
    BY <2>1, <2>2
<1>10. low..newest \subseteq 1..Len(log[c]) /\ low \in low..newest /\ newest \in low..newest
  BY <1>7
<1>11. /\ \A d \in low..newest : h(d) \in Nat /\ low <= d /\ d <= newest
       /\ \A j, k \in low..newest : j <= k => h(j) <= h(k)
  BY <1>2, <1>3, <1>7, <1>10 DEF ChainOK
<1> HIDE DEF h, low, heights
<1>12. heights \subseteq Int /\ heights \subseteq Nat
  BY <1>9, <1>11
<1>13. Min(heights) = bottom
  <2>1. bottom \in heights
    BY <1>9, <1>10
  <2>2. ASSUME NEW x \in heights PROVE bottom <= x
    <3>1. PICK d \in low..newest : x = h(d)
      BY <1>9
    <3> QED
      BY <1>10, <1>11, <3>1
  <2> HIDE DEF bottom
  <2> QED
    BY <1>12, <2>1, <2>2, MinIs
<1>14. top \in Nat
  <2> DEFINE high == h(newest)
             all == {s.top} \union heights
  <2>1. high \in heights
    BY <1>9, <1>10
  <2>2. ASSUME NEW x \in heights PROVE x <= high
    <3>1. PICK d \in low..newest : x = h(d)
      BY <1>9
    <3> QED
      BY <1>10, <1>11, <3>1
  <2>5. high \in Nat /\ all \subseteq Int
    <3>1. high \in Nat
      BY <1>10, <1>11
    <3>2. s.top \in Int
      BY <1>1
    <3> QED
      BY <1>12, <3>1, <3>2
  <2> HIDE DEF high
  <2>3. CASE s.top <= high
    <3>1. high \in all /\ \A x \in all : x <= high
      BY <2>1, <2>2, <2>3
    <3> HIDE DEF all
    <3>2. Max(all) = high
      BY <2>5, <3>1, MaxIs
    <3> QED
      BY <2>5, <3>2 DEF all
  <2>4. CASE ~(s.top <= high)
    <3>1. s.top \in all /\ high <= s.top
      BY <1>1, <2>4, <2>5
    <3>2. \A x \in all : x <= s.top
      <4> SUFFICES ASSUME NEW x \in all PROVE x <= s.top
        OBVIOUS
      <4>1. CASE x = s.top
        BY <1>1, <4>1
      <4>2. CASE x \in heights
        <5>1. x <= high /\ x \in Int
          BY <1>12, <2>2, <4>2
        <5> QED
          BY <1>1, <2>5, <3>1, <5>1
      <4> QED
        BY <4>1, <4>2
    <3> HIDE DEF all
    <3>3. Max(all) = s.top
      BY <2>5, <3>1, <3>2, MaxIs
    <3> QED
      BY <1>1, <3>3 DEF all
  <2> QED
    BY <2>3, <2>4
<1>15. /\ ends \in BOOLEAN
       /\ ends <=> reaches \/ s.page + 1 = MAX_PAGES
       /\ reaches <=> bottom <= s.since \/ size < PAGE
  BY <1>6, <1>13
<1> HIDE DEF reaches, ends, top
<1>16. /\ t.phase = "dispatch" /\ t.tip = s.tip /\ t.cursor = s.cursor /\ t.since = s.since
       /\ t.at = s.at /\ t.page = s.page + 1 /\ t.writes = <<>> /\ t.events = events
       /\ t.last = ends
  BY <1>1 DEF Scans
<1>17. t \in Scans
  <2>1. s.page + 1 \in 0..MAX_PAGES
    BY <1>1, <1>5
  <2> QED
    BY <1>1, <1>6, <1>14, <1>15, <2>1 DEF Scans
<1>18. Fetched(s) = t /\ Exhausts(s) = reaches
  BY DEF Fetched, Exhausts, c, events, heights, reaches, ends, top
<1> HIDE DEF t
<1>19. ScanOK(t)
  <2>1. ~t.last => t.page < MAX_PAGES
    BY <1>1, <1>5, <1>15, <1>16
  <2>2. t.tip <= tip /\ t.cursor <= tip /\ t.since = Since(t.cursor)
    BY <1>16 DEF ScanOK, Scanning
  <2>3. \A k \in 1..Len(t.events) : t.events[k] \in EventsOf(CONTRACTS[t.at])
    <3>1. ToSet(events) \subseteq EventsOf(c)
      BY <1>3, <1>6, <1>7, <1>10, MembersOf DEF EventsOf
    <3>2. \A k \in 1..Len(events) : events[k] \in ToSet(events)
      BY <1>6, MembersOf
    <3> QED
      BY <1>16, <3>1, <3>2 DEF c
  <2>4. Len(t.writes) = 0
    BY <1>16
  <2> QED
    BY <1>1, <1>16, <1>17, <2>1, <2>2, <2>3, <2>4 DEF ScanOK
<1> QED
  BY <1>6, <1>8, <1>15, <1>16, <1>18, <1>19 DEF c, events, newest, size, low, h

\* A page that is not the last is left for the next one.
LEMMA PageLeft ==
  ASSUME NEW s, ScanOK(s), s.phase = "dispatch", s.events = <<>>, s.writes = <<>>, ~s.last
  PROVE  LET t == [s EXCEPT !.phase = "fetch"]
         IN  /\ ScanOK(t) /\ t.phase = "fetch" /\ t.tip = s.tip /\ t.cursor = s.cursor
             /\ t.since = s.since /\ t.at = s.at /\ t.page = s.page /\ t.last = s.last
             /\ t.events = <<>> /\ t.writes = <<>>
<1> DEFINE t == [s EXCEPT !.phase = "fetch"]
<1>1. s \in Scans
  BY DEF ScanOK
<1>2. /\ t \in Scans /\ t.phase = "fetch" /\ t.tip = s.tip /\ t.cursor = s.cursor
      /\ t.since = s.since /\ t.at = s.at /\ t.page = s.page /\ t.last = s.last
      /\ t.events = <<>> /\ t.writes = <<>>
  BY <1>1 DEF Scans
<1> HIDE DEF t
<1>3. Len(t.events) = 0 /\ Len(t.writes) = 0
  BY <1>2
<1>4. ScanOK(t)
  BY <1>2, <1>3 DEF ScanOK, Scanning
<1> QED
  BY <1>2, <1>4 DEF t

\* An event handed to its handlers.
LEMMA EventDispatched ==
  ASSUME ChainOK, NEW s, ScanOK(s), s.phase = "dispatch", s.events # <<>>, s.writes = <<>>
  PROVE  LET e == Head(s.events)
             t == [s EXCEPT !.events = Tail(@), !.writes = Statements(CONTRACTS[s.at], e)]
         IN  /\ ScanOK(t) /\ t.phase = "dispatch" /\ t.tip = s.tip /\ t.cursor = s.cursor
             /\ t.since = s.since /\ t.at = s.at /\ t.page = s.page /\ t.last = s.last
             /\ ToSet(s.events) = {e} \union ToSet(t.events)
             /\ t.writes = Statements(CONTRACTS[s.at], e) /\ ~FeeDue(t)
<1> DEFINE v == s.events
           e == Head(v)
           rest == Tail(v)
           c == CONTRACTS[s.at]
           w == Statements(c, e)
           t == [s EXCEPT !.events = rest, !.writes = w]
<1>1. s \in Scans /\ v \in Seq(Events) /\ \A k \in 1..Len(v) : v[k] \in EventsOf(c)
  BY DEF ScanOK, Scans
<1>2. s.at \in 1..3 /\ c \in Contracts
  BY <1>1, ContractsAre DEF ScanOK, Scans
<1>3. v # <<>>
  OBVIOUS
<1> HIDE DEF v, c
<1>4. Len(v) \in Nat \ {0} /\ e = v[1]
  BY <1>1, <1>3, EmptySeq, LenProperties
<1>5. /\ rest \in Seq(Events) /\ Len(rest) = Len(v) - 1 /\ \A k \in 1..Len(rest) : rest[k] = v[k + 1]
  BY <1>1, <1>3, HeadTailProperties
<1>6. e \in EventsOf(c) /\ \A k \in 1..Len(rest) : k + 1 \in 1..Len(v) /\ rest[k] \in EventsOf(c)
  BY <1>1, <1>4, <1>5
<1>7. ToSet(v) = {e} \union ToSet(rest)
  BY <1>1, <1>3, HeadAndTail
<1> HIDE DEF e, rest
<1>8. w \in Seq(Aims) /\ \A st \in ToSet(w) : st.table \in Plain /\ Aimed(st)
  BY <1>2, <1>6, StatementTypes
<1> HIDE DEF w
<1>9. \A k \in 1..Len(w) : w[k] \in ToSet(w)
  BY <1>8, MembersOf
<1>10. \A k \in 1..Len(w) : Aimed(w[k]) /\ w[k].table # "fee"
  BY <1>8, <1>9 DEF Plain
<1>11. t \in Scans
  BY <1>1, <1>5, <1>8 DEF Scans
<1>12. /\ t.phase = "dispatch" /\ t.tip = s.tip /\ t.cursor = s.cursor
       /\ t.since = s.since /\ t.at = s.at /\ t.page = s.page /\ t.last = s.last
       /\ t.events = rest /\ t.writes = w
  BY <1>1 DEF Scans
<1>13. t = [s EXCEPT !.events = Tail(@), !.writes = Statements(CONTRACTS[s.at], Head(s.events))]
  BY DEF v, e, rest, c, w
<1> HIDE DEF t
<1>14. ScanOK(t)
  <2>1. /\ t.tip <= tip /\ t.cursor <= tip /\ t.since = Since(t.cursor) /\ t.at <= 3
        /\ ~t.last => t.page < MAX_PAGES
    BY <1>12 DEF ScanOK, Scanning
  <2>2. \A k \in 1..Len(t.events) : t.events[k] \in EventsOf(CONTRACTS[t.at])
    BY <1>6, <1>12 DEF c
  <2> QED
    BY <1>10, <1>11, <1>12, <2>1, <2>2 DEF ScanOK
<1>15. ~FeeDue(t)
  <2>1. CASE w = <<>>
    BY <1>12, <2>1 DEF FeeDue
  <2>2. CASE w # <<>>
    <3>1. 1 \in 1..Len(w) /\ Head(w) = w[1]
      <4>1. Len(w) \in Nat \ {0}
        BY <1>8, <2>2, EmptySeq, LenProperties
      <4> QED
        BY <1>8, <2>2, <4>1
    <3> QED
      BY <1>10, <1>12, <3>1 DEF FeeDue
  <2> QED
    BY <2>1, <2>2
<1> QED
  BY <1>7, <1>12, <1>13, <1>14, <1>15 DEF v, e, rest, c, w

\* A statement run.
LEMMA FeeStatementIs ==
  ASSUME NEW st \in Aims
  PROVE  LET fee == [st EXCEPT !.table = "fee"]
             due == st.table = "tx" /\ st.op \notin db.transactions /\ HasFee(st.op)
         IN  /\ fee \in Aims /\ fee.table = "fee" /\ Aimed(fee)
             /\ FeeStatement(st) = IF due THEN <<fee>> ELSE <<>>
<1> DEFINE fee == [st EXCEPT !.table = "fee"]
<1>1. fee \in Aims /\ fee.table = "fee"
  BY DEF Aims
<1>2. Aimed(fee)
  BY <1>1 DEF Aimed
<1> QED
  BY <1>1, <1>2 DEF FeeStatement

LEMMA StatementRun ==
  ASSUME NEW s, ScanOK(s), s.phase = "dispatch", s.writes # <<>>
  PROVE  LET st == Head(s.writes)
             t == [s EXCEPT !.writes = FeeStatement(st) \o Tail(@)]
         IN  /\ ScanOK(t) /\ t.phase = "dispatch" /\ t.tip = s.tip /\ t.cursor = s.cursor
             /\ t.since = s.since /\ t.at = s.at /\ t.page = s.page /\ t.last = s.last
             /\ t.events = s.events
             /\ ToSet(s.writes) \subseteq {st} \union ToSet(t.writes)
             /\ FeeDue(t) <=> /\ st.table = "tx" /\ st.op \notin db.transactions
                              /\ HasFee(st.op)
<1> DEFINE st == Head(s.writes)
           rest == Tail(s.writes)
           front == FeeStatement(st)
           fee == [st EXCEPT !.table = "fee"]
           due == st.table = "tx" /\ st.op \notin db.transactions /\ HasFee(st.op)
           w == front \o rest
           t == [s EXCEPT !.writes = w]
<1>1. /\ st \in Aims /\ rest \in Seq(Aims) /\ Len(rest) \in Nat
      /\ \A k \in 1..Len(rest) : Aimed(rest[k]) /\ rest[k].table # "fee"
      /\ ToSet(s.writes) = {st} \union ToSet(rest)
  <2>1. Len(rest) \in Nat
    BY WorkAtHand, LenProperties
  <2> QED
    BY <2>1, WorkAtHand
<1>2. s \in Scans
  BY DEF ScanOK
<1> HIDE DEF rest
<1>3. fee \in Aims /\ fee.table = "fee" /\ Aimed(fee) /\ front = IF due THEN <<fee>> ELSE <<>>
  BY <1>1, FeeStatementIs
<1> HIDE DEF st, front, fee
<1>4. /\ w \in Seq(Aims) /\ ToSet(rest) \subseteq ToSet(w)
      /\ \A k \in 1..Len(w) : Aimed(w[k]) /\ (k # 1 => w[k].table # "fee")
      /\ due <=> (w # <<>> /\ Head(w).table = "fee")
  <2>1. CASE due
    <3>1. front = <<fee>> /\ front \in Seq(Aims) /\ Len(front) = 1 /\ front[1] = fee
      BY <1>3, <2>1
    <3>2. /\ w \in Seq(Aims) /\ Len(w) = 1 + Len(rest)
          /\ \A k \in 1..1 + Len(rest) : w[k] = IF k <= 1 THEN fee ELSE rest[k - 1]
          /\ ToSet(w) = ToSet(front) \union ToSet(rest)
      <4> HIDE DEF due
      <4>1. /\ w \in Seq(Aims) /\ Len(w) = Len(front) + Len(rest)
            /\ \A k \in 1..Len(front) + Len(rest) :
                 w[k] = IF k <= Len(front) THEN front[k] ELSE rest[k - Len(front)]
        BY <1>1, <3>1, ConcatProperties
      <4>2. ToSet(w) = ToSet(front) \union ToSet(rest)
        BY <1>1, <3>1, ConcatMembers
      <4> HIDE DEF w
      <4>3. ASSUME NEW k \in 1..1 + Len(rest) PROVE w[k] = IF k <= 1 THEN fee ELSE rest[k - 1]
        <5>1. k <= 1 => k = 1
          BY <1>1
        <5> QED
          BY <1>1, <3>1, <4>1, <5>1
      <4> QED
        BY <3>1, <4>1, <4>2, <4>3
    <3> HIDE DEF w
    <3>3. \A k \in 1..1 + Len(rest) : k # 1 => ~(k <= 1) /\ k - 1 \in 1..Len(rest)
      BY <1>1
    <3>4. 1 \in 1..1 + Len(rest) /\ 1 <= 1
      BY <1>1
    <3>5. w # <<>> /\ Head(w) = fee
      <4>1. Len(w) # 0 /\ w[1] = fee
        BY <1>1, <3>2, <3>4
      <4> QED
        BY <3>2, <4>1
    <3>6. \A k \in 1..Len(w) : Aimed(w[k]) /\ (k # 1 => w[k].table # "fee")
      <4> SUFFICES ASSUME NEW k \in 1..1 + Len(rest)
                   PROVE  Aimed(w[k]) /\ (k # 1 => w[k].table # "fee")
        BY <3>2
      <4>1. CASE k = 1
        BY <1>3, <3>2, <3>4, <4>1
      <4>2. CASE k # 1
        <5>1. w[k] = rest[k - 1] /\ k - 1 \in 1..Len(rest)
          BY <3>2, <3>3, <4>2
        <5> QED
          BY <1>1, <5>1
      <4> QED
        BY <4>1, <4>2
    <3> QED
      BY <1>3, <2>1, <3>2, <3>5, <3>6
  <2>2. CASE ~due
    <3>1. front = <<>>
      BY <1>3, <2>2
    <3>2. w = rest
      BY <1>1, <3>1
    <3> HIDE DEF w, due
    <3>3. ~(rest # <<>> /\ Head(rest).table = "fee")
      <4>1. ASSUME rest # <<>> PROVE Head(rest).table # "fee"
        <5>1. Len(rest) \in Nat \ {0} /\ Head(rest) = rest[1]
          BY <1>1, <4>1, EmptySeq
        <5> QED
          BY <1>1, <5>1
      <4> QED
        BY <4>1
    <3> QED
      BY <1>1, <2>2, <3>2, <3>3
  <2> QED
    BY <2>1, <2>2
<1> HIDE DEF w
<1>5. t \in Scans
  BY <1>2, <1>4 DEF Scans
<1>6. /\ t.phase = "dispatch" /\ t.tip = s.tip /\ t.cursor = s.cursor
      /\ t.since = s.since /\ t.at = s.at /\ t.page = s.page /\ t.last = s.last
      /\ t.events = s.events /\ t.writes = w
  BY <1>2 DEF Scans
<1>7. t = [s EXCEPT !.writes = FeeStatement(Head(s.writes)) \o Tail(@)]
  BY DEF w, rest, front, st
<1> HIDE DEF t
<1>8. ScanOK(t)
  <2>1. /\ t.tip <= tip /\ t.cursor <= tip /\ t.since = Since(t.cursor) /\ t.at <= 3
        /\ ~t.last => t.page < MAX_PAGES
    BY <1>6 DEF ScanOK, Scanning
  <2>2. \A k \in 1..Len(t.events) : t.events[k] \in EventsOf(CONTRACTS[t.at])
    BY <1>6 DEF ScanOK
  <2> QED
    BY <1>4, <1>5, <1>6, <2>1, <2>2 DEF ScanOK
<1>9. FeeDue(t) <=> due
  BY <1>4, <1>6 DEF FeeDue
<1> QED
  BY <1>1, <1>4, <1>6, <1>7, <1>8, <1>9 DEF st

\* One scan replaced.
LEMMA ScanReplaced ==
  ASSUME ChainOK, ChainOK', ChainGrows, ScansOK, NEW i \in Indexers, NEW next, ScanOK(next),
         scan' = [scan EXCEPT ![i] = next]
  PROVE  ScansOK'
<1>1. /\ tip' >= tip /\ Mined \subseteq Mined' /\ tip' \in Nat
      /\ \A c \in Contracts : EventsOf(c) \subseteq EventsOf(c)'
  <2>1. tip' >= tip /\ tip' \in Nat
    BY DEF ChainGrows, ChainOK, Heights
  <2> QED
    BY <2>1, ChainKeeps
<1>2. scan' \in [Indexers -> Scans] /\ scan'[i] = next /\ \A j \in Indexers \ {i} : scan'[j] = scan[j]
  BY DEF ScansOK, ScanOK
<1>3. ASSUME NEW j \in Indexers PROVE ScanOK(scan[j])'
  <2> PICK s : s = scan'[j]
    OBVIOUS
  <2>1. ScanOK(s)
    BY <1>2 DEF ScansOK
  <2>2. ScanOK(s)'
    BY <1>1, <2>1, ScanStays
  <2> QED
    BY <2>2 DEF ScanOK
<1> QED
  BY <1>2, <1>3 DEF ScansOK

LEMMA ScansKept ==
  ASSUME ChainOK, ChainOK', ChainGrows, ScansOK, UNCHANGED scan
  PROVE  ScansOK'
<1>1. /\ tip' >= tip /\ Mined \subseteq Mined' /\ tip' \in Nat
      /\ \A c \in Contracts : EventsOf(c) \subseteq EventsOf(c)'
  <2>1. tip' >= tip /\ tip' \in Nat
    BY DEF ChainGrows, ChainOK, Heights
  <2> QED
    BY <2>1, ChainKeeps
<1>2. ASSUME NEW j \in Indexers PROVE ScanOK(scan[j])'
  <2> PICK s : s = scan[j]
    OBVIOUS
  <2>1. ScanOK(s)'
    BY <1>1, ScanStays DEF ScansOK
  <2> QED
    BY <2>1 DEF ScanOK
<1> QED
  BY <1>2 DEF ScansOK

\* What an indexer's step makes of its scan.
LEMMA ScanMoves ==
  ASSUME ChainOK, TablesOK, ScansOK, NEW i \in Indexers,
         ScanStep(i) \/ ScanFails(i) \/ TickThrows(i) \/ Restart(i)
  PROVE  \E next : /\ ScanOK(next) /\ scan' = [scan EXCEPT ![i] = next]
                   /\ Execute(i) \/ ~FeeDue(next)
<1> PICK s : s = scan[i]
  OBVIOUS
<1>1. ScanOK(s)
  BY DEF ScansOK
<1>2. CASE Tick(i)
  BY <1>2, FreshScans DEF Tick, Goto
<1>3. CASE ScanOnce(i)
  <2>1. s.phase = "start" /\ cursor \in 0..tip
    BY <1>3 DEF ScanOnce, TablesOK
  <2> QED
    BY <1>1, <1>3, <2>1, ScanBegun DEF ScanOnce, Goto, FeeDue
<1>4. CASE FetchPage(i)
  <2>1. s.phase = "fetch"
    BY <1>4 DEF FetchPage
  <2>2. CASE Page(CONTRACTS[s.at], s.page) = <<>>
    <3>1. scan' = [scan EXCEPT ![i] = Returned(s)]
      BY <1>4, <2>2 DEF FetchPage, Goto
    <3> QED
      BY <1>1, <2>1, <3>1, NextContractOK DEF FeeDue
  <2>3. CASE Page(CONTRACTS[s.at], s.page) # <<>>
    <3>1. scan' = [scan EXCEPT ![i] = Fetched(s)]
      BY <1>4, <2>3 DEF FetchPage, Goto, Fetched, Exhausts
    <3> QED
      BY <1>1, <2>1, <2>3, <3>1, PageFetched DEF FeeDue
  <2> QED
    BY <2>2, <2>3
<1>5. CASE PageDone(i)
  <2>1. s.phase = "dispatch" /\ s.events = <<>> /\ s.writes = <<>>
    BY <1>5 DEF PageDone
  <2>2. CASE s.last
    <3>1. scan' = [scan EXCEPT ![i] = Returned(s)]
      BY <1>5, <2>2 DEF PageDone, Goto
    <3> QED
      BY <1>1, <2>1, <3>1, NextContractOK DEF FeeDue
  <2>3. CASE ~s.last
    <3>1. scan' = [scan EXCEPT ![i] = [s EXCEPT !.phase = "fetch"]]
      BY <1>5, <2>3 DEF PageDone, Goto
    <3> QED
      BY <1>1, <2>1, <2>3, <3>1, PageLeft DEF FeeDue
  <2> QED
    BY <2>2, <2>3
<1>6. CASE Dispatch(i)
  BY <1>1, <1>6, EventDispatched DEF Dispatch, Goto
<1>7. CASE Execute(i)
  BY <1>1, <1>7, StatementRun DEF Execute, Goto
<1>8. CASE FinishScan(i) \/ TickThrows(i) \/ Restart(i)
  BY <1>8, FreshScans DEF FinishScan, TickThrows, Restart, Goto
<1>9. CASE ScanFails(i)
  BY <1>1, <1>9, NextContractOK DEF ScanFails, Goto, FeeDue
<1> QED
  BY <1>2, <1>3, <1>4, <1>5, <1>6, <1>7, <1>8, <1>9 DEF ScanStep

LEMMA ScansStep ==
  ASSUME ChainOK, ChainOK', ChainGrows, TablesOK, ScansOK, [Next]_vars
  PROVE  ScansOK'
<1>1. ASSUME NEW i \in Indexers, ScanStep(i) \/ ScanFails(i) \/ TickThrows(i) \/ Restart(i)
      PROVE  ScansOK'
  BY <1>1, ScanMoves, ScanReplaced
<1>2. CASE UNCHANGED scan
  BY <1>2, ScansKept
<1>3. (MineBlock \/ ListBlock \/ UNCHANGED vars) => UNCHANGED scan
  BY DEF MineBlock, ListBlock, vars
<1>4. ASSUME NEW c \in Commitments,
             \/ \E claim \in Claims : RegisterUpdate(c, claim) \/ RegisterInsert(c, claim)
             \/ \E wallet \in Wallets : MarkSpent(c, wallet)
      PROVE  UNCHANGED scan
  BY <1>4 DEF RegisterUpdate, RegisterInsert, MarkSpent
<1> QED
  BY <1>1, <1>2, <1>3, <1>4 DEF Next

\* The cursor never passes the tip.
LEMMA CursorStep ==
  ASSUME ChainOK, ChainOK', ChainGrows, TablesOK, ScansOK, [Next]_vars
  PROVE  cursor' \in 0..tip'
<1>1. tip \in Nat /\ tip' \in Nat /\ tip' >= tip /\ cursor \in 0..tip
  BY DEF ChainOK, ChainGrows, Heights, TablesOK
<1>2. CASE cursor' = cursor
  BY <1>1, <1>2
<1>3. ASSUME NEW i \in Indexers, FinishScan(i)
      PROVE  cursor' \in 0..tip'
  <2> PICK s : s = scan[i]
    OBVIOUS
  <2>1. ScanOK(s) /\ s \in Scans /\ s.phase = "finish" /\ cursor' = NewCursor(s)
    BY <1>3 DEF ScansOK, ScanOK, FinishScan
  <2>2. s.tip <= tip /\ s.cursor <= tip /\ s.tip \in Nat /\ s.cursor \in Nat
    BY <2>1 DEF ScanOK, Scanning, Scans, Heights
  <2>3. cursor' \in Nat /\ (cursor' = s.cursor \/ cursor' <= s.tip)
    BY <2>1, NewCursorIs
  <2> QED
    BY <1>1, <2>2, <2>3
<1>4. (\E i \in Indexers : FinishScan(i)) \/ cursor' = cursor
  BY DEF Next, ScanStep, Tick, ScanOnce, FetchPage, PageDone, Dispatch, Execute,
        ScanFails, TickThrows, Restart, RegisterUpdate, RegisterInsert, MarkSpent, MineBlock,
        ListBlock, vars, tableVars
<1> QED
  BY <1>2, <1>3, <1>4

-----------------------------------------------------------------------------
(* The fees over a step.                                                   *)

\* What an indexer's step does to the fees that are due.
LEMMA DueMoves ==
  ASSUME ScansOK, NEW i \in Indexers, NEW next, scan' = [scan EXCEPT ![i] = next],
         IsFiniteSet(DueFees)
  PROVE  /\ DueFees' = (DueFees \ {i}) \union {j \in {i} : FeeDue(next)}
         /\ IsFiniteSet(DueFees')
         /\ Cardinality(DueFees) \in Nat
         /\ Cardinality(DueFees') = Cardinality(DueFees) - (IF FeeDue(scan[i]) THEN 1 ELSE 0)
                                      + (IF FeeDue(next) THEN 1 ELSE 0)
<1>1. scan'[i] = next /\ \A j \in Indexers \ {i} : scan'[j] = scan[j]
  BY DEF ScansOK
<1>2. DueFees' = (DueFees \ {i}) \union {j \in {i} : FeeDue(next)}
  <2>1. \A j \in Indexers : j \in DueFees' <=> FeeDue(scan'[j])
    BY DEF DueFees, FeeDue
  <2>2. \A j \in Indexers : j \in DueFees <=> FeeDue(scan[j])
    BY DEF DueFees
  <2>3. DueFees' \subseteq Indexers /\ DueFees \subseteq Indexers
    BY DEF DueFees
  <2> QED
    BY <1>1, <2>1, <2>2, <2>3
<1>3. i \in DueFees <=> FeeDue(scan[i])
  BY DEF DueFees
<1> DEFINE rest == DueFees \ {i}
<1>4. /\ IsFiniteSet(rest) /\ Cardinality(rest) \in Nat /\ Cardinality(DueFees) \in Nat
      /\ Cardinality(rest) = Cardinality(DueFees) - (IF FeeDue(scan[i]) THEN 1 ELSE 0)
  <2>1. CASE FeeDue(scan[i])
    BY <1>3, <2>1, FS_RemoveElement, FS_CardinalityType
  <2>2. CASE ~FeeDue(scan[i])
    <3>1. rest = DueFees
      BY <1>3, <2>2
    <3>2. Cardinality(DueFees) \in Nat
      BY FS_CardinalityType
    <3> QED
      BY <2>2, <3>1, <3>2
  <2> QED
    BY <2>1, <2>2
<1>5. i \notin rest
  OBVIOUS
<1>6. CASE FeeDue(next)
  <2>1. DueFees' = rest \union {i}
    BY <1>2, <1>6
  <2> HIDE DEF rest
  <2>2. IsFiniteSet(rest \union {i}) /\ Cardinality(rest \union {i}) = Cardinality(rest) + 1
    BY <1>4, <1>5, FS_AddElement
  <2> QED
    BY <1>2, <1>4, <1>6, <2>1, <2>2
<1>7. CASE ~FeeDue(next)
  <2>1. DueFees' = rest
    BY <1>2, <1>7
  <2>2. Cardinality(DueFees') = Cardinality(rest) /\ IsFiniteSet(DueFees')
    BY <1>4, <2>1
  <2>3. Cardinality(rest) + (IF FeeDue(next) THEN 1 ELSE 0) = Cardinality(rest)
    BY <1>4, <1>7
  <2> HIDE DEF rest
  <2> QED
    BY <1>2, <1>4, <2>2, <2>3
<1> QED
  BY <1>6, <1>7

LEMMA FeesStep ==
  ASSUME ChainOK, TablesOK, ScansOK, FeesOK, [Next]_vars
  PROVE  FeesOK'
<1> DEFINE due == Cardinality(DueFees)
           recorded == Cardinality(Recorded)
<1>1. /\ IsFiniteSet(DueFees) /\ IsFiniteSet(db.transactions) /\ IsFiniteSet(Recorded)
      /\ due \in Nat /\ recorded \in Nat /\ incidents \in Nat /\ db.fees \in Nat
      /\ db.fees + due <= recorded /\ recorded <= db.fees + due + incidents
  <2>1. Recorded \subseteq db.transactions
    BY DEF Recorded
  <2>2. IsFiniteSet(Recorded)
    BY <2>1, FS_Subset DEF FeesOK
  <2> QED
    BY <2>2, FS_CardinalityType DEF FeesOK, TablesOK, Tables
<1> HIDE DEF due, recorded
<1>2. CASE db'.transactions = db.transactions /\ db'.fees = db.fees /\ UNCHANGED <<scan, incidents>>
  <2>1. DueFees' = DueFees /\ Recorded' = Recorded
    BY <1>2 DEF DueFees, Recorded
  <2> QED
    BY <1>2, <2>1 DEF FeesOK
<1>3. ASSUME NEW i \in Indexers, Execute(i)
      PROVE  FeesOK'
  <2> PICK s : s = scan[i]
    OBVIOUS
  <2> PICK st : st = Head(s.writes)
    OBVIOUS
  <2> DEFINE adds == st.table = "tx" /\ st.op \notin db.transactions /\ HasFee(st.op)
             pays == st.table = "fee"
  <2>1. /\ ScanOK(s) /\ s.phase = "dispatch" /\ s.writes # <<>> /\ db' = Apply(st)
        /\ incidents' = incidents
    BY <1>3 DEF ScansOK, Execute, historyVars
  <2> PICK t : t = [s EXCEPT !.writes = FeeStatement(st) \o Tail(@)]
    OBVIOUS
  <2>2. scan' = [scan EXCEPT ![i] = t] /\ (FeeDue(t) <=> adds) /\ (FeeDue(s) <=> pays)
    <3>1. scan' = [scan EXCEPT ![i] = t]
      BY <1>3 DEF Execute, Goto
    <3>2. FeeDue(t) <=> adds
      BY <2>1, StatementRun
    <3>3. FeeDue(s) <=> pays
      BY <2>1 DEF FeeDue
    <3> QED
      BY <3>1, <3>2, <3>3
  <2>3. st \in Aims /\ Aimed(st)
    BY <2>1, WorkAtHand
  <2>4. /\ db'.transactions = IF st.table = "tx" THEN db.transactions \union {st.op} ELSE db.transactions
        /\ db'.fees = IF pays THEN db.fees + 1 ELSE db.fees
    BY <2>1, <2>3, Applied DEF TablesOK
  <2>5. IsFiniteSet(db.transactions \union {st.op}) /\ IsFiniteSet(db'.transactions)
    <3>1. IsFiniteSet(db.transactions \union {st.op})
      BY <1>1, FS_AddElement
    <3> QED
      BY <1>1, <2>4, <3>1
  <2>6. /\ IsFiniteSet(DueFees')
        /\ Cardinality(DueFees') = due - (IF pays THEN 1 ELSE 0) + (IF adds THEN 1 ELSE 0)
    BY <1>1, <2>2, DueMoves DEF due
  <2>7. Cardinality(Recorded') = recorded + (IF adds THEN 1 ELSE 0)
    <3>1. CASE adds
      <4>1. Recorded' = Recorded \union {st.op} /\ st.op \notin Recorded
        BY <2>4, <3>1 DEF Recorded
      <4>2. Cardinality(Recorded \union {st.op}) = recorded + 1
        BY <1>1, <4>1, FS_AddElement DEF recorded
      <4> QED
        BY <3>1, <4>1, <4>2
    <3>2. CASE ~adds
      <4>1. Recorded' = Recorded
        BY <2>4, <3>2 DEF Recorded
      <4> QED
        BY <1>1, <3>2, <4>1 DEF recorded
    <3> QED
      BY <3>1, <3>2
  <2> HIDE DEF adds
  <2>8. CASE pays
    <3>1. ~adds
      BY <2>8 DEF adds
    <3>2. Cardinality(DueFees') = due - 1 /\ Cardinality(Recorded') = recorded /\ db'.fees = db.fees + 1
      BY <1>1, <2>4, <2>6, <2>7, <2>8, <3>1
    <3> QED
      BY <1>1, <2>1, <2>5, <2>6, <3>2 DEF FeesOK
  <2>9. CASE adds
    <3>1. ~pays
      BY <2>9 DEF adds
    <3>2. Cardinality(DueFees') = due + 1 /\ Cardinality(Recorded') = recorded + 1 /\ db'.fees = db.fees
      BY <1>1, <2>4, <2>6, <2>7, <2>9, <3>1
    <3> QED
      BY <1>1, <2>1, <2>5, <2>6, <3>2 DEF FeesOK
  <2>10. CASE ~pays /\ ~adds
    <3>1. Cardinality(DueFees') = due /\ Cardinality(Recorded') = recorded /\ db'.fees = db.fees
      BY <1>1, <2>4, <2>6, <2>7, <2>10
    <3> QED
      BY <1>1, <2>1, <2>5, <2>6, <3>1 DEF FeesOK
  <2> QED
    BY <2>8, <2>9, <2>10
<1>4. ASSUME NEW i \in Indexers, ScanStep(i) \/ ScanFails(i) \/ TickThrows(i) \/ Restart(i), ~Execute(i)
      PROVE  FeesOK'
  <2>1. PICK next : scan' = [scan EXCEPT ![i] = next] /\ ~FeeDue(next)
    BY <1>4, ScanMoves
  <2>2. /\ IsFiniteSet(DueFees')
        /\ Cardinality(DueFees') = due - (IF FeeDue(scan[i]) THEN 1 ELSE 0)
    <3> DEFINE m == IF FeeDue(scan[i]) THEN 1 ELSE 0
               n == IF FeeDue(next) THEN 1 ELSE 0
    <3>1. IsFiniteSet(DueFees') /\ Cardinality(DueFees') = due - m + n
      BY <1>1, <2>1, DueMoves DEF due
    <3>2. m \in Nat /\ n = 0
      BY <2>1
    <3> HIDE DEF m, n
    <3>3. Cardinality(DueFees') = due - m
      BY <1>1, <3>1, <3>2
    <3> QED
      BY <3>1, <3>3 DEF m
  <2>3. db' = db
    BY <1>4 DEF ScanStep, Tick, ScanOnce, FetchPage, PageDone, Dispatch, FinishScan,
          ScanFails, TickThrows, Restart, tableVars
  <2>4. Recorded' = Recorded
    BY <2>3 DEF Recorded
  <2>5. CASE ScanFails(i) \/ TickThrows(i) \/ Restart(i)
    <3>1. incidents' = incidents + 1
      BY <2>5 DEF ScanFails, TickThrows, Restart, Incident
    <3>2. /\ db'.fees + Cardinality(DueFees') <= recorded
          /\ recorded <= db'.fees + Cardinality(DueFees') + incidents' /\ incidents' \in Nat
      BY <1>1, <2>2, <2>3, <3>1
    <3> QED
      BY <1>1, <2>2, <2>3, <2>4, <3>2 DEF FeesOK, recorded
  <2>6. CASE ScanStep(i)
    <3>1. incidents' = incidents /\ (scan[i].phase # "dispatch" \/ scan[i].writes = <<>>)
      BY <1>4, <2>6 DEF ScanStep, Tick, ScanOnce, FetchPage, PageDone, Dispatch, FinishScan, historyVars
    <3>2. scan[i].writes = <<>>
      BY <3>1 DEF ScansOK, ScanOK
    <3>3. ~FeeDue(scan[i])
      BY <3>2 DEF FeeDue
    <3>4. Cardinality(DueFees') = due
      BY <1>1, <2>2, <3>3
    <3> QED
      BY <1>1, <2>2, <2>3, <2>4, <3>1, <3>4 DEF FeesOK, recorded
  <2> QED
    BY <1>4, <2>5, <2>6
<1>5. ASSUME NEW c \in Commitments,
             \/ \E claim \in Claims : RegisterUpdate(c, claim) \/ RegisterInsert(c, claim)
             \/ \E wallet \in Wallets : MarkSpent(c, wallet)
      PROVE  db'.transactions = db.transactions /\ db'.fees = db.fees /\ UNCHANGED <<scan, incidents>>
  BY <1>5 DEF RegisterUpdate, RegisterInsert, MarkSpent, TablesOK, Tables, historyVars
<1>6. (MineBlock \/ ListBlock \/ UNCHANGED vars) =>
        db'.transactions = db.transactions /\ db'.fees = db.fees /\ UNCHANGED <<scan, incidents>>
  BY DEF MineBlock, ListBlock, vars, tableVars, historyVars
<1> QED
  BY <1>2, <1>3, <1>4, <1>5, <1>6 DEF Next

-----------------------------------------------------------------------------
(* What is stored over a step.                                             *)

\* Where an event of the log of the next state lies.
LEMMA NewEventsAreHigh ==
  ASSUME ChainOK, ChainOK', ChainGrows, NEW c \in Contracts, NEW d \in 1..Len(log'[c]),
         NEW h \in Int, h <= tip, log'[c][d].height <= h
  PROVE  d \in 1..Len(log[c]) /\ log'[c][d] = log[c][d] /\ log[c][d] \in EventsOf(c)
<1>1. Len(log[c]) \in Nat /\ Len(log'[c]) \in Nat /\ log[c] \in Seq(Events) /\ tip \in Nat
  <2>1. Len(log[c]) \in Nat /\ Len(log'[c]) \in Nat
    BY ListedIs, ListedNext
  <2>2. log[c] \in Seq(Events) /\ tip \in Nat
    BY DEF ChainOK, Heights
  <2> QED
    BY <2>1, <2>2
<1>2. log'[c][d].height \in Int
  BY DEF ChainOK
<1> DEFINE m == Len(log[c])
           n == Len(log'[c])
<1>3. ~(d \in (m + 1)..n)
  <2>1. ~(log'[c][d].height > tip)
    BY <1>1, <1>2
  <2> QED
    BY <2>1 DEF ChainGrows
<1>4. m \in Nat /\ n \in Nat /\ d \in 1..n
  BY <1>1
<1> HIDE DEF m, n
<1>5. d \in 1..m
  BY <1>3, <1>4
<1>6. log'[c][d] = log[c][d]
  BY <1>5 DEF ChainGrows, m
<1>7. log[c][d] \in EventsOf(c)
  BY <1>1, <1>5, MembersOf DEF EventsOf, m
<1> QED
  BY <1>5, <1>6, <1>7 DEF m

\* What is stored stays stored.
LEMMA StoredStays ==
  ASSUME ChainOK, TablesGrow, NEW c \in Contracts, NEW e \in EventsOf(c), Stored(c, e)
  PROVE  Stored(c, e)'
<1> DEFINE w == ToSet(Statements(c, e))
<1>1. \A st \in w : st.table \in Plain /\ Aimed(st) /\ Done(st)
  BY StatementTypes DEF Stored
<1>2. \A st \in w : Done(st)'
  BY <1>1, DoneStays
<1> QED
  BY <1>2 DEF Stored

LEMMA StoredToStays ==
  ASSUME ChainOK, ChainOK', ChainGrows, TablesGrow, NEW c \in Contracts,
         NEW h \in Int, h <= tip, StoredTo(c, h)
  PROVE  StoredTo(c, h)'
<1> SUFFICES ASSUME NEW e \in EventsOf(c)', e.height <= h PROVE Stored(c, e)'
  BY DEF StoredTo
<1>1. log'[c] \in Seq(Events)
  BY DEF ChainOK
<1>2. PICK d \in 1..Len(log'[c]) : e = log'[c][d]
  BY <1>1, MembersOf DEF EventsOf
<1>3. e \in EventsOf(c)
  BY <1>2, NewEventsAreHigh
<1>4. Stored(c, e)
  BY <1>3 DEF StoredTo
<1> QED
  BY <1>3, <1>4, StoredStays

LEMMA StoredBelow ==
  ASSUME ChainOK, NEW c \in Contracts, NEW h \in Int, NEW g \in Int, g <= h, StoredTo(c, h)
  PROVE  StoredTo(c, g)
<1> SUFFICES ASSUME NEW e \in EventsOf(c), e.height <= g PROVE Stored(c, e)
  BY DEF StoredTo
<1>1. e.height \in Int
  BY LoggedEvents DEF ChainOK
<1>2. e.height <= h
  BY <1>1
<1> QED
  BY <1>2 DEF StoredTo

\* With nothing left to do, what is handled is stored.
LEMMA AllHandled ==
  ASSUME NEW s, s.events = <<>>, s.writes = <<>>, NEW c, NEW e
  PROVE  Handled(s, c, e) <=> Stored(c, e)
<1>1. ToSet(s.events) = {} /\ ToSet(s.writes) = {}
  BY DEF ToSet
<1> QED
  BY <1>1 DEF Handled, Stored

LEMMA HandledStays ==
  ASSUME ChainOK, TablesGrow, NEW c \in Contracts, NEW e \in EventsOf(c), NEW s, NEW t,
         Handled(s, c, e), e \in ToSet(s.events) => Handled(t, c, e)',
         \A st \in ToSet(s.writes) : st.table \in Plain => Done(st)' \/ st \in ToSet(t.writes)
  PROVE  Handled(t, c, e)'
<1> DEFINE w == ToSet(Statements(c, e))
<1>1. CASE e \in ToSet(s.events)
  BY <1>1
<1>2. CASE \A st \in w : Done(st) \/ st \in ToSet(s.writes)
  <2>1. ASSUME NEW st \in w PROVE Done(st)' \/ st \in ToSet(t.writes)
    <3>1. st.table \in Plain /\ Aimed(st)
      BY StatementTypes
    <3>2. CASE Done(st)
      BY <3>1, <3>2, DoneStays
    <3>3. CASE st \in ToSet(s.writes)
      BY <3>1, <3>3
    <3> QED
      BY <1>2, <3>2, <3>3
  <2> QED
    BY <2>1 DEF Handled
<1> QED
  BY <1>1, <1>2 DEF Handled

-----------------------------------------------------------------------------
(* What a scan covers over a step.                                         *)

Unfinished(s, c) ==
  \A d \in 1..Len(log[c]) :
    /\ log[c][d].height <= s.tip - OVERLAP
    /\ s.last \/ d > Listed(c) - s.page * PAGE
    => Handled(s, c, log[c][d])

LEMMA CoversIs ==
  ASSUME NEW s
  PROVE  Covers(s) <=>
           (Scanning(s) =>
              \A k \in 1..3 : CONTRACTS[k] \notin gaps =>
                /\ StoredTo(CONTRACTS[k], s.cursor - OVERLAP)
                /\ k < s.at => StoredTo(CONTRACTS[k], s.tip - OVERLAP)
                /\ k = s.at => Unfinished(s, CONTRACTS[k]))
BY DEF Covers, Unfinished

LEMMA CoversNextIs ==
  ASSUME NEW s
  PROVE  Covers(s)' <=>
           (Scanning(s) =>
              \A k \in 1..3 : CONTRACTS[k] \notin gaps' =>
                /\ StoredTo(CONTRACTS[k], s.cursor - OVERLAP)'
                /\ k < s.at => StoredTo(CONTRACTS[k], s.tip - OVERLAP)'
                /\ k = s.at => Unfinished(s, CONTRACTS[k])')
BY DEF Covers, Unfinished, Scanning

\* Bounds of a scan under way.
LEMMA ScanBounds ==
  ASSUME ChainOK, NEW s, ScanOK(s), Scanning(s)
  PROVE  /\ s \in Scans /\ s.tip \in Nat /\ s.cursor \in Nat /\ s.page \in Nat
         /\ s.tip - OVERLAP \in Int /\ s.tip - OVERLAP <= tip /\ s.tip <= tip
         /\ s.cursor - OVERLAP \in Int /\ s.cursor - OVERLAP <= tip
         /\ s.page * PAGE \in Nat /\ s.at \in 1..4
<1>1. /\ s \in Scans /\ s.tip <= tip /\ s.cursor <= tip /\ tip \in Nat
  BY DEF ScanOK, ChainOK, Heights
<1>2. s.tip \in Nat /\ s.cursor \in Nat /\ s.page \in Nat /\ s.at \in 1..4
  BY <1>1 DEF Scans, Heights
<1>3. s.page * PAGE \in Nat
  BY <1>2, Parameters
<1> QED
  BY <1>1, <1>2, <1>3, Parameters

\* What the event API does not list yet lies above the overlap of any scan.
LEMMA UnlistedIsHigh ==
  ASSUME ChainOK', NEW c \in Contracts, NEW d \in 1..Len(log'[c]), d > Listed(c)',
         NEW h \in Int, h <= tip'
  PROVE  ~(log'[c][d].height <= h - OVERLAP)
<1>1. ~(log'[c][d].height <= visible')
  <2>1. Listed(c)' \in Int /\ d \in Int
    BY ListedNext
  <2> QED
    BY <2>1, ListedNext
<1>2. log'[c][d].height \in Int /\ visible' \in Int /\ tip' - visible' <= Lag /\ tip' \in Int
  BY DEF ChainOK, Heights
<1> DEFINE x == log'[c][d].height
           v == visible'
           u == tip'
<1>3. x \in Int /\ ~(x <= v) /\ v \in Int /\ u \in Int /\ u - v <= Lag /\ h <= u
  BY <1>1, <1>2
<1> HIDE DEF x, v, u
<1>4. ~(x <= h - OVERLAP)
  <2>1. OVERLAP \in Int /\ Lag \in Int /\ Lag <= OVERLAP
    BY Parameters
  <2> QED
    BY <1>3, <2>1
<1> QED
  BY <1>4 DEF x

\* A scan that goes on with the same page.
LEMMA CoversMoves ==
  ASSUME ChainOK, ChainOK', ChainGrows, TablesGrow, gaps \subseteq gaps',
         NEW s, ScanOK(s), Covers(s), Scanning(s), NEW t,
         t.tip = s.tip, t.cursor = s.cursor, t.at = s.at, t.page = s.page, t.last = s.last,
         \A c \in Contracts : \A e \in EventsOf(c) :
           c = CONTRACTS[s.at] /\ Handled(s, c, e) => Handled(t, c, e)'
  PROVE  Covers(t)'
<1> SUFFICES ASSUME NEW k \in 1..3, CONTRACTS[k] \notin gaps'
             PROVE  /\ StoredTo(CONTRACTS[k], t.cursor - OVERLAP)'
                    /\ k < t.at => StoredTo(CONTRACTS[k], t.tip - OVERLAP)'
                    /\ k = t.at => Unfinished(t, CONTRACTS[k])'
  BY CoversNextIs
<1> PICK c : c = CONTRACTS[k]
  OBVIOUS
<1>1. c \in Contracts /\ c \notin gaps
  BY ContractsAre
<1>2. /\ s.tip - OVERLAP \in Int /\ s.tip - OVERLAP <= tip /\ s.page * PAGE \in Nat
      /\ s.cursor - OVERLAP \in Int /\ s.cursor - OVERLAP <= tip
  BY ScanBounds
<1>3. /\ StoredTo(c, s.cursor - OVERLAP)
      /\ k < s.at => StoredTo(c, s.tip - OVERLAP)
      /\ k = s.at => Unfinished(s, c)
  BY <1>1, CoversIs
<1>4. StoredTo(c, s.cursor - OVERLAP)'
  BY <1>1, <1>2, <1>3, StoredToStays
<1>5. k < s.at => StoredTo(c, s.tip - OVERLAP)'
  BY <1>1, <1>2, <1>3, StoredToStays
<1>6. ASSUME k = s.at, NEW d \in 1..Len(log'[c]), log'[c][d].height <= s.tip - OVERLAP,
             s.last \/ d > Listed(c)' - s.page * PAGE
      PROVE  Handled(t, c, log[c][d])'
  <2>1. d \in 1..Len(log[c]) /\ log'[c][d] = log[c][d] /\ log[c][d] \in EventsOf(c)
    BY <1>1, <1>2, <1>6, NewEventsAreHigh
  <2>2. s.last \/ d > Listed(c) - s.page * PAGE
    <3>1. Listed(c) \in Int /\ Listed(c)' \in Int /\ Listed(c) <= Listed(c)'
      BY <1>1, ListedIs, ListedNext, ChainKeeps
    <3> DEFINE m == s.page * PAGE
    <3>2. m \in Int /\ d \in Int /\ (s.last \/ d > Listed(c)' - m)
      BY <1>2, <1>6
    <3> HIDE DEF m
    <3>3. s.last \/ d > Listed(c) - m
      BY <3>1, <3>2
    <3> QED
      BY <3>3 DEF m
  <2>3. Handled(s, c, log[c][d])
    BY <1>3, <1>6, <2>1, <2>2 DEF Unfinished
  <2> PICK e : e = log[c][d]
    OBVIOUS
  <2>4. Handled(t, c, e)'
    BY <1>1, <1>6, <2>1, <2>3
  <2>5. e = log'[c][d]
    BY <2>1
  <2> QED
    BY <2>4, <2>5 DEF Handled
<1>7. k = s.at => Unfinished(t, c)'
  BY <1>6 DEF Unfinished
<1> QED
  BY <1>4, <1>5, <1>7

\* A scan that goes on to the next contract.
LEMMA CoversNextContract ==
  ASSUME ChainOK, ChainOK', ChainGrows, TablesGrow, gaps \subseteq gaps',
         NEW s, ScanOK(s), Covers(s), s.phase \in {"fetch", "dispatch"}, NEW t,
         t.tip = s.tip, t.cursor = s.cursor, t.at = s.at + 1, t.page = 0, t.last = FALSE,
         CONTRACTS[s.at] \in gaps' \/ StoredTo(CONTRACTS[s.at], s.tip - OVERLAP)
  PROVE  Covers(t)'
<1> SUFFICES ASSUME NEW k \in 1..3, CONTRACTS[k] \notin gaps'
             PROVE  /\ StoredTo(CONTRACTS[k], t.cursor - OVERLAP)'
                    /\ k < t.at => StoredTo(CONTRACTS[k], t.tip - OVERLAP)'
                    /\ k = t.at => Unfinished(t, CONTRACTS[k])'
  BY CoversNextIs
<1> PICK c : c = CONTRACTS[k]
  OBVIOUS
<1>1. c \in Contracts /\ c \notin gaps /\ Scanning(s)
  BY ContractsAre DEF Scanning
<1>2. /\ s.tip - OVERLAP \in Int /\ s.tip - OVERLAP <= tip /\ s.at \in 1..4 /\ s.tip \in Int /\ s.tip <= tip
      /\ s.cursor - OVERLAP \in Int /\ s.cursor - OVERLAP <= tip
  BY <1>1, ScanBounds
<1>3. /\ StoredTo(c, s.cursor - OVERLAP)
      /\ k < s.at => StoredTo(c, s.tip - OVERLAP)
  BY <1>1, CoversIs
<1>4. StoredTo(c, s.cursor - OVERLAP)'
  BY <1>1, <1>2, <1>3, StoredToStays
<1>5. k < t.at => StoredTo(c, s.tip - OVERLAP)
  <2>1. k < t.at => k < s.at \/ k = s.at
    BY <1>2
  <2> QED
    BY <1>3, <2>1
<1>6. k < t.at => StoredTo(c, s.tip - OVERLAP)'
  BY <1>1, <1>2, <1>5, StoredToStays
<1>7. Unfinished(t, c)'
  <2> SUFFICES ASSUME NEW d \in 1..Len(log'[c]), log'[c][d].height <= s.tip - OVERLAP,
                      d > Listed(c)' - t.page * PAGE
               PROVE  FALSE
    BY DEF Unfinished
  <2>1. t.page * PAGE = 0 /\ Listed(c)' \in Int /\ tip' >= tip /\ tip' \in Int /\ tip \in Int
    <3>1. t.page * PAGE = 0 /\ Listed(c)' \in Int
      BY <1>1, ListedNext, Parameters
    <3>2. tip' >= tip /\ tip' \in Int /\ tip \in Int
      BY DEF ChainGrows, ChainOK, Heights
    <3> QED
      BY <3>1, <3>2
  <2>2. d > Listed(c)' /\ s.tip <= tip'
    BY <1>2, <2>1
  <2> QED
    BY <1>1, <1>2, <2>2, UnlistedIsHigh
<1> QED
  BY <1>4, <1>6, <1>7

\* After the last page, or with none left, the contract at hand is stored.
LEMMA ContractStored ==
  ASSUME ChainOK, NEW s, ScanOK(s), Covers(s), Scanning(s), s.at \in 1..3,
         s.events = <<>>, s.writes = <<>>, CONTRACTS[s.at] \notin gaps,
         s.last \/ Listed(CONTRACTS[s.at]) - s.page * PAGE <= 0
  PROVE  StoredTo(CONTRACTS[s.at], s.tip - OVERLAP)
<1> PICK c : c = CONTRACTS[s.at]
  OBVIOUS
<1>1. c \in Contracts /\ Unfinished(s, c)
  BY ContractsAre, CoversIs
<1>2. log[c] \in Seq(Events) /\ Listed(c) \in Int
  BY <1>1, ListedIs DEF ChainOK
<1> SUFFICES ASSUME NEW e \in EventsOf(c), e.height <= s.tip - OVERLAP PROVE Stored(c, e)
  BY DEF StoredTo
<1>3. PICK d \in 1..Len(log[c]) : e = log[c][d]
  BY <1>2, MembersOf DEF EventsOf
<1>4. s.last \/ d > Listed(c) - s.page * PAGE
  <2> DEFINE m == Listed(c) - s.page * PAGE
  <2>1. m \in Int
    BY <1>2, ScanBounds
  <2>2. s.last \/ m <= 0
    OBVIOUS
  <2> HIDE DEF m
  <2>3. s.last \/ d > m
    BY <2>1, <2>2
  <2> QED
    BY <2>3 DEF m
<1>5. Handled(s, c, e)
  BY <1>1, <1>3, <1>4 DEF Unfinished
<1> QED
  BY <1>5, AllHandled

\* The scan that has read tip and cursor.
LEMMA CoversBegun ==
  ASSUME ChainOK, ChainOK', ChainGrows, TablesGrow, gaps \subseteq gaps', cursor \in 0..tip,
         \A k \in 1..3 : CONTRACTS[k] \notin gaps => StoredTo(CONTRACTS[k], cursor - OVERLAP),
         NEW t, t.tip = tip, t.cursor = cursor, t.at = 1, t.page = 0, t.last = FALSE
  PROVE  Covers(t)'
<1> SUFFICES ASSUME NEW k \in 1..3, CONTRACTS[k] \notin gaps'
             PROVE  /\ StoredTo(CONTRACTS[k], t.cursor - OVERLAP)'
                    /\ k < t.at => StoredTo(CONTRACTS[k], t.tip - OVERLAP)'
                    /\ k = t.at => Unfinished(t, CONTRACTS[k])'
  BY CoversNextIs
<1> PICK c : c = CONTRACTS[k]
  OBVIOUS
<1>1. c \in Contracts /\ c \notin gaps
  BY ContractsAre
<1> PICK h : h = tip
  OBVIOUS
<1> PICK g : g = cursor - OVERLAP
  OBVIOUS
<1>2. /\ h \in Int /\ h <= tip' /\ tip \in Int /\ g \in Int /\ g <= tip
  <2>1. tip \in Nat /\ tip' \in Nat /\ tip' >= tip /\ cursor \in 0..tip
    BY DEF ChainOK, ChainGrows, Heights
  <2> QED
    BY <2>1, Parameters
<1>3. StoredTo(c, g)'
  BY <1>1, <1>2, StoredToStays
<1>4. Unfinished(t, c)'
  <2> SUFFICES ASSUME NEW d \in 1..Len(log'[c]), log'[c][d].height <= h - OVERLAP,
                      d > Listed(c)' - t.page * PAGE
               PROVE  FALSE
    BY DEF Unfinished
  <2>1. t.page * PAGE = 0 /\ Listed(c)' \in Int
    BY <1>1, ListedNext, Parameters
  <2>2. d > Listed(c)'
    BY <2>1
  <2> QED
    BY <1>1, <1>2, <2>2, UnlistedIsHigh
<1>5. ~(k < t.at)
  OBVIOUS
<1>6. StoredTo(c, t.cursor - OVERLAP)'
  BY <1>3 DEF StoredTo
<1> QED
  BY <1>4, <1>5, <1>6

\* A scan that has fetched a page: the events above it are stored, its own are
\* at hand, and after the last page nothing below it is left.
LEMMA CoversFetched ==
  ASSUME ChainOK, ChainOK', ChainGrows, TablesGrow, UNCHANGED <<tip, log, visible>>,
         NEW s, ScanOK(s), Covers(s), s.phase = "fetch",
         Page(CONTRACTS[s.at], s.page) # <<>>, NEW t, t = Fetched(s),
         gaps' = IF s.page + 1 = MAX_PAGES /\ ~Exhausts(s) THEN gaps \union {CONTRACTS[s.at]} ELSE gaps
  PROVE  Covers(t)'
<1> SUFFICES ASSUME NEW k \in 1..3, CONTRACTS[k] \notin gaps'
             PROVE  /\ StoredTo(CONTRACTS[k], t.cursor - OVERLAP)'
                    /\ k < t.at => StoredTo(CONTRACTS[k], t.tip - OVERLAP)'
                    /\ k = t.at => Unfinished(t, CONTRACTS[k])'
  BY CoversNextIs
<1> PICK c : c = CONTRACTS[k]
  OBVIOUS
<1>1. c \in Contracts /\ c \notin gaps /\ Scanning(s)
  BY ContractsAre DEF Scanning
<1>2. /\ s.tip - OVERLAP \in Int /\ s.tip - OVERLAP <= tip
      /\ s.cursor - OVERLAP \in Int /\ s.cursor - OVERLAP <= tip
      /\ s.page * PAGE \in Nat /\ s.page \in Nat /\ s.cursor \in Nat
  BY <1>1, ScanBounds
<1>3. /\ StoredTo(c, s.cursor - OVERLAP)
      /\ k < s.at => StoredTo(c, s.tip - OVERLAP)
      /\ k = s.at => Unfinished(s, c)
  BY <1>1, CoversIs
<1>4. StoredTo(c, s.cursor - OVERLAP)'
  BY <1>1, <1>2, <1>3, StoredToStays
<1>5. k < s.at => StoredTo(c, s.tip - OVERLAP)'
  BY <1>1, <1>2, <1>3, StoredToStays
<1>6. /\ t.tip = s.tip /\ t.cursor = s.cursor /\ t.at = s.at /\ t.page = s.page + 1
      /\ t.last <=> Exhausts(s) \/ s.page + 1 = MAX_PAGES
  BY PageFetched
<1>7. ASSUME k = s.at, NEW d \in 1..Len(log[c]), log[c][d].height <= s.tip - OVERLAP,
             t.last \/ d > Listed(c) - t.page * PAGE
      PROVE  Handled(t, c, log[c][d])'
  <2> DEFINE newest == Listed(c) - s.page * PAGE
             size == IF newest < PAGE THEN newest ELSE PAGE
             low == newest + 1 - size
  <2>1. /\ newest \in 1..Len(log[c]) /\ size \in 1..newest /\ size <= PAGE
        /\ \A n \in low..newest : log[c][n] \in ToSet(t.events)
        /\ Exhausts(s) <=> log[c][low].height <= s.since \/ size < PAGE
    BY <1>7, PageFetched
  <2>2. PAGE \in Nat \ {0} /\ Listed(c) \in Int /\ Len(log[c]) \in Nat /\ log[c] \in Seq(Events)
    BY <1>1, ListedIs, Parameters DEF ChainOK
  <2>3. ~t.last => d > newest - PAGE
    <3> DEFINE m == s.page * PAGE
    <3>1. t.page * PAGE = m + PAGE /\ m \in Nat
      BY <1>2, <1>6, <2>2
    <3> HIDE DEF m
    <3>2. ~t.last => d > (Listed(c) - m) - PAGE
      BY <1>7, <2>2, <3>1
    <3> QED
      BY <3>2 DEF m
  <2>4. size < PAGE => size = newest
    BY <2>1, <2>2
  <2> PICK e : e = log[c][d]
    OBVIOUS
  <2>5. e \in EventsOf(c)
    BY <2>2, MembersOf DEF EventsOf
  <2>6. CASE d > newest
    <3>1. s.last \/ d > Listed(c) - s.page * PAGE
      BY <2>6
    <3>2. Handled(s, c, e)
      BY <1>3, <1>7, <3>1 DEF Unfinished
    <3>3. Stored(c, e)
      BY <3>2, AllHandled DEF ScanOK
    <3>4. Stored(c, e)'
      BY <1>1, <2>5, <3>3, StoredStays
    <3> QED
      BY <3>4 DEF Handled, Stored
  <2> HIDE DEF newest, size
  <2>7. CASE d \in low..newest
    <3>1. e \in ToSet(t.events)
      BY <2>1, <2>7
    <3> QED
      BY <3>1 DEF Handled
  <2>8. CASE d < low
    <3>1. /\ newest \in Int /\ size \in Int /\ size >= 1 /\ size <= newest /\ d \in Int /\ d >= 1
          /\ low \in 1..Len(log[c])
      BY <2>1, <2>2
    <3>2. size # newest
      BY <2>8, <3>1
    <3>3. ~(size < PAGE) /\ size = PAGE
      BY <2>1, <2>2, <2>4, <3>1, <3>2
    <3>4. ~(d > newest - PAGE)
      BY <2>8, <3>1, <3>3
    <3>5. t.last
      BY <2>3, <3>4
    <3>6. Exhausts(s)
      BY <1>6, <1>7, <3>5
    <3>7. log[c][low].height <= s.since
      BY <2>1, <3>3, <3>6
    <3> HIDE DEF low
    <3>8. log[c][d].height <= log[c][low].height /\ log[c][d].height \in 1..tip /\ log[c][low].height \in 1..tip
      <4>1. d <= low
        BY <2>8, <3>1
      <4> QED
        BY <1>1, <3>1, <4>1 DEF ChainOK
    <3>9. s.since = Since(s.cursor) /\ tip \in Nat
      BY <1>1 DEF ScanOK, ChainOK, Heights
    <3>10. log[c][d].height <= s.cursor - OVERLAP
      <4> DEFINE x == log[c][d].height
                 y == log[c][low].height
      <4>1. x \in Int /\ y \in Int /\ x >= 1 /\ x <= y /\ y <= Since(s.cursor)
        BY <3>7, <3>8, <3>9
      <4> HIDE DEF x, y
      <4>2. x <= s.cursor - OVERLAP
        BY <1>2, <4>1, Parameters DEF Since
      <4> QED
        BY <4>2 DEF x
    <3>11. Stored(c, e)
      BY <1>3, <2>5, <3>10 DEF StoredTo
    <3>12. Stored(c, e)'
      BY <1>1, <2>5, <3>11, StoredStays
    <3> QED
      BY <3>12 DEF Handled, Stored
  <2>9. d > newest \/ d \in low..newest \/ d < low
    BY <2>1, <2>2
  <2> QED
    BY <2>6, <2>7, <2>8, <2>9
<1>8. k = s.at => Unfinished(t, c)'
  <2>1. log' = log /\ Listed(c)' = Listed(c)
    BY DEF Listed
  <2> QED
    BY <1>6, <1>7, <2>1 DEF Unfinished
<1> QED
  BY <1>4, <1>5, <1>6, <1>8

\* A scan at rest, and one that is not moved.
LEMMA CoversIdle ==
  ASSUME NEW t, ~Scanning(t)
  PROVE  Covers(t) /\ Covers(t)'
BY CoversIs, CoversNextIs

LEMMA CoversStays ==
  ASSUME ChainOK, ChainOK', ChainGrows, TablesGrow, gaps \subseteq gaps',
         NEW s, ScanOK(s), Covers(s)
  PROVE  Covers(s)'
<1>1. ASSUME NEW c \in Contracts, NEW e \in EventsOf(c), Handled(s, c, e)
      PROVE  Handled(s, c, e)'
  <2>1. e \in ToSet(s.events) => Handled(s, c, e)'
    BY DEF Handled
  <2> QED
    BY <1>1, <2>1, HandledStays
<1>2. CASE Scanning(s)
  BY <1>1, <1>2, CoversMoves
<1>3. CASE ~Scanning(s)
  BY <1>3, CoversIdle
<1> QED
  BY <1>2, <1>3

LEMMA CoversOfNext ==
  ASSUME NEW j \in Indexers, NEW t, t = scan'[j], Covers(t)'
  PROVE  Covers(scan[j])'
BY DEF Covers

\* The fields of a scan of the next contract.
LEMMA NextContractIs ==
  ASSUME NEW s \in Scans, NEW t, t = NextContract(s) \/ t = Returned(s)
  PROVE  t.tip = s.tip /\ t.cursor = s.cursor /\ t.at = s.at + 1 /\ t.page = 0 /\ t.last = FALSE
<1>1. ASSUME NEW u, u.tip = s.tip, u.cursor = s.cursor, u.at = s.at, t = NextContract(u),
             \E r : u = [s EXCEPT !.reached = r]
      PROVE  t.tip = s.tip /\ t.cursor = s.cursor /\ t.at = s.at + 1 /\ t.page = 0 /\ t.last = FALSE
  BY <1>1 DEF NextContract, Scans
<1>2. CASE t = NextContract(s)
  BY <1>2 DEF NextContract, Scans
<1>3. CASE t = Returned(s)
  <2> PICK r : r = Max({s.reached, s.top})
    OBVIOUS
  <2> PICK u : u = [s EXCEPT !.reached = r]
    OBVIOUS
  <2>1. t = NextContract(u)
    BY <1>3 DEF Returned
  <2>2. u.tip = s.tip /\ u.cursor = s.cursor /\ u.at = s.at
    BY DEF Scans
  <2> QED
    BY <1>1, <2>1, <2>2
<1> QED
  BY <1>2, <1>3

\* A statement run leaves the others to do.
LEMMA WorkLeft ==
  ASSUME NEW s, ScanOK(s), s.writes # <<>>
  PROVE  ToSet(s.writes) \subseteq
           {Head(s.writes)} \union ToSet(FeeStatement(Head(s.writes)) \o Tail(s.writes))
<1> DEFINE st == Head(s.writes)
           b == Tail(s.writes)
           a == FeeStatement(st)
           fee == [st EXCEPT !.table = "fee"]
<1>1. st \in Aims /\ b \in Seq(Aims) /\ ToSet(s.writes) = {st} \union ToSet(b)
  BY WorkAtHand
<1> HIDE DEF st, b
<1>2. fee \in Aims /\ (a = <<fee>> \/ a = <<>>)
  BY <1>1, FeeStatementIs
<1> HIDE DEF fee, a
<1>3. a \in Seq(Aims)
  <2>1. <<fee>> \in Seq(Aims) /\ <<>> \in Seq(Aims)
    BY <1>2
  <2> QED
    BY <1>2, <2>1
<1>4. ToSet(a \o b) = ToSet(a) \union ToSet(b)
  BY <1>1, <1>3, ConcatMembers
<1>5. ToSet(s.writes) \subseteq {st} \union ToSet(a \o b)
  BY <1>1, <1>4
<1> QED
  BY <1>5 DEF a, b, st

\* The scan an indexer's step leaves behind.
LEMMA CoversStep ==
  ASSUME ChainOK, ChainOK', ChainGrows, TablesOK, TablesGrow, ScansOK, Coverage, gaps \subseteq gaps',
         NEW i \in Indexers, ScanStep(i) \/ ScanFails(i) \/ TickThrows(i) \/ Restart(i)
  PROVE  Covers(scan[i])'
<1> PICK s : s = scan[i]
  OBVIOUS
<1> PICK t : t = scan'[i]
  OBVIOUS
<1> SUFFICES Covers(t)'
  BY CoversOfNext
<1>1. ScanOK(s) /\ Covers(s) /\ s \in Scans
  BY DEF ScansOK, ScanOK, Coverage
<1>2. ASSUME NEW next, scan' = [scan EXCEPT ![i] = next] PROVE t = next
  BY <1>2 DEF ScansOK
<1>3. CASE Tick(i) \/ FinishScan(i) \/ TickThrows(i) \/ Restart(i)
  <2>1. t = NoScan \/ t = [NoScan EXCEPT !.phase = "start"]
    BY <1>2, <1>3 DEF Tick, FinishScan, TickThrows, Restart, Goto
  <2>2. ~Scanning(t)
    BY <2>1 DEF Scanning, NoScan
  <2> QED
    BY <2>2, CoversIdle
<1>4. CASE ScanOnce(i)
  <2>1. s.phase = "start" /\ cursor \in 0..tip
    BY <1>4 DEF ScanOnce, TablesOK
  <2>2. t = [s EXCEPT !.phase = "fetch", !.tip = tip, !.cursor = cursor,
                      !.since = Since(cursor), !.reached = cursor, !.top = Since(cursor)]
    BY <1>2, <1>4 DEF ScanOnce, Goto
  <2>3. s.at = 1 /\ s.page = 0 /\ s.last = FALSE
    BY <1>1, <2>1 DEF ScanOK, Scans
  <2>4. t.tip = tip /\ t.cursor = cursor /\ t.at = 1 /\ t.page = 0 /\ t.last = FALSE
    BY <1>1, <2>2, <2>3 DEF Scans
  <2> QED
    BY <2>1, <2>3, <2>4, CoversBegun DEF Coverage
<1>5. CASE ScanFails(i)
  <2>1. s.phase \in {"fetch", "dispatch"} /\ CONTRACTS[s.at] \in gaps' /\ t = NextContract(s)
    BY <1>2, <1>5 DEF ScanFails, Goto
  <2>2. t.tip = s.tip /\ t.cursor = s.cursor /\ t.at = s.at + 1 /\ t.page = 0 /\ t.last = FALSE
    BY <1>1, <2>1, NextContractIs
  <2> QED
    BY <1>1, <2>1, <2>2, CoversNextContract
<1>6. CASE FetchPage(i)
  <2>1. s.phase = "fetch" /\ s.events = <<>> /\ s.writes = <<>> /\ s.at \in 1..3 /\ s.page \in Nat
    <3>1. s.phase = "fetch"
      BY <1>6 DEF FetchPage
    <3> QED
      BY <1>1, <3>1 DEF ScanOK, Scans
  <2>2. CASE Page(CONTRACTS[s.at], s.page) = <<>>
    <3>1. t = Returned(s) /\ gaps' = gaps
      BY <1>2, <1>6, <2>2 DEF FetchPage, Goto
    <3>2. t.tip = s.tip /\ t.cursor = s.cursor /\ t.at = s.at + 1 /\ t.page = 0 /\ t.last = FALSE
      BY <1>1, <3>1, NextContractIs
    <3>3. Listed(CONTRACTS[s.at]) - s.page * PAGE <= 0
      <4> DEFINE c == CONTRACTS[s.at]
                 m == Listed(c) - s.page * PAGE
                 n == IF m < 0 THEN 0 ELSE IF m < PAGE THEN m ELSE PAGE
      <4>1. c \in Contracts
        BY <2>1, ContractsAre
      <4>2. m \in Int /\ n = 0
        BY <2>1, <2>2, <4>1, PageIs
      <4> HIDE DEF m
      <4>3. m <= 0
        BY <4>2, Parameters
      <4> QED
        BY <4>3 DEF m
    <3>4. CONTRACTS[s.at] \in gaps' \/ StoredTo(CONTRACTS[s.at], s.tip - OVERLAP)
      BY <1>1, <2>1, <3>1, <3>3, ContractStored DEF Scanning
    <3> QED
      BY <1>1, <2>1, <3>2, <3>4, CoversNextContract
  <2>3. CASE Page(CONTRACTS[s.at], s.page) # <<>>
    <3>1. t = Fetched(s)
      BY <1>2, <1>6, <2>3 DEF FetchPage, Goto, Fetched, Exhausts
    <3>2. gaps' = IF s.page + 1 = MAX_PAGES /\ ~Exhausts(s) THEN gaps \union {CONTRACTS[s.at]} ELSE gaps
      BY <1>6, <2>3 DEF FetchPage, Exhausts
    <3>3. UNCHANGED <<tip, log, visible>>
      BY <1>6 DEF FetchPage, chainVars
    <3> QED
      BY <1>1, <2>1, <2>3, <3>1, <3>2, <3>3, CoversFetched
  <2> QED
    BY <2>2, <2>3
<1>7. CASE PageDone(i)
  <2>1. s.phase = "dispatch" /\ s.events = <<>> /\ s.writes = <<>> /\ s.at \in 1..3 /\ Scanning(s)
    <3>1. s.phase = "dispatch" /\ s.events = <<>> /\ s.writes = <<>>
      BY <1>7 DEF PageDone
    <3> QED
      BY <1>1, <3>1 DEF ScanOK, Scans, Scanning
  <2>2. gaps' = gaps
    BY <1>7 DEF PageDone, historyVars
  <2>3. CASE s.last
    <3>1. t = Returned(s)
      BY <1>2, <1>7, <2>3 DEF PageDone, Goto
    <3>2. t.tip = s.tip /\ t.cursor = s.cursor /\ t.at = s.at + 1 /\ t.page = 0 /\ t.last = FALSE
      BY <1>1, <3>1, NextContractIs
    <3>3. CONTRACTS[s.at] \in gaps' \/ StoredTo(CONTRACTS[s.at], s.tip - OVERLAP)
      BY <1>1, <2>1, <2>2, <2>3, ContractStored
    <3> QED
      BY <1>1, <2>1, <3>2, <3>3, CoversNextContract
  <2>4. CASE ~s.last
    <3>1. t = [s EXCEPT !.phase = "fetch"]
      BY <1>2, <1>7, <2>4 DEF PageDone, Goto
    <3>2. /\ t.tip = s.tip /\ t.cursor = s.cursor /\ t.at = s.at /\ t.page = s.page /\ t.last = s.last
          /\ t.events = <<>> /\ t.writes = <<>>
      BY <1>1, <2>1, <2>4, <3>1, PageLeft
    <3>3. ASSUME NEW c \in Contracts, NEW e \in EventsOf(c), Handled(s, c, e)
          PROVE  Handled(t, c, e)'
      <4>1. ToSet(s.events) = {} /\ ToSet(s.writes) = {}
        BY <2>1 DEF ToSet
      <4> QED
        BY <3>3, <4>1, HandledStays
    <3> QED
      BY <1>1, <2>1, <3>2, <3>3, CoversMoves
  <2> QED
    BY <2>3, <2>4
<1>8. CASE Dispatch(i)
  <2>1. s.phase = "dispatch" /\ s.events # <<>> /\ s.writes = <<>> /\ Scanning(s)
    BY <1>8 DEF Dispatch, Scanning
  <2> PICK ev : ev = Head(s.events)
    OBVIOUS
  <2>2. t = [s EXCEPT !.events = Tail(@), !.writes = Statements(CONTRACTS[s.at], ev)]
    BY <1>2, <1>8 DEF Dispatch, Goto
  <2>3. /\ t.tip = s.tip /\ t.cursor = s.cursor /\ t.at = s.at /\ t.page = s.page /\ t.last = s.last
        /\ ToSet(s.events) = {ev} \union ToSet(t.events) /\ t.writes = Statements(CONTRACTS[s.at], ev)
    <3>1. /\ t.tip = s.tip /\ t.cursor = s.cursor /\ t.at = s.at /\ t.page = s.page /\ t.last = s.last
          /\ t.events = Tail(s.events) /\ t.writes = Statements(CONTRACTS[s.at], ev)
      BY <1>1, <2>2 DEF Scans
    <3>2. ToSet(s.events) = {ev} \union ToSet(Tail(s.events))
      BY <1>1, <2>1, HeadAndTail DEF Scans
    <3> QED
      BY <3>1, <3>2
  <2>4. ASSUME NEW c \in Contracts, c = CONTRACTS[s.at], NEW e \in EventsOf(c), Handled(s, c, e)
        PROVE  Handled(t, c, e)'
    <3>1. e \in ToSet(s.events) => Handled(t, c, e)'
      BY <2>3, <2>4 DEF Handled
    <3>2. ToSet(s.writes) = {}
      BY <2>1 DEF ToSet
    <3> QED
      BY <2>4, <3>1, <3>2, HandledStays
  <2> QED
    BY <1>1, <2>1, <2>3, <2>4, CoversMoves
<1>9. CASE Execute(i)
  <2>1. s.phase = "dispatch" /\ s.writes # <<>> /\ Scanning(s) /\ db' = Apply(Head(s.writes))
    BY <1>9 DEF Execute, Scanning
  <2> PICK st : st = Head(s.writes)
    OBVIOUS
  <2>2. t = [s EXCEPT !.writes = FeeStatement(st) \o Tail(@)]
    BY <1>2, <1>9 DEF Execute, Goto
  <2>3. /\ t.tip = s.tip /\ t.cursor = s.cursor /\ t.at = s.at /\ t.page = s.page /\ t.last = s.last
        /\ t.events = s.events /\ ToSet(s.writes) \subseteq {st} \union ToSet(t.writes)
    <3>1. /\ t.tip = s.tip /\ t.cursor = s.cursor /\ t.at = s.at /\ t.page = s.page /\ t.last = s.last
          /\ t.events = s.events /\ t.writes = FeeStatement(st) \o Tail(s.writes)
      BY <1>1, <2>2 DEF Scans
    <3>2. ToSet(s.writes) \subseteq {st} \union ToSet(FeeStatement(st) \o Tail(s.writes))
      BY <1>1, <2>1, WorkLeft
    <3> QED
      BY <3>1, <3>2
  <2>4. st.table \in Plain => Done(st)'
    <3>1. st \in Aims /\ Aimed(st)
      BY <1>1, <2>1, WorkAtHand
    <3>2. db' = Apply(st)
      BY <2>1
    <3> QED
      BY <3>1, <3>2, Applied DEF TablesOK
  <2>5. ASSUME NEW c \in Contracts, NEW e \in EventsOf(c), Handled(s, c, e)
        PROVE  Handled(t, c, e)'
    <3>1. e \in ToSet(s.events) => Handled(t, c, e)'
      BY <2>3 DEF Handled
    <3>2. \A x \in ToSet(s.writes) : x.table \in Plain => Done(x)' \/ x \in ToSet(t.writes)
      BY <2>3, <2>4
    <3> QED
      BY <2>5, <3>1, <3>2, HandledStays
  <2> QED
    BY <1>1, <2>1, <2>3, <2>5, CoversMoves
<1> QED
  BY <1>3, <1>4, <1>5, <1>6, <1>7, <1>8, <1>9 DEF ScanStep

LEMMA GapsGrow ==
  ASSUME [Next]_vars
  PROVE  gaps \subseteq gaps'
BY DEF Next, ScanStep, Tick, ScanOnce, FetchPage, PageDone, Dispatch, Execute, FinishScan,
       ScanFails, TickThrows, Restart, RegisterUpdate, RegisterInsert, MarkSpent, MineBlock,
       ListBlock, vars, historyVars

\* The cursor only passes what is stored.
LEMMA CursorCovers ==
  ASSUME ChainOK, ChainOK', ChainGrows, TablesOK, TablesGrow, ScansOK, Coverage, [Next]_vars,
         NEW k \in 1..3, CONTRACTS[k] \notin gaps'
  PROVE  StoredTo(CONTRACTS[k], cursor - OVERLAP)'
<1> PICK c : c = CONTRACTS[k]
  OBVIOUS
<1>1. c \in Contracts /\ c \notin gaps
  BY ContractsAre, GapsGrow
<1>2. cursor \in Nat /\ cursor <= tip /\ tip \in Nat
  BY DEF TablesOK, ChainOK, Heights
<1> PICK h : h = cursor' - OVERLAP
  OBVIOUS
<1> SUFFICES StoredTo(c, h)'
  BY DEF StoredTo
<1>3. CASE cursor' = cursor
  <2>1. h \in Int /\ h <= tip /\ StoredTo(c, h)
    BY <1>1, <1>2, <1>3, Parameters DEF Coverage
  <2> QED
    BY <1>1, <2>1, StoredToStays
<1>4. ASSUME NEW i \in Indexers, FinishScan(i)
      PROVE  StoredTo(c, h)'
  <2> PICK s : s = scan[i]
    OBVIOUS
  <2>1. ScanOK(s) /\ Covers(s) /\ s.phase = "finish" /\ Scanning(s) /\ cursor' = NewCursor(s)
    BY <1>4 DEF ScansOK, Coverage, FinishScan, Scanning
  <2>2. /\ s.at = 4 /\ s \in Scans /\ s.tip \in Nat /\ s.tip <= tip
        /\ s.tip - OVERLAP \in Int /\ s.tip - OVERLAP <= tip
        /\ s.cursor - OVERLAP \in Int /\ s.cursor - OVERLAP <= tip
    BY <2>1, ScanBounds DEF ScanOK
  <2>3. StoredTo(c, s.cursor - OVERLAP) /\ StoredTo(c, s.tip - OVERLAP)
    BY <1>1, <2>1, <2>2, CoversIs
  <2>4. cursor' \in Nat /\ (cursor' = s.cursor \/ cursor' <= s.tip)
    BY <2>1, <2>2, NewCursorIs
  <2>5. CASE cursor' = s.cursor
    <3>1. h = s.cursor - OVERLAP
      BY <2>5
    <3>2. h \in Int /\ h <= tip /\ StoredTo(c, h)
      BY <2>2, <2>3, <3>1
    <3> QED
      BY <1>1, <3>2, StoredToStays
  <2>6. CASE cursor' <= s.tip
    <3>1. h \in Int /\ h <= s.tip - OVERLAP /\ h <= tip
      BY <1>2, <2>2, <2>4, <2>6, Parameters
    <3>2. StoredTo(c, h)
      BY <1>1, <2>2, <2>3, <3>1, StoredBelow
    <3> QED
      BY <1>1, <3>1, <3>2, StoredToStays
  <2> QED
    BY <2>4, <2>5, <2>6
<1>5. (\E i \in Indexers : FinishScan(i)) \/ cursor' = cursor
  BY DEF Next, ScanStep, Tick, ScanOnce, FetchPage, PageDone, Dispatch, Execute,
        ScanFails, TickThrows, Restart, RegisterUpdate, RegisterInsert, MarkSpent, MineBlock,
        ListBlock, vars, tableVars
<1> QED
  BY <1>3, <1>4, <1>5

LEMMA CoverageStep ==
  ASSUME ChainOK, ChainOK', ChainGrows, TablesOK, TablesGrow, ScansOK, Coverage, [Next]_vars
  PROVE  Coverage'
<1>1. gaps \subseteq gaps'
  BY GapsGrow
<1>2. \A k \in 1..3 : CONTRACTS[k] \notin gaps' => StoredTo(CONTRACTS[k], cursor - OVERLAP)'
  BY CursorCovers
<1>3. ASSUME NEW j \in Indexers, scan'[j] = scan[j]
      PROVE  Covers(scan[j])'
  <2> PICK s : s = scan[j]
    OBVIOUS
  <2>1. Covers(s)'
    BY <1>1, CoversStays DEF ScansOK, Coverage
  <2> QED
    BY <1>3, <2>1, CoversOfNext
<1>4. ASSUME NEW i \in Indexers, ScanStep(i) \/ ScanFails(i) \/ TickThrows(i) \/ Restart(i),
             NEW j \in Indexers
      PROVE  Covers(scan[j])'
  <2>1. CASE j = i
    BY <1>1, <1>4, <2>1, CoversStep
  <2>2. CASE j # i
    <3>1. PICK next : scan' = [scan EXCEPT ![i] = next]
      BY <1>4, ScanMoves
    <3>2. scan'[j] = scan[j]
      BY <2>2, <3>1 DEF ScansOK
    <3> QED
      BY <1>3, <3>2
  <2> QED
    BY <2>1, <2>2
<1>5. ASSUME NEW c \in Commitments,
             \/ \E claim \in Claims : RegisterUpdate(c, claim) \/ RegisterInsert(c, claim)
             \/ \E wallet \in Wallets : MarkSpent(c, wallet)
      PROVE  UNCHANGED scan
  BY <1>5 DEF RegisterUpdate, RegisterInsert, MarkSpent
<1>6. (MineBlock \/ ListBlock \/ UNCHANGED vars) => UNCHANGED scan
  BY DEF MineBlock, ListBlock, vars
<1>7. \A j \in Indexers : Covers(scan[j])'
  BY <1>3, <1>4, <1>5, <1>6 DEF Next
<1> QED
  BY <1>2, <1>7 DEF Coverage

-----------------------------------------------------------------------------
(* The theorems.                                                           *)

LEMMA IndexerStarts ==
  ASSUME IndexerInit
  PROVE  IndexerInv
<1>1. /\ tip = 0 /\ visible = 0 /\ cursor = 0 /\ registering = {} /\ incidents = 0 /\ gaps = {}
      /\ log = [c \in Contracts |-> <<>>] /\ scan = [i \in Indexers |-> NoScan]
      /\ db = [notes |-> [c \in Commitments |-> NoRow], roots |-> {}, transactions |-> {},
               fees |-> 0, aggregations |-> {}]
  BY DEF IndexerInit, Contracts
<1>2. ChainOK
  <2>1. \A c \in Contracts : log[c] = <<>> /\ Len(log[c]) = 0
    BY <1>1
  <2>2. log \in [Contracts -> Seq(Events)]
    BY <1>1
  <2>3. "privacy-registry" \in Contracts
    BY ContractsAre
  <2>4. tip \in Heights /\ visible \in 0..tip /\ tip - visible <= Lag
    BY <1>1, Parameters DEF Heights
  <2> QED
    BY <2>1, <2>2, <2>3, <2>4 DEF ChainOK
<1>3. TablesOK
  <2>1. NoRow \in Rows
    BY DEF NoRow, Rows
  <2>2. db \in Tables
    BY <1>1, <2>1 DEF Tables
  <2> QED
    BY <1>1, <2>2 DEF TablesOK
<1>4. ScansOK
  <2>1. ScanOK(NoScan) /\ NoScan \in Scans
    BY <1>2, FreshScans DEF ScanOK
  <2> QED
    BY <1>1, <2>1 DEF ScansOK
<1>5. FeesOK
  <2>1. DueFees = {}
    BY <1>1, <1>2, FreshScans DEF DueFees
  <2>2. db.transactions = {} /\ db.fees = 0 /\ Recorded = {}
    BY <1>1 DEF Recorded
  <2> QED
    BY <1>1, <2>1, <2>2, FS_EmptySet DEF FeesOK
<1>6. Coverage
  <2>1. \A k \in 1..3 : EventsOf(CONTRACTS[k]) = {}
    BY <1>1, ContractsAre DEF EventsOf, ToSet
  <2>2. \A i \in Indexers : ~Scanning(scan[i])
    BY <1>1 DEF Scanning, NoScan
  <2> QED
    BY <2>1, <2>2, CoversIs DEF Coverage, StoredTo
<1> QED
  BY <1>2, <1>3, <1>4, <1>5, <1>6 DEF IndexerInv

LEMMA IndexerSteps ==
  ASSUME IndexerInv, [Next]_vars
  PROVE  IndexerInv' /\ TablesGrow
<1>1. ChainOK /\ TablesOK /\ ScansOK /\ FeesOK /\ Coverage
  BY DEF IndexerInv
<1>2. ChainOK' /\ ChainGrows
  BY <1>1, ChainStep
<1>3. Mined \subseteq Mined'
  BY <1>1, <1>2, ChainKeeps
<1>4. /\ db' \in Tables /\ TablesGrow
      /\ db'.transactions \subseteq Mined' /\ db'.roots \subseteq Mined'
      /\ \A c \in Commitments : db'.notes[c].status = "none" => db'.notes[c] = NoRow
      /\ registering' \subseteq Commitments \X Claims
  BY <1>1, <1>3, TablesStep
<1>5. cursor' \in 0..tip'
  BY <1>1, <1>2, CursorStep
<1>6. TablesOK'
  BY <1>4, <1>5 DEF TablesOK
<1>7. ScansOK'
  BY <1>1, <1>2, ScansStep
<1>8. FeesOK'
  BY <1>1, FeesStep
<1>9. Coverage'
  BY <1>1, <1>2, <1>4, CoverageStep
<1> QED
  BY <1>2, <1>4, <1>6, <1>7, <1>8, <1>9 DEF IndexerInv

\* The invariant holds throughout: whatever the indexers, the wallets and the
\* chain do, in whatever order, and whichever request, statement or process fails.
THEOREM IndexerInvariant == Spec => []IndexerInv
<1>1. IndexerInit => IndexerInv
  BY IndexerStarts
<1>2. IndexerInv /\ [Next]_vars => IndexerInv'
  BY IndexerSteps
<1> QED
  BY <1>1, <1>2, PTL DEF Spec

\* What no later scan will look at, below the cursor by more than the overlap,
\* is in the tables, for every contract none of whose scans was cut short:
\* scanContract stops only where an earlier scan has been, scanOnce clamps the
\* cursor to the tip it read first, and the overlap outlasts the event API's lag.
THEOREM NoEventIsLostButInGaps == Spec => []OnlyGapsLoseEvents
<1>1. IndexerInv => OnlyGapsLoseEvents
  <2> SUFFICES ASSUME IndexerInv PROVE OnlyGapsLoseEvents
    OBVIOUS
  <2> SUFFICES ASSUME NEW c \in Contracts, c \notin gaps,
                      NEW e \in EventsOf(c), e.height <= cursor - OVERLAP
               PROVE  Stored(c, e)
    BY DEF OnlyGapsLoseEvents, Contracts
  <2>1. PICK k \in 1..3 : c = CONTRACTS[k]
    BY ContractsAre
  <2> QED
    BY <2>1 DEF IndexerInv, Coverage, StoredTo
<1> QED
  BY <1>1, IndexerInvariant, PTL

\* The tables hold only what is on chain, and recordTransaction counts the fee
\* of a transaction once, however many indexers scan it and however often; each
\* interruption can cost the fee of one transaction and no more.
THEOREM TablesAlwaysExact == Spec => []TablesExact
<1>1. IndexerInv => TablesExact
  <2> SUFFICES ASSUME IndexerInv PROVE TablesExact
    OBVIOUS
  <2>1. IndexerTypeOK
    <3>1. cursor \in 0..MaxHeight
      <4>1. cursor \in 0..tip /\ tip \in 0..MaxHeight
        BY DEF IndexerInv, ChainOK, TablesOK, Heights
      <4> QED
        BY <4>1, Parameters
    <3>2. /\ db.transactions \subseteq Mined /\ db.roots \subseteq Mined /\ db.fees \in Nat
          /\ \A c \in Commitments : /\ db.notes[c].status \in {"none", "pending", "confirmed"}
                                    /\ db.notes[c].claim \in Claims \union {NoClaim}
      BY DEF IndexerInv, TablesOK, Tables, Rows
    <3>3. \A i \in Indexers : scan[i] \in Scans
      BY DEF IndexerInv, ScansOK
    <3>4. \A i \in Indexers : /\ scan[i].since \in 0..MaxHeight /\ scan[i].at \in 1..4
                             /\ scan[i].page \in 0..MAX_PAGES
      BY <3>3 DEF Scans, Heights
    <3>5. Len(CONTRACTS) + 1 = 4
      BY ContractsAre
    <3> QED
      BY <3>1, <3>2, <3>4, <3>5 DEF IndexerTypeOK
  <2>2. FeesCountedOnce
    BY DEF IndexerInv, FeesOK, FeesCountedOnce, DueFees, FeeDue, Recorded
  <2> QED
    BY <2>1, <2>2 DEF TablesExact
<1> QED
  BY <1>1, IndexerInvariant, PTL

\* No statement of an indexer and no request of a wallet takes back what the chain
\* has put in a row, a spent mark, or the fact that a wallet claims the note; a
\* registration over an existing row replaces wallet and ciphertext and nothing else.
THEOREM RowsAlwaysGrow == Spec => RowsOnlyGrow
<1>1. IndexerInv /\ [Next]_vars =>
        [\A c \in Commitments :
           LET old == db.notes[c]  new == db'.notes[c]
           IN  /\ old.status = "confirmed" => new.status = "confirmed"
               /\ old.status = "pending" => new.status # "none"
               /\ \A column \in {"leaf", "root", "spent"} : old[column] => new[column]
               /\ old.claim # NoClaim => new.claim # NoClaim
               /\ new.claim # old.claim /\ old.status # "none" =>
                    new = [old EXCEPT !.claim = new.claim]]_vars
  BY IndexerSteps DEF TablesGrow, RowKeeps
<1> QED
  BY <1>1, IndexerInvariant, PTL DEF Spec, RowsOnlyGrow
=============================================================================

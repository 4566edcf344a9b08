------------------------------- MODULE Indexer -------------------------------
(***************************************************************************)
(* The API's block indexer and its tables (services/api).                  *)
(*                                                                         *)
(* When the chain tip moves, an indexer reads the print events of every    *)
(* protocol contract, page by page and newest first, down to a little      *)
(* below the shared cursor, and stores them with idempotent statements.    *)
(* Meanwhile wallets register and spend notes in the same table.  The      *)
(* API server runs an indexer of its own and a second one may run as a     *)
(* separate process: they share nothing but the database.                  *)
(*                                                                         *)
(* The chain and the event API in front of it are external: the API lists  *)
(* the events of a block up to Lag blocks after the tip shows it.          *)
(***************************************************************************)
EXTENDS Integers, Sequences, FiniteSets, SequencesExt, FiniteSetsExt

CONSTANTS Indexers,      \* indexer processes
          Ops,           \* protocol transactions
          KindOf,        \* op -> its kind
          OutsOf,        \* op -> the commitments it registers, in leaf order
          Claims,        \* what wallets register notes with: wallet and ciphertext
          PAGE,          \* events per page (50 in the code)
          MAX_PAGES,     \* pages per contract and scan (40 in the code)
          OVERLAP,       \* blocks scanned again below the cursor (3 in the code)
          Lag,           \* external: how far the event API trails the tip
          MaxHeight,     \* bound: blocks
          MaxIncidents   \* bound: failed requests or statements, and restarts

Kinds == {"shielded", "note-split", "sip10-split", "withdrawn", "aggregation-posted"}

Commitments == UNION {ToSet(OutsOf[o]) : o \in Ops}

NoClaim == [wallet |-> "", ciphertext |-> ""]
Wallets == {claim.wallet : claim \in Claims}

ASSUME IndexerAssumption ==
  /\ KindOf \in [Ops -> Kinds] /\ OutsOf \in [Ops -> Seq(Commitments)]
  /\ NoClaim.wallet \notin Wallets
  /\ PAGE \in Nat \ {0} /\ MAX_PAGES \in Nat \ {0}
  /\ OVERLAP \in Nat /\ Lag \in 0..OVERLAP
  /\ MaxHeight \in Nat /\ MaxIncidents \in Nat

VARIABLES
  tip, log, visible,          \* chain: tip; contract -> its events, oldest first; height listed so far
  db, cursor,                 \* tables
  registering,                \* registrations that found no row: commitment and claim
  enabled,                    \* the indexers of this deployment
  scan, lastTip,              \* per indexer: the scan under way, and the tip last acted on
  incidents, gaps, throws     \* history: failures; contracts whose scan was cut short;
                              \* tips whose tick ended in an error

chainVars == <<tip, log, visible>>
tableVars == <<db, cursor>>
historyVars == <<incidents, gaps, throws>>
vars == <<chainVars, tableVars, registering, enabled, scan, lastTip, historyVars>>

-----------------------------------------------------------------------------
(* Events.  Every contract of the protocol prints its own.                 *)

CONTRACTS == <<"pool", "zk-verifier", "privacy-registry">>

Event(op, note, h) == [op |-> op, note |-> note, height |-> h]
NoNote == "no note"

\* What a transaction prints at a contract, in order.
Prints(contract, op, h) ==
  CASE contract = "privacy-registry" ->
         [k \in 1..Len(OutsOf[op]) |-> Event(op, OutsOf[op][k], h)]
    [] contract = "zk-verifier" ->
         IF KindOf[op] = "aggregation-posted" THEN <<Event(op, NoNote, h)>> ELSE <<>>
    [] OTHER ->
         IF KindOf[op] = "aggregation-posted" THEN <<>> ELSE <<Event(op, NoNote, h)>>

EventsOf(contract) == ToSet(log[contract])
Mined == {e.op : e \in EventsOf("pool") \union EventsOf("zk-verifier")}

\* How many events of a contract are listed so far: heights never fall.
Listed(contract) ==
  CHOOSE n \in 0..Len(log[contract]) :
    \A k \in 1..Len(log[contract]) : k <= n <=> log[contract][k].height <= visible

\* getContractEvents: a page of them, newest first.
Page(contract, n) ==
  LET newest == Listed(contract) - n * PAGE
      size == IF newest < 0 THEN 0 ELSE IF newest < PAGE THEN newest ELSE PAGE
  IN  [k \in 1..size |-> log[contract][newest + 1 - k]]

-----------------------------------------------------------------------------
(* Tables and the statements that write them.                              *)

NoRow == [status |-> "none", leaf |-> FALSE, root |-> FALSE, claim |-> NoClaim, spent |-> FALSE]

Statement(table, e) == [table |-> table, op |-> e.op, note |-> e.note]
OnNote(table, e, c) == [table |-> table, op |-> e.op, note |-> c]

HasRoot(op) == KindOf[op] # "withdrawn"
HasFee(op) == KindOf[op] \in {"shielded", "note-split", "withdrawn"}
\* The pool's event for a SIP-10 split names leaf indices only.
NamedOutputs(op) == IF KindOf[op] = "sip10-split" THEN <<>> ELSE OutsOf[op]

\* The statements an event's handlers run, in order.
Statements(contract, e) ==
  CASE contract = "privacy-registry" -> <<Statement("leaf", e)>>
    [] contract = "zk-verifier" ->
         <<Statement("aggregation", e), Statement("root", e), Statement("tx", e)>>
    [] OTHER ->
         (IF HasRoot(e.op) THEN <<Statement("root", e)>> ELSE <<>>)
           \o [n \in 1..Len(NamedOutputs(e.op)) |-> OnNote("note", e, NamedOutputs(e.op)[n])]
           \o <<Statement("tx", e)>>

\* insertNote and upsertCommitmentLeaf: on conflict the wallet's columns stay.
InsertNote(row) == [row EXCEPT !.status = "confirmed", !.leaf = TRUE, !.root = TRUE]
UpsertCommitmentLeaf(row) == [row EXCEPT !.status = "confirmed", !.leaf = TRUE]

\* The tables after a statement.
Apply(st) ==
  CASE st.table = "root" -> [db EXCEPT !.roots = @ \union {st.op}]
    [] st.table = "aggregation" -> [db EXCEPT !.aggregations = @ \union {st.op}]
    [] st.table = "note" -> [db EXCEPT !.notes[st.note] = InsertNote(@)]
    [] st.table = "leaf" -> [db EXCEPT !.notes[st.note] = UpsertCommitmentLeaf(@)]
    [] st.table = "tx" -> [db EXCEPT !.transactions = @ \union {st.op}]
    [] st.table = "fee" -> [db EXCEPT !.fees = @ + 1]

\* Mutant: the fee is added for a transaction that is already recorded.
FeeStatement_Again(st) ==
  IF st.table = "tx" /\ HasFee(st.op) THEN <<[st EXCEPT !.table = "fee"]>> ELSE <<>>

\* recordTransaction goes on to add the fee of a transaction it inserted.
FeeStatement(st) ==
  IF st.table = "tx" /\ st.op \notin db.transactions /\ HasFee(st.op)
  THEN <<[st EXCEPT !.table = "fee"]>> ELSE <<>>

NoScan == [phase |-> "idle", tip |-> 0, since |-> 0, cursor |-> 0, reached |-> 0, at |-> 1,
           page |-> 0, last |-> FALSE, top |-> 0, events |-> <<>>, writes |-> <<>>]

IndexerInit ==
  /\ tip = 0 /\ visible = 0 /\ log = [c \in ToSet(CONTRACTS) |-> <<>>]
  /\ db = [notes |-> [c \in Commitments |-> NoRow], roots |-> {}, transactions |-> {},
            fees |-> 0, aggregations |-> {}]
  /\ cursor = 0
  /\ registering = {}
  /\ enabled \in SUBSET Indexers \ {{}}
  /\ scan = [i \in Indexers |-> NoScan]
  /\ lastTip = [i \in Indexers |-> -1]
  /\ incidents = 0 /\ gaps = {} /\ throws = {}

-----------------------------------------------------------------------------
(* Scanning.                                                               *)

Goto(i, next) == scan' = [scan EXCEPT ![i] = next]
Incident == incidents < MaxIncidents /\ incidents' = incidents + 1

\* The poll sees a new tip; it is remembered before the scan has run.
Tick(i) ==
  /\ i \in enabled /\ scan[i].phase = "idle" /\ tip # lastTip[i]
  /\ lastTip' = [lastTip EXCEPT ![i] = tip]
  /\ Goto(i, [NoScan EXCEPT !.phase = "start"])
  /\ UNCHANGED <<chainVars, tableVars, registering, enabled, historyVars>>

Since(c) == IF c > OVERLAP THEN c - OVERLAP ELSE 0

ScanOnce(i) ==
  /\ scan[i].phase = "start"
  /\ Goto(i, [scan[i] EXCEPT !.phase = "fetch", !.tip = tip, !.cursor = cursor,
                             !.since = Since(cursor), !.reached = cursor, !.top = Since(cursor)])
  /\ UNCHANGED <<chainVars, tableVars, registering, enabled, lastTip, historyVars>>

NextContract(s) ==
  [s EXCEPT !.phase = IF s.at = Len(CONTRACTS) THEN "finish" ELSE "fetch",
            !.at = s.at + 1, !.page = 0, !.top = s.since, !.last = FALSE,
            !.events = <<>>, !.writes = <<>>]

\* scanContract returns: its highest event counts towards the cursor.
Returned(s) == NextContract([s EXCEPT !.reached = Max({s.reached, s.top})])

\* One page.  The loop ends after a page that reaches down to `since`, a short
\* page, or the last page it may read.
FetchPage(i) ==
  LET s == scan[i]
      contract == CONTRACTS[s.at]
      events == Page(contract, s.page)
      heights == {e.height : e \in ToSet(events)}
      last == \/ Min(heights) <= s.since
              \/ Len(events) < PAGE
      cut == s.page + 1 = MAX_PAGES
  IN
  /\ s.phase = "fetch"
  /\ IF events = <<>>
     THEN /\ Goto(i, Returned(s))
          /\ UNCHANGED gaps
     ELSE /\ Goto(i, [s EXCEPT !.phase = "dispatch", !.page = s.page + 1, !.events = events,
                               !.last = last \/ cut, !.top = Max({s.top} \union heights)])
          /\ gaps' = IF cut /\ ~last THEN gaps \union {contract} ELSE gaps
  /\ UNCHANGED <<chainVars, tableVars, registering, enabled, lastTip, incidents, throws>>

\* Mutant: one page per scan.
PageDone_OnePage(i) ==
  LET s == scan[i] IN
  /\ s.phase = "dispatch" /\ s.events = <<>> /\ s.writes = <<>>
  /\ Goto(i, Returned(s))
  /\ UNCHANGED <<chainVars, tableVars, registering, enabled, lastTip, historyVars>>

\* Every event of the page has been handled.
PageDone(i) ==
  LET s == scan[i] IN
  /\ s.phase = "dispatch" /\ s.events = <<>> /\ s.writes = <<>>
  /\ Goto(i, IF s.last THEN Returned(s) ELSE [s EXCEPT !.phase = "fetch"])
  /\ UNCHANGED <<chainVars, tableVars, registering, enabled, lastTip, historyVars>>

\* dispatch: the next event of the page is decoded and handed to its handlers.
Dispatch(i) ==
  LET s == scan[i] IN
  /\ s.phase = "dispatch" /\ s.events # <<>> /\ s.writes = <<>>
  /\ Goto(i, [s EXCEPT !.events = Tail(@), !.writes = Statements(CONTRACTS[s.at], Head(s.events))])
  /\ UNCHANGED <<chainVars, tableVars, registering, enabled, lastTip, historyVars>>

\* One statement of the event at hand.
Execute(i) ==
  LET s == scan[i]
      st == Head(s.writes)
  IN
  /\ s.phase = "dispatch" /\ s.writes # <<>>
  /\ db' = Apply(st)
  /\ Goto(i, [s EXCEPT !.writes = FeeStatement(st) \o Tail(@)])
  /\ UNCHANGED <<chainVars, cursor, registering, enabled, lastTip, historyVars>>

\* A page request or a statement fails: the contract is given up for this scan.
ScanFails(i) ==
  LET s == scan[i] IN
  /\ s.phase \in {"fetch", "dispatch"}
  /\ Incident
  /\ Goto(i, NextContract(s))
  /\ gaps' = gaps \union {CONTRACTS[s.at]}
  /\ UNCHANGED <<chainVars, tableVars, registering, enabled, lastTip, throws>>

\* Mutant: the cursor follows the events past the tip the scan began with.
NewCursor_PastTip(s) == Max({s.cursor, s.reached})

NewCursor(s) == Max({s.cursor, Min({s.reached, s.tip})})

FinishScan(i) ==
  /\ scan[i].phase = "finish"
  /\ cursor' = NewCursor(scan[i])
  /\ Goto(i, NoScan)
  /\ UNCHANGED <<chainVars, db, registering, enabled, lastTip, historyVars>>

\* The tip, the cursor or the statistics cannot be read or written.
TickThrows(i) ==
  /\ scan[i].phase \in {"start", "finish"}
  /\ Incident
  /\ throws' = throws \union {lastTip[i]}
  /\ Goto(i, NoScan)
  /\ UNCHANGED <<chainVars, tableVars, registering, enabled, lastTip, gaps>>

Restart(i) ==
  /\ i \in enabled
  /\ Incident
  /\ Goto(i, NoScan)
  /\ lastTip' = [lastTip EXCEPT ![i] = -1]
  /\ UNCHANGED <<chainVars, tableVars, registering, enabled, gaps, throws>>

-----------------------------------------------------------------------------
(* Wallets (POST /me/notes and .../spent).                                 *)

Exists(c) == db.notes[c].status # "none"
Claimed(row, claim) == [row EXCEPT !.claim = claim]

\* registerWalletNote writes wallet and ciphertext into the row, whoever wrote them
\* before; without a row it goes on to insert.
RegisterUpdate(c, claim) ==
  /\ IF Exists(c)
     THEN /\ db' = [db EXCEPT !.notes[c] = Claimed(@, claim)]
          /\ UNCHANGED registering
     ELSE /\ registering' = registering \union {<<c, claim>>}
          /\ UNCHANGED db
  /\ UNCHANGED <<chainVars, cursor, enabled, scan, lastTip, historyVars>>

\* Mutant: the insert takes the row over.
InsertPending_Clobbers(c, claim) == [Claimed(NoRow, claim) EXCEPT !.status = "pending"]

\* The insert; a row that has appeared in the meantime is kept and only claimed.
InsertPending(c, claim) ==
  IF Exists(c) THEN Claimed(db.notes[c], claim)
  ELSE [Claimed(NoRow, claim) EXCEPT !.status = "pending"]

RegisterInsert(c, claim) ==
  /\ <<c, claim>> \in registering
  /\ db' = [db EXCEPT !.notes[c] = InsertPending(c, claim)]
  /\ registering' = registering \ {<<c, claim>>}
  /\ UNCHANGED <<chainVars, cursor, enabled, scan, lastTip, historyVars>>

\* markWalletNoteSpent: the wallet the row names.
MarkSpent(c, wallet) ==
  /\ db.notes[c].claim.wallet = wallet
  /\ db' = [db EXCEPT !.notes[c].spent = TRUE]
  /\ UNCHANGED <<chainVars, cursor, registering, enabled, scan, lastTip, historyVars>>

-----------------------------------------------------------------------------
(* The chain and its event API (external).                                 *)

MineBlock ==
  /\ tip < MaxHeight /\ tip - visible < Lag
  /\ tip' = tip + 1
  /\ \/ UNCHANGED log
     \/ \E o \in Ops \ Mined :
          log' = [c \in ToSet(CONTRACTS) |-> log[c] \o Prints(c, o, tip')]
  /\ UNCHANGED <<visible, tableVars, registering, enabled, scan, lastTip, historyVars>>

ListBlock ==
  /\ visible < tip
  /\ visible' = visible + 1
  /\ UNCHANGED <<tip, log, tableVars, registering, enabled, scan, lastTip, historyVars>>

ScanStep(i) == Tick(i) \/ ScanOnce(i) \/ FetchPage(i) \/ PageDone(i) \/ Dispatch(i) \/ Execute(i)
               \/ FinishScan(i)

Next ==
  \/ \E i \in Indexers : ScanStep(i) \/ ScanFails(i) \/ TickThrows(i) \/ Restart(i)
  \/ \E c \in Commitments, claim \in Claims : RegisterUpdate(c, claim) \/ RegisterInsert(c, claim)
  \/ \E c \in Commitments, wallet \in Wallets : MarkSpent(c, wallet)
  \/ MineBlock \/ ListBlock

\* The poll loop re-arms itself for ever and the chain goes on.
Fairness ==
  /\ \A i \in Indexers : WF_vars(ScanStep(i))
  /\ WF_vars(MineBlock) /\ WF_vars(ListBlock)

Spec == IndexerInit /\ [][Next]_vars
FairSpec == Spec /\ Fairness
-----------------------------------------------------------------------------
(* Type invariant of the tables and of the scans. *)
IndexerTypeOK ==
  /\ cursor \in 0..MaxHeight
  /\ db.transactions \subseteq Mined /\ db.roots \subseteq Mined
  /\ db.fees \in Nat
  /\ \A c \in Commitments : /\ db.notes[c].status \in {"none", "pending", "confirmed"}
                            /\ db.notes[c].claim \in Claims \union {NoClaim}
  /\ \A i \in Indexers : /\ scan[i].since \in 0..MaxHeight
                         /\ scan[i].at \in 1..Len(CONTRACTS) + 1
                         /\ scan[i].page \in 0..MAX_PAGES

\* The tables show what the statement writes.
Done(st) ==
  CASE st.table = "root" -> st.op \in db.roots
    [] st.table = "aggregation" -> st.op \in db.aggregations
    [] st.table = "tx" -> st.op \in db.transactions
    [] OTHER -> db.notes[st.note].status = "confirmed" /\ db.notes[st.note].leaf

\* Every table shows the event.
Stored(contract, e) == \A st \in ToSet(Statements(contract, e)) : Done(st)

(* What no later scan will look at is stored, unless a scan of its contract was
   cut short: the cursor is clamped to the tip read before the contracts, and
   the overlap absorbs an event API that trails it. *)
OnlyGapsLoseEvents ==
  \A c \in ToSet(CONTRACTS) \ gaps : \A e \in EventsOf(c) :
    e.height <= cursor - OVERLAP => Stored(c, e)

(* A fee is added at most once per transaction, however often its events are
   scanned and by whom; it is missing only while its statement is due, or after
   an interruption between the two statements of recordTransaction. *)
FeesCountedOnce ==
  LET recorded == Cardinality({o \in db.transactions : HasFee(o)})
      due == {i \in Indexers : scan[i].writes # <<>> /\ Head(scan[i].writes).table = "fee"}
  IN  /\ db.fees + Cardinality(due) <= recorded
      /\ recorded <= db.fees + Cardinality(due) + incidents

(* What the tables hold and count. *)
TablesExact == IndexerTypeOK /\ FeesCountedOnce

(* A note's row is filled in by indexers and wallets in any order.  It never loses
   what the chain has put there, its spent mark or its claim; a later registration
   replaces wallet and ciphertext by its own (registerWalletNote does not look at
   the old ones) and touches nothing else. *)
RowsOnlyGrow ==
  [][\A c \in Commitments :
       LET old == db.notes[c]  new == db'.notes[c]
       IN  /\ old.status = "confirmed" => new.status = "confirmed"
           /\ old.status = "pending" => new.status # "none"
           /\ \A column \in {"leaf", "root", "spent"} : old[column] => new[column]
           /\ old.claim # NoClaim => new.claim # NoClaim
           /\ new.claim # old.claim /\ old.status # "none" =>
                new = [old EXCEPT !.claim = new.claim]]_vars

(* Every event is stored in the end, unless its contract has a gap or the tick
   on the last tip threw: a tip that was acted on is not looked at again, and an
   event listed after it is only seen with the next block. *)
EventuallyIndexed ==
  <>[](\A c \in ToSet(CONTRACTS) \ gaps : \A e \in EventsOf(c) :
         e.height <= tip - Lag /\ tip \notin throws => Stored(c, e))

(* "All on-chain commitments" are served by GET /commitments
   (docs/api-reference.md:46): a commitment gets its leaf index once the chain
   has gone on. *)
AllCommitmentsServed ==
  <>[](\A e \in EventsOf("privacy-registry") :
         e.height < tip - Lag /\ tip \notin throws => db.notes[e.note].leaf)
=============================================================================

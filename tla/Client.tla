------------------------------- MODULE Client -------------------------------
(***************************************************************************)
(* The SDK client (sdk/src/client/STXShield.ts) with its note store and    *)
(* vault, between the chain, the API and the relayers.                     *)
(*                                                                         *)
(* Operations are asynchronous functions of one object: whatever runs      *)
(* between two awaits is one action, and operations, note discovery and    *)
(* page refreshes interleave at the awaits.  The commitment tree the       *)
(* client rebuilds (`tree`) is shared by its operations.                   *)
(*                                                                         *)
(* Hashing is injective: a tree is the sequence of its leaves and stands   *)
(* for its root.  Relayers, wallet, API and chain are external.            *)
(***************************************************************************)
EXTENDS Integers, Sequences, FiniteSets, SequencesExt

CONSTANTS Ops,         \* operations the user starts, each once
          Notes,       \* notes of the user, or made out to a recipient
          KindOf,      \* op -> its kind
          InputsOf,    \* op -> notes it spends, in order
          OutsOf,      \* op -> notes it creates, in leaf order
          Genesis,     \* notes on chain, in the feed and in the vault at the start
          Strangers,   \* commitments of other users
          FEED_LIMIT,  \* rows of the encrypted feed the API returns (200 in the code)
          MaxFaults    \* bound: failed requests and refreshes

Kinds == {"shield", "transfer", "split", "merge", "withdraw"}

ASSUME ClientAssumption ==
  /\ KindOf \in [Ops -> Kinds]
  /\ \A o \in Ops : /\ InputsOf[o] \in Seq(Notes)
                     /\ OutsOf[o] \in Seq(Notes) /\ IsInjective(OutsOf[o])
                     /\ IF KindOf[o] = "shield" THEN InputsOf[o] = <<>> /\ Len(OutsOf[o]) = 1
                                               ELSE InputsOf[o] # <<>>
  /\ Genesis \in Seq(Notes) /\ IsInjective(Genesis)
  /\ FEED_LIMIT \in Nat /\ MaxFaults \in Nat

\* A commitment is the hash of a fresh random secret: no two notes share one.
ASSUME FreshCommitments ==
  /\ \A o, p \in Ops : o # p => ToSet(OutsOf[o]) \intersect ToSet(OutsOf[p]) = {}
  /\ \A o \in Ops : ToSet(OutsOf[o]) \intersect ToSet(Genesis) = {}
  /\ Strangers \intersect Notes = {}

VARIABLES
  leaves, nullified, txs,   \* chain: commitments in order; spent notes; op -> its transaction's fate
  served,                   \* API: how many leaves are indexed
  rows, rowsSpent,          \* API: registered ciphertexts, oldest first; those marked spent
  durable,                  \* whether the page is given a note vault
  vault, puts,              \* note -> "none", "unspent" or "spent"; its writes under way
  store, tree, token,       \* the page: its note store, its commitment tree, whether it is
                            \* authenticated with the API
  pc, work,                 \* op -> where it is, and what it has computed
  looking,                  \* a getNotes call: its phase and what it has read
  faults,                   \* history: failed requests and refreshes
  threw, overlap, unkept    \* history: operations that failed after their transaction was
                            \* handed over; whether two were ever in flight together; notes
                            \* of which a vault write failed, or no vault was there to take

chainVars == <<leaves, nullified, txs>>
apiVars == <<served, rows, rowsSpent>>
historyVars == <<threw, overlap, unkept>>
vaultVars == <<durable, vault, puts>>
vars == <<chainVars, apiVars, vaultVars, store, tree, token, pc, work, looking, faults, historyVars>>

Known == {"none", "unspent", "spent"}
NoWork == [current |-> <<>>, new |-> <<>>, old |-> <<>>, next |-> <<>>, member |-> <<>>,
           left |-> <<>>]
Resting == {"idle", "done", "failed", "gone"}
Relayed(o) == KindOf[o] # "shield"
NoLook == [phase |-> "idle", vault |-> [n \in Notes |-> "none"], feed |-> {}, spent |-> {}]

ClientInit ==
  /\ leaves = Genesis /\ nullified = {} /\ txs = [o \in Ops |-> "none"]
  /\ served = Len(Genesis)
  /\ rows = Genesis /\ rowsSpent = {}
  /\ durable \in BOOLEAN /\ puts = [n \in Notes |-> 0]
  /\ store = [n \in Notes |-> IF n \in ToSet(Genesis) THEN "unspent" ELSE "none"]
  /\ vault = IF durable THEN store ELSE [n \in Notes |-> "none"]
  /\ tree = <<>> /\ token \in BOOLEAN
  /\ pc = [o \in Ops |-> "idle"] /\ work = [o \in Ops |-> NoWork]
  /\ looking = NoLook
  /\ faults = 0 /\ threw = {} /\ overlap = FALSE
  /\ unkept = IF durable THEN {} ELSE ToSet(Genesis)

Fault == faults < MaxFaults /\ faults' = faults + 1
At(o, here) == pc[o] = here
Goto(o, there) == pc' = [pc EXCEPT ![o] = there]

-----------------------------------------------------------------------------
(* Operations, up to the hand-over of the transaction.                     *)

\* transfer picks an unspent note; the others are given one the page has listed.
\* Only shield makes sure that the client is connected.
MayUse(o, n) == IF KindOf[o] = "transfer" THEN store[n] = "unspent" ELSE store[n] # "none"

Start(o) ==
  /\ At(o, "idle")
  /\ \A n \in ToSet(InputsOf[o]) : MayUse(o, n)
  /\ Goto(o, "sync")
  /\ overlap' = (overlap \/ \E p \in Ops \ {o} : pc[p] \notin Resting)
  /\ token' = (token \/ KindOf[o] = "shield")
  /\ UNCHANGED <<chainVars, apiVars, vaultVars, store, tree, work, looking, faults, threw, unkept>>

\* membership throws unless every input is among the synced commitments.
Provable(o, t) == ToSet(InputsOf[o]) \subseteq ToSet(t)

\* syncTree's answer, and what the operation computes before its next await: the
\* witnesses over the tree, and for split and withdraw the roots it declares.
Captured(o, t) ==
  LET grown == t \o OutsOf[o]
      proof == [NoWork EXCEPT !.old = t, !.next = grown, !.member = t]
  IN  IF KindOf[o] \in {"split", "withdraw"}
      THEN [proof EXCEPT !.current = t, !.new = grown] ELSE proof

SyncTree(o) ==
  LET t == SubSeq(leaves, 1, served) IN
  /\ At(o, "sync")
  /\ \/ /\ KindOf[o] = "shield"
        /\ tree' = t
        /\ Goto(o, "root")
        /\ UNCHANGED work
     \/ /\ Relayed(o) /\ Provable(o, t)
        /\ tree' = IF KindOf[o] = "split" THEN t \o OutsOf[o] ELSE t
        /\ work' = [work EXCEPT ![o] = Captured(o, t)]
        /\ Goto(o, "prove")
     \/ /\ Relayed(o) /\ ~Provable(o, t)
        /\ tree' = t
        /\ Goto(o, "failed")
        /\ UNCHANGED work
  /\ UNCHANGED <<chainVars, apiVars, vaultVars, store, token, looking, faults, historyVars>>

\* shield: fetchCurrentRoot answers with the live root; the witness is the tree's.
FetchCurrentRoot(o) ==
  /\ At(o, "root")
  /\ work' = [work EXCEPT ![o] = [NoWork EXCEPT !.current = leaves, !.old = tree,
                                                !.next = tree \o OutsOf[o]]]
  /\ Goto(o, "prove")
  /\ UNCHANGED <<chainVars, apiVars, vaultVars, store, tree, token, looking, faults, historyVars>>

\* Mutant: split declares its roots when the proof is there.
Declared_Late(o) ==
  LET grown == tree \o OutsOf[o] IN
  CASE KindOf[o] = "withdraw" -> [w |-> work[o], tree |-> tree]
    [] KindOf[o] = "shield" -> [w |-> [work[o] EXCEPT !.new = grown], tree |-> grown]
    [] OTHER -> [w |-> [work[o] EXCEPT !.current = tree, !.new = grown], tree |-> grown]

\* The roots an operation declares once its proof is there: shield its new root,
\* transfer and merge both, all of them from the shared tree.
Declared(o) ==
  LET grown == tree \o OutsOf[o] IN
  CASE KindOf[o] \in {"split", "withdraw"} -> [w |-> work[o], tree |-> tree]
    [] KindOf[o] = "shield" -> [w |-> [work[o] EXCEPT !.new = grown], tree |-> grown]
    [] OTHER -> [w |-> [work[o] EXCEPT !.current = tree, !.new = grown], tree |-> grown]

\* The engine resolves with a proof of the captured witnesses.
Proved(o) ==
  /\ At(o, "prove")
  /\ tree' = Declared(o).tree
  /\ work' = [work EXCEPT ![o] = [Declared(o).w EXCEPT
                !.left = IF KindOf[o] = "shield" THEN OutsOf[o] ELSE <<>>]]
  /\ Goto(o, IF KindOf[o] = "shield" THEN "register" ELSE "hand over")
  /\ UNCHANGED <<chainVars, apiVars, vaultVars, store, token, looking, faults, historyVars>>

\* registerWalletNote keeps the row of a commitment it has.
Registered(n) == IF n \in ToSet(rows) THEN rows ELSE Append(rows, n)

\* storeCiphertext for the next output: skipped without a token, and a failed
\* registration is only logged.
StoreCiphertext(o, next) ==
  /\ At(o, "register") /\ work[o].left # <<>>
  /\ \/ token /\ rows' = Registered(Head(work[o].left)) /\ UNCHANGED faults
     \/ token /\ Fault /\ UNCHANGED rows
     \/ ~token /\ UNCHANGED <<rows, faults>>
  /\ work' = [work EXCEPT ![o].left = Tail(@)]
  /\ Goto(o, IF Len(work[o].left) = 1 THEN next ELSE "register")
  /\ UNCHANGED <<chainVars, served, rowsSpent, vaultVars, store, tree, token, looking, historyVars>>

\* zkVerify or the wallet or every relayer refuses before anything is broadcast.
HandOverFails(o) ==
  /\ At(o, "hand over")
  /\ Fault
  /\ Goto(o, "failed")
  /\ UNCHANGED <<chainVars, apiVars, vaultVars, store, tree, work, token, looking, historyVars>>

-----------------------------------------------------------------------------
(* shield: user-signed.                                                    *)

\* Mutant: the last record wins.
AddNote_LastWins(s, n, spent) == [s EXCEPT ![n] = IF spent THEN "spent" ELSE "unspent"]

\* The store keeps a spent note spent, whatever a later record says.
AddNote(s, n, spent) == [s EXCEPT ![n] = IF spent \/ @ = "spent" THEN "spent" ELSE "unspent"]

\* persist: without a vault nothing, else a write that nobody waits for.
Persist(notes) ==
  /\ puts' = IF durable THEN [n \in Notes |-> puts[n] + (IF n \in notes THEN 1 ELSE 0)] ELSE puts
  /\ unkept' = IF durable THEN unkept ELSE unkept \union notes
  /\ UNCHANGED <<durable, vault>>

\* The awaited calls to the vault are best effort.
VaultTries(after) ==
  /\ \/ vault' = after /\ UNCHANGED faults
     \/ Fault /\ UNCHANGED vault
  /\ UNCHANGED <<durable, puts>>

\* A write lands, or fails: the failure is only logged, or swallowed by the vault.
PutLands(n) ==
  /\ puts[n] > 0
  /\ puts' = [puts EXCEPT ![n] = @ - 1]
  /\ vault' = [vault EXCEPT ![n] = "unspent"]
  /\ UNCHANGED <<chainVars, apiVars, durable, store, tree, token, pc, work, looking, faults, historyVars>>

PutFails(n) ==
  /\ puts[n] > 0
  /\ Fault
  /\ puts' = [puts EXCEPT ![n] = @ - 1]
  /\ unkept' = unkept \union {n}
  /\ UNCHANGED <<chainVars, apiVars, durable, vault, store, tree, token, pc, work, looking, threw, overlap>>

\* The wallet signs and broadcasts.
SignShield(o) ==
  /\ At(o, "hand over") /\ KindOf[o] = "shield"
  /\ txs' = [txs EXCEPT ![o] = "mempool"]
  /\ Goto(o, "signed")
  /\ UNCHANGED <<leaves, nullified, apiVars, vaultVars, store, tree, work, token, looking, faults, historyVars>>

\* Its answer arrives, or is lost with the transaction out.
KeepShield(o) ==
  /\ At(o, "signed")
  /\ store' = AddNote(store, OutsOf[o][1], FALSE)
  /\ Persist({OutsOf[o][1]})
  /\ Goto(o, "await tx")
  /\ UNCHANGED <<chainVars, apiVars, tree, work, token, looking, faults, threw, overlap>>

AnswerLost(o) ==
  /\ At(o, "signed")
  /\ Fault
  /\ Goto(o, "failed")
  /\ threw' = threw \union {o}
  /\ UNCHANGED <<chainVars, apiVars, vaultVars, store, tree, work, token, looking, overlap, unkept>>

\* waitForTx: confirmed; or reverted or dropped, and rolled back; or given up as pending.
ShieldConfirmed(o) ==
  /\ At(o, "await tx") /\ txs[o] = "success"
  /\ Persist({OutsOf[o][1]})
  /\ Goto(o, "done")
  /\ UNCHANGED <<chainVars, apiVars, store, tree, work, token, looking, faults, threw, overlap>>

ShieldReverted(o) ==
  LET n == OutsOf[o][1] IN
  /\ At(o, "await tx") /\ txs[o] \in {"abort", "dropped"}
  /\ store' = [store EXCEPT ![n] = "none"]
  /\ VaultTries([vault EXCEPT ![n] = "none"])
  /\ Goto(o, "failed")
  /\ threw' = threw \union {o}
  /\ UNCHANGED <<chainVars, apiVars, tree, work, token, looking, overlap, unkept>>

ShieldPending(o) ==
  /\ At(o, "await tx")
  /\ \/ txs[o] = "mempool" /\ UNCHANGED faults
     \/ Fault
  /\ Goto(o, "done")
  /\ UNCHANGED <<chainVars, apiVars, vaultVars, store, tree, work, token, looking, historyVars>>

-----------------------------------------------------------------------------
(* The relayed operations.                                                 *)

HandToRelayer(o) ==
  /\ At(o, "hand over") /\ Relayed(o)
  /\ txs' = [txs EXCEPT ![o] = "mempool"]
  /\ Goto(o, "await relayer")
  /\ UNCHANGED <<leaves, nullified, apiVars, vaultVars, store, tree, work, token, looking, faults, historyVars>>

\* Mutant: a relayer that gives up counts as done.
MayConsume_Any(o) == At(o, "await relayer")

MayConsume(o) == At(o, "await relayer") /\ txs[o] = "success"

RelayerConfirms(o) ==
  /\ MayConsume(o)
  /\ work' = [work EXCEPT ![o].left = InputsOf[o]]
  /\ Goto(o, "consume")
  /\ UNCHANGED <<chainVars, apiVars, vaultVars, store, tree, token, looking, faults, historyVars>>

\* Every relayer failed or timed out: the operation throws.  Its transaction may
\* have been mined, or be mined later.
RelayersGiveUp(o) ==
  /\ At(o, "await relayer")
  /\ \/ txs[o] \in {"abort", "dropped"} /\ UNCHANGED faults
     \/ Fault
  /\ Goto(o, "failed")
  /\ threw' = threw \union {o}
  /\ UNCHANGED <<chainVars, apiVars, vaultVars, store, tree, token, work, looking, overlap, unkept>>

Spent(s, n) == IF s[n] = "none" THEN s ELSE [s EXCEPT ![n] = "spent"]

\* consume the next input, up to its first request: the store, then the vault.
Consume(o) ==
  LET n == Head(work[o].left) IN
  /\ At(o, "consume")
  /\ store' = Spent(store, n)
  /\ VaultTries(Spent(vault, n))
  /\ Goto(o, "mark spent")
  /\ UNCHANGED <<chainVars, apiVars, tree, token, work, looking, historyVars>>

\* The API claims the row, then marks it; a failure is only logged.
MarkSpent(o) ==
  LET n == Head(work[o].left)
      last == Len(work[o].left) = 1
  IN
  /\ At(o, "mark spent")
  /\ \/ token /\ rows' = Registered(n) /\ rowsSpent' = rowsSpent \union {n} /\ UNCHANGED faults
     \/ token /\ Fault /\ rows' \in {rows, Registered(n)} /\ UNCHANGED rowsSpent
     \/ ~token /\ UNCHANGED <<rows, rowsSpent, faults>>
  /\ work' = [work EXCEPT ![o].left = IF last THEN OutsOf[o] ELSE Tail(@)]
  /\ Goto(o, IF ~last THEN "consume" ELSE IF OutsOf[o] = <<>> THEN "done" ELSE "register")
  /\ UNCHANGED <<chainVars, served, vaultVars, store, tree, token, looking, historyVars>>

Own(o) == IF KindOf[o] = "transfer" THEN {} ELSE ToSet(OutsOf[o])

\* Mutant: only the first output is persisted.
Keep_First(o) == IF Own(o) = {} THEN {} ELSE {OutsOf[o][1]}

Keep(o) == Own(o)

\* The outputs are added to the store and persisted; the operation returns.
KeepOutputs(o) ==
  /\ At(o, "keep")
  /\ store' = [n \in Notes |-> IF n \in Keep(o) THEN AddNote(store, n, FALSE)[n] ELSE store[n]]
  /\ Persist(Keep(o))
  /\ Goto(o, "done")
  /\ UNCHANGED <<chainVars, apiVars, tree, work, token, looking, faults, threw, overlap>>

OpStep(o) ==
  \/ Start(o) \/ SyncTree(o) \/ FetchCurrentRoot(o) \/ Proved(o)
  \/ StoreCiphertext(o, IF KindOf[o] = "shield" THEN "hand over" ELSE "keep")
  \/ HandOverFails(o)
  \/ SignShield(o) \/ KeepShield(o) \/ AnswerLost(o)
  \/ ShieldConfirmed(o) \/ ShieldReverted(o) \/ ShieldPending(o)
  \/ HandToRelayer(o) \/ RelayerConfirms(o) \/ RelayersGiveUp(o)
  \/ Consume(o) \/ MarkSpent(o) \/ KeepOutputs(o)

-----------------------------------------------------------------------------
(* Note discovery (getNotes), one call at a time.                          *)

MineNotes == Notes \ UNION {ToSet(OutsOf[o]) : o \in {p \in Ops : KindOf[p] = "transfer"}}

Feed ==
  LET n == Len(rows)
      from == IF n > FEED_LIMIT THEN n - FEED_LIMIT + 1 ELSE 1
  IN  ToSet(SubSeq(rows, from, n))

\* The call reads the vault, which may fail and counts as empty, and asks for the feed.
Look ==
  /\ looking.phase = "idle"
  /\ \/ looking' = [NoLook EXCEPT !.phase = "asked", !.vault = vault] /\ UNCHANGED faults
     \/ Fault /\ looking' = [NoLook EXCEPT !.phase = "asked"]
  /\ UNCHANGED <<chainVars, apiVars, vaultVars, store, tree, token, pc, work, historyVars>>

\* The API answers, or fails and counts as empty.
LookAnswered ==
  /\ looking.phase = "asked"
  /\ \/ /\ looking' = [looking EXCEPT !.phase = "answered", !.feed = Feed, !.spent = rowsSpent]
        /\ UNCHANGED faults
     \/ /\ Fault
        /\ looking' = [looking EXCEPT !.phase = "answered"]
  /\ UNCHANGED <<chainVars, apiVars, vaultVars, store, tree, token, pc, work, historyVars>>

\* Feed records first, then the vault's, each into the store.
Discovered(n) ==
  LET fed == IF n \in looking.feed THEN AddNote(store, n, n \in looking.spent) ELSE store
  IN  IF looking.vault[n] = "none" THEN fed[n]
      ELSE AddNote(fed, n, looking.vault[n] = "spent")[n]

LookDone ==
  /\ looking.phase = "answered"
  /\ store' = [n \in Notes |-> IF n \in MineNotes THEN Discovered(n) ELSE store[n]]
  /\ looking' = NoLook
  /\ UNCHANGED <<chainVars, apiVars, vaultVars, tree, token, pc, work, faults, historyVars>>

Connect ==
  /\ ~token
  /\ token' = TRUE
  /\ UNCHANGED <<chainVars, apiVars, vaultVars, store, tree, pc, work, looking, faults, historyVars>>

\* The page is reloaded: only the vault outlives it, without the writes under way.
Refresh ==
  /\ Fault
  /\ store' = [n \in Notes |-> "none"] /\ tree' = <<>> /\ token' = FALSE
  /\ looking' = NoLook
  /\ puts' = [n \in Notes |-> 0] /\ unkept' = unkept \union {n \in Notes : puts[n] > 0}
  /\ pc' = [o \in Ops |-> IF pc[o] \in Resting THEN pc[o] ELSE "gone"]
  /\ UNCHANGED <<chainVars, apiVars, durable, vault, work, threw, overlap>>

-----------------------------------------------------------------------------
(* The chain and its index (external).                                     *)

\* What the contracts check of a transaction.
Valid(o) ==
  LET w == work[o] IN
  /\ w.current = w.old /\ w.new = w.next
  /\ ToSet(InputsOf[o]) \intersect nullified = {}
  /\ IF KindOf[o] = "withdraw" THEN IsPrefix(w.member, leaves) ELSE w.current = leaves

MineTx(o) ==
  /\ txs[o] \in {"mempool", "dropped"}
  /\ \/ /\ Valid(o)
        /\ txs' = [txs EXCEPT ![o] = "success"]
        /\ leaves' = leaves \o OutsOf[o]
        /\ nullified' = nullified \union ToSet(InputsOf[o])
     \/ /\ txs' = [txs EXCEPT ![o] = "abort"]
        /\ UNCHANGED <<leaves, nullified>>
  /\ UNCHANGED <<apiVars, vaultVars, store, tree, token, pc, work, looking, faults, historyVars>>

\* The node reports it dropped; a miner may still have it.
DropTx(o) ==
  /\ txs[o] = "mempool"
  /\ Fault
  /\ txs' = [txs EXCEPT ![o] = "dropped"]
  /\ UNCHANGED <<leaves, nullified, apiVars, vaultVars, store, tree, token, pc, work, looking, historyVars>>

StrangerShields(c) ==
  /\ c \notin ToSet(leaves)
  /\ leaves' = Append(leaves, c)
  /\ UNCHANGED <<nullified, txs, apiVars, vaultVars, store, tree, token, pc, work, looking, faults, historyVars>>

IndexLeaf ==
  /\ served < Len(leaves)
  /\ served' = served + 1
  /\ UNCHANGED <<chainVars, rows, rowsSpent, vaultVars, store, tree, token, pc, work, looking, faults, historyVars>>

Next ==
  \/ \E o \in Ops : OpStep(o) \/ MineTx(o) \/ DropTx(o)
  \/ \E n \in Notes : PutLands(n) \/ PutFails(n)
  \/ Look \/ LookAnswered \/ LookDone \/ Connect \/ Refresh
  \/ (\E c \in Strangers : StrangerShields(c)) \/ IndexLeaf

Spec == ClientInit /\ [][Next]_vars
-----------------------------------------------------------------------------
(* Type invariant of the client, the feed and the vault. *)
ClientTypeOK ==
  /\ durable \in BOOLEAN /\ puts \in [Notes -> Nat]
  /\ vault \in [Notes -> Known] /\ store \in [Notes -> Known]
  /\ ToSet(rows) \subseteq Notes /\ IsInjective(rows)
  /\ served \in 0..Len(leaves)
  /\ IsInjective(leaves)

(* Wherever a note is marked spent, it is spent on chain: nothing unspent is ever
   hidden from its owner (consume runs only after the relayer confirmed). *)
SpentMarksAreTrue ==
  \A n \in Notes :
    store[n] = "spent" \/ vault[n] = "spent" \/ n \in rowsSpent => n \in nullified

(* What the client, the feed and the vault record of a note. *)
RecordsAreTrue == ClientTypeOK /\ SpentMarksAreTrue

(* A note once spent is never listed again on the same page, although a discovery
   under way brings back records from before (NoteStore.add). *)
SpentStaysSpent ==
  [][\A n \in Notes : store[n] = "spent" => store'[n] = "spent" \/ (token' = FALSE /\ tree' = <<>>)]_vars

(* The roots an operation declares are those its proof is about: always for split
   and withdraw, which take them before their first await after the sync, and for
   the others as long as the client runs one operation at a time.  The exception is
   shield's current root, which it asks the chain for (STXShield.ts:363) while its
   proof starts from the indexed tree: then the chain is at that tree or further. *)
DeclaredRootsAreProved ==
  \A o \in Ops :
    txs[o] # "none" /\ (KindOf[o] \in {"split", "withdraw"} \/ ~overlap) =>
      /\ work[o].new = work[o].next
      /\ IF KindOf[o] = "shield" THEN IsPrefix(work[o].old, work[o].current)
                               ELSE work[o].current = work[o].old

Recoverable(n) == store[n] # "none" \/ vault[n] # "none" \/ n \in Feed

Creator(n) == CHOOSE o \in Ops : n \in ToSet(OutsOf[o])
Created == UNION {ToSet(OutsOf[o]) : o \in Ops}

(* An unspent note on chain is out of its owner's reach only if the operation that
   made it failed after its hand-over or died with its page, or if a write of the
   note to the vault failed or found no vault. *)
NotesLostOnlyByFailure ==
  \A n \in (MineNotes \intersect ToSet(leaves)) \ nullified :
    \/ Recoverable(n) \/ n \in unkept
    \/ n \in Created /\ (pc[Creator(n)] \notin {"idle", "done", "failed"} \/ Creator(n) \in threw)

(* "A failed API write (or a page refresh) can never lose a note" (sdk/src/vault.ts:4),
   with a vault whose writes all succeed. *)
RefreshNeverLosesANote ==
  \A n \in (MineNotes \intersect ToSet(leaves)) \ nullified :
    \/ Recoverable(n) \/ n \in unkept
    \/ n \in Created /\ (pc[Creator(n)] # "gone" \/ Creator(n) \in threw)
=============================================================================

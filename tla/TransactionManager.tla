------------------------- MODULE TransactionManager -------------------------
(***************************************************************************)
(* The relayer's transaction manager (services/relayer/transaction-manager)*)
(* and the Stacks node it talks to.                                        *)
(*                                                                         *)
(* Every contract call the relayer makes, user operations and aggregation  *)
(* roots alike, is signed by one account under one locally tracked nonce.  *)
(* Calls are serialized by a promise chain, here the queue `line` of the   *)
(* actors whose submitRaw has been called; only its head may fetch the     *)
(* nonce, sign and broadcast.  The node is external: it keeps a mempool,   *)
(* rejects a nonce that is used or taken, mines in nonce order, and may    *)
(* forget a transaction it has accepted.                                   *)
(***************************************************************************)
EXTENDS Integers, Sequences, FiniteSets, SequencesExt

CONSTANTS Actors,        \* the call sites that share the account: worker, poller, submitter
          Calls,         \* the contract calls they make
          SignedCap,     \* how many signed transactions are retained (256 in the code)
          MaxIncidents   \* bound: lost answers, dropped transactions and restarts together

ASSUME TxmAssumption ==
  /\ SignedCap \in Nat \ {0}
  /\ MaxIncidents \in Nat
  /\ IsFiniteSet(Calls)

VARIABLES nonce,      \* the local counter; NoNonce until fetched and after an error
          line,       \* promise chain: actors inside submitRaw, the head holds the mutex
          wants,      \* the call an actor in line submits
          draft,      \* the transaction an actor has signed and not yet broadcast
          outcome,    \* what submitRaw resolved to, until the actor resumes
          signed,     \* signed transactions retained for a verbatim re-send, oldest first
          mempool,    \* node: accepted, not mined
          mined,      \* node: the account's transactions in nonce order, with their result
          faults,     \* requests to the node that failed without an answer
          drops,      \* transactions the node accepted and then forgot
          restarts,   \* restarts of the relayer process
          conflicts   \* history: how many broadcasts the node has rejected

txmVars == <<nonce, line, wants, draft, outcome, signed, mempool, mined,
             faults, drops, restarts, conflicts>>

NoNonce == -1
NoCall == [kind |-> "none"]
NoTx == [nonce |-> NoNonce, call |-> NoCall]
Pending == [tag |-> "pending", tx |-> NoTx]   \* no result to read
Threw == [tag |-> "threw", tx |-> NoTx]
TxidOf(tx) == [tag |-> "txid", tx |-> tx]

(***************************************************************************)
(* A transaction is identified by its nonce and call: signing is           *)
(* deterministic, so the same pair has the same txid.                      *)
(***************************************************************************)
Transactions == [nonce : Nat, call : Calls]

AccountNonce == Len(mined)
NoncesInMempool == {tx.nonce : tx \in mempool}

\* The API's possible_next_nonce: after the account's highest known nonce.
PossibleNextNonce ==
  IF mempool = {} THEN AccountNonce
  ELSE LET top == CHOOSE n \in NoncesInMempool : \A m \in NoncesInMempool : m <= n
       IN  IF top + 1 > AccountNonce THEN top + 1 ELSE AccountNonce

WasMined(tx) == /\ tx.nonce < AccountNonce
                /\ mined[tx.nonce + 1].call = tx.call
Succeeded(tx) == WasMined(tx) /\ mined[tx.nonce + 1].ok
Aborted(tx) == WasMined(tx) /\ ~mined[tx.nonce + 1].ok

\* A nonce below the account's is BadNonce; one another transaction holds in the
\* mempool is a conflict.  The very same transaction is accepted again.
Admissible(tx) ==
  \/ tx \in mempool
  \/ tx.nonce >= AccountNonce /\ tx.nonce \notin NoncesInMempool

Accepted(call) == \E i \in 1..Len(mined) : mined[i].call = call /\ mined[i].ok

TxmStart ==
  /\ nonce = NoNonce
  /\ line = <<>>
  /\ wants = [a \in Actors |-> NoCall]
  /\ draft = [a \in Actors |-> NoTx]
  /\ outcome = [a \in Actors |-> Pending]
  /\ signed = <<>>
  /\ mempool = {}
  /\ faults = 0
  /\ drops = 0
  /\ restarts = 0
  /\ conflicts = 0

TxmInit == TxmStart /\ mined = <<>>

nodeVars == <<mempool, mined, drops, restarts>>

MayHaveIncident == faults + drops + restarts < MaxIncidents

-----------------------------------------------------------------------------
\* submitRaw is called: the call joins the promise chain.
Enqueue(a, call) ==
  /\ line' = Append(line, a)
  /\ wants' = [wants EXCEPT ![a] = call]
  /\ UNCHANGED <<nonce, draft, outcome, signed, nodeVars, faults, conflicts>>

\* Mutant: submissions are not serialized.
MayProceed_AnyWaiting(a) == a \in ToSet(line)

MayProceed(a) == line # <<>> /\ Head(line) = a

\* The head's promise settles and the next actor in line runs.
Settle(a, result) ==
  /\ line' = RemoveFirst(line, a)
  /\ wants' = [wants EXCEPT ![a] = NoCall]
  /\ draft' = [draft EXCEPT ![a] = NoTx]
  /\ outcome' = [outcome EXCEPT ![a] = result]

UseFault == MayHaveIncident /\ faults' = faults + 1

\* fetchNonce, when the local counter is unknown.
FetchNonce(a) ==
  /\ MayProceed(a)
  /\ nonce = NoNonce
  /\ \/ /\ nonce' = PossibleNextNonce
        /\ UNCHANGED <<line, wants, draft, outcome, faults>>
     \/ /\ UseFault
        /\ Settle(a, Threw)
        /\ UNCHANGED nonce
  /\ UNCHANGED <<signed, nodeVars, conflicts>>

\* makeContractCall under the local nonce.
Sign(a) ==
  /\ MayProceed(a)
  /\ nonce # NoNonce
  /\ draft[a] = NoTx
  /\ draft' = [draft EXCEPT ![a] = [nonce |-> nonce, call |-> wants[a]]]
  /\ UNCHANGED <<nonce, line, wants, outcome, signed, nodeVars, faults, conflicts>>

Remember(tx) ==
  IF tx \in ToSet(signed) THEN signed
  ELSE LET longer == Append(signed, tx)
       IN  IF Len(longer) > SignedCap THEN Tail(longer) ELSE longer

BroadcastAccepted(a) ==
  /\ MayProceed(a)
  /\ draft[a] # NoTx
  /\ Admissible(draft[a])
  /\ mempool' = mempool \union {draft[a]}
  /\ nonce' = nonce + 1
  /\ signed' = Remember(draft[a])
  /\ Settle(a, TxidOf(draft[a]))
  /\ UNCHANGED <<mined, drops, restarts, faults, conflicts>>

\* The node answers with an error: the counter has drifted, resync and throw.
BroadcastRejected(a) ==
  /\ MayProceed(a)
  /\ draft[a] # NoTx
  /\ ~Admissible(draft[a])
  /\ nonce' = NoNonce
  /\ conflicts' = conflicts + 1
  /\ Settle(a, Threw)
  /\ UNCHANGED <<signed, nodeVars, faults>>

\* The request fails: the counter stays, and the node may hold the transaction.
BroadcastLost(a) ==
  /\ MayProceed(a)
  /\ draft[a] # NoTx
  /\ UseFault
  /\ \/ UNCHANGED mempool
     \/ Admissible(draft[a]) /\ mempool' = mempool \union {draft[a]}
  /\ Settle(a, Threw)
  /\ UNCHANGED <<nonce, signed, mined, drops, restarts, conflicts>>

SubmitStep(a) ==
  \/ FetchNonce(a)
  \/ Sign(a)
  \/ BroadcastAccepted(a)
  \/ BroadcastRejected(a)
  \/ BroadcastLost(a)

\* The actor reads the settled promise.
TakeOutcome(a) == outcome' = [outcome EXCEPT ![a] = Pending]

\* rebroadcast: re-send a retained transaction verbatim.  A rejection is an
\* answer like any other, so only a failed request reports false.
CanRebroadcast(tx) == tx \in ToSet(signed)
Resent(tx) == IF Admissible(tx) THEN mempool \union {tx} ELSE mempool

-----------------------------------------------------------------------------
(* The node (external).                                                    *)

\* May(call) says which results the contract can give the call now.
MineNext(May(_)) ==
  \E tx \in mempool :
    /\ tx.nonce = AccountNonce
    /\ \E ok \in May(tx.call) : mined' = Append(mined, [call |-> tx.call, ok |-> ok])
    /\ mempool' = mempool \ {tx}
    /\ UNCHANGED <<nonce, line, wants, draft, outcome, signed, faults, drops, restarts, conflicts>>

Drop ==
  /\ MayHaveIncident
  /\ \E tx \in mempool : mempool' = mempool \ {tx}
  /\ drops' = drops + 1
  /\ UNCHANGED <<nonce, line, wants, draft, outcome, signed, mined, faults, restarts, conflicts>>

\* The relayer process restarts: everything it holds is in memory.  A request that
\* is on its way may still reach the node.
TxmRestart ==
  /\ MayHaveIncident
  /\ restarts' = restarts + 1
  /\ \/ UNCHANGED mempool
     \/ \E a \in Actors : /\ draft[a] # NoTx
                         /\ Admissible(draft[a])
                         /\ mempool' = mempool \union {draft[a]}
  /\ nonce' = NoNonce
  /\ line' = <<>>
  /\ wants' = [a \in Actors |-> NoCall]
  /\ draft' = [a \in Actors |-> NoTx]
  /\ outcome' = [a \in Actors |-> Pending]
  /\ signed' = <<>>
  /\ UNCHANGED <<mined, drops, faults, conflicts>>
=============================================================================

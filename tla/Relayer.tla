------------------------------- MODULE Relayer -------------------------------
(***************************************************************************)
(* The relayer service: job queue, worker, shared transaction manager and  *)
(* root publication, with the part of the chain they act on.               *)
(*                                                                         *)
(* A client posts an operation; accept validates it against chain state    *)
(* and queues a job; one worker at a time submits the job's transaction    *)
(* and polls it to an outcome, re-sending it verbatim when a window        *)
(* expires.  A handler that throws is retried from the start.  The queue   *)
(* is in memory, or BullMQ on Redis: `driver` is chosen at startup.        *)
(***************************************************************************)
EXTENDS RootPublisher

CONSTANTS Jobs,          \* job ids, each used once
          Operations,    \* relay requests (a nullifier each)
          AggregationOf, \* operation -> the aggregation its inclusion names
          Worker,        \* the actor that runs jobs
          MaxAttempts,   \* attempts of a job (3 in the code)
          Rebroadcasts   \* windows after the first (3 in the code)

VARIABLES driver,    \* "memory" or "bullmq"
          jobs,      \* what GET /status answers: job id -> record, UnknownJob for 404
          request,   \* job id -> the operation it carries (in the job's data)
          attempts,  \* handler runs of the job that have thrown
          pending,   \* ids waiting for the worker
          dead,      \* dead-letter ids
          running,   \* the job being handled
          windows    \* re-broadcasts the running job's wait has left

queueVars == <<jobs, request, attempts, pending, dead, running, windows>>
vars == <<txmVars, publisherVars, queueVars, driver>>

NoJob == "no job"
UnknownJob == [state |-> "unknown", tx |-> NoTx]
NewJob == [state |-> "queued", tx |-> NoTx]
JobStates == {"unknown", "queued", "submitting", "confirmed", "failed"}
Terminal == {"confirmed", "failed"}

OpCall(op) == [kind |-> "op", op |-> op]
OpCalls == {OpCall(op) : op \in Operations}

ASSUME RelayerAssumption ==
  /\ AggregationOf \in [Operations -> Aggregations]
  /\ Actors = {Worker, Poller, Submitter}
  /\ Worker \notin {Poller, Submitter}
  /\ MaxAttempts \in Nat \ {0}
  /\ Rebroadcasts \in Nat
  /\ NoJob \notin Jobs \union Operations
  /\ OpCalls \subseteq Calls

\* The operation's nullifier is in the registry.
Spent(op) == Accepted(OpCall(op))

-----------------------------------------------------------------------------
QueueInit ==
  /\ driver \in {"memory", "bullmq"}
  /\ jobs = [j \in Jobs |-> UnknownJob]
  /\ request = [j \in Jobs |-> NoJob]
  /\ attempts = [j \in Jobs |-> 0]
  /\ pending = <<>>
  /\ dead = {}
  /\ running = NoJob
  /\ windows = 0

RelayerInit == TxmInit /\ PublisherInit /\ QueueInit

\* ProofValidator.validate: the nullifier is unspent and the aggregation is posted.
\* The root and protocol state the other reads check are the chain's to change.
Valid(op) ==
  /\ ~Spent(op)
  /\ Posted(NATIVE_VERIFIER, AggregationOf[op])

\* POST /:operation.
Accept(j, op) ==
  /\ request[j] = NoJob
  /\ Valid(op)
  /\ request' = [request EXCEPT ![j] = op]
  /\ jobs' = [jobs EXCEPT ![j] = NewJob]
  /\ pending' = Append(pending, j)
  /\ UNCHANGED <<attempts, dead, running, windows, driver, txmVars, publisherVars>>

-----------------------------------------------------------------------------
MayStart == running = NoJob

\* The worker takes the next job; run() marks it and calls submit.  BullMQ
\* first rewrites the status record from the job's data.
StartJob ==
  /\ MayStart
  /\ pending # <<>>
  /\ LET j == Head(pending) IN
       /\ running' = j
       /\ pending' = Tail(pending)
       /\ jobs' = [jobs EXCEPT ![j] =
            IF driver = "bullmq" THEN [NewJob EXCEPT !.state = "submitting"]
            ELSE [@ EXCEPT !.state = "submitting"]]
       /\ Enqueue(Worker, OpCall(request[j]))
  /\ UNCHANGED <<request, attempts, dead, windows, driver, publisherVars>>

\* Mutant: a job that has used up its attempts is queued again.
HandlerThrows_Requeues ==
  LET j == running
      again == attempts[j] + 1 < MaxAttempts
  IN
  /\ attempts' = [attempts EXCEPT ![j] = IF again THEN @ + 1 ELSE @]
  /\ running' = NoJob
  /\ pending' = Append(pending, j)
  /\ dead' = IF again THEN dead ELSE dead \union {j}
  /\ jobs' = IF driver = "bullmq" THEN jobs
             ELSE [jobs EXCEPT ![j].state = IF again THEN "queued" ELSE "failed"]
  /\ windows' = 0
  /\ UNCHANGED request

\* The handler rejected: retry at the tail, or give the job up.  The memory
\* driver keeps the job's status; BullMQ keeps its own.
HandlerThrows ==
  LET j == running
      again == attempts[j] + 1 < MaxAttempts
  IN
  /\ attempts' = [attempts EXCEPT ![j] = @ + 1]
  /\ running' = NoJob
  /\ pending' = IF again THEN Append(pending, j) ELSE pending
  /\ dead' = IF again THEN dead ELSE dead \union {j}
  /\ jobs' = IF driver = "bullmq" THEN jobs
             ELSE [jobs EXCEPT ![j].state = IF again THEN "queued" ELSE "failed"]
  /\ windows' = 0
  /\ UNCHANGED request

\* submit resolved with a txid: record it and start waiting for confirmation.
Submitted ==
  /\ running # NoJob
  /\ outcome[Worker].tag = "txid"
  /\ TakeOutcome(Worker)
  /\ jobs' = [jobs EXCEPT ![running].tx = outcome[Worker].tx]
  /\ windows' = Rebroadcasts
  /\ UNCHANGED <<request, attempts, pending, dead, running, driver, publisherVars,
                 nonce, line, wants, draft, signed, nodeVars, faults, conflicts>>

SubmitThrew ==
  /\ running # NoJob
  /\ outcome[Worker].tag = "threw"
  /\ TakeOutcome(Worker)
  /\ HandlerThrows
  /\ UNCHANGED <<driver, publisherVars, nonce, line, wants, draft, signed,
                 nodeVars, faults, conflicts>>

\* The worker is in waitForConfirmation.
Waiting ==
  /\ running # NoJob
  /\ Idle(Worker)
  /\ outcome[Worker] = Pending
  /\ jobs[running].tx # NoTx
Tx == jobs[running].tx

Finish(state) ==
  /\ jobs' = [jobs EXCEPT ![running].state = state]
  /\ running' = NoJob
  /\ windows' = 0
  /\ UNCHANGED <<request, attempts, pending, dead>>

\* Mutant: any anchored transaction counts as a success.
PollSucceeded_Anchored ==
  /\ Waiting
  /\ WasMined(Tx)
  /\ Finish("confirmed")
  /\ UNCHANGED <<driver, publisherVars, txmVars>>

PollSucceeded ==
  /\ Waiting
  /\ Succeeded(Tx)
  /\ Finish("confirmed")
  /\ UNCHANGED <<driver, publisherVars, txmVars>>

PollAborted ==
  /\ Waiting
  /\ Aborted(Tx)
  /\ Finish("failed")
  /\ UNCHANGED <<driver, publisherVars, txmVars>>

\* A poll's request fails: waitForConfirmation throws and the job starts over.
PollThrew ==
  /\ Waiting
  /\ UseFault
  /\ HandlerThrows
  /\ UNCHANGED <<driver, publisherVars, nonce, line, wants, draft, outcome, signed,
                 nodeVars, conflicts>>

\* Mutants of the window's end: the count of re-sends is not reduced, or the job
\* is submitted afresh.
WindowExpires_Forever ==
  /\ Waiting
  /\ CanRebroadcast(Tx)
  /\ mempool' = Resent(Tx)
  /\ UNCHANGED <<queueVars, faults, driver, publisherVars, nonce, line, wants, draft,
                 outcome, signed, mined, drops, restarts, conflicts>>
WindowExpires_Resubmits ==
  /\ Waiting
  /\ HandlerThrows
  /\ UNCHANGED <<driver, publisherVars, txmVars>>

\* The window ends without an outcome having been read.
WindowExpires ==
  /\ Waiting
  /\ IF windows > 0 /\ CanRebroadcast(Tx)
     THEN \/ /\ mempool' = Resent(Tx)
             /\ windows' = windows - 1
             /\ UNCHANGED <<jobs, request, attempts, pending, dead, running, faults>>
          \/ /\ UseFault
             /\ Finish("failed")
             /\ UNCHANGED mempool
     ELSE /\ Finish("failed")
          /\ UNCHANGED <<mempool, faults>>
  /\ UNCHANGED <<driver, publisherVars, nonce, line, wants, draft, outcome, signed,
                 mined, drops, restarts, conflicts>>

WorkerStep ==
  \/ StartJob
  \/ Submitted
  \/ SubmitThrew
  \/ PollSucceeded
  \/ PollAborted
  \/ PollThrew
  \/ WindowExpires

-----------------------------------------------------------------------------
\* The process restarts.  The memory driver forgets its jobs; BullMQ hands the
\* stalled job back, and has lost only the status records.
Restart ==
  /\ TxmRestart
  /\ PublisherRestart
  /\ jobs' = [j \in Jobs |-> UnknownJob]
  /\ running' = NoJob
  /\ IF driver = "memory"
     THEN /\ pending' = <<>>
          /\ dead' = {}
          /\ attempts' = [j \in Jobs |-> 0]
     ELSE /\ pending' = IF running = NoJob THEN pending ELSE <<running>> \o pending
          /\ UNCHANGED <<dead, attempts>>
  /\ windows' = 0
  /\ UNCHANGED <<request, driver>>

\* What the contracts can answer a call: an operation may abort for reasons of
\* its own (its root is no longer current), and aborts once its nullifier is
\* spent; a root is stored once.
Results(call) ==
  IF call.kind = "op" THEN {FALSE} \union {ok \in {TRUE} : ~Accepted(call)}
  ELSE {~Accepted(call)}

ChainStep == /\ MineNext(Results) \/ Drop
             /\ UNCHANGED <<publisherVars, queueVars, driver>>

PublishStep(p) ==
  /\ \/ \E g \in Aggregations : p = Poller /\ PollerPublish(g)
     \/ CheckPosted(p)
     \/ VerifierDone(p)
     \/ PublishRootDone(p)
  /\ UNCHANGED <<queueVars, driver>>

Send(a) == SubmitStep(a) /\ UNCHANGED <<publisherVars, queueVars, driver>>

Next ==
  \/ \E j \in Jobs, op \in Operations : Accept(j, op)
  \/ WorkerStep
  \/ \E a \in Actors : Send(a)
  \/ \E p \in Publishers : PublishStep(p)
  \/ \E g \in Aggregations : /\ FinalizeAggregation(g) \/ SubmitterPublish(g)
                             /\ UNCHANGED <<queueVars, driver>>
  \/ ChainStep
  \/ Restart

(***************************************************************************)
(* The event loop runs every actor that can go on; the chain mines what    *)
(* is next.  Clients, faults, drops and restarts are not obliged to occur. *)
(***************************************************************************)
Fairness ==
  /\ WF_vars(WorkerStep)
  /\ \A a \in Actors : WF_vars(Send(a))
  /\ \A p \in Publishers : WF_vars(PublishStep(p))
  /\ WF_vars(MineNext(Results) /\ UNCHANGED <<publisherVars, queueVars, driver>>)

Spec == RelayerInit /\ [][Next]_vars
FairSpec == Spec /\ Fairness
-----------------------------------------------------------------------------
(* Type invariant of the relayer's own state. *)
RelayerTypeOK ==
  /\ nonce \in Nat \union {NoNonce}
  /\ line \in Seq(Actors)
  /\ mempool \subseteq Transactions
  /\ ToSet(signed) \subseteq Transactions
  /\ \A a \in Actors : draft[a] \in Transactions \union {NoTx}
  /\ \A j \in Jobs : /\ jobs[j].state \in JobStates
                     /\ jobs[j].tx \in Transactions \union {NoTx}
  /\ running \in Jobs \union {NoJob}
  /\ attempts \in [Jobs -> 0..MaxAttempts]
  /\ windows \in 0..Rebroadcasts

(* The relayer itself never skips a nonce: below its counter, every nonce the
   chain has not used is in the mempool, except for what the node dropped
   (submitRaw increments only after the broadcast was accepted). *)
OnlyDropsLeaveNonceGaps ==
  nonce # NoNonce =>
    Cardinality((AccountNonce..(nonce - 1)) \ NoncesInMempool) <= drops

(* User operations and root publications share one nonce sequence; as long as
   no answer is lost and nothing is dropped, no two of them ever collide (the
   promise chain of enqueue). *)
SerializedSubmissionsNeverConflict ==
  faults = 0 /\ drops = 0 /\ restarts = 0 => conflicts = 0

(* The account's one nonce sequence, shared by the worker and the publishers. *)
NonceDiscipline ==
  RelayerTypeOK /\ OnlyDropsLeaveNonceGaps /\ SerializedSubmissionsNeverConflict

\* The nonces under which the node holds or has mined an operation.
TransactionsOf(op) ==
  {tx.nonce : tx \in {t \in mempool : t.call = OpCall(op)}}
    \union {n \in 0..(AccountNonce - 1) : mined[n + 1].call = OpCall(op)}

(* A job is broadcast under a second nonce only after an answer was lost or
   the process restarted: an expired window re-sends the same transaction. *)
ExtraTransactionsNeedALostAnswer ==
  \A op \in Operations :
    Cardinality(TransactionsOf(op)) <=
      Cardinality({j \in Jobs : request[j] = op}) + faults + restarts

(* A job that is confirmed has its own operation applied by the transaction it
   names, whatever was retried, re-sent or restarted in between. *)
ConfirmedIsApplied ==
  \A j \in Jobs : jobs[j].state = "confirmed" =>
    /\ jobs[j].tx.call = OpCall(request[j])
    /\ Succeeded(jobs[j].tx)

(* A terminal answer of GET /status stays until the process restarts, and a
   dead-lettered job is never handled again. *)
OutcomesAreFinal ==
  [][/\ \A j \in Jobs : jobs[j].state \in Terminal => jobs'[j] = jobs[j] \/ restarts' # restarts
     /\ \A j \in dead : running' # j]_vars

Settled(j) ==
  /\ j \notin ToSet(pending) /\ running # j
  /\ driver = "memory" => jobs[j].state \notin {"queued", "submitting"}

(* Every accepted job leaves the queue for good: bounded attempts, bounded
   windows, and a worker that is never blocked by the publishers. *)
AllJobsSettle == \A j \in Jobs : <>[]Settled(j)

Missing(g) == {v \in ToSet(VERIFIERS) : ~Posted(v, g)}

(* Every finalized aggregation is posted to both verifiers, one verifier less
   for every request that failed: an error on one must not block the other. *)
RootsLand ==
  \A g \in Aggregations :
    g \in finalized ~> Cardinality(Missing(g)) <= faults \/ drops > 0
=============================================================================

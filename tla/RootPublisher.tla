---------------------------- MODULE RootPublisher ----------------------------
(***************************************************************************)
(* Publication of zkVerify aggregation roots by the relayer                *)
(* (services/relayer/root-publisher and services/relayer/submitter).       *)
(*                                                                         *)
(* Two actors run publishRoot: the poller, for every receipt it has not    *)
(* seen, and the proof submitter, for the aggregation a user's proof went  *)
(* into.  publishRoot walks over both verifiers; for each it reads whether *)
(* the aggregation is posted, submits it through the shared transaction    *)
(* manager if not, and swallows any error of the submission.               *)
(***************************************************************************)
EXTENDS TransactionManager

CONSTANTS Aggregations,      \* aggregations zkVerify finalizes
          Poller, Submitter  \* the two publishing actors


VARIABLES finalized,   \* zkVerify: aggregations with a receipt
          seen,        \* poller: processed aggregations
          served,      \* submitter: aggregations of the proofs posted to it (one proof each)
          publishing,  \* per publisher: the aggregation of its publishRoot call
          todo         \* per publisher: the verifiers left, in order

publisherVars == <<finalized, seen, served, publishing, todo>>

Publishers == {Poller, Submitter}
NATIVE_VERIFIER == "zk-verifier"
SIP10_VERIFIER == "sip10-zk-verifier"
VERIFIERS == <<NATIVE_VERIFIER, SIP10_VERIFIER>>
NoAggregation == "no aggregation"

RootCall(v, g) == [kind |-> "root", verifier |-> v, aggregation |-> g]
RootCalls == {RootCall(v, g) : v \in ToSet(VERIFIERS), g \in Aggregations}

ASSUME PublisherAssumption ==
  /\ Poller # Submitter /\ {Poller, Submitter} \subseteq Actors
  /\ NoAggregation \notin Aggregations
  /\ RootCalls \subseteq Calls

Posted(v, g) == Accepted(RootCall(v, g))

PublishersIdle ==
  /\ publishing = [p \in Publishers |-> NoAggregation]
  /\ todo = [p \in Publishers |-> <<>>]

PublisherInit ==
  /\ finalized = {}
  /\ seen = {}
  /\ served = {}
  /\ PublishersIdle

\* zkVerify finalizes an aggregation (external).
FinalizeAggregation(g) ==
  /\ g \notin finalized
  /\ finalized' = finalized \union {g}
  /\ UNCHANGED <<seen, served, publishing, todo, txmVars>>

StartPublishRoot(p, g) ==
  /\ publishing[p] = NoAggregation
  /\ g \in finalized
  /\ publishing' = [publishing EXCEPT ![p] = g]
  /\ todo' = [todo EXCEPT ![p] = VERIFIERS]

\* The poll loop hands a receipt to publish, which skips those it has seen.
PollerPublish(g) ==
  /\ g \notin seen
  /\ StartPublishRoot(Poller, g)
  /\ UNCHANGED <<finalized, seen, served, txmVars>>

\* POST /submit: the proof is verified, its aggregation awaited, then published.
SubmitterPublish(g) ==
  /\ g \notin served
  /\ StartPublishRoot(Submitter, g)
  /\ served' = served \union {g}
  /\ UNCHANGED <<finalized, seen, txmVars>>

Idle(a) == \A i \in 1..Len(line) : line[i] # a

\* isAggregationPosted answers: skip this verifier, or submit.  A read that
\* fails counts as "not posted".
CheckPosted(p) ==
  /\ todo[p] # <<>>
  /\ Idle(p) /\ outcome[p] = Pending
  /\ LET v == Head(todo[p]) IN
     \/ /\ Posted(v, publishing[p])
        /\ todo' = [todo EXCEPT ![p] = Tail(@)]
        /\ UNCHANGED txmVars
     \/ /\ ~Posted(v, publishing[p])
        /\ Enqueue(p, RootCall(v, publishing[p]))
        /\ UNCHANGED todo
     \/ /\ Posted(v, publishing[p])
        /\ UseFault
        /\ line' = Append(line, p)
        /\ wants' = [wants EXCEPT ![p] = RootCall(v, publishing[p])]
        /\ UNCHANGED <<nonce, draft, outcome, signed, nodeVars, conflicts, todo>>
  /\ UNCHANGED <<finalized, seen, served, publishing>>

\* Mutant: an error on one verifier ends the whole publication.
VerifierDone_Stops(p) ==
  /\ outcome[p] # Pending
  /\ TakeOutcome(p)
  /\ todo' = [todo EXCEPT ![p] = IF outcome[p] = Threw THEN <<>> ELSE Tail(@)]
  /\ UNCHANGED <<finalized, seen, served, publishing, nonce, line, wants, draft, signed,
                 nodeVars, faults, conflicts>>

\* The submission settled, with a txid or with an error: on to the next verifier.
VerifierDone(p) ==
  /\ outcome[p] # Pending
  /\ TakeOutcome(p)
  /\ todo' = [todo EXCEPT ![p] = Tail(@)]
  /\ UNCHANGED <<finalized, seen, served, publishing, nonce, line, wants, draft, signed,
                 nodeVars, faults, conflicts>>

\* publishRoot returns; the poller marks the aggregation as seen in any case.
PublishRootDone(p) ==
  /\ publishing[p] # NoAggregation
  /\ todo[p] = <<>>
  /\ publishing' = [publishing EXCEPT ![p] = NoAggregation]
  /\ seen' = IF p = Poller THEN seen \union {publishing[p]} ELSE seen
  /\ UNCHANGED <<finalized, served, todo, txmVars>>

PublisherRestart ==
  /\ seen' = {}
  /\ publishing' = [p \in Publishers |-> NoAggregation]
  /\ todo' = [p \in Publishers |-> <<>>]
  /\ UNCHANGED <<finalized, served>>
=============================================================================

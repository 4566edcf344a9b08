------------------------------ MODULE MCRelayer ------------------------------
(***************************************************************************)
(* The relayer with model-checking bounds, in two scenarios.  "publish":   *)
(* a fresh aggregation, both publishers and one job that needs it.         *)
(* "relay": the aggregation is on chain already and two jobs for the same  *)
(* operation share the worker.                                             *)
(***************************************************************************)
EXTENDS Relayer

CONSTANTS j1, j2, o1, o2, g1, worker, poller, submitter

VARIABLE scenario

MC_Operations == {o1, o2}
MC_AggregationOf == [o \in {o1, o2} |-> g1]
MC_Actors == {worker, poller, submitter}
MC_Calls == OpCalls \union RootCalls

Published(v) == [call |-> RootCall(v, g1), ok |-> TRUE]

\* The same run, after its poller and the submitter have posted both roots.
RelayInit ==
  /\ TxmStart /\ PublishersIdle /\ QueueInit
  /\ mined = <<Published(NATIVE_VERIFIER), Published(SIP10_VERIFIER)>>
  /\ finalized = {g1} /\ seen = {g1} /\ served = {g1}

MCInit ==
  \/ scenario = "publish" /\ RelayerInit
  \/ scenario = "relay" /\ RelayInit

MCNext ==
  /\ Next
  /\ UNCHANGED scenario
  /\ request'[j1] # o2
  /\ scenario = "publish" => /\ request'[j2] = NoJob
                             /\ faults' + drops' + restarts' <= 1

MCSpec == MCInit /\ [][MCNext]_<<vars, scenario>> /\ Fairness
=============================================================================

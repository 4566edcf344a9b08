SPECIFICATION MCSpec
CONSTANTS
  j1 = j1
  j2 = j2
  o1 = o1
  o2 = o2
  g1 = g1
  worker = worker
  poller = poller
  submitter = submitter
  Jobs = {j1, j2}
  Operations <- MC_Operations
  AggregationOf <- MC_AggregationOf
  Aggregations = {g1}
  Actors <- MC_Actors
  Calls <- MC_Calls
  Worker = worker
  Poller = poller
  Submitter = submitter
  SignedCap = 2
  MaxIncidents = 2
  MaxAttempts = 2
  Rebroadcasts = 1
CHECK_DEADLOCK FALSE
INVARIANTS
  NonceDiscipline
  ExtraTransactionsNeedALostAnswer
  ConfirmedIsApplied
PROPERTIES
  OutcomesAreFinal
  AllJobsSettle
  RootsLand

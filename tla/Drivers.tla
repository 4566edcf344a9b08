------------------------------- MODULE Drivers -------------------------------
(***************************************************************************)
(* The scripts that exercise the protocol on testnet with real proofs and  *)
(* real tokens: scripts/testnet/e2e-*.ts, apitx-e2e.ts and sip10/op.ts     *)
(* over sip10/lib.ts.  They prove and call at circuit version 1, so they   *)
(* are modelled against the version-1 deployment README.md:29 retains: its *)
(* contracts and circuits are not in the repository and are external here, *)
(* taken from what the scripts send and expect.  There the new root is     *)
(* "asserted", not proven (CHANGELOG.md:17): any root nobody declared yet  *)
(* is taken.  The contracts of src/contracts are version 2 and bind it;    *)
(* they are ShieldedPool and Sip10Pool.                                    *)
(*                                                                         *)
(* A driver keeps a commitment tree of its own, empty when it starts, and  *)
(* the root it believes is live.  For each operation it proves against its *)
(* tree, waits for zkVerify to aggregate the proof, posts the aggregation, *)
(* calls the pool with its live root and the root of its tree with the     *)
(* outputs inserted, and polls until the call is mined.  The registry it   *)
(* writes to is shared: with other drivers, with wallets, which declare    *)
(* the tree over every registered note, and with the relayer's own root    *)
(* publisher, which posts the aggregations of zkVerify's public domain.    *)
(*                                                                         *)
(* A root is the sequence of leaves it commits to; e2e-shield declares the *)
(* note's commitment itself, which is the root of no tree.                 *)
(***************************************************************************)
EXTENDS Integers, Sequences, FiniteSets, SequencesExt

CONSTANTS Runs,          \* runs of drivers
          Seeds,         \* the seed argument of a run
          Amounts,       \* the amount argument of e2e-shield and e2e-transfer
          Minimums,      \* what an admin may have set min-shield to
          WithdrawFee,   \* the native pool's withdrawal fee; sip10 charges none here
          MaxClientOps   \* bound: operations of wallets

ASSUME DriversAssumption ==
  /\ Amounts \cup Minimums \cup {WithdrawFee, MaxClientOps} \subseteq Nat

VARIABLES commitments,  \* the registered notes, in leaf order
          spent,        \* the notes whose nullifier is registered
          liveRoot,     \* get-current-root
          knownRoots,   \* every root the registry ever accepted
          shielded,     \* the balance of each pool, native and SIP-10
          carol,        \* the tokens paid to the SIP-10 driver's fixed recipient
          minShield,    \* min-shield
          run,          \* the state of each run
          disturbed,    \* history: runs met by a fault or by another actor
          mover,        \* history: who declared the live root
          clientOps     \* how many operations wallets have made

driverVars == <<commitments, spent, liveRoot, knownRoots, shielded, carol, minShield,
                run, disturbed, mover, clientOps>>
poolVars == <<commitments, spent, liveRoot, knownRoots, shielded, carol>>

-----------------------------------------------------------------------------
(***************************************************************************)
(* The plans of the drivers.  A step is one contract call: the notes it    *)
(* consumes and creates, whether it makes its own proof (0) or uses that   *)
(* of an earlier step, whether its arguments differ from the proven ones,  *)
(* and whether the driver expects it to be refused.  A note is written     *)
(* <<tag, value>>; one unit is 0.1 STX, or a tenth of an asset's smallest  *)
(* round amount.                                                           *)
(***************************************************************************)
Operation(fn, ins, outs) ==
  [fn |-> fn, ins |-> ins, outs |-> outs, proof |-> 0, forged |-> FALSE, refusal |-> FALSE]

Shield(out) == Operation("shield", <<>>, <<out>>)
Transfer(in, out) == Operation("transfer", <<in>>, <<out>>)
Split(in, out1, out2) == Operation("split", <<in>>, <<out1, out2>>)
Merge(in1, in2, out) == Operation("merge", <<in1, in2>>, <<out>>)
Withdraw(in) == Operation("withdraw", <<in>>, <<>>)

WithProofOf(k, step) == [step EXCEPT !.proof = k]
MustFail(step) == [step EXCEPT !.refusal = TRUE]
Forged(step) == MustFail([step EXCEPT !.forged = TRUE])

ShieldPlan(amount) == <<Shield(<<1, amount>>)>>
TransferPlan(amount) == <<Shield(<<1, amount>>), Transfer(<<1, amount>>, <<2, amount>>)>>
WithdrawPlan == <<Withdraw(<<2, 10>>)>>

MergePlan ==
  <<Shield(<<5, 10>>),
    Split(<<5, 10>>, <<6, 3>>, <<7, 7>>),
    Merge(<<6, 3>>, <<7, 7>>, <<8, 10>>),
    Forged(Withdraw(<<8, 10>>)),
    WithProofOf(4, Withdraw(<<8, 10>>)),
    MustFail(WithProofOf(3, Merge(<<6, 3>>, <<7, 7>>, <<8, 10>>))),
    MustFail(WithProofOf(4, Withdraw(<<8, 10>>)))>>

SplitTest ==
  <<Shield(<<0, 50>>),
    Transfer(<<0, 50>>, <<1, 50>>),
    Split(<<1, 50>>, <<2, 20>>, <<3, 30>>),
    Split(<<3, 30>>, <<4, 20>>, <<5, 10>>)>>
SplitWithdrawTest == <<Withdraw(<<2, 20>>), Withdraw(<<4, 20>>), Withdraw(<<5, 10>>)>>
MergeTest == <<Shield(<<6, 3>>), Shield(<<7, 7>>), Merge(<<6, 3>>, <<7, 7>>, <<8, 10>>)>>
MergeWithdrawTest == <<Forged(Withdraw(<<8, 10>>)), WithProofOf(11, Withdraw(<<8, 10>>))>>
AttackTest ==
  <<MustFail(WithProofOf(5, Withdraw(<<2, 20>>))),
    MustFail(WithProofOf(10, Merge(<<6, 3>>, <<7, 7>>, <<8, 10>>))),
    WithProofOf(5, Forged(Withdraw(<<99, 10>>))),
    WithProofOf(11, Forged(Split(<<88, 40>>, <<2, 20>>, <<2, 20>>)))>>
SplitMergePlan == SplitTest \o SplitWithdrawTest \o MergeTest \o MergeWithdrawTest \o AttackTest

ApiTest1 ==
  <<Shield(<<0, 1000>>),
    Transfer(<<0, 1000>>, <<1, 1000>>),
    Split(<<1, 1000>>, <<2, 400>>, <<3, 600>>),
    Split(<<3, 600>>, <<4, 350>>, <<5, 250>>),
    Withdraw(<<2, 400>>), Withdraw(<<4, 350>>), Withdraw(<<5, 250>>)>>
ApiTest2 ==
  <<Shield(<<6, 1000>>),
    Transfer(<<6, 1000>>, <<7, 1000>>),
    Split(<<7, 1000>>, <<8, 500>>, <<9, 500>>),
    Transfer(<<9, 500>>, <<10, 500>>),
    Split(<<10, 500>>, <<11, 250>>, <<12, 250>>),
    Withdraw(<<11, 250>>), Withdraw(<<12, 250>>),
    MustFail(WithProofOf(13, Withdraw(<<11, 250>>))),
    Split(<<8, 500>>, <<13, 250>>, <<14, 250>>),
    Merge(<<13, 250>>, <<14, 250>>, <<15, 500>>),
    Withdraw(<<15, 500>>)>>
ApiPlan == ApiTest1 \o ApiTest2

LifecyclePlan ==
  <<Shield(<<0, 10>>),
    Transfer(<<0, 10>>, <<10, 10>>),
    Split(<<10, 10>>, <<20, 4>>, <<21, 6>>),
    Merge(<<20, 4>>, <<21, 6>>, <<30, 10>>),
    Withdraw(<<30, 10>>),
    MustFail(WithProofOf(5, Withdraw(<<30, 10>>)))>>

OpPlan(op) ==
  CASE op = "op-shield"   -> <<Shield(<<0, 10>>)>>
    [] op = "op-transfer" -> <<Shield(<<0, 10>>), Transfer(<<0, 10>>, <<10, 10>>)>>
    [] op = "op-split"    -> <<Shield(<<0, 10>>), Split(<<0, 10>>, <<10, 4>>, <<11, 6>>)>>
    [] op = "op-merge"    ->
         <<Shield(<<0, 4>>), Shield(<<1, 6>>), Merge(<<0, 4>>, <<1, 6>>, <<10, 10>>)>>
    [] op = "op-withdraw" -> <<Shield(<<0, 10>>), Withdraw(<<0, 10>>)>>
    [] op = "op-lifecycle" -> LifecyclePlan

OpScripts ==
  {"op-shield", "op-transfer", "op-split", "op-merge", "op-withdraw", "op-lifecycle"}
Scripts == {"shield", "transfer", "withdraw", "merge", "split-merge", "api"} \cup OpScripts

PlanOf(script, amount) ==
  CASE script = "shield"      -> ShieldPlan(amount)
    [] script = "transfer"    -> TransferPlan(amount)
    [] script = "withdraw"    -> WithdrawPlan
    [] script = "merge"       -> MergePlan
    [] script = "split-merge" -> SplitMergePlan
    [] script = "api"         -> ApiPlan
    [] script \in OpScripts   -> OpPlan(script)

\* Keys and blindings are derived from the seed: e2e-transfer and e2e-withdraw alike,
\* e2e-merge and e2e-split-merge alike, op.ts the same way for each operation.
Derivation(script) ==
  CASE script \in {"transfer", "withdraw"} -> "transfer"
    [] script \in {"merge", "split-merge"} -> "merge"
    [] script \in OpScripts -> "op"
    [] OTHER -> script

-----------------------------------------------------------------------------
Tree(leaves) == [merkle |-> TRUE, leaves |-> leaves]
\* hexOf(commitment): "any distinct non-zero value; not bound".
Pointer(note) == [merkle |-> FALSE, leaves |-> <<note>>]
Genesis == Tree(<<>>)

Asset(script) == IF script \in OpScripts THEN "ft" ELSE "stx"
Fee(asset) == IF asset = "stx" THEN WithdrawFee ELSE 0
NoCall == [fn |-> "none"]
NoReading == [nullifiers |-> 0, pool |-> 0, carol |-> 0]
NotStarted ==
  [script |-> "none", seed |-> 0, amount |-> 0, stage |-> "ready", pc |-> 1,
   tree |-> <<>>, root |-> Genesis, proved |-> Genesis, batch |-> {}, posted |-> FALSE,
   call |-> NoCall, answer |-> "none", refused |-> TRUE, seen |-> NoReading,
   joined |-> FALSE, doomed |-> FALSE, verdict |-> "idle"]

DriversInit ==
  /\ commitments = <<>> /\ spent = {} /\ liveRoot = Genesis /\ knownRoots = {Genesis}
  /\ shielded = [a \in {"stx", "ft"} |-> 0] /\ carol = 0
  /\ minShield \in Minimums
  /\ run = [d \in Runs |-> NotStarted]
  /\ disturbed = {} /\ mover = "genesis" /\ clientOps = 0

\* A commitment as the contracts see it.
Note(d, n) == <<Derivation(run[d].script), run[d].seed, n[1], n[2]>>
NotesAt(d, k, field) ==
  LET step == PlanOf(run[d].script, run[d].amount)[k]
      notes == IF field = "ins" THEN step.ins ELSE step.outs
  IN  [i \in DOMAIN notes |-> Note(d, notes[i])]

PlanFor(d) == PlanOf(run[d].script, run[d].amount)
InProgress(d) == run[d].verdict = "running"
Ended(d) == run[d].verdict \in {"passed", "failed", "threw"}
Now(d) == PlanFor(d)[run[d].pc]
Outs(d) == NotesAt(d, run[d].pc, "outs")
Ins(d) == NotesAt(d, run[d].pc, "ins")
Busy(d) == InProgress(d) /\ run[d].pc <= Len(PlanFor(d))

\* Only the public domain's batches are shared, and watched by the root publisher.
OnPublicDomain(d) == run[d].script \notin OpScripts

Readings(asset) ==
  [nullifiers |-> Cardinality(spent), pool |-> shielded[asset], carol |-> carol]

\* The scripts whose verdict compares totals of the pool before and after.
ComparesTotals == {"shield", "transfer", "withdraw", "op-shield", "op-withdraw", "op-lifecycle"}

-----------------------------------------------------------------------------
(***************************************************************************)
(* What the version-1 contracts make of a pool call.                       *)
(***************************************************************************)
PoolAccepts(call) ==
  /\ ~call.forged
  /\ ToSet(call.ins) \subseteq ToSet(commitments) \ spent
  /\ call.fn # "shield" => call.proved = call.current
  /\ IF call.fn = "withdraw"
     THEN call.current \in knownRoots
     ELSE /\ call.current = liveRoot /\ call.new \notin knownRoots
          /\ ToSet(call.outs) \intersect ToSet(commitments) = {}
  /\ call.fn = "shield" /\ call.asset = "stx" => call.outs[1][4] >= minShield

Effect(call) ==
  LET asset == call.asset IN
  /\ commitments' = commitments \o call.outs
  /\ spent' = spent \cup ToSet(call.ins)
  /\ IF call.fn = "withdraw"
     THEN UNCHANGED <<liveRoot, knownRoots>>
     ELSE liveRoot' = call.new /\ knownRoots' = knownRoots \cup {call.new}
  /\ shielded' = [shielded EXCEPT ![asset] =
       CASE call.fn = "shield"   -> @ + call.outs[1][4]
         [] call.fn = "withdraw" -> @ - call.ins[1][4]
         [] OTHER -> @]
  /\ carol' = IF call.fn = "withdraw" /\ asset = "ft" THEN carol + call.ins[1][4] ELSE carol

\* Whether run e still has a root to declare.
WillDeclare(e) ==
  \E k \in run[e].pc..Len(PlanFor(e)) : ~PlanFor(e)[k].refusal /\ PlanFor(e)[k].fn # "withdraw"

\* The runs an accepted call gets in the way of: it moves the root they are about to
\* build on, or a total they are about to compare.
InTheWayOf(fn, actor) ==
  {e \in Runs \ {actor} :
     /\ InProgress(e)
     /\ \/ fn # "withdraw" /\ WillDeclare(e)
        \/ run[e].script \in ComparesTotals}

-----------------------------------------------------------------------------
(***************************************************************************)
(* One run of a driver.                                                    *)
(***************************************************************************)
\* Started where it cannot succeed: a note of its plan is already registered, a note
\* to shield is below the minimum, or the transfer to withdraw from is not there.
Doomed(script, seed, amount) ==
  LET plan == PlanOf(script, amount)
      note(n) == <<Derivation(script), seed, n[1], n[2]>>
  IN  IF script = "withdraw"
      THEN \/ Tree(<<note(<<1, 10>>), note(<<2, 10>>)>>) \notin knownRoots
           \/ note(<<2, 10>>) \in spent
      ELSE \E k \in DOMAIN plan : ~plan[k].refusal /\ \E i \in DOMAIN plan[k].outs :
             \/ note(plan[k].outs[i]) \in ToSet(commitments)
             \/ /\ plan[k].fn = "shield" /\ Asset(script) = "stx"
                /\ plan[k].outs[i][2] < minShield

StartRun(d, script, seed, amount) ==
  /\ run[d].verdict = "idle"
  /\ amount \in Amounts
  /\ LET bob == <<Derivation(script), seed, 2, 10>>
         alice == <<Derivation(script), seed, 1, 10>>
         rebuilt == <<alice, bob>>
     IN run' = [run EXCEPT ![d] =
          [NotStarted EXCEPT !.script = script, !.seed = seed, !.amount = amount,
             !.tree = IF script = "withdraw" THEN rebuilt ELSE <<>>,
             !.root = IF script = "withdraw" THEN Tree(rebuilt) ELSE liveRoot,
             !.seen = Readings(Asset(script)),
             !.joined = commitments # <<>>,
             !.doomed = Doomed(script, seed, amount),
             !.verdict = "running"]]
  /\ UNCHANGED <<poolVars, minShield, disturbed, mover, clientOps>>

\* A run that ends keeps what it sent: the transaction may still be mined.
EndedAs(d, verdict) ==
  [NotStarted EXCEPT !.script = run[d].script, !.seed = run[d].seed, !.amount = run[d].amount,
     !.joined = run[d].joined, !.doomed = run[d].doomed, !.verdict = verdict,
     !.refused = run[d].refused,
     !.batch = IF run[d].answer = "pending" THEN run[d].batch ELSE {},
     !.posted = run[d].answer = "pending" /\ run[d].posted,
     !.call = IF run[d].answer = "pending" THEN run[d].call ELSE NoCall,
     !.answer = IF run[d].answer = "pending" THEN "pending" ELSE "none"]

DriverThrows(d) == run' = [run EXCEPT ![d] = EndedAs(d, "threw")]

\* The driver proves against its own tree, a shield's note already inserted.
Prove(d) ==
  /\ Busy(d) /\ run[d].stage = "ready" /\ Now(d).proof = 0
  /\ LET tree == IF Now(d).fn = "shield" THEN run[d].tree \o Outs(d) ELSE run[d].tree
         proved == IF Now(d).fn = "withdraw" THEN run[d].root ELSE Tree(run[d].tree)
     IN IF Now(d).fn = "shield" \/ (proved = Tree(tree) /\ ToSet(Ins(d)) \subseteq ToSet(tree))
        THEN run' = [run EXCEPT ![d].tree = tree, ![d].proved = proved, ![d].stage = "waiting"]
        ELSE DriverThrows(d)
  /\ UNCHANGED <<poolVars, minShield, disturbed, mover, clientOps>>

\* zkVerify publishes an aggregation: any of the proofs waiting on the public domain,
\* or the one proof in a domain of size one.
Aggregate(batch) ==
  /\ batch # {} /\ \A d \in batch : InProgress(d) /\ run[d].stage = "waiting"
  /\ Cardinality(batch) = 1 \/ \A d \in batch : OnPublicDomain(d)
  /\ run' = [d \in Runs |->
       IF d \in batch
       THEN [run[d] EXCEPT !.batch = batch, !.posted = FALSE, !.stage = "aggregated"]
       ELSE run[d]]
  /\ UNCHANGED <<poolVars, minShield, disturbed, mover, clientOps>>

PostAggregation(d) ==
  /\ Busy(d) /\ run[d].stage = "aggregated"
  /\ run' = [run EXCEPT ![d].stage = "posting", ![d].answer = "pending",
                        ![d].call = [fn |-> "submit-aggregation"]]
  /\ UNCHANGED <<poolVars, minShield, disturbed, mover, clientOps>>

AggregationPosted(d) ==
  /\ Busy(d) /\ run[d].stage = "posting" /\ run[d].answer = "success"
  /\ run' = [run EXCEPT ![d].stage = "posted", ![d].answer = "none", ![d].call = NoCall]
  /\ UNCHANGED <<poolVars, minShield, disturbed, mover, clientOps>>

MayCall(d) ==
  /\ Busy(d)
  /\ run[d].stage = "posted" \/ (run[d].stage = "ready" /\ Now(d).proof # 0)

\* apitx-e2e sends everything but shields through the relayer, which looks at the
\* nullifiers before it accepts a job.
RelayerRejects(d) ==
  /\ run[d].script = "api" /\ Now(d).fn # "shield"
  /\ ToSet(Ins(d)) \intersect spent # {}

\* Only the first output of a call enters the driver's tree.
TreeAfter_FirstOutputOnly(d) ==
  IF Now(d).fn = "shield" \/ Now(d).refusal \/ Outs(d) = <<>> THEN run[d].tree
  ELSE Append(run[d].tree, Outs(d)[1])

TreeAfter(d) ==
  IF Now(d).fn = "shield" \/ Now(d).refusal THEN run[d].tree ELSE run[d].tree \o Outs(d)

CallOf(d) ==
  [fn |-> Now(d).fn, ins |-> Ins(d), outs |-> Outs(d), forged |-> Now(d).forged,
   asset |-> Asset(run[d].script), proved |-> run[d].proved,
   current |-> IF run[d].script = "shield" THEN liveRoot ELSE run[d].root,
   new |-> IF run[d].script = "shield" THEN Pointer(Outs(d)[1]) ELSE Tree(TreeAfter(d))]

SendCall(d) ==
  /\ MayCall(d) /\ ~RelayerRejects(d)
  /\ run' = [run EXCEPT ![d].stage = "calling", ![d].answer = "pending",
       ![d].tree = TreeAfter(d), ![d].call = CallOf(d),
       ![d].seen = IF run[d].script \in {"shield", "transfer", "withdraw"}
                   THEN Readings("stx") ELSE @]
  /\ UNCHANGED <<poolVars, minShield, disturbed, mover, clientOps>>

NextStep(d) ==
  [run[d] EXCEPT !.pc = @ + 1, !.stage = "ready", !.answer = "none", !.call = NoCall]

\* relayReject: the refusal the script came for; relayPost throws on one.
Rejected(d) ==
  /\ MayCall(d) /\ RelayerRejects(d)
  /\ IF Now(d).refusal THEN run' = [run EXCEPT ![d] = NextStep(d)] ELSE DriverThrows(d)
  /\ UNCHANGED <<poolVars, minShield, disturbed, mover, clientOps>>

CallConfirmed(d) ==
  /\ Busy(d) /\ run[d].stage = "calling" /\ run[d].answer = "success"
  /\ run' = [run EXCEPT ![d] =
       [NextStep(d) EXCEPT
          !.refused = @ /\ ~Now(d).refusal,
          !.root = IF Now(d).refusal \/ Now(d).fn = "withdraw" THEN @ ELSE run[d].call.new]]
  /\ UNCHANGED <<poolVars, minShield, disturbed, mover, clientOps>>

\* Any abort counts as a refusal, the ones of genuine calls included.
RefusedAsExpected_AnyAbort(d) ==
  /\ Busy(d) /\ run[d].stage = "calling" /\ run[d].answer = "abort"
  /\ run' = [run EXCEPT ![d] = NextStep(d)]
  /\ UNCHANGED <<poolVars, minShield, disturbed, mover, clientOps>>

\* stacksExpectAbort: any abort is the refusal the script expects.
RefusedAsExpected(d) ==
  /\ Busy(d) /\ run[d].stage = "calling" /\ run[d].answer = "abort" /\ Now(d).refusal
  /\ run' = [run EXCEPT ![d] = NextStep(d)]
  /\ UNCHANGED <<poolVars, minShield, disturbed, mover, clientOps>>

CallAborted(d) ==
  /\ Busy(d) /\ run[d].answer = "abort"
  /\ run[d].stage = "posting" \/ ~Now(d).refusal
  /\ DriverThrows(d)
  /\ UNCHANGED <<poolVars, minShield, disturbed, mover, clientOps>>

\* The wait has no deadline.
DeadlinePasses_Never(d) == FALSE /\ UNCHANGED driverVars

\* The wait for a receipt or for a transaction has a deadline.
DeadlinePasses(d) ==
  /\ Busy(d) /\ (run[d].stage = "waiting" \/ run[d].answer = "pending")
  /\ DriverThrows(d)
  /\ disturbed' = disturbed \cup {d}
  /\ UNCHANGED <<poolVars, minShield, mover, clientOps>>

\* A broadcast, or the nonce read before it, fails.
BroadcastThrows(d) ==
  /\ Busy(d) /\ (run[d].stage = "aggregated" \/ MayCall(d))
  /\ DriverThrows(d)
  /\ disturbed' = disturbed \cup {d}
  /\ UNCHANGED <<poolVars, minShield, mover, clientOps>>

Withdrawals(d) ==
  {k \in DOMAIN PlanFor(d) : PlanFor(d)[k].fn = "withdraw" /\ ~PlanFor(d)[k].refusal}

\* The scripts that require the recipients' balances to have grown.
ReadsRecipients == {"withdraw", "merge", "split-merge", "api"}

\* What main compares before it prints that the run passed.
Verdict(d) ==
  LET seen == run[d].seen
      now == Readings(Asset(run[d].script))
      paid == \A k \in Withdrawals(d) :
                PlanFor(d)[k].ins[1][2] - Fee(Asset(run[d].script)) > 0
  IN  CASE run[d].script = "shield"   -> now.pool - seen.pool = run[d].amount
        [] run[d].script = "transfer" ->
             now.pool = seen.pool /\ now.nullifiers = seen.nullifiers + 1
        [] run[d].script = "withdraw" -> seen.pool - now.pool = 10 /\ paid
        [] run[d].script \in {"merge", "split-merge", "api"} -> run[d].refused /\ paid
        [] run[d].script = "op-shield" -> now.pool - seen.pool = 10
        [] run[d].script \in {"op-transfer", "op-split", "op-merge"} -> TRUE
        [] run[d].script = "op-withdraw"  -> now.carol - seen.carol = 10
        [] run[d].script = "op-lifecycle" -> now.carol - seen.carol = 10 /\ run[d].refused

FinishRun(d) ==
  /\ InProgress(d) /\ run[d].pc > Len(PlanFor(d))
  /\ run' = [run EXCEPT ![d] = EndedAs(d, IF Verdict(d) THEN "passed" ELSE "failed")]
  /\ UNCHANGED <<poolVars, minShield, disturbed, mover, clientOps>>

\* stxBalance answers 0 when the API does not answer.
BalanceUnread(d) ==
  /\ InProgress(d) /\ run[d].pc > Len(PlanFor(d)) /\ run[d].script \in ReadsRecipients
  /\ run' = [run EXCEPT ![d] = EndedAs(d, "failed")]
  /\ disturbed' = disturbed \cup {d}
  /\ UNCHANGED <<poolVars, minShield, mover, clientOps>>

-----------------------------------------------------------------------------
(***************************************************************************)
(* The chain and the others who write to it.                               *)
(***************************************************************************)
\* After its transaction is mined a run that ended has nothing more to say.
Answered(d, answer) ==
  IF InProgress(d) THEN [run[d] EXCEPT !.answer = answer]
  ELSE [run[d] EXCEPT !.answer = "none", !.call = NoCall, !.batch = {}, !.posted = FALSE]

MinePost(d) ==
  /\ run[d].answer = "pending" /\ run[d].call.fn = "submit-aggregation"
  /\ run' = [e \in Runs |->
       CASE e = d -> IF run[d].posted THEN Answered(d, "abort")
                     ELSE [Answered(d, "success") EXCEPT !.posted = InProgress(d)]
         [] e \in run[d].batch \ {d} /\ run[e].batch = run[d].batch ->
              [run[e] EXCEPT !.posted = TRUE]
         [] OTHER -> run[e]]
  /\ disturbed' = IF run[d].posted THEN disturbed
                  ELSE disturbed \cup {e \in run[d].batch \ {d} : InProgress(e)}
  /\ UNCHANGED <<poolVars, minShield, mover, clientOps>>

MineCall(d) ==
  /\ run[d].answer = "pending" /\ run[d].call.fn # "submit-aggregation"
  /\ LET call == run[d].call IN
     IF PoolAccepts(call)
     THEN /\ Effect(call)
          /\ mover' = IF call.fn = "withdraw" THEN mover ELSE d
          /\ disturbed' = disturbed \cup InTheWayOf(call.fn, d)
          /\ run' = [run EXCEPT ![d] = Answered(d, "success")]
     ELSE /\ run' = [run EXCEPT ![d] = Answered(d, "abort")]
          /\ UNCHANGED <<poolVars, mover, disturbed>>
  /\ UNCHANGED <<minShield, clientOps>>

\* The relayer's root publisher posts the aggregation before the driver does.
PublisherPosts(d) ==
  /\ InProgress(d) /\ OnPublicDomain(d) /\ ~run[d].posted
  /\ run[d].stage = "aggregated" \/ (run[d].stage = "posting" /\ run[d].answer = "pending")
  /\ run' = [e \in Runs |->
       IF e \in run[d].batch /\ run[e].batch = run[d].batch
       THEN [run[e] EXCEPT !.posted = TRUE] ELSE run[e]]
  /\ disturbed' = disturbed \cup {e \in run[d].batch : InProgress(e)}
  /\ UNCHANGED <<poolVars, minShield, mover, clientOps>>

ClientNote(k) == <<"client", 0, k, 10>>
ClientNotes == {ClientNote(k) : k \in 1..MaxClientOps}
ClientTree == Tree(Append(commitments, ClientNote(clientOps + 1)))

\* A wallet deposits: whatever the live root, it declares the full tree.
ClientShields ==
  /\ clientOps < MaxClientOps /\ minShield <= 10
  /\ Effect([fn |-> "shield", ins |-> <<>>, outs |-> <<ClientNote(clientOps + 1)>>,
            asset |-> "stx", new |-> ClientTree])
  /\ mover' = "client" /\ clientOps' = clientOps + 1
  /\ disturbed' = disturbed \cup InTheWayOf("shield", "client")
  /\ UNCHANGED <<minShield, run>>

\* A wallet transfers: it proves against the full tree, which must be live.
ClientTransfers ==
  /\ clientOps < MaxClientOps /\ liveRoot = Tree(commitments)
  /\ \E note \in (ClientNotes \intersect ToSet(commitments)) \ spent :
       Effect([fn |-> "transfer", ins |-> <<note>>, outs |-> <<ClientNote(clientOps + 1)>>,
              asset |-> "stx", new |-> ClientTree])
  /\ mover' = "client" /\ clientOps' = clientOps + 1
  /\ disturbed' = disturbed \cup InTheWayOf("transfer", "client")
  /\ UNCHANGED <<minShield, run>>

-----------------------------------------------------------------------------
DriverStep(d) ==
  \/ Prove(d) \/ PostAggregation(d) \/ AggregationPosted(d)
  \/ SendCall(d) \/ Rejected(d)
  \/ CallConfirmed(d) \/ RefusedAsExpected(d) \/ CallAborted(d)
  \/ DeadlinePasses(d) \/ FinishRun(d)

DriversNext ==
  \/ \E d \in Runs :
       \/ \E script \in Scripts, seed \in Seeds, amount \in Amounts :
            StartRun(d, script, seed, amount)
       \/ DriverStep(d)
       \/ BroadcastThrows(d) \/ BalanceUnread(d)
       \/ MinePost(d) \/ MineCall(d) \/ PublisherPosts(d)
  \/ \E batch \in SUBSET Runs : Aggregate(batch)
  \/ ClientShields \/ ClientTransfers

\* A script that runs goes on, and its waits end at their deadlines; nothing is
\* assumed of zkVerify or of the chain.
DriversFairness == \A d \in Runs : WF_driverVars(DriverStep(d))

DriversSpec == DriversInit /\ [][DriversNext]_driverVars /\ DriversFairness

-----------------------------------------------------------------------------
Worth(notes) == MapThenSumSet(LAMBDA n : n[4], notes)
OnAsset(asset) == {n \in ToSet(commitments) \ spent : (n[1] = "op") = (asset = "ft")}

(***************************************************************************)
(* A run that prints that it passed is right: every note of its plan was   *)
(* registered, every note it consumed is spent, every forgery and replay   *)
(* was refused, and each pool holds what its unspent notes are worth.      *)
(***************************************************************************)
PassedRunsAreRight ==
  /\ \A d \in Runs : run[d].verdict = "passed" =>
       /\ run[d].refused
       /\ \A k \in DOMAIN PlanFor(d) : ~PlanFor(d)[k].refusal =>
            /\ ToSet(NotesAt(d, k, "ins")) \subseteq spent
            /\ ToSet(NotesAt(d, k, "outs")) \subseteq ToSet(commitments)
  /\ \A asset \in {"stx", "ft"} : shielded[asset] = Worth(OnAsset(asset))

(***************************************************************************)
(* Every run ends, and it passes unless it started where it could not      *)
(* succeed, met a fault, or another actor moved the root or the totals it  *)
(* was about to use, or posted its aggregation first.                      *)
(***************************************************************************)
UndisturbedRunsPass ==
  \A d \in Runs :
    InProgress(d) ~> \/ run[d].verdict = "passed"
                     \/ Ended(d) /\ (d \in disturbed \/ run[d].doomed)

(***************************************************************************)
(* "Each threads the off-chain CommitmentTree (mirror of the shared        *)
(* registry)": the live root commits to every registered note unless it    *)
(* was declared by a driver that started when the registry already held    *)
(* notes, or by e2e-shield; and even then every unspent note is under some *)
(* known root, so it can still be withdrawn, except one e2e-shield made.   *)
(***************************************************************************)
RootsKeepUp ==
  /\ liveRoot # Tree(commitments) =>
       \E d \in Runs : mover = d /\ (run[d].joined \/ run[d].script = "shield")
  /\ \A note \in ToSet(commitments) \ spent :
       \/ note[1] = "shield"
       \/ \E root \in knownRoots : root.merkle /\ note \in ToSet(root.leaves)
=============================================================================

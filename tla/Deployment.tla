----------------------------- MODULE Deployment -----------------------------
(***************************************************************************)
(* The scripts that put the protocol on chain and keep it configured:      *)
(* scripts/deployment (deploy-fresh, wire-contracts, verify-deployment,    *)
(* set-relayers) and scripts/upgrades/circuit-upgrade.                     *)
(*                                                                         *)
(* A script is a list of contract calls made one at a time: broadcast,     *)
(* then poll until the transaction is mined, aborts or 900 seconds pass.   *)
(* It keeps nothing between runs; what makes a re-run resume is what it    *)
(* reads back from the chain, what the contracts refuse to do twice, and   *)
(* which errors it swallows.  The node is external: it mines the account's *)
(* transactions in nonce order, may forget them, and may not answer.       *)
(***************************************************************************)
EXTENDS Integers, Sequences, FiniteSets, SequencesExt

CONSTANTS ContractOrder,   \* the contracts, in the order they are deployed
          Refers,          \* Refers[c]: the contracts c calls
          Callers,         \* AUTHORIZED_CALLERS, in order
          Circuits,        \* the proof types, in order
          FirstVersion,    \* STX_CIRCUIT_VERSION
          Keys,            \* verification-key hashes the environment may hold
          GenesisRoots,    \* the values GENESIS_ROOT may have
          ZeroRoot,        \* its default, all zeros, which the registry refuses
          FirstRelayer,    \* AGGREGATION_RELAYER, seated by the wiring
          Relayers,        \* RELAYER_ADDRESSES, in order
          Fees,            \* the fee types configured, in order
          MaxFaults,       \* bound: failures of the node, the network or the process
          MaxVersion       \* bound: the highest circuit version

Elements(s) == {s[i] : i \in DOMAIN s}

ASSUME DeploymentAssumption ==
  /\ ContractOrder \in Seq(Elements(ContractOrder))
  /\ Callers \in Seq(Elements(Callers))
  /\ Circuits \in Seq(Elements(Circuits))
  /\ Relayers \in Seq(Elements(Relayers))
  /\ Fees \in Seq(Elements(Fees))
  \* "dependency order -- later contracts reference earlier ones"
  /\ \A i \in DOMAIN ContractOrder :
       Refers[ContractOrder[i]] \subseteq {ContractOrder[j] : j \in 1..(i - 1)}
  /\ {FirstVersion, MaxVersion, MaxFaults} \subseteq Nat
  \* set-relayers refuses an empty list, and a list with the one it is to drop.
  /\ Relayers # <<>> /\ FirstRelayer \notin Elements(Relayers)

VARIABLES chain,      \* contract state: the calls whose effect is in force
          state,      \* get-protocol-state
          version,    \* get-circuit-version
          mempool,    \* the account's pending transactions, in nonce order
          script,     \* the script that runs, or ran last
          running,    \* whether it still runs
          pc,         \* its next call
          env,        \* what this run was given: key hashes, target version, genesis
                      \* root, and whether there is a TREASURY_ADDRESS
          answer,     \* what became of the call it waits for
          exit,       \* the exit status of the last run
          clean,      \* history: this run has met no fault
          quiet,      \* history: this run began with nothing pending
          faults      \* how many faults have occurred

historyVars == <<clean, quiet, faults>>
vars == <<chain, state, version, mempool, script, running, pc, env, answer,
          exit, clean, quiet, faults>>
chainVars == <<chain, state, version>>

-----------------------------------------------------------------------------
(***************************************************************************)
(* What a transaction does when it is mined.  A call is <<function, ...>>; *)
(* the guards are those of the six contracts for their owner.              *)
(***************************************************************************)
KeyAt(circuit, v) == {k \in Keys : <<"key", circuit, v, k>> \in chain}
Seated == {who \in {FirstRelayer} \cup Elements(Relayers) : <<"relayer", who>> \in chain}

Accepts(c) ==
  CASE c[1] = "deploy"    -> c \notin chain /\ \A d \in Refers[c[2]] : <<"deploy", d>> \in chain
    [] c[1] = "authorize" -> c \notin chain
    [] c[1] = "root"      -> c \notin chain /\ c[2] # ZeroRoot /\ state = "ACTIVE"
    [] c[1] = "key"       -> KeyAt(c[2], c[3]) = {}
    [] c[1] = "bind"      -> KeyAt(c[2], c[3]) # {}
    [] c[1] = "relayer"   -> c \notin chain
    [] c[1] = "unseat"    -> c[2] \in Seated
    [] c[1] = "pause"     -> state = "ACTIVE"
    [] c[1] \in {"begin", "unpause"}    -> state = "PAUSED"
    [] c[1] = "versions"  -> state = "UPGRADING" /\ c[2] >= version
    [] c[1] = "complete"  -> state = "UPGRADING"
    [] c[1] \in {"context", "fee"} -> TRUE

\* wireContracts calls protocol-fees.set-treasury, which no contract defines.
HasFunction(c) == c[1] # "treasury"

Transition == [pause |-> "PAUSED", begin |-> "UPGRADING",
               unpause |-> "ACTIVE", complete |-> "ACTIVE"]

Apply(c) ==
  /\ chain' = CASE c[1] = "unseat" -> chain \ {<<"relayer", c[2]>>}
                [] c[1] \in DOMAIN Transition \cup {"versions"} -> chain
                [] OTHER -> chain \cup {c}
  /\ state' = IF c[1] \in DOMAIN Transition THEN Transition[c[1]] ELSE state
  /\ version' = IF c[1] = "versions" THEN c[2] ELSE version

-----------------------------------------------------------------------------
(***************************************************************************)
(* The scripts.                                                            *)
(***************************************************************************)
Each(s, Call(_)) == [i \in DOMAIN s |-> Call(s[i])]

\* main of deploy-fresh: CONTRACT_ORDER, then wireContracts.
Deploys == Each(ContractOrder, LAMBDA c : <<"deploy", c>>)
Wiring ==
     Each(Callers, LAMBDA c : <<"authorize", c>>)
  \o << <<"root", env.root>> >>
  \o Each(Circuits, LAMBDA c : <<"key", c, FirstVersion, env.key>>)
  \o << <<"context">> >>
  \o Each(Circuits, LAMBDA c : <<"bind", c, FirstVersion>>)
  \o << <<"relayer", FirstRelayer>> >>
  \o (IF env.treasury THEN << <<"treasury">> >> ELSE <<>>)
  \o Each(Fees, LAMBDA f : <<"fee", f>>)

\* main of circuit-upgrade: stage the keys, then the upgrade window.
Upgrading ==
     Each(Circuits, LAMBDA c : <<"key", c, env.next, env.key>>)
  \o << <<"pause">>, <<"begin">>, <<"versions", env.next>>, <<"complete">> >>

\* The deployer is dropped before the others are seated.
Seating_DropFirst ==
  << <<"unseat", FirstRelayer>> >> \o Each(Relayers, LAMBDA r : <<"relayer", r>>)

\* main of set-relayers with RELAYER_DROP_DEPLOYER.
Seating == Each(Relayers, LAMBDA r : <<"relayer", r>>) \o << <<"unseat", FirstRelayer>> >>

Plan == CASE script = "deploy"   -> Deploys \o Wiring
          [] script = "upgrade"  -> Upgrading
          [] script = "relayers" -> Seating

Current == Plan[pc]
MoreToDo == running /\ pc <= Len(Plan)

\* Wiring stops at the first refusal.
Swallows_Nothing(c) == FALSE

\* The steps whose every error is caught and reported as "already ...".
Swallows(c) ==
  /\ script # "relayers"
  /\ c[1] \in {"authorize", "root", "key", "context", "bind", "relayer", "treasury"}

\* Deploys are not checked first.
ReadsBack_OnlyRelayers(c) == script = "relayers"

\* What the script reads back before a call, to leave it out.
ReadsBack(c) == c[1] = "deploy" \/ script = "relayers"
AlreadyDone(c) == IF c[1] = "unseat" THEN c[2] \notin Seated ELSE c \in chain

-----------------------------------------------------------------------------
Init ==
  /\ chain = {} /\ state = "ACTIVE" /\ version = FirstVersion
  /\ mempool = <<>>
  /\ script = "deploy" /\ running = FALSE /\ pc = 1
  /\ env \in [key : Keys, next : {FirstVersion}, root : GenesisRoots, treasury : BOOLEAN]
  /\ answer = "none" /\ exit = "none" /\ clean = FALSE /\ quiet = FALSE
  /\ faults = 0

Fault == faults < MaxFaults /\ faults' = faults + 1 /\ clean' = FALSE /\ UNCHANGED quiet

\* The script stops waiting for its transaction, which stays where it is.
Forget == mempool' = [i \in DOMAIN mempool |-> [mempool[i] EXCEPT !.awaited = FALSE]]

Ends(status) ==
  /\ running' = FALSE /\ exit' = status /\ answer' = "none" /\ pc' = 1
  /\ UNCHANGED <<script, env>>

Goes(step) ==
  /\ pc' = step /\ answer' = "none"
  /\ UNCHANGED <<script, running, env, exit>>

\* An exception: caught around the step, or the end of main.
Throws == IF Swallows(Current) THEN Goes(pc + 1) ELSE Ends("failed")

\* The operator runs a script; the environment file may have changed since.
Start(s) ==
  /\ ~running
  /\ script' = s /\ running' = TRUE /\ pc' = 1 /\ answer' = "none" /\ exit' = "none"
  /\ clean' = TRUE /\ quiet' = (mempool = <<>>)
  /\ UNCHANGED <<chainVars, mempool, faults>>

\* deploy-fresh with this environment; the same one until a deployment is done.
RunDeploy == Start("deploy") /\ UNCHANGED env

\* circuit-upgrade reads the live version and aims at the next.
RunUpgrade ==
  /\ Start("upgrade") /\ version < MaxVersion
  /\ \E k \in Keys : env' = [env EXCEPT !.key = k, !.next = version + 1]

RunSetRelayers == Start("relayers") /\ UNCHANGED env

\* isDeployed / isRelayer says there is nothing to do.
Skip ==
  /\ MoreToDo /\ answer = "none" /\ ReadsBack(Current) /\ AlreadyDone(Current)
  /\ Goes(pc + 1)
  /\ UNCHANGED <<chainVars, mempool, historyVars>>

Broadcasts ==
  /\ mempool' = Append(mempool, [call |-> Current, awaited |-> TRUE])
  /\ answer' = "pending"
  /\ UNCHANGED <<chainVars, script, running, pc, env, exit>>

Broadcast ==
  /\ MoreToDo /\ answer = "none" /\ HasFunction(Current)
  /\ ReadsBack(Current) => ~AlreadyDone(Current)
  /\ Broadcasts
  /\ UNCHANGED historyVars

\* The node, or the client reading the interface, knows of no such function.
Refused ==
  /\ MoreToDo /\ answer = "none" /\ ~HasFunction(Current)
  /\ Throws
  /\ UNCHANGED <<chainVars, mempool, historyVars>>

\* The read fails and counts as "no": isDeployed and isRelayer return false.
ReadFails ==
  /\ MoreToDo /\ answer = "none" /\ ReadsBack(Current)
  /\ Fault
  /\ IF Current[1] = "unseat" THEN Goes(pc + 1) /\ UNCHANGED <<chainVars, mempool>>
                              ELSE Broadcasts

BroadcastFails ==
  /\ MoreToDo /\ answer = "none"
  /\ Fault /\ Throws
  /\ UNCHANGED <<chainVars, mempool>>

Confirmed ==
  /\ running /\ answer = "success"
  /\ Goes(pc + 1)
  /\ UNCHANGED <<chainVars, mempool, historyVars>>

Aborted ==
  /\ running /\ answer = "abort"
  /\ Throws
  /\ UNCHANGED <<chainVars, mempool, historyVars>>

\* 900 seconds pass, or a poll throws: an error, while the transaction lives on.
GivesUp ==
  /\ running /\ answer = "pending" /\ \E i \in DOMAIN mempool : mempool[i].awaited
  /\ Fault /\ Throws /\ Forget
  /\ UNCHANGED chainVars

\* The transaction is in no mempool any more, so 900 seconds will pass.
WaitsInVain ==
  /\ running /\ answer = "pending" /\ \A i \in DOMAIN mempool : ~mempool[i].awaited
  /\ Throws
  /\ UNCHANGED <<chainVars, mempool, historyVars>>

Crash ==
  /\ running /\ Fault /\ Ends("failed") /\ Forget
  /\ UNCHANGED chainVars

\* verifyDeployment and the last lines of circuit-upgrade read the chain back.
Verified ==
  CASE script = "deploy"   -> \A c \in Elements(ContractOrder) : <<"deploy", c>> \in chain
    [] script = "upgrade"  -> version = env.next /\ state = "ACTIVE"
    [] script = "relayers" -> TRUE

Finish ==
  /\ running /\ pc > Len(Plan)
  /\ Ends(IF Verified THEN "complete" ELSE "failed")
  /\ UNCHANGED <<chainVars, mempool, historyVars>>

\* The node mines the account's next transaction: it succeeds or aborts.
Mine ==
  /\ mempool # <<>>
  /\ LET tx == Head(mempool)
     IN /\ IF Accepts(tx.call) THEN Apply(tx.call) ELSE UNCHANGED chainVars
        /\ answer' = IF ~tx.awaited THEN answer
                     ELSE IF Accepts(tx.call) THEN "success" ELSE "abort"
  /\ mempool' = Tail(mempool)
  /\ UNCHANGED <<script, running, pc, env, exit, historyVars>>

\* The node forgets a transaction, and with it those that need its nonce mined.
Drop ==
  /\ \E i \in DOMAIN mempool : mempool' = SubSeq(mempool, 1, i - 1)
  /\ Fault
  /\ UNCHANGED <<chainVars, script, running, pc, env, answer, exit>>

\* The operator reopens a protocol that a failed upgrade left closed.
Reopen ==
  /\ ~running /\ mempool = <<>> /\ state # "ACTIVE"
  /\ LET call == IF state = "PAUSED" THEN <<"unpause">> ELSE <<"complete">>
     IN mempool' = <<[call |-> call, awaited |-> FALSE]>>
  /\ UNCHANGED <<chainVars, script, running, pc, env, answer, exit, historyVars>>

ScriptStep ==
  \/ Skip \/ Broadcast \/ Refused \/ Confirmed \/ Aborted \/ WaitsInVain \/ Finish

-----------------------------------------------------------------------------
\* What a call of the wiring can put in force: not a treasury, for want of the
\* function, and not the placeholder of an unset GENESIS_ROOT.
Feasible(c) == HasFunction(c) /\ c # <<"root", ZeroRoot>>

\* Everything deploy-fresh can put on chain is in force.
Configured == \A c \in Elements(Deploys \o Wiring) : Feasible(c) => c \in chain

\* The operator is satisfied: the last deployment met no fault and passed.
Deployed == script = "deploy" /\ ~running /\ exit = "complete" /\ clean

Redeploy == script = "deploy" /\ ~Deployed /\ RunDeploy

Administer == (script = "deploy" => Deployed) /\ (RunUpgrade \/ RunSetRelayers)

Next ==
  \/ Redeploy \/ Administer
  \/ ScriptStep
  \/ ReadFails \/ BroadcastFails \/ GivesUp \/ Crash \/ Drop
  \/ Mine \/ Reopen

\* The node mines what is pending, a script that runs goes on, and the operator
\* re-runs a deployment that reported an error, swallowed ones included.
Fairness == WF_vars(Mine) /\ WF_vars(ScriptStep) /\ WF_vars(Redeploy)

Spec == Init /\ [][Next]_vars /\ Fairness

-----------------------------------------------------------------------------
(***************************************************************************)
(* "Every step is idempotent: re-running after a partial failure resumes   *)
(* rather than duplicating": whatever earlier runs left on chain or on     *)
(* its way, a run that meets no fault and passes leaves in force all that  *)
(* deploy-fresh can put there; and such a run passes unless it began       *)
(* behind a pending transaction.                                           *)
(***************************************************************************)
CleanRunConfigures ==
  script = "deploy" /\ ~running /\ clean =>
    (exit = "complete" => Configured) /\ (quiet => exit = "complete")

(***************************************************************************)
(* An operator who re-runs until nothing went wrong gets there, transac-   *)
(* tions of abandoned runs that are mined late included.                   *)
(***************************************************************************)
RerunsResume == <>Configured

(***************************************************************************)
(* Replacing the relayers never leaves the verifier without one, wherever  *)
(* set-relayers stops: without a relayer no root is published.             *)
(***************************************************************************)
RelayersNeverEmpty == [][Seated # {} => Seated' # {}]_vars

(***************************************************************************)
(* circuit-upgrade reports "Upgrade complete. Existing notes remain        *)
(* spendable.": verify-proof needs, for every circuit at the live version, *)
(* its key and its zkVerify binding.                                       *)
(***************************************************************************)
UpgradeLeavesNotesSpendable ==
  script = "upgrade" /\ ~running /\ exit = "complete" =>
    \A c \in Elements(Circuits) :
      KeyAt(c, version) # {} /\ <<"bind", c, version>> \in chain

=============================================================================

---------------------------- MODULE MCDeployment ----------------------------
(***************************************************************************)
(* The scripts that act on testnet.  Either the deployment scripts run on  *)
(* an empty chain: six contracts, two circuits, two relayers to seat, two  *)
(* key hashes.  Or a session of at most two driver runs takes place on the *)
(* version-1 deployment, with wallets, and no deployment script runs.      *)
(***************************************************************************)
EXTENDS Deployment, Drivers

CONSTANTS d1, d2, Sessions

VARIABLE session   \* the scripts of the two runs, or "none" while deploying

MCContractOrder ==
  <<"privacy-registry", "note-manager", "protocol-fees", "zk-verifier",
    "privacy-pool", "split-merge-manager">>

MCRefers ==
  [c \in Elements(MCContractOrder) |->
     CASE c = "privacy-registry" -> {}
       [] c \in {"note-manager", "protocol-fees", "zk-verifier"} -> {"privacy-registry"}
       [] OTHER -> {"privacy-registry", "note-manager", "protocol-fees", "zk-verifier"}]

MCCallers == <<"privacy-pool", "note-manager", "split-merge-manager">>
MCCircuits == <<1, 2>>
MCRelayers == <<"r1", "r2">>
MCFees == <<1, 2, 3>>

-----------------------------------------------------------------------------
\* Every script meets another run or a wallet at least once.
Session(first, second, clients) == [first |-> first, second |-> second, clients |-> clients]
MCSessions ==
  {Session("api", "none", 1), Session("split-merge", "none", 1),
   Session("merge", "merge", 0), Session("transfer", "withdraw", 1),
   Session("op-withdraw", "op-lifecycle", 1), Session("op-shield", "op-transfer", 1),
   Session("op-merge", "shield", 1), Session("op-split", "transfer", 0),
   Session("shield", "shield", 2)}
NoSessions == {}

Deploying == Session("none", "none", 0)

\* The deployment's variables, at rest.
AfterDeployment ==
  /\ env \in [key : Keys, next : {FirstVersion}, root : GenesisRoots \ {ZeroRoot}, treasury : {FALSE}]
  /\ chain = Elements(Deploys \o Wiring)
  /\ state = "ACTIVE" /\ version = FirstVersion /\ mempool = <<>>
  /\ script = "deploy" /\ running = FALSE /\ pc = 1
  /\ answer = "none" /\ exit = "complete" /\ clean = TRUE /\ quiet = TRUE /\ faults = 0

\* Two environments: the one with a treasury has no genesis root.  The key
\* hashes of the first deployment are as good as each other.
MCInit ==
  /\ DriversInit
  /\ \/ /\ Init /\ env.treasury = (env.root = ZeroRoot)
        /\ session = Deploying /\ minShield = 10
     \/ /\ AfterDeployment /\ session \in Sessions
        /\ minShield = 10 \/ session.first = "split-merge"
  /\ env.key = (CHOOSE k \in Keys : TRUE)

\* The runs of the session are over, so nothing more needs to happen.
SessionOver ==
  /\ session # Deploying
  /\ \A d \in Runs : \/ Ended(d) /\ run[d].answer # "pending"
                     \/ run[d].verdict = "idle" /\ session.second = "none"

MCNext ==
  \/ session = Deploying /\ Next /\ UNCHANGED <<driverVars, session>>
  \/ /\ session # Deploying /\ DriversNext
     /\ clientOps' <= session.clients
     /\ \A d \in Runs : run[d].verdict = "idle" /\ run'[d].verdict # "idle" =>
          /\ run'[d].script = IF d = d1 THEN session.first ELSE session.second
          /\ run'[d].amount = 10 \/ run'[d].script = "transfer"
     /\ UNCHANGED <<vars, session>>
  \/ SessionOver /\ UNCHANGED <<vars, driverVars, session>>

MCSpec ==
  MCInit /\ [][MCNext]_<<vars, driverVars, session>> /\ Fairness /\ DriversFairness
=============================================================================

# Stacks Shield: a TLA+ verification project

Stacks Shield is a shielded pool on Stacks. A user *shields* STX or a SIP-10 token
by depositing it and registering a commitment (a note), moves value between notes
by *transfer*, *split* and *merge*, and *withdraws* it to any account. A
zero-knowledge proof, verified by zkVerify and included in a published aggregation
root, stands behind each operation. Around the Clarity contracts run a relayer,
an indexer with an API, an SDK in the user's page, and the deployment scripts.

The modules here model all of these: every public function of the contracts,
composed as the contracts call each other; the off-chain services as asynchronous
processes that fail and restart; and the Merkle arithmetic they share.

    tlc -workers 2 -config MCPool_users.cfg MCPool     # any run of section 3
    tlapm ContractProofs.tla                           # and the other *Proofs modules

## 1. The system

| Component | State | Operations | Interacts with | What makes it correct |
|---|---|---|---|---|
| `contracts/privacy-registry.clar` | commitments, nullifiers, roots and current root; counters; lifecycle; versions; limits; owner, nominee, roles, authorised callers | `register-commitment`, `register-nullifier`, `update-root`, `record-*`, lifecycle moves, versions, limits, roles, ownership | written by the pools and the note manager; read by every contract | append-only history, dense leaf indices, counters equal to their maps, lifecycle moved only by those entitled |
| `contracts/note-manager.clar` | a state per note, five counters | `register-note`, `spend-note`, `withdraw-note`, freeze / reactivate / deprecate | calls `record-note-created`; called by the pools | counters equal to the map, ended notes stay ended |
| `contracts/protocol-fees.clar` | fee settings, treasury record, per-type totals, freezes; STX | `calculate-fee`, `collect-fee`, `set-fee`, `withdraw-fees`, freezes | called by the pools; reads the registry's fee ceiling | books balance and are covered, charges below the ceilings |
| `contracts/zk-verifier.clar` | keys, bindings, context, aggregation roots, relayers, accepted statements, counters, freeze | `verify-proof`, `submit-aggregation`, administration | called by the pools; roots posted by relayers | only verified statements accepted, each once; published roots permanent, paths with them until the administrator re-sets context or binding |
| `contracts/privacy-pool.clar`, `split-merge-manager.clar` | five switches; the pool's STX | `shield`, `transfer`, `withdraw`, `split-note`, `merge-notes`, switches | call all of the above in one transaction | solvency, conservation, no double spend, tree equal to ledger |
| `contracts/sip10-pool.clar`, `sip10-protocol-fees.clar`, `sip10-zk-verifier.clar`, `asset-registry.clar` | per-asset totals, limits, fees and treasuries; own keys, circuit version and named pool | the same operations per asset; listing, pricing, delisting | share the registry, the note manager and the tree with the native pool | value stays with its asset, funds covered with a token that skims, delisting traps nothing |
| `zk/circuits` (Noir) | none | five relations over public inputs | proved by users, verified by zkVerify | membership, ownership, conservation, correct insertion |
| `services/relayer` | job queue (memory or BullMQ), one nonce, signed transactions | accept, run, submit, wait, re-broadcast | Stacks node, contracts | a reported outcome is the real one; every job settles; no nonce gap |
| root publisher (`services/relayer/root-publisher`, `submitter`) | seen aggregations | publish to both verifiers | zkVerify; the relayer's transaction manager | every finalized aggregation posted |
| `services/api` | tables, shared cursor | scan, dispatch; wallets register and spend notes | event API, database | no event lost, none counted twice, no row loses what the chain put there |
| `sdk` client | tree, note store, vault and its writes under way | the five operations, discovery, refresh | wallet, relayers, API, chain | declared roots are the proved ones; no note hidden, none lost unless an operation or a vault write failed |
| SDK commitment tree and note scanner | sparse tree, owned notes | insert, prove, witness; sync, select | circuits; event feed | the rebuilt tree is the chain's |
| `scripts/deployment`, `scripts/upgrades` | none between runs | deploy, wire, verify, rotate relayers, upgrade circuits | Stacks node, contracts | a clean run that passes has put in force all that can be; re-runs resume |
| testnet drivers (`scripts/testnet`) | own commitment tree, the root believed live | prove, aggregate, post, call, compare totals | zkVerify, root publisher, the version-1 deployment | a reported pass is a real one; an undisturbed run passes |
| `frontend`, legacy SDK modules | | user interface | | |

What is hard here. Clarity transactions are atomic and run one after another, so
inside the contracts no half-done calls interleave. The difficulty is the *order
of whole transactions*: a proof is built against a root, slot, version, fee and
context that other users, administrators and emergency roles may change before it
is presented; counters in several contracts have to keep agreeing; two pools
insert into one tree; statement replay, nullifier replay and stale roots are
stopped by different contracts. Off chain it is lost answers, expired windows,
retries and restarts; one cursor shared by many scans; awaits between a read and
its use; a page that is closed at the wrong time; scripts that swallow errors.
`PROJECT.json` lists each hazard at its line with the properties about it.

## 2. The modules

| Module | Models | Built on |
|---|---|---|
| `PrivacyRegistry` | privacy-registry.clar | |
| `NoteManager`, `ProtocolFees`, `ZkVerifier` | the contract of that name; ProtocolFees also the STX balances, ZkVerifier also zkVerify and the relayers as environment | PrivacyRegistry |
| `ShieldedPool` | privacy-pool.clar and split-merge-manager.clar over the four above, with the circuits | NoteManager, ProtocolFees, ZkVerifier |
| `ShieldedLedger` | the abstract promise: notes created once and consumed once, value in = value out | |
| `AssetRegistry` | asset-registry.clar | PrivacyRegistry |
| `Sip10Fees` | sip10-protocol-fees.clar, token balances, a token that skims (mock-sbtc.clar) | AssetRegistry, ProtocolFees |
| `Sip10Pool` | sip10-pool.clar and sip10-zk-verifier.clar, beside the native pool | ShieldedPool, Sip10Fees; ZkVerifier a second time, by INSTANCE |
| `TransactionManager` | the relayer's nonce, promise chain and signed transactions; the Stacks node's mempool | |
| `RootPublisher` | poller and submitter publishing aggregation roots | TransactionManager |
| `Relayer` | acceptance, queue, worker, confirmation windows, restart | RootPublisher |
| `Indexer` | the block indexer, its tables, the API's writes to them | |
| `Client` | the SDK client between wallet, relayers, API and chain | |
| `MerkleTrees` | commitment tree and aggregation path, as functions | |
| `NoteScanner` | note discovery by trial decryption | MerkleTrees |
| `Deployment` | deployment, wiring, rotation and upgrade scripts against the chain | |
| `Drivers` | the end-to-end scripts, `apitx-e2e` and the SIP-10 `op` runner on one shared registry | |
| `Sums` | lemmas: sums over finite sets | |
| `ContractProofs` | theorems about the registry, the note manager and the verifier | NoteManager, ZkVerifier |
| `PoolProofs` | the native pool: ledgers, tree and refinement; money, proofs and halts | ShieldedPool, ContractProofs, Sums |
| `TokenProofs` | both pools on one tree | Sip10Pool, PoolProofs |
| `RelayerProofs` | the relayer and the root publishers | Relayer |
| `IndexerProofs` | the indexer and the tables | Indexer |
| `SdkProofs` | the SDK client; the note scanner and the Merkle trees | Client, NoteScanner, Sums |
| `ScriptProofs` | the deployment scripts; the testnet drivers | Deployment, Drivers, Sums |
| `MC*` | instances for TLC | |

### On chain: how state and actions correspond to the code

**State.** A contract's data vars and maps are the variables. A map is a function
on the keys it holds; one whose value is never read back (nullifiers, authorised
callers, roles, accepted statements) is a set. `protocol-statistics` is one
variable per counter.

**Actions.** A public function is an action `F(caller)`: its `asserts!` are
guards, its `var-set`s and `map-set`s the primed variables. A function that other
contracts call is split in two: `FCall(caller, ...)` says what the call does and
requires and constrains only the variables it writes, so that a caller can
conjoin several calls; `F(caller)` is the call made by a principal. A transaction
that calls six functions is one action, the conjunction of the six: Clarity aborts
all of it when one call fails, and so does a conjunction. For the same reason the
order of conjuncts inside a transaction is free where no call reads what another
wrote, and cheap ones come first. A function called twice in one transaction has a
`...PairCall`, its two executions one after the other.

**Callers.** The code authorises by `contract-caller`; every action has the caller
as a parameter. In the composed pools the callers of registry functions are the
contracts themselves.

**Two verifiers, one module.** `sip10-zk-verifier` is `zk-verifier` but for its
caller (one pool, named by the owner) and its circuit version (its own). `Sip10Pool`
instantiates `ZkVerifier` over the SIP-10 variables with those two substituted.

**Tokens.** A transfer moves an amount, fails on zero, on a self-transfer and on a
short balance, and may burn a share while the token skims. Every place where the
SIP-10 contracts compare balances before and after is modelled on these balances.

### Off chain

One action is what runs between two awaits (or up to a throw); everything else may
happen in between. *Relayer:* `submitRaw` is a queue of actors, its head fetches
the nonce, signs and broadcasts; an answer may be lost with the transaction
accepted or not; a window of polls that expires re-sends the same bytes; a restart
forgets what lived in memory and keeps what BullMQ stored. *Indexer:* a scan goes
contract by contract and page by page; each event is one or more statements on the
tables, applied one at a time; a wallet's registration is an update and, when there
was no row, an insert. *Client:* operations, `getNotes` and page refreshes
interleave at their awaits on one note store and one tree object; a vault write is
not waited for and may come late, fail, or find no vault; the wallet's answer may be
lost with the transaction out. *Scripts:* a
list of calls; each is skipped by a read-back, broadcast, and waited for; errors
are swallowed where the code swallows them; a run may crash anywhere, and its last
transaction may be mined during a later run. *Drivers:* a script's plan is the list
of its pool calls (which notes, whose proof, whether a refusal is expected), and one
set of actions carries a plan out: prove against the own tree, wait for the
aggregation, post it, call the pool, poll, compare. Every wait has the deadline of
the code, and a transaction whose driver gave up may still be mined.

### Abstractions and what they assume

* *Hashes are injective.* A commitment is the note it commits to, a nullifier is
  a function of the note, a statement's leaf is the tuple `statement-leaf` hashes,
  an aggregation root is the set of leaves under it, a Merkle root in the pools is
  the tree (slot to commitment), in the client the sequence of leaves, in
  `MerkleTrees` the nested pairs.
* *zkVerify is sound.* In `ZkVerifier` any statement may become verified and
  relayers post only what zkVerify holds. In the pools a statement is presentable
  exactly when its circuit's relation holds (`Provable`); field arithmetic and
  witness layout are not modelled. SIP-10 circuits open a commitment together with
  its asset, so a note of one asset satisfies no statement of another (`Opens`).
* *A user may present any provable statement*, also somebody else's or an old one.
* *The deployed wiring.* `DeployedWith` is the state `wire-contracts.ts` leaves with
  a genesis root set;
  `Sip10Init` adds what `configure-sip10.ts` leaves. `Deployment` is about how that
  state is reached. The registry alone is explored with the owner using every right.
* *The drivers' deployment is version 1.* The scripts send no leaf index and prove
  with `circuit_version = "1"`; they fit the retained version-1 deployment
  (`README.md:29`), where a new root is "asserted", not proven (`CHANGELOG.md:17`).
  Its contracts are not in the repository: what `Drivers` says of them
  (`PoolAccepts`, `Effect`) is external, from what the scripts send and expect. The
  version-2 contracts of `contracts/` are `ShieldedPool` and `Sip10Pool`. Each run
  has its own checkout: the scripts write proofs to fixed paths.
* *Nobody else writes the user's rows.* `registerWalletNote` lets any wallet that is
  signed in replace the wallet and the ciphertext of any row (its comment,
  `queries.ts:236`, says "a note it owns"; nothing compares). `Indexer` has two wallets
  do that; `Client` assumes that the rows of the user's notes are written by the user.
* *Left out because nothing depends on it:* block heights, printed events,
  read-only functions, owner commitments and metadata, names and decimals of
  assets, the HTTP layer of relayer and API, logging.
* *Clarity `uint`s* abort on overflow and underflow; sums are bounded by the supply
  ceiling, and subtraction is guarded as in the code.

### Fairness

Contracts have no scheduler, so nothing is assumed of users and administrators and
what is owed to them is stated as a possibility: `UnspentNotesRedeemable` and
`TokenNotesRedeemable` say that a withdrawal is *enabled*. The services loop, and
that is the fairness assumed of them:

* relayer: the worker's loop takes a step when it can, a broadcast that is due is
  made, a publisher in `publishRoot` goes on, and the node mines what it keeps
  (`WF` of `WorkerStep`, `Send`, `PublishStep`, `MineNext`). Losses, evictions and
  restarts are bounded by `MaxIncidents`; a client need never post anything;
* indexer: the poll re-arms itself and a scan goes on (`WF` of `ScanStep`), blocks
  are mined and become listed;
* deployment: a script that runs goes on or gives up, the node mines, and an
  operator re-runs the script until a run reports no failure (`Redeploy`), which is
  what the scripts ask of operators;
* drivers: a script that runs goes on and its waits end at their deadlines (`WF` of
  `DriverStep`). Nothing is assumed of zkVerify, of the chain or of others, so
  `UndisturbedRunsPass` excuses a run whose deadline passed.

## 3. The runs

| Run | Question | Instance and bounds |
|---|---|---|
| `contracts` | Do registry, note manager and verifier, each driven on its own by everyone entitled and not, keep their books and their history? | four scenarios: `ledger` (writes, versions, limits lowered to 1), `admin` (three principals, one the burn address; role numbers 0..5, two invalid; limits and ceilings above and below), `notes` (three notes, capacity 1 to 3, a version upgrade), `verifier` (one statement under two contexts, two keys, two aggregation ids, versions 2 and 3) |
| `pool_users` | Do five operations in any order keep tree, three ledgers, value and proofs together, leave every note redeemable and implement the abstract ledger? | four notes 2 = 1 + 1 = 2 in a tree of four slots: shields, splits, merges, transfers and withdrawals all reach |
| `pool_governance` | Is each halt complete, an upgrade without circuits inert, every account covered and no charge above the ceilings? | three scenarios: `incident` (three notes, lifecycle, roots, freezes, five switches), `upgrade` (two notes, circuit version 2 to 3, two contexts, capacity lowered to 1), `treasury` (two notes of 3, flat and percentage fees, a ceiling lowered under a stored setting, payouts, STX sent to the contracts) |
| `tokens` | Does value stay with its asset on the shared tree, is every fund covered, can delisted notes leave, and is a SIP-10 halt complete? | `assets`: a native note, two notes of one token, one of a token that skims; `halts`: three token notes with a split and a merge; any operations around two administrative steps (`MaxChanges`) |
| `relayer` | Do jobs settle with true outcomes and roots land, on one nonce sequence? | two jobs for one operation, or a job with a fresh aggregation and both publishers; both queue drivers, two attempts, one re-broadcast, two incidents |
| `indexer` | What can an event's statements lose or count twice? | three transactions on several contracts, one event per page, two pages per scan, overlap 1, lag 1, heights up to 4, one incident; two wallets registering one note; two indexers |
| `sdk` | Are records and declared roots true, are notes lost only by a failure; does the tree prove what it should? | the pairs shield+withdraw (with a stranger's note), split+transfer, merge+withdraw (with a vault or without), a feed of three rows, one fault; or the scanner: four notes, three of them mine and two of these of equal amount, depth 3, two overlapping calls, aggregations of 1 to 11 statements |
| `deployment` | Does a clean run put in force all that can be, and do re-runs get there? Is a driver that reports a pass right, and does every undisturbed run report one? | deployment: six contracts, two circuits, two relayers, two key hashes, two environments (a genesis root and no treasury; the default root and a treasury), three faults, versions up to 4; drivers: nine sessions of at most two runs and two wallet operations, together every script, amounts 10 and 20, minimum shields 3 and 10 |

Why the bounds are enough. Every guard of the contracts is met from both sides in
some run; two-input and two-output operations need three notes, and re-merging a
split needs four. Two jobs on one operation are the smallest instance of a retry
that meets its own transaction; two incidents suffice for a lost answer followed by
a restart. An overlap of 1 with a lag of 1 is the tightest the code's 3 stands for,
and two pages of one event make a backlog that the page cap cuts. Two runs are
enough for one to move the root under the other, and equal seeds make them collide. Eleven statements
include every shape of an odd level up to four levels. Two operations are what one
shared tree needs to be declared stale, and a feed of three rows overflows.
`MaxRecords` caps two counters nothing else bounds. In the proofs all constants are
arbitrary.

Four runs end in a violation; each states what the repository says and shows a
behaviour of the code that contradicts it:

| Run | Statement | What the code does |
|---|---|---|
| `indexer_commitments` | `/commitments` serves "All on-chain commitments in leaf-index order" (`docs/api-reference.md:46`) | a contract whose scan fails is only logged while the shared cursor moves on; its events fall behind the overlap for good (`block-indexer.ts:98`) |
| `client_lost_note` | "a failed API write (or a page refresh) can never lose a note" (`sdk/src/vault.ts:4`) | outputs are stored only after the relayer's confirmation; a refresh in between loses their secrets (`STXShield.ts:453`) |
| `deployment_upgrade` | "Upgrade complete. Existing notes remain spendable." (`circuit-upgrade.ts:133`) | the script registers keys and no zkVerify binding for the new version; every operation then fails |
| `tokens_trapped` | "Any known asset, in ANY status -- funds are never trapped by governance." (`asset-registry.clar:196`) | deprecation freezes a withdrawal fee that may exceed what the notes are worth, and the pool refuses a fee not below the amount |

### The properties

*Contracts alone.* `RegistryConsistent`: types, capacities, dense leaf indices,
spends within commitments, totals within supply, roots, versions, nominations.
`NotesExact`, `AcceptanceExact`: counters equal the maps; what was accepted was
verified, once. `HistoryAppendOnly`, `GovernanceMoves`, `NoteMoves`: what no step
may do. `PublicationIsPermanent`: posted roots, accepted statements and key hashes
stay, and a path that verifies is taken back only by a step that re-sets the context
or the binding.

*Pool.* `LedgersExact` has two parts. `LedgersMatch`: every root ever published
holds the registered commitments, each at the index its registration returned, and
three ledgers name the same notes. `TotalsFollowNotes`: the shielded total is the
value of the unspent notes, each nullifier that of one registered note.
`ProofsAccountForEffects`, `UnspentNotesRedeemable`, `FundsBacked`,
`MoneyMovesExactly`; `HaltsAreComplete`, with `NoCircuitNoMovement` as a part.
`ImplementsLedger`: the pool refines `ShieldedLedger` under
unspent = registered notes whose nullifier is not consumed, total =
`total-shielded-stx`.

*Both pools.* `EveryAssetConserved`, `EveryFundBacked`, `TokenNotesRedeemable` (a
delisted asset's note can be withdrawn unless its fee is not below its amount, or
cannot be collected), `TokenHaltsAreComplete`.

*Relayer.* `NonceDiscipline`, `ExtraTransactionsNeedALostAnswer`,
`ConfirmedIsApplied`, `OutcomesAreFinal`; liveness `AllJobsSettle`, `RootsLand`.

*Indexer.* `OnlyGapsLoseEvents`, `TablesExact`; `RowsOnlyGrow`: a row keeps what the
chain put there, its spent mark and a claim, and a registration over another replaces
the claim alone; liveness `EventuallyIndexed`. *SDK.* `RecordsAreTrue`, `SpentStaysSpent`,
`DeclaredRootsAreProved` (a shield's current root comes from the chain and is the
proved one or extends it), `NotesLostOnlyByFailure` (the operation failed after its
hand-over or died with its page, or a vault write of the note failed or found no
vault); `ScannerExact` and `TreesProve` (`PathsProve` and `AggregationsProve`) against
reference definitions.

*Deployment.* `CleanRunConfigures`: a deployment that met no fault and passes has in
force all that deploy-fresh can put there, and it passes unless it began behind a
pending transaction. What cannot be put in force (`Feasible`) is the treasury, for
want of the function, and the placeholder root, which the registry refuses.
`RelayersNeverEmpty`; liveness `RerunsResume`. A deployment *with* faults may pass
without being configured: see the divergences.

*Drivers.* `PassedRunsAreRight`: what a run that passed says of its notes and
refusals is so, and each pool holds what its unspent notes are worth. `RootsKeepUp`:
the live root commits to every registered note unless a driver that joined a
non-empty registry, or `e2e-shield`, declared it, and every other unspent note stays
under some known root. Liveness `UndisturbedRunsPass`: every run ends, and passes
unless it was doomed from the start, met a fault, or another actor got in its way.

Things the runs make visible. A new context or binding gives an old statement a new
leaf, so the verifier can accept the same proof twice; what stops the second effect
is the registry, and `TotalsFollowNotes` holds with it. The memory queue loses its
jobs on a restart and then answers 404: `AllJobsSettle` counts that as settled.
`DeclaredRootsAreProved` holds unconditionally only for split and withdraw, and
`ScannerExact` only while one sync runs at a time; they say so, and the divergences
name the rest. A relayer job answered
`failed` may have an applied transaction (`relayer-service.ts:142` after an expired
window): `ConfirmedIsApplied` is about confirmed answers only. A transaction the node
reports dropped is rolled back like a reverted one (`STXShield.ts:659`) though it may
still be mined; `NotesLostOnlyByFailure` counts that among the failed operations.
Without a vault, and without being signed in, a shield's note lives in the page
alone.

### Divergences noted without a run

The models of the first six take the step in question, and the properties they
touch are stated so as to allow it and nothing more.

* "an inclusion path that verifies today verifies forever" (`zk-verifier.clar:131`):
  the leaf is computed from the context and the binding, which the administrator may
  re-set to any value (`zk-verifier.clar:622`, `:653`); line 110 says keys are
  corrected "never by mutation". `PublicationIsPermanent` excepts those two steps.
* syncTree "Must run before any op so membership proofs and roots match the live
  root." (`STXShield.ts:214`): shield declares the root it fetches from the chain and
  proves from the tree the API served (`:363`). The two are never compared and differ
  while the index trails, with one operation as with many; the pool then refuses the
  deposit. `DeclaredRootsAreProved` says only that the first extends the second.
* "so a phantom deposit can never appear as spendable funds" (`vault.ts:36`): shield
  registers its ciphertext before it broadcasts (`STXShield.ts:368`) and a rollback
  does not take it back; the next discovery lists the reverted deposit's note.
* "Incremental sync. Safe to call repeatedly; resumes where it left off."
  (`sdk/note-discovery/index.ts:75`): a second call under way inserts the same leaves
  again and the tree is wrong for good (`:77`). `ScannerExact` excepts overlaps.
* "configure fees and the treasury" (`wire-contracts.ts:11`): the call at line 150 is
  of `set-treasury`, which `protocol-fees` does not define; its failure is printed as
  "treasury already set" (`:155`). `Accepts` refuses it, `Feasible` leaves it out.
* Verification "asserts the protocol is configured correctly"
  (`verify-deployment.ts:4`): any wiring error is swallowed as already done
  (`wire-contracts.ts:59`, `:92`, `:108`, `:126`, `:140`), and verification asks only
  whether the contracts exist and answer (`verify-deployment.ts:28`), so a run that
  met a fault may pass unconfigured. `CleanRunConfigures` excepts those runs.
* "The owner never appears in the role map" (`privacy-registry.clar:1221`): a role
  holder who is nominated and accepts keeps its roles.
* "every protected or administrative mutation is rejected from then on"
  (`privacy-registry.clar:915`): roles, the allowlist, ownership and root flags still
  move after deprecation.
* "A frozen note cannot be spent or withdrawn" (`note-manager.clar:455`): the pools
  name only a nullifier and never ask the note manager.
* "pool STX balance == registry total-shielded-stx, always" (`privacy-pool.clar:57`),
  its counterparts at `protocol-fees.clar:109`, `sip10-pool.clar:40` and `:106` and
  `sip10-protocol-fees.clar:76`: anyone can send STX or tokens to a contract, and a
  skimming token delivers less fee than is booked. The inequalities that matter are
  `FundsBacked` and `EveryFundBacked`; the treasury of a skimming token is exempt.
* `configure-sip10.ts:17` calls itself safe to re-run, but recognises "already done"
  by an error code in the message (`tolerant`), which `waitForConfirmation` does not
  put there; its code for a seated relayer is also not the contract's (u568). A
  re-run stops at its first step.
* The client asks the feed for 1000 rows and the API answers at most 200
  (`services/queries.ts:37`): a note only the feed can bring back can fall out of it.
* A deployment re-run with changed keys keeps the old ones. One whose environment sets
  no `GENESIS_ROOT` never has a root: the default (`config.ts:75`) is the zero hash,
  which `update-root` refuses, and the refusal is printed as "genesis root already
  set" (`wire-contracts.ts:73`).
* `README.md:318` lists the "real-proof op runner"; `sip10/op.ts` and the `e2e-*`
  scripts still prove with `circuit_version = "1"` and without the insertion
  witness, which the circuits of this commit refuse.
* `e2e-split-merge.ts:312` shields 0.3 STX; `e2e-merge.ts:164` notes that the
  deployed minimum is 1 STX, so the run stops there (`Doomed` in `Drivers`).
* `e2e-withdraw.ts:72` rebuilds a 1-STX note whatever amount the transfer was run
  with; after any other amount its root is unknown to the registry.

## 4. The proofs

Proved for every value of the constants (principals, staff, hashes, note ids,
amounts, tree sizes, statements, tokens, jobs, aggregations, limits, inputs, and
bounds such as `MaxRecords` and `MaxIncidents`). A theorem is `Spec => []P` or
`Spec => P` for a property P that a run checks, or for one of its named parts.

| Module | Theorem | Property |
|---|---|---|
| `ContractProofs` | `TypeCorrect` | `RegistryTypeOK` |
| | `CapacityHolds` | `CapacityRespected` |
| | `SpendsBounded` | `SpendsWithinCommitments` |
| | `ShieldedBounded` | `ShieldedWithinSupply` |
| | `NominationSound` | `NominationIsToAnother` |
| | `HistoryPreserved` | `HistoryAppendOnly` |
| | `LeavesAlwaysDense` | `LeavesDense` |
| | `RootsConsistent` | `RootsAndVersionsConsistent` |
| | `VersionsMonotone` | `VersionsOnlyGrowInUpgrade` |
| | `DeprecationFinal` | `DeprecatedIsTerminal` |
| | `HighStakesOwnerOnly` | `HighStakesMovesAreTheOwners` |
| | `RegistryAlwaysConsistent` | `RegistryConsistent` |
| | `GovernanceHolds` | `GovernanceMoves` |
| | `NoteCountsHold` | `NoteCountsExact` |
| | `NoteTotalsHold` | `NoteTotalsAgree` |
| | `NoteEndsFinal` | `NoteEndsAreFinal` |
| | `HaltedNotesKeep` | `NoConsumptionWhileHalted` |
| | `NotesAlwaysExact` | `NotesExact` |
| | `NoteMovesHold` | `NoteMoves` |
| | `AcceptanceSound` | `AcceptedWasVerified` |
| | `PublicationStays` | `PublicationIsPermanent` |
| | `AcceptanceAlwaysExact` | `AcceptanceExact` |
| `PoolProofs` | `LedgersAlwaysExact` | `LedgersExact` |
| | `PoolImplementsLedger` | `ImplementsLedger` (refinement of `ShieldedLedger`) |
| | `FundsAlwaysBacked` | `FundsBacked` |
| | `MoneyAlwaysMovesExactly` | `MoneyMovesExactly` |
| | `EffectsAlwaysProved` | `ProofsAccountForEffects` |
| | `HaltsAlwaysComplete` | `HaltsAreComplete` |
| `TokenProofs` | `EachAssetIsConserved` | `EveryAssetConserved` |
| | `SharedLedgersExact` | `LedgersExact`, with the SIP-10 pool on the same tree |
| | `EveryFundAlwaysBacked` | `EveryFundBacked` |
| | `TokenHaltsAlwaysComplete` | `TokenHaltsAreComplete` |
| `RelayerProofs` | `NonceNeverSkipsOrCollides` | `NonceDiscipline` |
| | `ExtraTransactionsAreAccountedFor` | `ExtraTransactionsNeedALostAnswer` |
| | `ConfirmedJobsAreApplied` | `ConfirmedIsApplied` |
| | `OutcomesStay` | `OutcomesAreFinal` |
| `IndexerProofs` | `NoEventIsLostButInGaps` | `OnlyGapsLoseEvents` |
| | `TablesAlwaysExact` | `TablesExact` |
| | `RowsAlwaysGrow` | `RowsOnlyGrow` |
| `SdkProofs` | `RecordsAlwaysTrue` | `RecordsAreTrue` |
| | `SpentNotesStaySpent` | `SpentStaysSpent` |
| | `DeclaredRootsAlwaysProved` | `DeclaredRootsAreProved` |
| | `NotesAreLostOnlyByFailure` | `NotesLostOnlyByFailure` |
| | `ScannerAlwaysExact` | `ScannerExact` |
| | `TreesAlwaysProve` | `TreesProve` |
| `ScriptProofs` | `RelayerInvariant` | what set-relayers has seated and what may still drop the deployer |
| | `VerifierKeepsARelayer` | `RelayersNeverEmpty` |
| | `DeployInvariant` | what a run of deploy-fresh has in force |
| | `CleanRunsConfigure` | `CleanRunConfigures` |
| | `DriversInvariant` | what a driver's step, tree, root and calls in flight rest on |
| | `RunsThatPassAreRight` | `PassedRunsAreRight` |
| | `RootsAlwaysKeepUp` | `RootsKeepUp` |

### Which specification

The runs look at slices: `PoolSpec` is users only, the scenarios of `MCGovernance`
users with one group of administrators, `MCTokens` a bounded number of
administrative steps around the operations. The theorems are about everything at
once. `SystemSpec` (in `ShieldedPool`) has the users and all the staff: incidents,
upgrades, fee settings, payouts, plain STX transfers. `OperatedSpec` is the same
without the money around the pool; `HaltsAlwaysComplete` is about it, because
setting a fee ceiling or paying out fees is no operation of the pool and is not
halted with it. `TokenSystemSpec` (in `Sip10Pool`) is `SystemSpec` on the native
contracts, the five SIP-10 operations, listing, pricing and payouts of assets,
incidents and upgrades of the SIP-10 contracts, and tokens that move and skim. A
slice starts in an initial state of these and takes only their steps. What
the slices need not know, that the argument does not depend on how many
administrators act between two operations, is what the theorems add.

### Assumptions

All are `ASSUME`s of the modules, evaluated by TLC in every run.

* Registry and verifier: the deployer is a principal and not the burn address,
  `None` is nobody, the zero hash is a value of each hash type, ceilings are
  naturals, the default limits are well formed, inputs have their types. Staff are
  the deployer and the operator, and no call by a person is signed by a contract
  (`StaffAssumption`); the contracts are distinct from users and from each other.
* Notes: each commitment opens to one amount, asset and nullifier, and nullifiers
  do not collide (`NotesAssumption`): hashes are injective.
* Tokens: finitely many, none of them the native asset; fee inputs have Clarity's
  types; the two contracts of the SIP-10 pool are principals of their own and start
  with an empty treasury; a skim is below the whole (`mock-sbtc.clar`).
* Relayer: distinct actors, finitely many calls, at least one attempt, a sentinel
  is not a value. Nothing is assumed of losses, drops and restarts except that each
  is counted.
* Indexer: each log of the chain lists a contract's events in the order of their
  heights (and with it no transaction is undone by a reorganisation), and the event
  API trails the tip by at most the overlap (`Lag` in `0..OVERLAP`): the code
  re-reads three blocks, and an API that trails further loses events by itself. Page size and page limit are positive.
* Client: a commitment hashes a fresh random secret, so no two operations and no
  stranger make the same note (`FreshCommitments`); a shield has one output, every
  other operation an input.
* Scripts: the lists hold what they hold (finite sequences), the contracts are
  listed in dependency order, as `config.ts` says of its list, and set-relayers is
  given at least one relayer and not the deployer, since it throws otherwise. The
  environment is any: every genesis root, the default too, with a treasury or without.
* Trees and scanner: the feed and the statements are finite sequences without
  repetition that fit their trees. Amounts are any naturals; `TieOf`, an arbitrary
  injection, is the order in which the sort leaves notes of equal amount. `PowersOfTwo` (`2 ^ l = 2 * 2 ^ (l - 1)`) is
  arithmetic that the provers do not know and TLC evaluates.

zkVerify enters through `Provable`: what verifies satisfies its circuit's relation.

### The arguments

* *Registry, invariants.* `RegistryTypeOK` is inductive on its own: one lemma per
  group of functions, and two lemmas on what inserting into a map does. The next
  four are proved together by `Counters`, their conjunction with the types:
  capacity needs the types of the limits, the bound on spends needs that the counter
  equals the cardinality of the set, and `withdraw`'s subtraction stays a natural
  only under the type invariant.
* *Registry, steps.* Four frame lemmas say what each group of functions leaves
  alone; history and versions then need only the functions that write them, and
  `OwnersMoves` follows for each function from its own authorisation. `LeavesDense`
  and `RootsAndVersionsConsistent` are inductive over the types: a new leaf is the
  counter's value, which no earlier leaf has.
* *Notes.* `NoteBooks`, the types with both counter properties, is inductive; the
  types depend on the counts and the counts on the types.
* *Verifier.* `AcceptedWasVerified` needs the strengthening `Sound`: published
  leaves were verified, because acceptance looks only at what is published.
* *Sums.* `TotalsFollowNotes` and `EveryAssetConserved` speak of the value of a set
  of notes, a fold that picks elements in some order. The module `Sums`
  shows that this fold exists on every finite set, satisfies its equation and does
  not depend on the order (`FoldExists`, `FoldUnique`, `SumStep`, `SumRemove`), by
  the smallest counterexample under strict inclusion.
* *Native ledgers.* The inductive invariant is `LedgerInv`: `LedgersExact` with
  `TreeTyped` (indices were handed out below the counter, registered roots are
  trees, the current root is registered) and the nullifier counter's type. Without
  `TreeTyped` an insertion could overwrite a leaf. Each operation is first reduced
  to what it registers (`Registers`: the slot a proof names is the next free one,
  because the new root must agree with the old at every other slot) and what it
  moves (`Moves`: the inputs are unspent notes of the asset, since a root's leaves
  are registered commitments and nullifiers are injective). The invariant then
  needs one lemma for moves and one for insertions, not five of each.
* *Refinement.* Under unspent = registered notes whose nullifier is not consumed
  and total = `total-shielded-stx`, a deposit, a reshape and a payout are the three
  steps of `ShieldedLedger`, and every administrative step is a stutter
  (`MovesAreSteps`, `StaffFrame`).
* *Money.* `FundsInv` is `FundsBacked` with the types of the fee settings and two
  facts its step needs: stored flat fees are below the ceiling and the shielded
  total is a natural. Each operation reduces to `UserPays` or `PoolPays`: one
  balance sheet with three entries changed and the treasury's books moved by the
  same fee. `MoneyMovesExactly` is a consequence of the same two forms.
* *Proofs behind effects.* `EffectsInv` adds to `ProofsAccountForEffects` that
  counters are naturals and the accepted statements finite, so that an acceptance
  raises the count of its own type by one and of no other (`AcceptedAfter`).
* *Halts.* Each operation accepts a statement of its type (`StatementAccepted`),
  acceptance reads the switch, the freeze, the state, the current root and the
  version, and no staff step moves what is halted.
* *Both pools.* `TokenLedgerInv` is `LedgerInv`, `AssetTable` and `TokenTotals`.
  `AssetTable` is why assets cannot mix: ids are handed out without gaps and
  assets and ids are inverse to each other, so no two assets share a token.
  `TokenTotals` adds that notes exist only of listed tokens and that an id not yet
  given has a zero total: a listing thereby starts a ledger that is already exact.
  `AssetMoves` generalises `Moves` to any asset, so a native operation is a step
  that leaves every token's notes alone and a SIP-10 one leaves the native notes
  and every other token's alone.
* *Token money.* `TokenMoney` is the two SIP-10 conjuncts of `EveryFundBacked` with
  the types of fees, books and balances, the skimming tokens being among those that
  can, and an empty treasury for ids not given. A withdrawal leaves the pool lower
  by exactly the amount whatever is skimmed, a deposit is refused unless all of it
  lands (`Landed`), and other assets' balances are in other tokens; `SipPays` says
  that for all five operations.
* *SIP-10 halts.* The verifier's instance puts its own circuit version into the
  registry's version record, so the argument needs that the record has that field
  (`VersionsNamed`), which is inductive.
* *Relayer.* `RelayerInv` has ten parts. Its heart is `GapsAreDrops` (for every
  nonce ever reached, what is below and held by nobody is at most what the node
  dropped) and `CounterLeads` (while nothing went wrong, the counter is above every
  nonce in use). Both need `Turns`: only the head of the promise chain has signed,
  and under the counter's value; and that in turn needs that no actor is in line
  twice. `Budget` counts the nonces of an operation against its jobs that can no
  longer sign, the lost answers and the restarts. `Places` (a job is queued, with
  the worker, or done with) is what makes a retry not a second job.

* *Indexer.* `IndexerInv` says with `Coverage` what a scan under way has read: an
  event of a contract it is past, listed and newer than where the scan began, is
  stored or in a gap; of the contract it is reading, what lies above the page
  reached is stored or among the statements due. Only with the pages tied to
  offsets of the chronological log does the next cursor, the tip less the overlap,
  promise anything of what lies below it. `FeesOK` counts fees: those counted and
  those still due are at most the recorded transactions with a fee, which are at most
  those and the incidents, across the statements that one indexer has due and another
  has already made. `RowsOnlyGrow` follows from the types and from what each statement
  writes (`RowWritten`, `RowKept`, and `ClaimKept` for a registration over another), with
  no assumption on who writes when.
* *Client.* `ClientInv` rests on `Origins` (every commitment on chain is from the
  vault's past, a stranger's, or the output of a transaction that succeeded; a spent
  note is on chain), `Fates` (where an operation is tells what can have become of its
  transaction), `Marks` and `Kept` (what the store, the vault and the feed may say,
  and why an unspent note may be in none of them: each write under way or failed is
  accounted for) and `RootsAgree` (what an operation
  computed from the tree object before its last await). The loss of notes needs all
  of them: that a note is in none of the page's records has to be traced to the
  operation that made it.
* *Trees.* The recursive functions of `MerkleTrees` rise level by level; one lemma
  (`RiseIs`) gives each of them the equation it is defined by, and another
  (`FoldLeftIs`) does so for the two folds. What is then shown of every level is shown
  by the smallest level that fails. *Commitment tree:* `Holds`, that every stored or
  absent node is that of the full tree over the leaves, survives an insertion because
  two sequences that differ in one slot have trees that differ only above it
  (`OneSlot`, `SetLeafHolds`). From `Holds` a path folds its leaf to the root
  (`PathFolds`), no other leaf since hashes are pairs (`PathBinds`), and its sides
  spell the slot (`PathSpells`). *Aggregation tree:* a carried node has no sibling, so
  the contract's position falls behind the real one; but then both stay at the end of
  their levels, where merkle-step hashes on the same side (`AtPlace`, `FollowUp`).
* *Scanner.* `ScannerInv` has `TreeIsFull`, that the tree holds its leaves, under any
  interleaving, and `Follows`, which holds while no two calls overlapped: one call is
  under way at most, and the notes it waits for continue the tree. A selection is
  minimal because as many notes as were taken before the last are worth at most what
  those were (`LargestAreWorthMost`, `LargestFirst`).
* *Scripts, relayers.* The call that drops the deployer may be mined in a later run,
  so the invariant speaks of the mempool: whoever sent it, all of the list is seated
  (`SeatedInOrder`). That needs `Waiting`: a script has one transaction out at most,
  and it is the call it is at.
* *Scripts, deployment.* The invariant `FreshDeployment` is about every run before
  the first that passes: the chain and the mempool hold only calls of the one plan,
  and a run that met no fault has in force what it is past and can be
  (`InForceBefore`). The order of the plan is what makes it hold: an aborted call was
  in force already (`Swallows`), or a call it refers to was missing, which the plan's
  order excludes (`DeployPlanOrder`). `QuietRun` adds, of a run that began with nothing
  pending, that its own transaction is the only one out: no deploy can then abort, so
  the run reaches its end.
* *Drivers.* Of the twelve plans one fact is proved, once each (`PlansSound`): they are
  made of steps that keep the value, a forged one is expected to be refused, and all
  but e2e-withdraw's open with a shield. `DriversInv` then says of a run that the
  steps behind it took effect (`Progress`), that its tree is its root's leaves or one
  call ahead of them (`Tracking`), and of any call in flight, of a run that ended
  too, that it is sound if mined (`Mineable`). The roots keep up because a run that
  found the registry empty builds on a root that, should it be live, commits to every
  note (`Kept`): others may have moved the live root, but then the registry refuses
  the call. The balances are sums over notes (`WorthMoves`).

### What stays with TLC

* *Liveness under fairness*: `AllJobsSettle`, `RootsLand`, `EventuallyIndexed`,
  `RerunsResume`, `UndisturbedRunsPass`. The installed prover handles no WF.
* *ENABLED*: `UnspentNotesRedeemable` and `TokenNotesRedeemable`.
* *The statements of the violation runs* (`FundsNeverTrapped`,
  `UpgradeLeavesNotesSpendable` and the others) are false, which is what those runs show.


## 5. Not modelled, and the plan

Not modelled: the user interface; read-only routes, sessions and authentication of
the API (plain I/O); the superseded SDK modules; in the drivers, the witnesses that
must fail to prove, the funding of users and the reports; `sdk-e2e` and `apie2e.ts`,
straight-line calls of the client and the API; key generation, hashing and field arithmetic; minting of test
tokens; the SIP-10 deployment scripts and `validate-testnet`. `NoteScanner` is used
by the repository's tests only; the client discovers notes in its own way, which
`Client` models.

Next: the SIP-10 deployment scripts in `Deployment`, with the re-run described in
section 3, and the second half of the drivers' witnesses.

# ClawChain: TLA+ models, checks and proofs

ClawChain is a proof-of-availability chain whose miners are AI agents. The code
in this repository is three systems that meet in one place: an off-chain *mining
service* (Python, FastAPI, Postgres) that runs tasks, scores them and decides
rewards; *game services* (Go) whose results feed the rewards; and a *Cosmos SDK
chain* (Go) on which every batch of rewards is anchored by a root hash. This
directory models the core of that path, from a miner's forecast or a completed
poker hand to the anchor on the chain, checks the models with TLC and
proves their safety properties with TLAPS.

## 1. Inventory

| Component | State it keeps | Operations | Talks to | What is hard | What makes it correct |
|---|---|---|---|---|---|
| `x/settlement` (chain) | anchors by batch id, authorized submitters | `MsgAnchorSettlementBatch`, genesis export and import | the mining service through transactions | repeated and conflicting messages, restarts from genesis | one anchor per batch for good; a repetition is harmless |
| Anchoring (`forecast_engine.py`, `chain_adapter.py`, `server.py`) | `reward_windows`, `settlement_batches`, `anchor_jobs` | build window, sync batch, rebuild, retry anchor, submit, broadcast, confirm, mark failed, sweep | the node's RPC and command line, `x/settlement` | unlocked asyncio tasks, awaits between read and write, lost answers, dropped transactions, crashes | "anchored" is never a false report; roots do not change |
| Forecast settlement (`_settle_due_tasks`, `_release_matured_holds`) | task, submission, hold and miner rows | settle due tasks, count participation, release holds | price source | several loops, one transaction per row, crash between two of them | books agree; nothing is lost; due tasks get settled |
| Submission (`commit_submission`, `reveal_submission`, `register_miner`) | miners, submissions, risk cases | register, commit, reveal, cluster refresh, override | miners' clients | check-then-write over awaits, repeated requests, units that change under a task | reveal binds to commit; one eligible reveal per economic unit |
| Poker MTT evidence (`forecast_engine.py` 3875-4198) | hand events, queue checkpoints, conflicts, dead letters, manifests | ingest a hand, record a failure, build manifests | message queue, donor game server | deliveries repeated and out of order, a crash between two writes, a build while hands arrive | nothing acknowledged is lost; usable evidence contradicts no acknowledged hand |
| Poker MTT rewards (`forecast_engine.py` 3425-3874, 4199-4778) | final rankings, hidden evaluations, results, windows, projections, budget ledgers, batches | project, apply a result, build daily and weekly windows, reconcile | anchoring | results projected again after payment, windows that share a budget, a crash between window and ledger | payments add up, stay within the budget and, once anchored, stay |
| Repositories (`repository.py`, `pg_repository.py`) | every table of the service, twice: in Postgres, and in memory for the tests | about 40 saving and updating methods | all of the service | methods of several statements that interleave; differences between the two | what the tests show on the Fake holds on Postgres |
| Legacy epoch mining (`epoch_scheduler.py`, `rewards.py`) | epochs, challenges, rewards | epoch loop, settle, reward, halve | the chain | - | dead code: it imports `get_db`, `get_global` and `set_global`, which `models.py` no longer defines |
| `x/reputation` (chain) | scores, delta controllers, receipts of deltas | apply a delta, genesis export and import | `x/settlement` (is the batch anchored) | repeated and conflicting delta ids, int32 sums, restarts from genesis | a delta counts once, from an anchored batch, in its own direction |
| `x/challenge` (chain) | miner rows, challenge rows, pending rewards, the module's pool | REST handlers (answer, commit, reveal, register), begin and end block | bank | HTTP goroutines and blocks write one store without a lock | a reward has a majority behind it and is paid once it can be |
| `x/poa` (chain) | miners, stakes | messages | - | - | its message server is registered nowhere: not reachable |
| Arena (`arena/`, Go) | tables, hands, tournaments, ratings | table actor, hub, gateway, runtime, recovery, rating | Postgres, agents | actor mailboxes, deadlines against late actions, replay after a restart | chips conserved, commands applied once |
| Poker MTT control (`pokermtt/`, Go) | Redis rankings, tournaments | finalizer, orchestrator, sidecar client | Redis, donor server | a ranking that is read while it changes | a final ranking is stable and complete |
| Miner client (`skill/scripts/mine.py`; also `miner/`, Go) | a log file | forecast, commit, reveal, log, serially or in a pool of threads | mining service, a language model | lost answers, late requests, a process that is killed, threads that rewrite one file | every accepted commit is revealed; the log is true and complete; a forecast favours neither side |
| Market data, authentication, app wiring, scripts, website | caches, configuration | - | external services | - | not protocol state |

## 2. Modules

| Module | Models | Kind |
|---|---|---|
| `SettlementChain` | `x/settlement` keeper and message server | component |
| `AnchorPipeline` | anchoring of one settlement batch; EXTENDS `SettlementChain`, whose message handler it calls when the node runs a transaction | composition |
| `AnchorPromise` | what a reader of the job rows may rely on | abstract specification |
| `ReputationLedger` | `x/reputation` beside `x/settlement`; EXTENDS `SettlementChain`, whose anchors it reads | composition |
| `ChainMining` | `x/challenge`: REST handlers against blocks | component |
| `ForecastSettlement` | paying due tasks and releasing holds | component |
| `ForecastSubmission` | registration, clustering, commit, reveal, risk cases | component |
| `PokerEvidence` | ingestion of completed hands, manifests | component |
| `PokerRewards` | results, reward windows, budget ledgers and their batches | component |
| `PostgresTables`, `FakeTables` | for every table, how each method of the two repositories writes it, and which columns | data |
| `Repositories` | the two repositories under the same interleaved calls; INSTANCEs both tables | composition |
| `MinerForecast` | the miner script's heuristic and its limits on a model's answer | operators |
| `MinerClient` | the miner script's loop against the service; EXTENDS `MinerForecast` | composition |
| `AnchoringProofs` | theorems about `SettlementChain`, `ReputationLedger` and `AnchorPipeline` | proofs |
| `EvidenceStoreProofs` | theorems about `PokerEvidence` and `Repositories` | proofs |
| `MinerClientProofs` | theorems about `MinerForecast` and `MinerClient` | proofs |
| `ChainMiningProofs`, `ForecastSubmissionProofs`, `ForecastSettlementProofs`, `PokerRewardsProofs` | theorems about the module they are named after | proofs |
| `FiniteSums` | what sums over finite sets, largest elements and orders of them obey | lemmas |
| `MC...` | small instances | TLC |

### How a handler becomes actions

The mining service is one process. Handlers and loops are asyncio tasks; each
call of `PostgresRepository` opens and commits its own transaction, and every
`await` may let another task run. A handler is therefore a sequence of actions,
one per repository call that writes, or that reads something a later step uses.
Adjacent reads with no write of the same handler between them are one action
when only one of them matters to what follows. What the handler remembers
between two actions is in `proc`, a record per asyncio task, and `proc[w].pc` is
the place it has reached. A handler that raises goes back to idle, keeping what
it has written. `Crash` sets every task to idle and leaves the rows.

### SettlementChain

`anchors` is the store under `SettlementAnchorKeyPrefix`, `submitters` the list of
authorized accounts. `AnchorSettlementBatch` is the message handler: validation,
authorization, the comparison with a stored anchor, the write. `accepted` is a
history variable: the messages the chain has answered without an error. The dozen
payload fields are one value, `root`, as the service computes them together and
the handler compares them together. `RestartFromGenesis` is an export followed
by an import.

### ReputationLedger

`score`, `controllers` and `receipts` are the three key ranges of `x/reputation`. A
delta is applied through `ApplyReputationDelta`, whose steps are atomic as they run in
one transaction: authorization, `Validate`, the anchor of the batch, the receipt of
an earlier application, `UpdateScore`. The score is an int32: `Wrap` is its addition, with
`HalfWord` for 2^31, and `Clamp` the range that is enforced afterwards. A delta's cap
is a field of the delta, so that the sender bounds itself, and `Validate` takes any positive cap:
amounts and caps are any int32 here, and the sum may overflow (section 6). `RestartLedger` exports and imports both
modules. `updates` is a history variable.

### ChainMining

The REST handlers of `x/challenge` take `CommitMultiStore()` and write it from the HTTP
server's goroutines, while blocks run on a cache of the same store. One write of
a handler is one action, together with the reads before it; `proc` holds what the
handler carries from one to the next (the challenge row it read, the winners and losers
still to be written). A block is three actions: `FinalizeBlock` runs begin and end
block on the cache, `WriteBlock` writes the cache over the store, `Commit` moves the
height. The rows a block writes are those it computed in `FinalizeBlock`. One challenge
of an epoch is modelled, with the number of its siblings. Which answer wins a tie is
the order of a Go map, hence a choice. Which pending rewards a pool too small for all
pays depends on the order of the keys; `Payable` allows every order.

### AnchorPipeline

One settlement batch with its window and its jobs. `linked` is the
`reward_window_id` column of the task rows, `window` the saved window's
`task_run_ids`, `batch` and `jobs` are rows, `paid` the state of the window's
budget ledgers, `txs` every transaction the node ever took, in the order of the
account's sequence numbers. A root is the pair of what the code hashes: the task
runs of the window *as read now* and the totals of the batch *as read before*,
because the handler reads them in two transactions. `SyncOpenSettlementBatch` creates the batch, or
writes an open one over whatever the row says by then.

All admin handlers run `reconcile()` first; the model runs its part that touches
the window and the batch (`LinkRead` .. `SyncOpenSettlementBatch`) and then goes
on at `proc[w].next`. A turn of the confirmation loop (`StartSweep`, `SweepList`, `SweepNext`) lists the
submitted jobs and confirms them one after the other; a query that raises ends the turn, and the
jobs behind it wait for the next. The node may take a transaction and still let the command
line client fail (`BroadcastError`), run it (`DeliverTx`, through `x/settlement`'s
own handler) or drop it (`DropTx`). `ConfirmationStatus` is the chain adapter's
comparison, including its treatment of an absent anchor.

### ForecastSettlement

Tasks become due (`BecomeDue`), miners pass the admission gate (`Graduate`), and
passes of `reconcile()` settle and release. `acct` holds the reward columns of the
miners' rows, `hold` the hold entries, `sub` the submissions. Amounts are chosen
from a set at every settlement of a submission, because the formula reads
reliability columns that change between two settlements. A missed task counts
for a miner only if its status is active (`Active`) and it was registered when the task was published
(`Created`, `PublishAt`).

### ForecastSubmission

One task, its miners, their submissions and the risk cases. A unit id is the set
of members whose sorted addresses the code hashes; a commit hash is the forecast
it binds. `Component` is the reference definition of what the code's union-find
computes: the least set with the miner that is closed under shared evidence.
`Environments` lists what clients and operators may do in a behaviour (which kinds of
request, user agents and miners, which cases are decided, how many requests at once, how many crashes); a
behaviour chooses one of them at the start, so that one run looks at whole tasks without
user agents, at registrations and commits with them, at a crash and at two requests at once, and not at
the product of these. `overlap` is a history variable: two requests have been in progress at once.

### PokerEvidence

`hands`, `checkpoints`, `conflicts` and `dlq` are tables; a row id that hashes its content
makes a table a set. A message may be delivered at any time and any number of times,
whether or not it was acknowledged. One that the projector cannot read (`DeliverUnreadable`: no JSON,
neither a sequence number nor a version, an unknown topic) raises at every delivery. `Deliver` validates any other and makes the version
`Decision` of `save_poker_mtt_hand_event` on the row it reads; `WriteHand`, `SaveDlq`,
`SaveCheckpoint` and `SaveConflict` are the writes that follow, each a transaction.
The builder reads the tables one after the other while ingestion goes on, and
`EvidenceState` is its verdict. `watched` is any one message, chosen at the start: what is shown of
it is shown of all, and the model need not remember which messages were acknowledged.

### PokerRewards

A projection saves the ranking and the result of each miner in turn; hidden evaluations and
applied results, final or provisional as the request says, arrive at any time. A build reads the results that `MatchesRanking` and
the other eligibility rules let through, computes weights (`Score`: rank 0.55, hidden evaluation 0.25, rounded to
millionths) and payments (`Floors`, then one more for the largest `Remainders`), asks for the budget
(`Reserved`, over all windows), and saves window, ledger and projection in this order. Its pool is
the configured one in `reconcile()` and any of `Requested` in a request. The code computes shares with doubles.
`Allocations` is the set of payments it may come to: among equal remainders rounding decides, and remainders that differ are told
apart within the pools of `ExactPools`. `reconcile()` makes the batch of a window and links it; anchoring is
one step here, as `AnchorPipeline` has its details, and records what was hashed (`Root`). Afterwards
the job may be marked as failed or as anchored (`MarkAnchorJobFailed`, `MarkAnchorJobAnchored`), and `RebuildRewardWindow`
is never blocked.

### Repositories

`PostgresTables` and `FakeTables` say, per table and method, how the row is reached
(update, upsert, merge, one statement with `ON CONFLICT`, a read in another transaction first) and
which columns are written, each read from its own source; `Repositories` gives each way of writing its steps. A behaviour
is about one table, so that a run covers every method of every table. The calls on
Postgres interleave statement by statement; the Fake gets a call, as the caller made it, in one step when Postgres commits
it, and writes the columns of its own table. What a method of Postgres reads for its own use stays in the call: the row it selected (`read`) and the
`created_at` it keeps (`kept`). `BothImplement` checks that both have every method of the protocol.

### MinerForecast and MinerClient

`MinerForecast` has the arithmetic of the script in integers: `Trunc` is `int()`, which rounds towards
zero, and `MarketPrice` the fallback for a price that is missing or 0. `MinerClient` runs the loop (`FetchTasks`, `BeginTask`, `MineTask`, `IterationDone`) with
one call of `mine_task` per task at work. The tasks of an iteration are a set, `todo`, that is taken in the
order of the list with the daily tasks first (`Sooner`). A request is a record in `net` until it is served, which may
happen after the client has given it up; the service reads and saves in two steps, as in
`ForecastSubmission`. `append_log` is a read and a write under `LOG_LOCK`. `Kill` ends the process
at any point and keeps the log file.

## 3. Runs

| Run | Instance | Shows |
|---|---|---|
| `settlement_chain` | 2 batches, 2 jobs, 2 accounts, 2 payloads, 2 miners, 2 controllers, 2 delta ids, any authorization lists, amounts inside and outside the cap, a sum that overflows | what was accepted stays stored and may be resent; a delta changes a score once, from an anchored batch, and in its direction unless the sum overflows |
| `chain_mining` | 4 registered miners and one that joins, 2 requests at once, 4 requests, a pool that does not cover all rewards, fairness of blocks | a reward has a majority behind it; no row claims more than was paid; what the pool covers is paid |
| `pipeline_serial` | one worker, every handler, 2 jobs, 2 task runs, 2 transactions, 1 crash | the batch row and the chain agree on the root in every state; a batch reported anchored is on the chain under its job and root; a root is never replaced |
| `pipeline_concurrent` | the confirmation of jobs and an operator who prepares, submits and broadcasts, 2 jobs, 1 task run, 2 transactions | an anchored job is the job on the chain; nothing is paid before; the pipeline implements `AnchorPromise`: the chain's entry is written once, although the batch may be taken back, lose its root and be given a second job |
| `pipeline_loop` | the confirmation loop between the requests of an operator, 2 jobs in one turn, queries that raise, 2 transactions, 1 crash, fairness | every job whose transaction the node ran ends anchored or failed, whatever stands before it |
| `settlement` | one loop, 2 tasks, 2 miners (one missed both tasks and registered after the first), 1 crash, amounts 1 and 5, fairness | books agree until the crash; afterwards nothing is lost or negative; due tasks are settled, graduates are paid |
| `submission` | 3 miners moving between 2 addresses, or sharing a user agent too, one request at a time; 2 miners with 1 crash; 2 miners with 2 requests at once | no submission shows a forecast its commit does not bind; as long as requests did not overlap, one eligible reveal per unit id; without a crash too, a case per duplicate and per cluster, counters that count, incremental cluster updates equal a recomputation |
| `poker_evidence` | 8 messages (two versions of a hand, two payloads of one version, one without a version, one invalid, a stand-up message, and two that cannot be read), 1 crash, fairness | nothing acknowledged is lost; evidence that is not blocked contradicts no acknowledged hand; hands only advance; every message that can be read is acknowledged in the end |
| `poker_rewards` | one tournament with two contradicting projections and a legacy result, a daily and a weekly window that do not both fit the budget, a second pool on request, 1 crash | the budget holds; payments add up to the pool; what is sent to the chain was reserved (without a crash), and its root, payments and reservation are final |
| `repositories` | 2 clients, 2 ids, 2 values and times, 3 calls, every table | Postgres and the Fake hold the same rows, column by column, with the exceptions of section 6 |
| `miner_client` | a daily and a fast task, 1 or 2 threads, 3 attempts, 1 fault, fairness; 288 packs of signals, prices of 0 among them, and 24 model answers | the log is true, and complete without faults; a commit is revealed; a forecast favours neither side (but for a model's answer where a price of 0 is taken for none) and is moved no further than the evidence allows |
| `settled_twice_loops` | two loops | *violated*, see section 6 |

**Bounds.** Two jobs are what it takes for a stale job to meet a batch that has
moved on, and for a job to wait behind one whose query raises; two task runs for a window to change after a root was computed; two
transactions for a retry to meet an earlier one. Three miners are the least with
a component whose ends share no evidence (address between the first two, user
agent between the last two). Amounts 1 and 5 have the two cases of the 20/80
split (1: all held; 5: 1 released, 4 held), and an amount that differs between
two settlements of one submission. Four answering miners are the least with an answer after a
completed vote; four requests hold a commit with its reveal and a vote that it
decides, or a vote and a late answer. The height stays at `MaxHeight`, one block after
the challenge expires. `HalfWord` is 8 with scores up to 4 and caps of 3 and 7: a reward of 7 overflows
from every score but zero, one of 1 from none. Two versions of a hand and two payloads of one of them
are what it takes for a stale, a superseding and a conflicting delivery; one consumer is
what the projector's loop has (with two, an older version may be written last, and `HandsOnlyAdvance`
does not hold). The pools are 3 and 4 against a budget of 6, so that the second window is
refused unless the first is forfeited, or built on request with a pool of 2. Three calls on a table are an insert, and two updates
that overlap it or each other. Three attempts at a task are the first, one after a fault
and one after that. One build of a window runs at a time (two may exceed the budget, section 6).
`MaxTxs`, `MaxCrashes`, `MaxRequests`, `MaxCalls`, `MaxAttempts` and `MaxFaults` bound counters that
the code does not bound; `TaskRuns`, `Jobs`, `Tasks` are finite because the runs
are.

**Symmetry** is used where ids are only compared, and never with a temporal
property that is not an action property.

**Fairness.** `AnchorPipeline!Fairness`: a running handler goes on (asyncio runs
ready tasks in turn); the node runs what is in its mempool (`DropTx` competes with
it); `_run_anchor_reconcile_loop` starts a turn every 15 s (strong, as an operator's request may
be in progress); the node does not refuse the query about a job for ever. Nothing is assumed of the place of a job in a
turn: that the job behind one whose query raises is reached is what the run shows. `ForecastSettlement!FairSpec`: the
progression loop starts passes for ever and goes on with them; a price source
that is asked again and again answers in the end. `ChainMining!FairSpec`: consensus
makes block after block; no request is fair. `PokerEvidence!Fairness`: a handler that
runs goes on, and the broker delivers again what was not acknowledged (strong, as
a consumer may be busy with other messages in between). `MinerClient!FairSpec`: the service
serves what arrives and a `mine_task` goes on; the script need not be started again and no
deadline need pass. No admin request and no
crash is fair.

**Deadlock** is checked in the chain, mining, pipeline and settlement runs, whose
loops and blocks never end. In `ForecastSubmission` the task closes and nothing is left to do,
and the bounds on crashes, calls and attempts end the behaviours of the poker, repository and
client runs.

**Types.** The type invariant that a run checks is `AnchorPipeline!TypeOK`, with `ChainTypeOK`. In the other components the types are a part of the inductive invariant
of their proofs module (`TypeOK` of `ChainMiningProofs`, `Types` and `TableTypes` of the others).

## 4. Proofs

The theorems hold for every value of the constants that satisfies the named assumption of the
module they are about: any number of workers, handlers, miners, tasks, windows, messages, blocks
and crashes. The assumptions are what the code's types say, with one exception, `ExactPools`. `NoneAssumption` and its like
(`SubmissionAssumption`, `EvidenceAssumption`, `RewardsAssumption`): the null value is none of the
ids, and no row. `ReputationAssumption`: scores, amounts and caps are int32, and nothing bounds a cap further. `PipelineAssumption`: the batch and the
account are known to the chain, and a root exists for every window. `MiningAssumption`,
`SettlementAssumption`, `RewardsAssumption`: finitely many miners, tasks, tournaments and windows, amounts
that are naturals, epochs that are not empty. `ExactPools`: pools for which doubles tell remainders apart, which the code
does not enforce; no proof step uses it, but only within it are the payments of the model those of the code (section 6). `ForecastAssumption`: market features are whole
numbers, and a signal counts as strong from the script's own thresholds on. `ClientAssumption`: the service lists
no task twice, forecasts are within the limits, and the null value is no number, row or call. `RepositoriesAssumption`, `NoRowAssumption`: ids and
values are numbers, and the null value is neither a number nor a row. TLC evaluates them on every run.

Some results need more than that, a condition on the schedule that the code does not enforce.
It is then an explicit hypothesis `[]H` of the theorem, and section 6 says what happens without it:

| Hypothesis | Says | Met by |
|---|---|---|
| `AnchoringProofs!OneRequest` | no two handlers of the batch are in progress at once | an operator who waits for each answer, with the sweep disabled or idle |
| `ForecastSettlementProofs!OneAtATime` | one pass of `reconcile()` at a time | the progression loop alone |
| `EvidenceStoreProofs!Apart` | no two consumers are in one hand at once | one consumer (`OneConsumerIsSafe` needs no hypothesis), or a queue that is partitioned by hand |
| `PokerRewardsProofs!Serial` | no two builds, anchorings or other requests about windows at once; projections may run beside them | one build at a time |

The properties of `ForecastSubmission` carry such a condition themselves, as they are checked and proved alike:
`OneEligiblePerUnit` speaks of the time before two requests overlapped, those with `Undisturbed` of the time before the first
overlap or crash. No theorem assumes that a message arrives once, in order or at all, or that an answer is not lost.
Crashes are allowed in all of them; `BooksMatchRows` and `AnchoredIsReserved` too speak only of the time before the first one.

### x/settlement and x/reputation (`AnchoringProofs`)

`AcceptedStaysStored`, `OnlyAuthorizedAnchors`, `ResendIsSafe`. The invariant `ChainInv`
is the conjunction of `ChainTypeOK`, "an anchor is filed under its own batch" (an
import would otherwise move it), `AcceptedIsStored` and `AnchoredByAuthorized`.

`LedgerImplementsChain` shows that the chain with `x/reputation` implements
`x/settlement` alone, so that the theorems above carry over. `DeltasAppliedOnce`,
`DeltasAreAnchored` and `DeltasKeepDirection` follow from one invariant, the conjunction of
the chain's invariant and the four properties of the run. They need each other:
`AppliedOnce` survives a restart only because a receipt is filed under its delta's id,
`ReceiptsAreAnchored` survives one only because anchors do (`AnchorsStay`). Where a sum wraps,
and to which score, is `UpdateScoreInRange`: a penalty never wraps, as a score is not negative, and a reward that
does ends below zero, which the clamp takes to zero.

### x/challenge (`ChainMiningProofs`)

`RewardsHaveMajority` and `ClaimsAreCovered` hold with any number of handlers and blocks that
overwrite each other's rows. Nothing relates the store to what a handler read, and nothing needs
to: `MiningInv` says of every row, in the store, in a handler's hands or in a running block, something
that cannot become false. Every answer in a challenge row was taken in (`RowBacked`), so that
votes counted on an old row are real votes, and the winners a handler still has to credit gave one answer with two
voters (`Majority`). Every miner's row claims no more than the bank has paid (`Covered`), and the
bank only pays. The block writes its rows and its transfers together, and what it adds to a row is what it
transfers (`BlockCovered`). That this is a number at all needs what the recursive halving of
`GetBlockReward` computes: `HalvingsExist` and `HalvingsAgree` build it from the least
counterexample, as the library's induction theorems cannot be instantiated here.

### Anchoring (`AnchoringProofs`)

With any number of workers: `PipelineTypeCorrect`, `AnchoredMeansConfirmed`, `NeverPaidOffChain` and
the refinement `PipelineKeepsPromise`. None of these is inductive: what makes the
write of `anchored` true is a query made several awaits earlier. `PipelineInv` adds
what each place of a handler knows: that a worker past the query with status
`confirmed` works for the job of the stored anchor, which no later step can
change as the store is written once; that a worker about to mark the batch or
pay is past such a query; and that a transaction index points into `txs`. Each
action preserves it, one lemma per group of actions.

One request at a time (`OneRequest`): `RootIsWrittenOnce`, `ChainAndBatchAgree` and
`AnchoredBatchIsConfirmed`. `ReadOK` says which of its readings of the batch a handler still relies on at
each place (the row between a retry's reads and its write, the root between plan and
broadcast, the job between check and mark), and `RootsAgree` that every transaction the node ever
took carries the batch's root: it is the transactions, which outlive their requests, that could
bring an old root to the chain later.

### Submission (`ForecastSubmissionProofs`)

`RevealsMatchCommits` holds with any number of requests in progress and any crashes: the row a
reveal writes back is the one whose commit it checked (`HandlerOK`), and commit hash and
forecast are written together. `OneEligibleReveal` holds until two requests overlap, since eligibility is
decided from a list read before the write, and compares the members a unit had at each reveal, as the code does. `CountersCountRows`, `RisksAlwaysHaveCases` and `UnitsAreAlwaysComponents`
hold until a request is disturbed: they are made true again by the last of several transactions. `RequestInv`
says, for each place of the request in progress, which rows are as it read them, which are still to be
written and which cases still to be opened. The last theorem also needs that no request comes
from a loopback address (section 5). A component depends on addresses and user agents alone
(`ComponentOfSignals`), so that it stays the same while the units of its members are written one
transaction after the other, and the handler's own signals are written with its unit (`ListOK`).

### Settlement (`ForecastSettlementProofs`)

`RewardsAreNotLost` and `BooksAlwaysMatch` relate a miner's row to sums over its
resolved tasks. Within a pass the row runs ahead of the tasks' states, so that the invariant `SettleInv`
counts the submissions that are *booked*: those of the resolved tasks, and those of the task at hand
that the pass has paid. `Kept` says that the row holds at least their sum, and survives a
crash, after which a task is paid again; `Exact` says that it is the sum, as long as there was no
crash. Release of a hold moves an amount from one column to the other.

### Poker (`EvidenceStoreProofs`, `PokerRewardsProofs`)

`AckedMessagesAreAccounted`, `EvidenceIsSound` and `StoredHandsOnlyAdvance`, for any messages, readable or not,
redeliveries and crashes. `HandlersInv` says what the version decision made at the read is worth until the
write, which is where `Apart` is used; `BuilderInv` says what the builder has in hand if the message was acknowledged
before it began, through the four reads that follow each other while ingestion goes on.

`AllocationsAddUp` holds with any number of workers: it is a fact about every member of `Allocations`. The floors sum
to at most the pool, and fall short of it by less than the number of units, as the remainders are
each less than the total weight and their sum is that total times the shortfall; so the pass over the
largest remainders gives one unit each to a part of them, and the pool is paid out to the
last unit. A larger weight has a larger floor, or the same floor and a larger remainder, which
comes first. The shares are exact quotients, so that the theorem is about the code's payments within `ExactPools`.
`BudgetIsKept` and `AnchoredStaysFinal` need `Serial`: that the amount still fits is decided
from the ledgers as read (`BudgetOK`), and that a build may go on from the batch as read
(`FinalOK`). `AnchoredStaysFinal` is about a batch whose root was sent, whatever happens to its job and its window
afterwards: `RootsStored` says that a sent batch has a root and a window, and the guard against another root
that a repeated anchoring keeps it. `AnchoredWasReserved` follows the amount from projection to ledger to window to
batch through every partial rebuild (`UncrashedInv`); the property speaks of behaviours without a crash.

### Repositories (`EvidenceStoreProofs`)

`FakeIsPostgres`, for any number of clients and calls, any ids, values and times. The proof
reads the data of the tables once: `TablesAlike` goes through the 23 tables and finds for each method a pair of ways
to write that fit together (`Alike`), that the Fake's columns are those of Postgres and, in `reward_windows`, the reward rows besides
(`FakeColumnsAre`), and that a merge gives every column, outside `settlement_batches`. A method that is added or changed has to
pass this lemma, and nothing else of the proof looks at a table.

`FakeAgrees` is not inductive, as a call writes what it learned one or two statements earlier. `CallInv`
says what a call may rely on whatever others do in between: that a row it has seen is still there, as no
method deletes one, which is why an INSERT that it decided on either fails or inserts. `FreshCall` says what it may rely on
only while it is alone (`CallsAreFresh`): that the row is as it read it. Only a merge of some columns and
the version of a hand need that, which is why these two tables and no others are `Racy`. `CommitsAgree` then compares the
written row with the Fake's, by way of writing; a merge of all columns is an update (`MergeIsUpdate`).

### Client (`MinerClientProofs`)

`ForecastsLeanNowhere` and `EvidenceIsRewarded` are facts about integers of any size. Each operator
of a forecast is odd around its middle (`TruncIsOdd`, and the clamp around 5000), or treats the two sides alike (the
votes, the thin market, the cap); their composition is then `ForecastsAreNeutral`. The one exception is in its statement: the
vote of the market is odd only where the price is not taken for none (`Unpriced`). The cap grows with the votes that agree
and with confidence, and what is cut off lies on the far side of 5000, so the distance grows with the evidence
(`DistanceGrows`).

`LogTellsTheTruth` holds with any number of threads, attempts, lost answers, requests served late and kills. It is far
from inductive: what makes a record true is the answer to a reveal, which was decided on a hash that was stored
by an earlier request, and the process that sent that request may be gone. `TruthInv` follows the nonce. It is drawn for one call and one commit
(`NonceOfOne`); its commit has been served before its reveal is sent (`CommitFirst`), since the script waits for the answer; so
no request still on its way can store that hash again and erase the reveal, until two commits of one
task are in service at once (`SavesAreSound`). `LoggedIsHeld` carries the answer through the call's memory and its buffer
into the file. `LogMissesNothing`, about the time before the first fault, needs that one call writes at a time (`PoolInv`, from `LOG_LOCK`), and that while the file is truncated
the writer's buffer has what the file had (`NothingLost`); a task mined twice has two records, and the log may
forget the older one only when it is full.

### Sums (`FiniteSums`)

The models add up amounts with `SumFunctionOnSet`. What the fold computes is a matter of induction over finite sets, and
the library states that induction for an operator, which the provers here cannot instantiate. `SmallestSubset`
takes its place: strict inclusion is well founded on the subsets of a finite set, so a statement that
fails for one of them fails for a smallest one. From it, the fold's recursion has one solution
(`IterationExists`, `IterationIsUnique`), and sums can be split, compared and added.

### Left to TLC

* The liveness properties (`AffordableIsPaid` and those of the pipeline, settlement, evidence and client runs):
  fairness and ENABLED are outside the prover's reach.

## 5. Not modelled, and simplifications

* Artifacts, receipts, metrics, timestamps, names, signatures, and the 24 hour
  roll-over of the participation counters.
* `miner_reward_rows_root` is part of the root, but the rows of a resolved task are
  taken to be fixed; that a second settlement rewrites them is the subject of
  `ForecastSettlement`.
* `ApplyReputationDelta` has no caller outside its tests yet; the model lets any
  controller call it. `UpdateStreak` and the score changes of `SubmitAnswerWithChecks` are
  unreachable.
* `x/poa`, and in `x/challenge` the message server with `SubmitCommit`, `SubmitReveal`,
  `SubmitAnswerWithChecks` and `EvaluateChallenges`: `RegisterMsgServer` in both
  `types/interface.go` is an empty placeholder.
* One `Get` or `Set` on the store is atomic in `ChainMining`. The store's tree is not
  made for concurrent writers, so the program may also stop with a fatal error.
  `challenges_completed` is counted up to the cold start limit, beyond which nothing
  reads it; `challenges_failed` is not kept. The faucet only marks an address as served.
* One node: handler writes are local to it, and what they do to the app hash that
  other nodes compute is outside the model.
* Poker: corrections (`forecast_engine.py` 4779-4813), rating and multiplier snapshots, the contents
  of HUD statistics, public rank. Budget enforcement is taken to be enabled; without it nothing is reserved.
* Poker rewards: shares are exact quotients and a half is rounded to either side, where the code has doubles (section 6).
* Repositories: how rows are listed (filters, limits, order), metrics, and the
  row a method returns.
* `miner/` (Go) sends the same requests as `mine.py` and is not modelled; of `mine.py` setup,
  companions, wallet files and the wording of prompts are left out.
* Arena and Poker MTT control (Go): planned, see section 7. Market data, authentication, app wiring,
  release scripts and harnesses: pure input and output around the state modelled here.
* The daily forecast lane (`_settle_due_daily_tasks`), public ranks and the arena
  multiplier.
* A request from a loopback address normalises to no address. The code then
  computes units without the address but keeps the old one in the row
  (`update_miner_cluster_identity` skips None), so that `UnitsAreComponents` does not
  hold once such requests are allowed. The runs give every request an address.

## 6. Where the code and its documents disagree

One disagreement has a run of its own (PROJECT.json, findings):

* **`settled_twice_loops`**: two asyncio tasks in `reconcile()` list one due task and
  both pay its submissions.

Others met while modelling; each is a behaviour of the modules as they stand:

* A `retry-anchor` request computes a root and is suspended before its write; another
  request prepares, submits and broadcasts the batch and the chain stores it; then the first
  write, which has no condition on the state, replaces the root and takes the batch back
  to `anchor_ready`. With two workers `RootNeverMutates` therefore does not hold.
* An economic unit gets a new id when it grows, and the duplicate check compares
  ids, so that the reveal of a miner that joins after another member revealed is eligible too, where
  `docs/HARNESS_BACKEND_ARCHITECTURE.md:346`, `docs/HARNESS_API_CONTRACTS.md:66` and
  `docs/MINING_DESIGN.md:1081` give a cluster one eligible reveal per task. `OneEligiblePerUnit` says what remains.
* `x/reputation` adds a delta to the score as an int32 before it clamps (`keeper.go:97`), and a delta's cap is bounded by
  nothing but its type (`types/delta.go:40-45`): a reward close to 2^31 takes a positive score to zero. `DeltaKeepsDirection`
  names this case.
* The chain compares the job id too (`msg_server.go:80`), so that a retry under a
  new job with the stored root is refused, where
  `docs/superpowers/plans/2026-04-20-poker-mtt-phase3-production-readiness.md:166` calls the
  same root idempotent.
* `mark_anchor_job_failed`, and a second broadcast that fails, take an anchored batch
  to `anchor_failed` (`docs/IMPLEMENTATION_STATUS_2026_04_10.md:464`: "`anchor_submitted / anchored` batches are append-only").
* `rebuild_reward_window` is not blocked, where the same document says at line 463 "`rebuild_reward_window` is blocked after
  anchor preparation". It counts forecast tasks, of which a poker window has none, and sets the window's total to 0 and
  its `task_run_ids` to the empty list. After an anchor that failed, every further retry-anchor therefore raises
  "canonical root conflict". Of an open batch the next sync takes the total 0, and as the next build finds its
  inputs unchanged and returns, the batch cannot be anchored until the inputs or the pool change. `AnchoredIsFinal` says what stays
  (root, payments, reservation) and names what changes.
* A fallback transaction is recorded as `root_mismatch`, never as `fallback_memo_only`
  (`docs/HARNESS_API_CONTRACTS.md:706`), as an absent anchor is compared like a present one.
* `x/challenge`: an answer to a completed challenge settles it again, at the new
  height, so that its winners are paid twice; two requests that read one challenge row
  lose an answer; a miner that committed may answer without revealing; a pending
  reward written again between a block's end and its write is deleted unpaid;
  `challenges_completed` counts a won challenge twice, once in the handler and once in
  `ProcessPendingRewards`.
* A crash between crediting a miner and marking the task resolved makes the next
  pass pay again: `BooksMatchRows` is stated up to the first crash, `NoRewardLost`
  beyond it.
* A repeated commit is answered "already committed", not with the first result
  (`docs/HARNESS_API_CONTRACTS.md:1186`); two concurrent commits overwrite each other;
  two concurrent reveals of one unit are both eligible; a crash between a reveal
  and its case loses the case, and one before the counter loses the count.
* A message the projector cannot read (`mq_projector.py` 29-30, 75-76, 193) raises where nothing catches it
  (`emitted_mq_replay.py` 305-314): it is neither acknowledged nor stored, at every delivery, and a replay of a log ends there, where
  `docs/POKER_MTT_PHASE2_HARNESS_SPECS.md:340` says "malformed messages route to dead-letter/conflict storage".
  `EventuallyAcked` is about the messages that can be read.
* `_allocate_integer_pool_by_weights` divides doubles (`forecast_engine.py` 932). Among equal remainders, where the code
  means the smaller id, rounding may decide; and nothing bounds a pool, so that beyond 2^53 the payments need not
  add up to it (two equal units and a pool of 2^53 + 3).
* Rewards: a crash between saving a window and saving its ledger, or between the sync of a batch
  and the link to it, leaves a batch that is anchored without a reservation, or a window that is built
  again (`docs/POKER_MTT_PHASE3_PRODUCTION_READINESS_SPEC.md:206` has over-budget windows rejected before settlement), so that `AnchoredIsReserved`
  is stated without crashes; two builds at once both read the reserved amounts
  (`forecast_engine.py` 4338) before either saves its ledger (4670).
* Fake and Postgres: `_reward_window_values` (`pg_repository.py` 79-86) drops the reward rows of a window with their root,
  count and page fields, which the Fake stores (`repository.py` 571-575), so that their readers
  (`forecast_engine.py` 2548, 5346-5351) behave otherwise on Postgres than in the tests. `list_poker_mtt_hud_snapshots`
  without a window lists the short table and then the long one on Postgres (`pg_repository.py` 1928-1943) and both sorted together
  in the Fake (`repository.py` 1100-1107); lists are not modelled. Only Postgres keeps the first `created_at` of budget ledgers and of rating and
  multiplier snapshots, and only Postgres enforces uniqueness; the Fake's request index keeps
  every request id ever saved, where Postgres has a unique column;
  `sync_open_settlement_batch` writes back the whole row it selected
  (`pg_repository.py` 1270), over what was written in between. The properties of `Repositories` name these exceptions.
* Client: when the answer to a commit is lost, the next attempt draws a new nonce, is
  answered 409 and reveals what does not match, so that the commit is stranded; a reveal
  that is answered 409 has no `data`, and the `KeyError` ends the serial loop (`mine.py` 711;
  `skill/SKILL.md:131` admits a gap for work already submitted or revealed); a process killed while it rewrites the log leaves a truncated one; a
  late commit served beside its retry erases the reveal in between. `build_signal_calibration` takes a price of 0 for none
  (`mine.py` 302) and lets the baseline vote instead, while the mirrored price of 10000 votes itself; `market_data.py` 527 does not keep a
  price from being 0. `ForecastIsNeutral` names this case.

## 7. Plan

In the order of the work. Each step adds its modules, their runs with mutants, and
the entries of PROJECT.json.

1. *(done)* `x/settlement`, `x/reputation`, `x/challenge`; anchoring, forecast settlement,
   submission; proofs about the chain, its ledger and the pipeline.
2. *(done)* `PokerEvidence`, `PokerRewards`, `Repositories`, `MinerForecast` and `MinerClient`.
3. *(done)* Proofs about `ChainMining`, `ForecastSubmission`, `ForecastSettlement`, `PokerEvidence`
   and `PokerRewards`, and about one request at a time in `AnchorPipeline`, each from an
   inductive invariant that says what a handler knows at each place.
4. *(done)* Proofs about the client: its forecasts, which are facts about `Trunc` and the limits, and
   its log; and about the repositories. Every safety invariant that a run checks is now a theorem.
5. `ArenaTable` (engine, actor, gateway, replay): legal actions and phases of a hand,
   deadlines against late commands, one application per command. An abstract pot
   specification that the engine implements. Properties: chips are conserved, a
   replay ends in the state that was lost.
6. `ArenaTournament` (hub, runtime, recovery, rating): seating, rebalancing, elimination,
   a restart between any two of them. Properties: a player sits at one table; every
   player is ranked once; a rating is written once per tournament.
7. `PokerControl` (finalizer, Redis ranking, orchestrator, sidecar client):
   a ranking that is read while it changes; retries of non-idempotent calls.
8. The daily forecast lane, and the Go miner as a second client of `MinerClient`'s service.

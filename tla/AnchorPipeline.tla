---------------------------- MODULE AnchorPipeline ----------------------------
(***************************************************************************)
(* How the mining service settles one settlement batch on the chain.        *)
(*                                                                          *)
(* The service keeps rows in Postgres: the reward window (which task runs   *)
(* it pays), the settlement batch made from it, and the anchor jobs that    *)
(* try to write the batch's root on the chain.  Admin requests and two      *)
(* background loops run as asyncio tasks of one process: every repository   *)
(* call is a transaction of its own and every await lets another task run,  *)
(* so a handler is a sequence of steps, each reading or writing one row.    *)
(* The module follows one batch, as no handler decides about two of them.   *)
(*                                                                          *)
(* A worker is one asyncio task.  proc[w] holds the handler it runs and the *)
(* values that handler read before its last await.  A handler that raises   *)
(* or returns leaves its worker idle; a crash of the process leaves every   *)
(* worker idle and keeps the rows, the chain and its mempool.               *)
(*                                                                          *)
(* Data.  A task run is a model value, and a task's reward is positive, so  *)
(* total_reward_amount is positive exactly when the set of task runs the    *)
(* batch totals were computed from is not empty.  The canonical root is the *)
(* pair of what it hashes: the window's task runs and the batch's totals.   *)
(* The payload hash is a function of the same data and needs no value of    *)
(* its own.  Artifacts, receipts and timestamps are left out.               *)
(***************************************************************************)
EXTENDS SettlementChain, Naturals, Sequences

CONSTANTS Batch,      \* the batch followed here
          Submitter,  \* the account behind the service's anchor key
          TaskRuns,   \* task runs whose resolve time falls in the window
          Workers,    \* asyncio tasks
          Handlers,   \* worker -> the handlers it may be asked to run
          MaxTxs,     \* bound on the transactions the mempool ever takes
          MaxCrashes  \* bound on the crashes of the service

\* The root of the payload built from a window and a batch row.
RootOf(tasks, totals) == [tasks |-> tasks, totals |-> totals]

JobStates == {"anchor_submitted", "anchored", "anchor_failed"}
BatchStates == {"none", "open", "anchor_ready"} \cup JobStates
Confirmations == {"pending", "failed", "root_mismatch", "metadata_mismatch",
                  "typed_state_missing", "fallback_memo_only", "confirmed"}

\* Rows of settlement_batches and anchor_jobs.  A batch in state "none" has no
\* row yet.  A job's tx is the index in txs of its last broadcast, 0 before the
\* first.
BatchRow == [state : BatchStates, job : Jobs \cup {None},
             root : Roots \cup {None}, tasks : SUBSET TaskRuns]
JobRow == [state : JobStates, tx : 0..MaxTxs,
           confirmation : Confirmations \cup {None}]

ASSUME PipelineAssumption ==
    /\ Batch \in Batches
    /\ Submitter \in Accounts
    /\ \A s, t \in SUBSET TaskRuns : RootOf(s, t) \in Roots
    /\ MaxTxs \in Nat
    /\ MaxCrashes \in Nat
    /\ None \notin JobRow

VARIABLES
    linked,   \* task runs whose row carries the window's reward_window_id
    window,   \* task_run_ids of the saved reward window, {} before the first save
    batch,    \* the settlement_batches row
    jobs,     \* the anchor_jobs rows: job id -> row, or None
    paid,     \* the budget ledgers of the window are marked paid
    txs,      \* every transaction the node took, in sender sequence order
    proc,     \* the handler each worker runs
    crashes   \* how often the service crashed

serviceRows == <<linked, window, batch, jobs, paid>>
vars == <<chainVars, linked, window, batch, jobs, paid, txs, proc, crashes>>

\* Mutant: a transaction that failed on the chain is looked at again.
FailedIsNotTerminal ==
    Confirmations \ {"pending", "confirmed", "failed"}

TERMINAL_CHAIN_CONFIRMATION_STATES ==
    Confirmations \ {"pending", "confirmed"}

Idle == [pc |-> "idle", next |-> "done", op |-> "none", job |-> None,
         kind |-> "none", tasks |-> {}, seen |-> None, root |-> None,
         tx |-> 0, status |-> "pending", todo |-> {}]

\* Worker w goes on with the fields of f changed.
Goto(w, f) == proc' = [proc EXCEPT ![w] = f]
Done(w)    == Goto(w, Idle)
At(w, pc)  == proc[w].pc = pc
Reconcile(p, next) == [p EXCEPT !.pc = "link", !.next = next]

\* A handler that knows a job and nothing else; mark_anchor_job_failed of it.
OnJob(j) == [Idle EXCEPT !.job = j]
MarkFailed(j) == Reconcile(OnJob(j), "failJob")

\* Worker state q, begun within the pass of the confirmation loop that p runs.
WithinPass(p, q) == [q EXCEPT !.todo = p.todo]

\* A handler returns; in a pass of the confirmation loop the next job follows.
Return(p) == IF p.todo = {} THEN Idle
             ELSE WithinPass(p, [Idle EXCEPT !.pc = "sweepNext"])

------------------------------------------------------------------------------
(* reconcile(): the part of it that touches the window and the batch.       *)
(* Every admin handler below except the broadcasts runs it first, and       *)
(* continues at proc[w].next.                                               *)

AfterReconcile(p) == IF p.next = "done" THEN Idle ELSE [p EXCEPT !.pc = p.next]

\* _build_reward_windows finds resolved task runs that have no window, and adds
\* them to the list of the window it reads.
LinkRead(w) ==
    /\ At(w, "link")
    /\ \E found \in SUBSET (TaskRuns \ linked) :
         /\ found # {}
         /\ Goto(w, [proc[w] EXCEPT !.pc = "linkTask", !.tasks = window \cup found])
    /\ UNCHANGED <<chainVars, serviceRows, txs, crashes>>

\* It writes the window id into their rows, one by one,
LinkTask(w) ==
    /\ At(w, "linkTask")
    /\ \E t \in proc[w].tasks \ linked : linked' = linked \cup {t}
    /\ UNCHANGED <<chainVars, window, batch, jobs, paid, txs, proc, crashes>>

\* and then saves the window.
SaveRewardWindow(w) ==
    /\ At(w, "linkTask")
    /\ proc[w].tasks \subseteq linked
    /\ window' = proc[w].tasks
    /\ Goto(w, [proc[w] EXCEPT !.pc = "sync", !.tasks = {}])
    /\ UNCHANGED <<chainVars, linked, batch, jobs, paid, txs, crashes>>

\* It finds none.
NothingToLink(w) ==
    /\ At(w, "link")
    /\ Goto(w, [proc[w] EXCEPT !.pc = "sync"])
    /\ UNCHANGED <<chainVars, serviceRows, txs, crashes>>

\* _build_settlement_batches reads the window and the batch: an open batch is
\* to be rewritten and a missing one created, any other is left alone.
SyncRead(w) ==
    /\ At(w, "sync")
    /\ Goto(w, IF window # {} /\ batch.state \in {"none", "open"}
                 THEN [proc[w] EXCEPT !.pc = "syncWrite", !.tasks = window, !.seen = batch]
                 ELSE AfterReconcile(proc[w]))
    /\ UNCHANGED <<chainVars, serviceRows, txs, crashes>>

\* sync_open_settlement_batch writes state "open" whatever the row says now, and
\* for a batch that was missing when it was read it clears job and root too.
SyncOpenSettlementBatch(w) ==
    /\ At(w, "syncWrite")
    /\ batch' = IF proc[w].seen.state = "none"
                  THEN [state |-> "open", job |-> None, root |-> None, tasks |-> proc[w].tasks]
                  ELSE [batch EXCEPT !.state = "open", !.tasks = proc[w].tasks]
    /\ Goto(w, AfterReconcile([proc[w] EXCEPT !.tasks = {}, !.seen = None]))
    /\ UNCHANGED <<chainVars, linked, window, jobs, paid, txs, crashes>>

------------------------------------------------------------------------------
(* rebuild_reward_window *)

RebuildRead(w) ==
    /\ At(w, "rebuildRead")
    /\ Goto(w, IF window = {} THEN Idle
               ELSE [proc[w] EXCEPT !.pc = "rebuildWrite", !.tasks = linked])
    /\ UNCHANGED <<chainVars, serviceRows, txs, crashes>>

RebuildWrite(w) ==
    /\ At(w, "rebuildWrite")
    /\ window' = proc[w].tasks
    /\ Done(w)
    /\ UNCHANGED <<chainVars, linked, batch, jobs, paid, txs, crashes>>

------------------------------------------------------------------------------
(* retry_anchor_settlement_batch *)

\* A rebroadcast goes on to submit_anchor_job, the plain request is answered.
AfterRetry(w) ==
    IF proc[w].op = "rebroadcast"
      THEN Reconcile([proc[w] EXCEPT !.seen = None, !.root = None], "submitRead")
      ELSE Idle

RetryRead(w) ==
    /\ At(w, "retryRead")
    /\ Goto(w, IF batch.state = "none" \/ batch.tasks = {} THEN Idle
               ELSE [proc[w] EXCEPT !.pc = "retryWindow", !.seen = batch])
    /\ UNCHANGED <<chainVars, serviceRows, txs, crashes>>

\* Mutant: no comparison with the root the batch already has.
RetryWindowNoConflict(w) ==
    /\ At(w, "retryWindow")
    /\ Goto(w, [proc[w] EXCEPT !.pc = "retryWrite",
                               !.root = RootOf(window, proc[w].seen.tasks)])
    /\ UNCHANGED <<chainVars, serviceRows, txs, crashes>>

\* The root is computed from the window as it is now and the batch as it was
\* read.  An existing root must equal it ("canonical root conflict"); a batch
\* that is ready or further on is returned as it is.
RetryWindow(w) ==
    LET p == proc[w]
        root == RootOf(window, p.seen.tasks)
        prepared == p.seen.root # None
        settled == p.seen.state \in {"anchor_ready", "anchor_submitted", "anchored"}
    IN  /\ At(w, "retryWindow")
        /\ Goto(w, CASE prepared /\ p.seen.root # root -> Idle
                     [] prepared /\ p.seen.root = root /\ settled -> AfterRetry(w)
                     [] OTHER -> [p EXCEPT !.pc = "retryWrite", !.root = root])
        /\ UNCHANGED <<chainVars, serviceRows, txs, crashes>>

\* mark_settlement_batch_anchor_ready
RetryWrite(w) ==
    /\ At(w, "retryWrite")
    /\ batch' = [batch EXCEPT !.state = "anchor_ready", !.job = None,
                              !.root = proc[w].root]
    /\ Goto(w, AfterRetry(w))
    /\ UNCHANGED <<chainVars, linked, window, jobs, paid, txs, crashes>>

------------------------------------------------------------------------------
(* submit_anchor_job *)

\* An anchor_ready batch gets a job under an id no row has.  Ids are built
\* from the time in seconds, so two workers may pick the same one.
SubmitRead(w) ==
    /\ At(w, "submitRead")
    /\ \/ /\ batch.state # "anchor_ready" \/ \A j \in Jobs : jobs[j] # None
          /\ Done(w)
       \/ /\ batch.state = "anchor_ready"
          /\ \E j \in Jobs :
               /\ jobs[j] = None
               /\ Goto(w, [proc[w] EXCEPT !.pc = "submitJob", !.job = j])
    /\ UNCHANGED <<chainVars, serviceRows, txs, crashes>>

\* save_anchor_job
SubmitJob(w) ==
    /\ At(w, "submitJob")
    /\ jobs' = [jobs EXCEPT ![proc[w].job] =
                  [state |-> "anchor_submitted", tx |-> 0, confirmation |-> None]]
    /\ Goto(w, [proc[w] EXCEPT !.pc = "submitBatch"])
    /\ UNCHANGED <<chainVars, linked, window, batch, paid, txs, crashes>>

\* mark_settlement_batch_anchor_submitted; a rebroadcast goes on to broadcast.
SubmitBatch(w) ==
    /\ At(w, "submitBatch")
    /\ batch' = [batch EXCEPT !.state = "anchor_submitted", !.job = proc[w].job]
    /\ Goto(w, IF proc[w].op = "rebroadcast" THEN [proc[w] EXCEPT !.pc = "plan"]
               ELSE Idle)
    /\ UNCHANGED <<chainVars, linked, window, jobs, paid, txs, crashes>>

------------------------------------------------------------------------------
(* broadcast_chain_tx_typed, broadcast_chain_tx_fallback *)

\* build_chain_tx_plan reads the job and the batch.
BuildChainTxPlan(w) ==
    /\ At(w, "plan")
    /\ Goto(w, IF batch.root = None THEN Idle
               ELSE [proc[w] EXCEPT !.pc = "broadcast", !.root = batch.root])
    /\ UNCHANGED <<chainVars, serviceRows, txs, crashes>>

\* The mempool takes the transaction of worker w's plan.
Enqueue(w) ==
    /\ Len(txs) < MaxTxs
    /\ txs' = Append(txs, [kind |-> proc[w].kind, job |-> proc[w].job,
                           root |-> proc[w].root, status |-> "mempool"])

\* The command line client answers with a transaction hash.
BroadcastAnswered(w) ==
    /\ At(w, "broadcast")
    /\ Enqueue(w)
    /\ Goto(w, [proc[w] EXCEPT !.pc = "broadcastWrite", !.tx = Len(txs) + 1])
    /\ UNCHANGED <<chainVars, serviceRows, crashes>>

\* It ends with an error, which the handler turns into mark_anchor_job_failed.
\* The node may have taken the transaction all the same.
BroadcastError(w) ==
    /\ At(w, "broadcast")
    /\ Enqueue(w) \/ UNCHANGED txs
    /\ Goto(w, MarkFailed(proc[w].job))
    /\ UNCHANGED <<chainVars, serviceRows, crashes>>

\* update_anchor_job_broadcast
BroadcastWrite(w) ==
    /\ At(w, "broadcastWrite")
    /\ jobs' = [jobs EXCEPT ![proc[w].job].state = "anchor_submitted",
                            ![proc[w].job].tx = proc[w].tx]
    /\ Done(w)
    /\ UNCHANGED <<chainVars, linked, window, batch, paid, txs, crashes>>

------------------------------------------------------------------------------
(* confirm_anchor_job_on_chain *)

ConfirmRead(w) ==
    LET row == jobs[proc[w].job]
    IN  /\ At(w, "confirmRead")
        /\ Goto(w, IF row.tx = 0 THEN Idle
                   ELSE IF row.state = "anchored" THEN Return(proc[w])
                   ELSE [proc[w] EXCEPT !.pc = "confirmBatch", !.tx = row.tx])
        /\ UNCHANGED <<chainVars, serviceRows, txs, crashes>>

\* The root that will be compared is the batch's of now.
ConfirmBatchRead(w) ==
    /\ At(w, "confirmBatch")
    /\ Goto(w, [proc[w] EXCEPT !.pc = "confirmQuery", !.root = batch.root])
    /\ UNCHANGED <<chainVars, serviceRows, txs, crashes>>

\* Mutant: a transaction the node knows is a confirmation, before it has run.
ConfirmationStatusUnmined(tx, job, root) ==
    CASE tx.status = "dropped" -> "pending"
      [] tx.status = "failed" -> "failed"
      [] OTHER -> "confirmed"

\* Mutant: the chain adapter's own word, without _normalize_chain_confirmation.
ConfirmationStatusRaw(tx, job, root) ==
    IF tx.status = "ok" /\ anchors[Batch] = None THEN "root_hash_mismatch"
    ELSE IF tx.status = "ok" THEN "confirmed" ELSE "pending"

\* What the transaction query and then the query of the stored anchor give.
\* A missing anchor comes back as a non-empty answer with the batch's id and
\* no root, which is compared like an anchor: it is a root mismatch.
ConfirmationStatus(tx, job, root) ==
    CASE tx.status \in {"mempool", "dropped"} -> "pending"
      [] tx.status = "failed" -> "failed"
      [] OTHER -> IF anchors[Batch] = None THEN "root_mismatch"
                  ELSE IF anchors[Batch].root # root THEN "root_mismatch"
                  ELSE IF anchors[Batch].job # job THEN "metadata_mismatch"
                  ELSE "confirmed"

QueryAnswered(w) ==
    /\ At(w, "confirmQuery")
    /\ Goto(w, [proc[w] EXCEPT
                  !.pc = "confirmWrite",
                  !.status = ConfirmationStatus(txs[proc[w].tx], proc[w].job,
                                                proc[w].root)])
    /\ UNCHANGED <<chainVars, serviceRows, txs, crashes>>

\* The node's RPC raises: the request ends, and with it the whole pass of the
\* confirmation loop, whatever jobs it had still to do.
QueryError(w) ==
    /\ At(w, "confirmQuery")
    /\ Done(w)
    /\ UNCHANGED <<chainVars, serviceRows, txs, crashes>>

\* update_anchor_job_confirmation, then the branch on the status.
ConfirmWrite(w) ==
    LET status == proc[w].status
    IN  /\ At(w, "confirmWrite")
        /\ jobs' = [jobs EXCEPT ![proc[w].job].confirmation = status]
        /\ Goto(w, IF status = "confirmed"
                     THEN WithinPass(proc[w], Reconcile(OnJob(proc[w].job), "anchorJob"))
                   ELSE IF status \in TERMINAL_CHAIN_CONFIRMATION_STATES
                     THEN WithinPass(proc[w], MarkFailed(proc[w].job))
                   ELSE Return(proc[w]))
        /\ UNCHANGED <<chainVars, linked, window, batch, paid, txs, crashes>>

------------------------------------------------------------------------------
(* mark_anchor_job_anchored and mark_anchor_job_failed *)

AnchorJob(w) ==
    /\ At(w, "anchorJob")
    /\ jobs' = [jobs EXCEPT ![proc[w].job].state = "anchored",
                            ![proc[w].job].confirmation = "confirmed"]
    /\ Goto(w, [proc[w] EXCEPT !.pc = "anchorCheck"])
    /\ UNCHANGED <<chainVars, linked, window, batch, paid, txs, crashes>>

\* Mutant: the batch is marked although it was given another job meanwhile.
AnchorCheckAnyJob(w) ==
    /\ At(w, "anchorCheck")
    /\ Goto(w, [proc[w] EXCEPT !.pc = "anchorBatch"])
    /\ UNCHANGED <<chainVars, serviceRows, txs, crashes>>

\* The batch may have been given another job since.
AnchorCheck(w) ==
    /\ At(w, "anchorCheck")
    /\ Goto(w, IF batch.job = proc[w].job
                 THEN [proc[w] EXCEPT !.pc = "anchorBatch"] ELSE Return(proc[w]))
    /\ UNCHANGED <<chainVars, serviceRows, txs, crashes>>

AnchorBatch(w) ==
    /\ At(w, "anchorBatch")
    /\ batch' = [batch EXCEPT !.state = "anchored"]
    /\ Goto(w, [proc[w] EXCEPT !.pc = "pay"])
    /\ UNCHANGED <<chainVars, linked, window, jobs, paid, txs, crashes>>

PayBudgetLedgers(w) ==
    /\ At(w, "pay")
    /\ paid' = TRUE
    /\ Goto(w, Return(proc[w]))
    /\ UNCHANGED <<chainVars, linked, window, batch, jobs, txs, crashes>>

FailJob(w) ==
    /\ At(w, "failJob")
    /\ jobs' = [jobs EXCEPT ![proc[w].job].state = "anchor_failed"]
    /\ Goto(w, [proc[w] EXCEPT !.pc = "failCheck"])
    /\ UNCHANGED <<chainVars, linked, window, batch, paid, txs, crashes>>

FailCheck(w) ==
    /\ At(w, "failCheck")
    /\ Goto(w, IF batch.job = proc[w].job
                 THEN [proc[w] EXCEPT !.pc = "failBatch"] ELSE Return(proc[w]))
    /\ UNCHANGED <<chainVars, serviceRows, txs, crashes>>

FailBatch(w) ==
    /\ At(w, "failBatch")
    /\ batch' = [batch EXCEPT !.state = "anchor_failed"]
    /\ Goto(w, Return(proc[w]))
    /\ UNCHANGED <<chainVars, linked, window, jobs, paid, txs, crashes>>

------------------------------------------------------------------------------
(* _retry_failed_anchor_job_broadcast: only a failed job is retried; its    *)
(* batch is prepared again, given a new job, and that job is broadcast.     *)

RebroadcastRead(w) ==
    /\ At(w, "rebroadcastRead")
    /\ Goto(w, IF jobs[proc[w].job].state # "anchor_failed" THEN Idle
               ELSE Reconcile([proc[w] EXCEPT !.job = None], "retryRead"))
    /\ UNCHANGED <<chainVars, serviceRows, txs, crashes>>

------------------------------------------------------------------------------
(* reconcile_pending_anchor_jobs_on_chain: one pass confirms, one after the  *)
(* other, the jobs that were submitted and broadcast when it listed them.   *)

KnownJobs == {j \in Jobs : jobs[j] # None}

SweepList(w) ==
    /\ At(w, "sweepList")
    /\ Goto(w, Return([Idle EXCEPT !.todo =
                  {j \in KnownJobs : jobs[j].state = "anchor_submitted" /\ jobs[j].tx # 0}]))
    /\ UNCHANGED <<chainVars, serviceRows, txs, crashes>>

\* The list is ordered by updated_at; here any job of it may be next.
SweepNext(w) ==
    /\ At(w, "sweepNext")
    /\ \E j \in proc[w].todo :
         Goto(w, [Reconcile(OnJob(j), "confirmRead") EXCEPT !.todo = proc[w].todo \ {j}])
    /\ UNCHANGED <<chainVars, serviceRows, txs, crashes>>

------------------------------------------------------------------------------
(* Requests, and the turns of the two background loops *)

Start(w, handler, p) ==
    /\ At(w, "idle")
    /\ handler \in Handlers[w]
    /\ Goto(w, p)
    /\ UNCHANGED <<chainVars, serviceRows, txs, crashes>>

StartReconcile(w)   == Start(w, "reconcile", Reconcile(Idle, "done"))
StartRebuild(w)     == Start(w, "rebuild", Reconcile(Idle, "rebuildRead"))
StartRetryAnchor(w) == Start(w, "retry", Reconcile(Idle, "retryRead"))
StartSubmit(w)      == Start(w, "submit", Reconcile(Idle, "submitRead"))
StartSweep(w)       == Start(w, "sweep", Reconcile(Idle, "sweepList"))

StartMarkFailed(w) ==
    \E j \in KnownJobs : Start(w, "fail", MarkFailed(j))

StartConfirm(w) ==
    \E j \in KnownJobs : Start(w, "confirm", Reconcile(OnJob(j), "confirmRead"))

\* The broadcast endpoints, by the kind of transaction they send.
BroadcastEndpoint == [typed |-> "broadcast-typed", fallback |-> "broadcast-fallback"]
RebroadcastEndpoint ==
    [typed |-> "retry-broadcast-typed", fallback |-> "retry-broadcast-fallback"]

StartBroadcast(w) ==
    \E j \in KnownJobs, k \in {"typed", "fallback"} :
        Start(w, BroadcastEndpoint[k], [OnJob(j) EXCEPT !.kind = k, !.pc = "plan"])

StartRebroadcast(w) ==
    \E j \in KnownJobs, k \in {"typed", "fallback"} :
        Start(w, RebroadcastEndpoint[k],
              Reconcile([OnJob(j) EXCEPT !.kind = k, !.op = "rebroadcast"],
                        "rebroadcastRead"))

Request(w) ==
    \/ StartReconcile(w) \/ StartRebuild(w) \/ StartRetryAnchor(w)
    \/ StartSubmit(w) \/ StartMarkFailed(w) \/ StartConfirm(w)
    \/ StartBroadcast(w) \/ StartRebroadcast(w) \/ StartSweep(w)

Step(w) ==
    \/ LinkRead(w) \/ NothingToLink(w) \/ LinkTask(w) \/ SaveRewardWindow(w)
    \/ SyncRead(w) \/ SyncOpenSettlementBatch(w)
    \/ RebuildRead(w) \/ RebuildWrite(w)
    \/ RetryRead(w) \/ RetryWindow(w) \/ RetryWrite(w)
    \/ SubmitRead(w) \/ SubmitJob(w) \/ SubmitBatch(w)
    \/ BuildChainTxPlan(w) \/ BroadcastAnswered(w) \/ BroadcastError(w)
    \/ BroadcastWrite(w)
    \/ ConfirmRead(w) \/ ConfirmBatchRead(w)
    \/ QueryAnswered(w) \/ QueryError(w) \/ ConfirmWrite(w)
    \/ AnchorJob(w) \/ AnchorCheck(w) \/ AnchorBatch(w) \/ PayBudgetLedgers(w)
    \/ FailJob(w) \/ FailCheck(w) \/ FailBatch(w)
    \/ RebroadcastRead(w) \/ SweepList(w) \/ SweepNext(w)

Crash ==
    /\ crashes < MaxCrashes
    /\ \E w \in Workers : ~At(w, "idle")
    /\ crashes' = crashes + 1
    /\ proc' = [w \in Workers |-> Idle]
    /\ UNCHANGED <<chainVars, serviceRows, txs>>

------------------------------------------------------------------------------
(* The chain as the service's account sees it *)

InMempool == {i \in 1..Len(txs) : txs[i].status = "mempool"}

\* Account sequence numbers make the node run the oldest transaction first.  A
\* fallback transaction is a bank transfer with a memo: x/settlement never
\* hears of it.
DeliverTx ==
    \E i \in InMempool :
        LET m == [batch |-> Batch, job |-> txs[i].job,
                  submitter |-> Submitter, root |-> txs[i].root]
        IN  /\ \A k \in InMempool : i <= k
            /\ IF txs[i].kind = "typed"
                 THEN /\ AnchorSettlementBatch(m)
                      /\ txs' = [txs EXCEPT ![i].status =
                                   IF Accepts(m) THEN "ok" ELSE "failed"]
                 ELSE /\ txs' = [txs EXCEPT ![i].status = "ok"]
                      /\ UNCHANGED chainVars
            /\ UNCHANGED <<serviceRows, proc, crashes>>

\* A transaction may leave the mempool without ever being run.
DropTx ==
    /\ \E i \in InMempool : txs' = [txs EXCEPT ![i].status = "dropped"]
    /\ UNCHANGED <<chainVars, serviceRows, proc, crashes>>

Init ==
    /\ ChainInit
    /\ submitters = {Submitter}
    /\ linked = {}
    /\ window = {}
    /\ batch = [state |-> "none", job |-> None, root |-> None, tasks |-> {}]
    /\ jobs = [j \in Jobs |-> None]
    /\ paid = FALSE
    /\ txs = <<>>
    /\ proc = [w \in Workers |-> Idle]
    /\ crashes = 0

Next ==
    \/ \E w \in Workers : Request(w) \/ Step(w)
    \/ Crash
    \/ DeliverTx
    \/ DropTx

Spec == Init /\ [][Next]_vars

\* Fairness.  A worker that runs a handler goes on with it; the node runs what
\* is in its mempool; the confirmation loop (server.py, one turn every 15 s)
\* starts one pass after the other; and the node does not refuse the query about
\* a job for ever.  Nothing is assumed of the place a job has in a pass.
Fairness ==
    /\ \A w \in Workers : WF_vars(Step(w)) /\ SF_vars(StartSweep(w))
    /\ \A j \in Jobs :
         SF_vars(\E w \in Workers : proc[w].job = j /\ QueryAnswered(w))
    /\ WF_vars(DeliverTx)

FairSpec == Spec /\ Fairness

------------------------------------------------------------------------------
(* Properties *)

Tx == [kind : {"typed", "fallback"}, job : Jobs, root : Roots,
       status : {"mempool", "ok", "failed", "dropped"}]
PCs == {"idle", "link", "linkTask", "sync", "syncWrite", "rebuildRead",
        "rebuildWrite", "retryRead", "retryWindow", "retryWrite", "submitRead",
        "submitJob", "submitBatch", "plan", "broadcast", "broadcastWrite",
        "confirmRead", "confirmBatch", "confirmQuery", "confirmWrite", "anchorJob",
        "anchorCheck", "anchorBatch", "pay", "failJob", "failCheck",
        "failBatch", "rebroadcastRead", "sweepList", "sweepNext"}

Nexts == {"done", "rebuildRead", "retryRead", "submitRead", "confirmRead",
          "failJob", "anchorJob", "rebroadcastRead", "sweepList"}
Ops == {"none", "rebroadcast"}
Proc == [pc : PCs, next : Nexts, op : Ops, job : Jobs \cup {None},
         kind : {"none", "typed", "fallback"}, tasks : SUBSET TaskRuns,
         seen : BatchRow \cup {None}, root : Roots \cup {None},
         tx : 0..MaxTxs, status : Confirmations, todo : SUBSET Jobs]

\* The rows, the mempool and the workers' local values have their types.
TypeOK ==
    /\ ChainTypeOK
    /\ linked \subseteq TaskRuns
    /\ window \subseteq TaskRuns
    /\ batch \in BatchRow
    /\ jobs \in [Jobs -> JobRow \cup {None}]
    /\ paid \in BOOLEAN
    /\ txs \in Seq(Tx)
    /\ Len(txs) <= MaxTxs
    /\ proc \in [Workers -> Proc]
    /\ crashes \in 0..MaxCrashes

\* "anchored means query-confirmed" (docs/superpowers/plans/2026-04-20-poker-
\* mtt-phase3-production-readiness.md:172): whatever the interleaving, a job row
\* in state anchored is the job whose message the chain stores for the batch.
AnchoredJobIsOnChain ==
    \A j \in Jobs :
        (jobs[j] # None /\ jobs[j].state = "anchored")
            => (anchors[Batch] # None /\ anchors[Batch].job = j)

\* The pipeline keeps the promise of AnchorPromise: the chain's entry for the
\* batch is written once, and a job is reported anchored only by a step that
\* finds its own anchor there, however the handlers interleave.
reportedJobs == {j \in Jobs : jobs[j] # None /\ jobs[j].state = "anchored"}
Promise == INSTANCE AnchorPromise WITH
             Values <- Anchor, value <- anchors[Batch], reported <- reportedJobs
KeepsPromise == Promise!PromiseSpec

\* A budget ledger is marked paid only once the batch's anchor is on the chain.
PaidOnlyIfOnChain == paid => anchors[Batch] # None

\* With one request at a time, what the chain stores is what the batch row
\* says: same canonical root, whichever job wrote it, in every state.
ChainAgreesWithBatch ==
    anchors[Batch] # None => anchors[Batch].root = batch.root

\* A batch reported anchored is stored on the chain under the very job and root
\* of its row.
AnchoredBatchIsOnChain ==
    batch.state = "anchored" =>
        /\ anchors[Batch] # None
        /\ anchors[Batch].job = batch.job
        /\ anchors[Batch].root = batch.root

\* A canonical root, once written, is never replaced: the "canonical root
\* conflict" guard of retry_anchor_settlement_batch.
RootNeverMutates == [][batch.root # None => batch'.root = batch.root]_vars

\* The confirmation loop brings every job whose transaction the node has run to
\* an end, whatever jobs stand before it in a pass, through passes that a refused
\* query or a crash cuts short; unless a later broadcast of the job replaced the
\* transaction by one that was dropped.
SweepResolvesJobs ==
    \A j \in Jobs :
        (/\ jobs[j] # None
         /\ jobs[j].state = "anchor_submitted"
         /\ jobs[j].tx # 0
         /\ txs[jobs[j].tx].status \in {"ok", "failed"})
        ~> (/\ jobs[j] # None
            /\ \/ jobs[j].state \in {"anchored", "anchor_failed"}
               \/ jobs[j].tx # 0 /\ txs[jobs[j].tx].status = "dropped")
==============================================================================

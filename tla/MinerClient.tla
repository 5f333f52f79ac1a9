------------------------------ MODULE MinerClient ------------------------------
(***************************************************************************)
(* The miner script's loop against the mining service: fetch the active      *)
(* tasks, and for each of the selected ones forecast, commit, reveal and     *)
(* log, one after the other or in a pool of threads.                         *)
(*                                                                          *)
(* A request that is sent may be served at any later time, or never; the     *)
(* client waits for the answer until it times out, and a request it gave up  *)
(* on may still be served.  The service reads the submission in one step and *)
(* saves it in another.  The client process may be killed at any time and    *)
(* started again; all it keeps is its log file.  Each attempt at a task      *)
(* draws a new nonce; a commit hash is the forecast and the nonce.           *)
(***************************************************************************)
EXTENDS MinerForecast, Sequences, SequencesExt

CONSTANTS Tasks,        \* the active tasks, in the order the service lists them
          Daily,        \* those of them in the daily_anchor lane
          IncludeDaily, \* not --forecast-only
          MaxFastTasks, \* max_fast_tasks
          ParallelTasks, \* the values of resolve_parallel_tasks
          LogSize,      \* records the log keeps
          Forecast(_),  \* attempt -> the forecast it makes
          MaxAttempts, MaxFaults

ASSUME ClientAssumption ==
    /\ Tasks \in Seq(ToSet(Tasks)) /\ Daily \subseteq ToSet(Tasks)
    /\ \A i, j \in DOMAIN Tasks : Tasks[i] = Tasks[j] => i = j
    /\ IncludeDaily \in BOOLEAN
    /\ MaxFastTasks \in Nat /\ ParallelTasks \subseteq Nat \ {0} /\ LogSize \in Nat \ {0}
    /\ MaxAttempts \in Nat /\ MaxFaults \in Nat
    /\ \A n \in 1..MaxAttempts : Forecast(n) \in MinPYes..MaxPYes
    /\ None \notin Nat /\ None # "200"
    /\ None \notin [hash : Nat \X Nat, p : Nat \cup {None}]
    /\ None \notin [pc : {"write"}, n : Nat, buf : Seq([t : ToSet(Tasks), p : Nat, n : Nat])]

TaskSet == ToSet(Tasks)

VARIABLES
    phase,      \* task -> "open", "short" (too late for a new forecast), "reveal", "closed"
    registered, \* the service knows the miner
    sub,        \* the service's submissions: task -> [hash, p] or None
    net,        \* requests on their way or in service
    answer,     \* attempt -> the status of the answer it waits for, or None
    client,     \* "down", "loop" or "mining"
    parallel,   \* the parallel_tasks of this process
    pool,       \* max_workers of mine_selected_tasks
    todo,       \* selected tasks of this iteration not begun yet
    work,       \* task -> the mine_task call at work on it, or None
    log,        \* the log file
    attempts,   \* nonces drawn
    mined,      \* tasks for which mine_task returned True (history)
    faults,     \* requests given up and processes killed (history)
    overlapped  \* the service had two commits for a task in service at once (history)

service == <<phase, registered, sub, net, answer>>
config == <<parallel, pool>>
process == <<client, config, todo, work, log, attempts>>
history == <<mined, faults, overlapped>>
vars == <<service, process, history>>

Init ==
    /\ phase = [t \in TaskSet |-> "open"]
    /\ registered = FALSE
    /\ sub = [t \in TaskSet |-> None]
    /\ net = {}
    /\ answer = [n \in 1..MaxAttempts |-> None]
    /\ client = "down"
    /\ parallel = 1
    /\ pool = 1
    /\ todo = {}
    /\ work = [t \in TaskSet |-> None]
    /\ log = <<>>
    /\ attempts = 0
    /\ mined = {}
    /\ faults = 0
    /\ overlapped = FALSE

------------------------------------------------------------------------------
(* The service (ForecastSubmission, for one miner).                          *)

Hash(p, nonce) == <<p, nonce>>
Request(kind, t, n) == [kind |-> kind, t |-> t, n |-> n, p |-> Forecast(n),
                        stage |-> "sent", row |-> None]

\* An answer nobody waits for is dropped.
Reply(r, status) ==
    /\ answer' = IF work[r.t] # None /\ work[r.t].n = r.n
                   THEN [answer EXCEPT ![r.n] = status] ELSE answer
    /\ net' = net \ {r}

\* What commit_submission and reveal_submission find out before they save.
CommitVerdict(r) ==
    CASE phase[r.t] \notin {"open", "short"} -> "400"
      [] ~registered -> "404"
      [] sub[r.t] # None -> "409"
      [] OTHER -> "ok"

RevealVerdict(r) ==
    CASE phase[r.t] = "closed" -> "400"
      [] ~registered -> "404"
      [] sub[r.t] = None -> "400"
      [] sub[r.t].p # None -> "409"
      [] sub[r.t].hash # Hash(r.p, r.n) -> "400"
      [] OTHER -> "ok"

Verdict(r) == IF r.kind = "commit" THEN CommitVerdict(r) ELSE RevealVerdict(r)

ServeRead(r) ==
    /\ r.stage = "sent"
    /\ IF Verdict(r) = "ok"
         THEN /\ net' = (net \ {r}) \cup {[r EXCEPT !.stage = "save", !.row = sub[r.t]]}
              /\ UNCHANGED answer
         ELSE Reply(r, Verdict(r))
    /\ overlapped' = (overlapped \/ (r.kind = "commit" /\
         \E s \in net : s.kind = "commit" /\ s.t = r.t /\ s.stage = "save"))
    /\ UNCHANGED <<phase, registered, sub, process, mined, faults>>

\* A commit makes a new row; a reveal saves the row it read with the forecast.
ServeSave(r) ==
    /\ r.stage = "save"
    /\ sub' = [sub EXCEPT ![r.t] = IF r.kind = "commit"
                                     THEN [hash |-> Hash(r.p, r.n), p |-> None]
                                     ELSE [r.row EXCEPT !.p = r.p]]
    /\ Reply(r, "200")
    /\ UNCHANGED <<phase, registered, process, history>>

Later == [open |-> "short", short |-> "reveal", reveal |-> "closed"]

Tick(t) ==
    /\ phase[t] # "closed"
    /\ phase' = [phase EXCEPT ![t] = Later[@]]
    /\ UNCHANGED <<registered, sub, net, answer, process, history>>

\* get_active_tasks lists a fast task until its commit deadline.
Active == {t \in TaskSet : IF t \in Daily THEN phase[t] # "closed"
                           ELSE phase[t] \in {"open", "short"}}

------------------------------------------------------------------------------
(* main                                                                     *)

\* check_miner_registered and auto_register; a 409 counts as registered.
Register ==
    /\ client = "down"
    /\ registered' = TRUE
    /\ client' = "loop"
    /\ parallel' \in ParallelTasks
    /\ UNCHANGED <<phase, sub, net, answer, pool, todo, work, log, attempts, history>>

\* Without an answer the script exits, whether the service registered it or not.
RegisterFails ==
    /\ client = "down"
    /\ faults < MaxFaults
    /\ faults' = faults + 1
    /\ registered' \in {registered, TRUE}
    /\ UNCHANGED <<phase, sub, net, answer, process, mined, overlapped>>

\* select_tasks_for_iteration: the daily tasks, then the first fast ones,
Place(t) == CHOOSE i \in DOMAIN Tasks : Tasks[i] = t

Select(tasks) ==
    LET fast == tasks \ Daily
        firstFast == {t \in fast : Cardinality({u \in fast : Place(u) < Place(t)}) < MaxFastTasks}
    IN IF IncludeDaily THEN (tasks \cap Daily) \cup firstFast ELSE firstFast

\* each kind in the order of the list.
Sooner(t, u) ==
    \/ t \in Daily /\ u \notin Daily
    \/ (t \in Daily <=> u \in Daily) /\ Place(t) <= Place(u)
IsNext(t) == t \in todo /\ \A u \in todo : Sooner(t, u)

\* main's loop and mine_selected_tasks: one worker is a plain loop, more are a pool.
FetchTasks ==
    /\ client = "loop"
    /\ Select(Active) # {}
    /\ todo' = Select(Active)
    /\ pool' = IF Cardinality(todo') < parallel THEN Cardinality(todo') ELSE parallel
    /\ client' = "mining"
    /\ UNCHANGED <<service, parallel, work, log, attempts, history>>

Busy == {t \in TaskSet : work[t] # None}

\* get_task_detail and the check of the time that is left; without enough of it,
\* or without an answer, the task is skipped.
BeginTask(t) ==
    /\ client = "mining"
    /\ IsNext(t)
    /\ Cardinality(Busy) < pool
    /\ todo' = todo \ {t}
    /\ work' = [work EXCEPT ![t] =
                  IF phase[t] = "open" THEN [pc |-> "predict", n |-> None, buf |-> <<>>]
                  ELSE None]
    /\ UNCHANGED <<service, client, config, log, attempts, history>>

DetailFails(t) ==
    /\ client = "mining"
    /\ IsNext(t)
    /\ Cardinality(Busy) < pool
    /\ faults < MaxFaults
    /\ faults' = faults + 1
    /\ todo' = todo \ {t}
    /\ UNCHANGED <<service, client, config, work, log, attempts, mined, overlapped>>

IterationDone ==
    /\ client = "mining"
    /\ todo = {} /\ Busy = {}
    /\ client' = "loop"
    /\ UNCHANGED <<service, config, todo, work, log, attempts, history>>

------------------------------------------------------------------------------
(* mine_task, after the details                                              *)

At(t, pc) == client = "mining" /\ work[t] # None /\ work[t].pc = pc
Stop(t) == work' = [work EXCEPT ![t] = None]

\* The prediction may raise, or take until the commit deadline.
PredictionFails(t) ==
    /\ At(t, "predict")
    /\ Stop(t)
    /\ UNCHANGED <<service, client, config, todo, log, attempts, history>>

PredictAndCommit(t) ==
    /\ At(t, "predict")
    /\ phase[t] \in {"open", "short"}
    /\ attempts < MaxAttempts
    /\ attempts' = attempts + 1
    /\ work' = [work EXCEPT ![t] = [@ EXCEPT !.pc = "commit", !.n = attempts + 1]]
    /\ net' = net \cup {Request("commit", t, attempts + 1)}
    /\ UNCHANGED <<phase, registered, sub, answer, client, config, todo, log, history>>

RevealRequest(t) == Request("reveal", t, work[t].n)

\* A client that reveals only once the commit window is over.
CommitAnsweredWaits(t) ==
    /\ At(t, "commit")
    /\ answer[work[t].n] # None
    /\ phase[t] \notin {"open", "short"}
    /\ work' = [work EXCEPT ![t].pc = "reveal"]
    /\ net' = net \cup {RevealRequest(t)}
    /\ answer' = [answer EXCEPT ![work[t].n] = None]
    /\ UNCHANGED <<phase, registered, sub, client, config, todo, log, attempts, history>>

\* post_commit takes a 409 for an accepted commit; any other error ends the task.
CommitAnswered(t) ==
    /\ At(t, "commit")
    /\ answer[work[t].n] # None
    /\ IF answer[work[t].n] \in {"200", "409"}
         THEN /\ work' = [work EXCEPT ![t].pc = "reveal"]
              /\ net' = net \cup {RevealRequest(t)}
         ELSE Stop(t) /\ UNCHANGED net
    /\ answer' = [answer EXCEPT ![work[t].n] = None]
    /\ UNCHANGED <<phase, registered, sub, client, config, todo, log, attempts, history>>

\* A 409 is logged like an accepted reveal.
RevealAnsweredAlready(t) ==
    /\ At(t, "reveal")
    /\ answer[work[t].n] # None
    /\ answer' = [answer EXCEPT ![work[t].n] = None]
    /\ work' = [work EXCEPT ![t] = IF answer[work[t].n] \in {"200", "409"}
                                     THEN [@ EXCEPT !.pc = "log"] ELSE None]
    /\ UNCHANGED <<phase, registered, sub, net, client, config, todo, log, attempts, history>>

\* The answer to the reveal.  That of a 409 has no "data": the KeyError ends the
\* serial loop and the process, while a pool only loses the task.
RevealAnswered(t) ==
    /\ At(t, "reveal")
    /\ answer[work[t].n] # None
    /\ answer' = [answer EXCEPT ![work[t].n] = None]
    /\ CASE answer[work[t].n] = "200" -> work' = [work EXCEPT ![t].pc = "log"]
                                         /\ UNCHANGED <<client, todo>>
         [] answer[work[t].n] = "409" /\ pool = 1 ->
              Stop(t) /\ client' = "down" /\ todo' = {}
         [] OTHER -> Stop(t) /\ UNCHANGED <<client, todo>>
    /\ UNCHANGED <<phase, registered, sub, net, config, log, attempts, history>>

Record(t) == [t |-> t, p |-> Forecast(work[t].n), n |-> work[t].n]
LastRecords(s) == SubSeq(s, IF Len(s) > LogSize THEN Len(s) - LogSize + 1 ELSE 1, Len(s))

\* append_log without the lock.
AppendLogUnlocked(t) ==
    /\ At(t, "log")
    /\ work' = [work EXCEPT ![t] = [@ EXCEPT !.pc = "write", !.buf = LastRecords(Append(log, Record(t)))]]
    /\ log' = <<>>
    /\ UNCHANGED <<service, client, config, todo, attempts, history>>

\* append_log holds LOG_LOCK: it reads the file, opens it for writing, which
\* truncates it,
AppendLog(t) ==
    /\ At(t, "log")
    /\ \A u \in Busy : ~At(u, "write")
    /\ work' = [work EXCEPT ![t] = [@ EXCEPT !.pc = "write", !.buf = LastRecords(Append(log, Record(t)))]]
    /\ log' = <<>>
    /\ UNCHANGED <<service, client, config, todo, attempts, history>>

\* and writes all records.
WriteLog(t) ==
    /\ At(t, "write")
    /\ log' = work[t].buf
    /\ Stop(t)
    /\ mined' = mined \cup {t}
    /\ UNCHANGED <<service, client, config, todo, attempts, faults, overlapped>>

\* The request times out, its answer is lost, or the service fails; what was sent
\* stays on its way.
RequestFails(t) ==
    /\ At(t, "commit") \/ At(t, "reveal")
    /\ faults < MaxFaults
    /\ faults' = faults + 1
    /\ Stop(t)
    /\ UNCHANGED <<service, client, config, todo, log, attempts, mined, overlapped>>

Kill ==
    /\ client # "down"
    /\ faults < MaxFaults
    /\ faults' = faults + 1
    /\ client' = "down"
    /\ todo' = {}
    /\ work' = [t \in TaskSet |-> None]
    /\ UNCHANGED <<service, config, log, attempts, mined, overlapped>>

MineTask(t) == PredictAndCommit(t) \/ CommitAnswered(t) \/ RevealAnswered(t)
                 \/ AppendLog(t) \/ WriteLog(t)
Serve == \E r \in net : ServeRead(r) \/ ServeSave(r)

Next ==
    \/ Serve
    \/ \E t \in TaskSet : Tick(t) \/ BeginTask(t) \/ DetailFails(t) \/ MineTask(t)
                            \/ PredictionFails(t) \/ RequestFails(t)
    \/ Register \/ RegisterFails \/ FetchTasks \/ IterationDone \/ Kill

Spec == Init /\ [][Next]_vars

\* The service serves what arrives and a thread of the client goes on; the script
\* need not be started again, and the deadlines need not pass.
FairSpec == Spec /\ WF_vars(Serve) /\ \A t \in TaskSet : WF_vars(MineTask(t))

------------------------------------------------------------------------------
(* Properties.                                                              *)

\* What the log says was revealed is what the service holds, with the same
\* forecast, although answers get lost, requests arrive late and the script is
\* killed and started again.  (Excepted: the service had two commits of the miner
\* for a task in service at once; the later save then erases a reveal in between.)
LogIsTrue ==
    ~overlapped => \A i \in DOMAIN log :
      sub[log[i].t] = [hash |-> Hash(log[i].p, log[i].n), p |-> log[i].p]

\* Threads that log at the same time do not lose each other's records: as long as
\* nothing has gone wrong (no request failed and the process was not killed), every
\* task mined has its record, up to the size of the log.
LogIsComplete ==
    faults = 0 /\ ~(\E t \in TaskSet : At(t, "write")) =>
      \/ Len(log) = LogSize
      \/ \A t \in mined : \E i \in DOMAIN log : log[i].t = t

\* When mine_task predicts (compute_heuristic_prediction, or a model's answer
\* through apply_codex_aggression_profile) the forecast does not lean to yes or to no:
\* the mirrored market has the mirrored forecast, roundings and thresholds included.
\* The one exception is a model's answer for a liquid market whose price is 0 or 10000:
\* build_signal_calibration takes 0 for no price and lets the baseline vote, and
\* 10000 for a price.
ForecastIsNeutral == \A t \in TaskSet : At(t, "predict") => Neutral

\* A model's forecast that mine_task is about to commit is moved toward 5000 only,
\* never across, and one more signal that agrees with it, or a higher confidence,
\* never costs distance (apply_codex_aggression_profile).
AggressionFollowsEvidence == \A t \in TaskSet : At(t, "predict") => FollowsEvidence

\* Without faults every commit is revealed while there is time.
CommittedIsRevealed ==
    \A t \in TaskSet :
      (sub[t] # None) ~> \/ sub[t] # None /\ sub[t].p # None
                         \/ phase[t] = "closed" \/ faults > 0
=============================================================================

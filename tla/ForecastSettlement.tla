-------------------------- MODULE ForecastSettlement --------------------------
(***************************************************************************)
(* How reconcile() pays the fifteen-minute forecast tasks: it settles every *)
(* due task, and then releases the held rewards of miners that graduated.   *)
(*                                                                          *)
(* reconcile() is run by the forecast progression loop, by the anchor loop  *)
(* and by most admin requests, each an asyncio task of its own, with no     *)
(* lock.  A pass reads rows, awaits, and writes rows back from what it      *)
(* read; each repository call is a transaction of its own.  A crash ends    *)
(* every pass and keeps the rows.                                           *)
(*                                                                          *)
(* Data.  A revealed submission is a pair <<task, miner>>; a submission     *)
(* that was never revealed is skipped by every loop and is not represented. *)
(* The amount paid for one is any of Amounts: it is computed from the score *)
(* and from reliability columns that other handlers and earlier payments    *)
(* change, so that a second settlement of a submission may compute another  *)
(* one.  A miner's admission gate (seven days, or 500 reveals) is a set     *)
(* that only grows, read together with the miner's row.  Whether a miner is *)
(* active, when it registered and when a task was published do not change   *)
(* while a task is settled: they are constants, on a clock of naturals.     *)
(* The 24 hour window of the participation counter, and the columns copied  *)
(* for display, are left out.                                               *)
(***************************************************************************)
EXTENDS Integers, FiniteSets, FiniteSetsExt

CONSTANTS Tasks,       \* forecast_15m task runs
          Miners,
          Subs,        \* the revealed submissions, pairs <<task, miner>>
          Active,      \* miners with status active
          Created,     \* the created_at of each miner
          PublishAt,   \* the publish_at of each task
          Amounts,     \* what one submission may be paid
          Passes,      \* the asyncio tasks that run reconcile()
          MaxCrashes,  \* bound on the crashes of the service
          None         \* no row

ASSUME SettlementAssumption ==
    /\ IsFiniteSet(Tasks) /\ IsFiniteSet(Miners)
    /\ Subs \subseteq Tasks \X Miners
    /\ Active \subseteq Miners
    /\ Created \in [Miners -> Nat]
    /\ PublishAt \in [Tasks -> Nat]
    /\ Passes # {}
    /\ Amounts \subseteq Nat
    /\ MaxCrashes \in Nat
    /\ None \notin Tasks \cup Miners

VARIABLES
    due,     \* tasks whose resolve_at has passed
    task,    \* the state column of forecast_task_runs
    sub,     \* the forecast_submissions rows
    hold,    \* the reward_hold_entries rows, under the id hold:<submission>
    acct,    \* the reward columns of the miners rows
    mature,  \* miners that _admission_state calls mature
    proc,    \* what each pass does and what it read
    crashes

vars == <<due, task, sub, hold, acct, mature, proc, crashes>>

NoHold == [held |-> 0, released |-> 0, state |-> "none"]
NewAccount == [total |-> 0, held |-> 0, settled |-> 0, chances |-> 0]
Idle == [pc |-> "idle", todo |-> {}, t |-> None, left |-> {}, m |-> None,
         row |-> NewAccount, amount |-> 0, held |-> 0,
         rows |-> [s \in Subs |-> [state |-> "revealed", reward |-> 0, held |-> 0]],
         snap |-> [m \in Miners |-> NewAccount], grown |-> {},
         entries |-> {}, gone |-> 0]

At(p, pc) == proc[p].pc = pc
Goto(p, f) == proc' = [proc EXCEPT ![p] = f]
SubsOf(t) == {s \in Subs : s[1] = t}

------------------------------------------------------------------------------
(* _split_reward_by_admission *)

\* round(amount * 2000 / 10000); a fifth of an integer is never half way.
ProbationRelease(amount) == (2 * amount + 5) \div 10

HeldPart(amount, isMature) ==
    IF isMature THEN 0 ELSE amount - ProbationRelease(amount)

------------------------------------------------------------------------------
(* _settle_due_tasks *)

\* Mutant: a task that had to wait for its resolution is not listed again.
StartPassPublished(p) ==
    /\ At(p, "idle")
    /\ Goto(p, [Idle EXCEPT !.pc = "pick",
                            !.todo = {t \in due : task[t] = "published"}])
    /\ UNCHANGED <<due, task, sub, hold, acct, mature, crashes>>

\* list_due_unsettled_fast_tasks
StartPass(p) ==
    /\ At(p, "idle")
    /\ Goto(p, [Idle EXCEPT !.pc = "pick",
                            !.todo = {t \in due : task[t] # "resolved"}])
    /\ UNCHANGED <<due, task, sub, hold, acct, mature, crashes>>

\* Mutant: a submission that is marked resolved is not paid again.
PickUnpaid(p, t, pc) ==
    /\ At(p, "pick")
    /\ t \in proc[p].todo
    /\ Goto(p, [proc[p] EXCEPT
                  !.pc = pc, !.t = t, !.rows = sub,
                  !.left = {s \in SubsOf(t) : sub[s].state # "resolved"}])
    /\ UNCHANGED <<due, task, sub, hold, acct, mature, crashes>>

\* The next listed task: its resolution is asked for, then its submissions
\* are listed.  There is no look at the task's row again.
Pick(p, t, pc) ==
    /\ At(p, "pick")
    /\ t \in proc[p].todo
    /\ Goto(p, [proc[p] EXCEPT !.pc = pc, !.t = t, !.left = SubsOf(t),
                               !.rows = sub])
    /\ UNCHANGED <<due, task, sub, hold, acct, mature, crashes>>

PickUnresolved(p, t) == Pick(p, t, "hang")
PickResolved(p, t)   == Pick(p, t, "pay")

HangSubmission(p) ==
    /\ At(p, "hang")
    /\ \E s \in proc[p].left :
         /\ sub' = [sub EXCEPT ![s] =
                      [proc[p].rows[s] EXCEPT !.state = "pending_resolution"]]
         /\ Goto(p, [proc[p] EXCEPT !.left = @ \ {s}])
    /\ UNCHANGED <<due, task, hold, acct, mature, crashes>>

HangTask(p) ==
    /\ At(p, "hang")
    /\ proc[p].left = {}
    /\ task' = [task EXCEPT ![proc[p].t] = "awaiting_resolution"]
    /\ Goto(p, [proc[p] EXCEPT !.pc = "pick", !.todo = @ \ {proc[p].t}])
    /\ UNCHANGED <<due, sub, hold, acct, mature, crashes>>

\* get_miner, and the amounts computed from the row.
PayRead(p) ==
    /\ At(p, "pay")
    /\ \E s \in proc[p].left, a \in Amounts :
         Goto(p, [proc[p] EXCEPT !.pc = "paySubmission", !.m = s[2],
                                 !.row = acct[s[2]], !.amount = a,
                                 !.held = HeldPart(a, s[2] \in mature)])
    /\ UNCHANGED <<due, task, sub, hold, acct, mature, crashes>>

PaySubmission(p) ==
    /\ At(p, "paySubmission")
    /\ sub' = [sub EXCEPT ![<<proc[p].t, proc[p].m>>] =
                 [state |-> "resolved", reward |-> proc[p].amount,
                  held |-> proc[p].held]]
    /\ Goto(p, [proc[p] EXCEPT !.pc = IF proc[p].held > 0 THEN "payHold"
                                      ELSE "payMiner"])
    /\ UNCHANGED <<due, task, hold, acct, mature, crashes>>

\* save_hold_entry under the id of the submission: an upsert.
PayHold(p) ==
    /\ At(p, "payHold")
    /\ hold' = [hold EXCEPT ![<<proc[p].t, proc[p].m>>] =
                  [held |-> proc[p].held, released |-> 0, state |-> "held"]]
    /\ Goto(p, [proc[p] EXCEPT !.pc = "payMiner"])
    /\ UNCHANGED <<due, task, sub, acct, mature, crashes>>

\* Mutant: the held part is credited at once as well.
PayMinerAll(p) ==
    LET q == proc[p]
    IN  /\ At(p, "payMiner")
        /\ acct' = [acct EXCEPT ![q.m].total = q.row.total + q.amount,
                                ![q.m].held = q.row.held + q.held,
                                ![q.m].settled = q.row.settled + 1]
        /\ Goto(p, [q EXCEPT !.pc = "pay", !.left = @ \ {<<q.t, q.m>>}])
        /\ UNCHANGED <<due, task, sub, hold, mature, crashes>>

\* update_miner_forecast_settlement: totals computed from the row read before.
PayMiner(p) ==
    LET q == proc[p]
    IN  /\ At(p, "payMiner")
        /\ acct' = [acct EXCEPT ![q.m].total = q.row.total + (q.amount - q.held),
                                ![q.m].held = q.row.held + q.held,
                                ![q.m].settled = q.row.settled + 1]
        /\ Goto(p, [q EXCEPT !.pc = "pay", !.left = @ \ {<<q.t, q.m>>}])
        /\ UNCHANGED <<due, task, sub, hold, mature, crashes>>

\* The miners task t counts for: active, and registered when it was published
\* or with a reveal in a task published at the same time.
Entrants(t) ==
    {m \in Active : \/ Created[m] <= PublishAt[t]
                    \/ \E s \in Subs : s[2] = m /\ PublishAt[s[1]] = PublishAt[t]}

\* _apply_fast_task_participation lists the miners and counts a chance for
\* every entrant.
ListParticipants(p) ==
    /\ At(p, "pay")
    /\ proc[p].left = {}
    /\ Goto(p, [proc[p] EXCEPT !.pc = "participation",
                               !.left = Entrants(proc[p].t), !.snap = acct])
    /\ UNCHANGED <<due, task, sub, hold, acct, mature, crashes>>

CountChance(p) ==
    /\ At(p, "participation")
    /\ \E m \in proc[p].left :
         /\ acct' = [acct EXCEPT ![m].chances = proc[p].snap[m].chances + 1]
         /\ Goto(p, [proc[p] EXCEPT !.left = @ \ {m}])
    /\ UNCHANGED <<due, task, sub, hold, mature, crashes>>

\* Only now is the task marked, and no longer listed as due.
ResolveTask(p) ==
    /\ At(p, "participation")
    /\ proc[p].left = {}
    /\ task' = [task EXCEPT ![proc[p].t] = "resolved"]
    /\ Goto(p, [proc[p] EXCEPT !.pc = "pick", !.todo = @ \ {proc[p].t}])
    /\ UNCHANGED <<due, sub, hold, acct, mature, crashes>>

------------------------------------------------------------------------------
(* _release_matured_holds *)

\* list_miners
ListMiners(p) ==
    /\ At(p, "pick")
    /\ proc[p].todo = {}
    /\ Goto(p, [Idle EXCEPT !.pc = "release", !.left = Miners, !.snap = acct,
                            !.grown = mature])
    /\ UNCHANGED <<due, task, sub, hold, acct, mature, crashes>>

Remaining(h) == h.held - h.released

\* list_due_hold_entries, of a mature miner; any other miner is passed over.
ReleaseRead(p) ==
    /\ At(p, "release")
    /\ \E m \in proc[p].left :
         Goto(p, IF m \in proc[p].grown
                   THEN [proc[p] EXCEPT
                           !.pc = "releaseHold", !.m = m, !.gone = 0,
                           !.entries = {<<s, hold[s]>> : s \in
                             {x \in Subs : /\ x[2] = m
                                           /\ hold[x].state = "held"
                                           /\ Remaining(hold[x]) > 0}}]
                   ELSE [proc[p] EXCEPT !.left = @ \ {m}])
    /\ UNCHANGED <<due, task, sub, hold, acct, mature, crashes>>

ReleaseHold(p) ==
    /\ At(p, "releaseHold")
    /\ \E e \in proc[p].entries :
         /\ hold' = [hold EXCEPT ![e[1]] = [e[2] EXCEPT !.released = e[2].held,
                                                        !.state = "released"]]
         /\ Goto(p, [proc[p] EXCEPT !.gone = @ + Remaining(e[2]),
                                    !.entries = @ \ {e}])
    /\ UNCHANGED <<due, task, sub, acct, mature, crashes>>

\* Mutant: a miner without due entries is passed over.
ReleasedLedgerOnly(row, gone) ==
    IF gone > 0
      THEN [row EXCEPT !.total = @ + gone,
                       !.held = IF @ > gone THEN @ - gone ELSE 0]
      ELSE row

\* What the miner's row becomes: the released entries move from held to total;
\* without any, whatever the row still holds does.
Released(row, gone) ==
    IF gone > 0
      THEN [row EXCEPT !.total = @ + gone,
                       !.held = IF @ > gone THEN @ - gone ELSE 0]
      ELSE [row EXCEPT !.total = @ + row.held, !.held = 0]

\* update_miner_forecast_settlement of total_rewards and held_rewards, called
\* only when one of them changes.
ReleaseMiner(p) ==
    LET q == proc[p]
        new == Released(q.snap[q.m], q.gone)
    IN  /\ At(p, "releaseHold")
        /\ q.entries = {}
        /\ acct' = IF new = q.snap[q.m] THEN acct
                   ELSE [acct EXCEPT ![q.m].total = new.total,
                                     ![q.m].held = new.held]
        /\ Goto(p, [q EXCEPT !.pc = "release", !.left = @ \ {q.m}, !.gone = 0])
        /\ UNCHANGED <<due, task, sub, hold, mature, crashes>>

EndPass(p) ==
    /\ At(p, "release")
    /\ proc[p].left = {}
    /\ Goto(p, Idle)
    /\ UNCHANGED <<due, task, sub, hold, acct, mature, crashes>>

------------------------------------------------------------------------------
(* Time, and the crash of the service *)

BecomeDue(t) ==
    /\ t \notin due
    /\ due' = due \cup {t}
    /\ UNCHANGED <<task, sub, hold, acct, mature, proc, crashes>>

Graduate(m) ==
    /\ m \notin mature
    /\ mature' = mature \cup {m}
    /\ UNCHANGED <<due, task, sub, hold, acct, proc, crashes>>

Crash ==
    /\ crashes < MaxCrashes
    /\ \E p \in Passes : ~At(p, "idle")
    /\ crashes' = crashes + 1
    /\ proc' = [p \in Passes |-> Idle]
    /\ UNCHANGED <<due, task, sub, hold, acct, mature>>

Step(p) ==
    \/ \E t \in Tasks : PickUnresolved(p, t) \/ PickResolved(p, t)
    \/ HangSubmission(p) \/ HangTask(p)
    \/ PayRead(p) \/ PaySubmission(p) \/ PayHold(p) \/ PayMiner(p)
    \/ ListParticipants(p) \/ CountChance(p) \/ ResolveTask(p)
    \/ ListMiners(p) \/ ReleaseRead(p) \/ ReleaseHold(p) \/ ReleaseMiner(p)
    \/ EndPass(p)

Init ==
    /\ due = {}
    /\ task = [t \in Tasks |-> "published"]
    /\ sub = [s \in Subs |-> [state |-> "revealed", reward |-> 0, held |-> 0]]
    /\ hold = [s \in Subs |-> NoHold]
    /\ acct = [m \in Miners |-> NewAccount]
    /\ mature = {}
    /\ proc = [p \in Passes |-> Idle]
    /\ crashes = 0

Next ==
    \/ \E p \in Passes : StartPass(p) \/ Step(p)
    \/ \E t \in Tasks : BecomeDue(t)
    \/ \E m \in Miners : Graduate(m)
    \/ Crash

Spec == Init /\ [][Next]_vars

\* Fairness.  The progression loop starts a pass again and again and goes on
\* with it; the price source resolves a task it is asked for again and again.
FairSpec ==
    /\ Spec
    /\ \A p \in Passes : WF_vars(StartPass(p)) /\ WF_vars(Step(p))
    /\ \A t \in Tasks : SF_vars(\E p \in Passes : PickResolved(p, t))

------------------------------------------------------------------------------
(* Properties *)

Quiet == \A p \in Passes : At(p, "idle")
SubsPaid(m) == {s \in Subs : s[2] = m /\ task[s[1]] = "resolved"}
Rewards == [s \in Subs |-> sub[s].reward]
Earned(m) == SumFunctionOnSet(Rewards, SubsPaid(m))
Chances(m) == {t \in Tasks : task[t] = "resolved" /\ m \in Entrants(t)}
OnLedger(m) == SumFunctionOnSet([s \in Subs |-> Remaining(hold[s])],
                                {s \in Subs : s[2] = m})

\* Between two passes, as long as the service has not crashed, the miner's row
\* agrees with the rows it was computed from: what was credited and what is held
\* add up to the rewards on the resolved submissions, the held part is what the
\* hold ledger still holds, every resolved submission was counted once, and so
\* was every resolved task the miner was an entrant of.
\* tests/mining_service/test_forecast_engine.py:1310-1313 asserts it after one
\* pass: total_rewards is the released part of the submission's reward_amount,
\* held_rewards the rest, and the hold entry's amount_held is held_rewards.
BooksMatchRows ==
    (Quiet /\ crashes = 0) =>
        \A m \in Miners :
            /\ acct[m].total + acct[m].held = Earned(m)
            /\ acct[m].held = OnLedger(m)
            /\ acct[m].settled = Cardinality(SubsPaid(m))
            /\ acct[m].chances = Cardinality(Chances(m))

\* A crash anywhere in a pass loses no reward: every resolved submission's
\* amount is in its miner's row, credited or held, and what is held is never
\* below zero.
NoRewardLost ==
    \A m \in Miners : /\ acct[m].total + acct[m].held >= Earned(m)
                       /\ acct[m].held >= 0

\* A due task is settled in the end, whatever crashed on the way.
DueIsSettled == \A t \in Tasks : (t \in due) ~> (task[t] = "resolved")

\* A graduated miner is paid what is held for it, also when a crash separated
\* the hold entries from the miner's row.
GraduateIsPaid ==
    \A m \in Miners : (m \in mature /\ acct[m].held > 0) ~> (acct[m].held = 0)
==============================================================================

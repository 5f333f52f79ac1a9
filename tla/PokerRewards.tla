------------------------------ MODULE PokerRewards ------------------------------
(***************************************************************************)
(* From the final rankings of poker tournaments to settlement batches: the  *)
(* projection of rankings into results, the reward windows built from the   *)
(* results, the budget ledger that reserves what a window may pay, and the  *)
(* batch that is anchored.                                                  *)
(*                                                                          *)
(* Admin requests and the reconcile loop are asyncio tasks (workers).  A    *)
(* step is one repository call that writes, with the reads before it that   *)
(* no other write separates; a handler that raises, or a crash of the       *)
(* service, leaves the rows written so far.                                 *)
(*                                                                          *)
(* Data.  A daily and a weekly window cover the tournaments locked in them  *)
(* and are closed.  All rows are rated, human and compatible in policy, as  *)
(* the rows a window looks at are.  Scores and weights are in millionths,   *)
(* to which the code rounds them; the consistency score is always 0.  The   *)
(* multiplier a result earns is effective from the next day on and changes  *)
(* shares only; it is left out, with the metadata a projection gets from    *)
(* the loop and the artifacts nothing reads back.                           *)
(***************************************************************************)
EXTENDS Integers, FiniteSets, FiniteSetsExt

CONSTANTS Tournaments, Miners,
          Unit,         \* miner -> economic unit, a number
          Bound,        \* miners whose reward identity is bound
          FieldSize,    \* players of a tournament
          Projections,  \* what admins ever project: a set of ProjectionType
          LegacyResults, \* the requests to apply results, of the same type
          HiddenScores, \* miner -> its hidden evaluation scores, in {-1, 0, 1}
          Windows,      \* reward windows
          Covers,       \* window -> the tournaments locked in it
          Pool,         \* window -> the configured reward pool, 0 for none
          Requested,    \* window -> the reward_pool_amounts admins ever ask for
          Budget,       \* poker_mtt_emission_epoch_budget_amount
          LoopEnabled,  \* poker_mtt_reward_windows_enabled
          Workers, MaxCrashes, None

\* The rows of a projection request: a rank per miner.
ProjectionType == [id : Nat, tournament : Tournaments,
                   ranks : UNION {[ms -> 1..FieldSize] : ms \in SUBSET Miners}]

\* The rows of poker_mtt_result_entries, what a window reads of them, and the
\* projection it is built from; what an anchored batch has hashed.
ResultRow == [rank : 1..FieldSize, snap : Nat, final : BOOLEAN, eligible : BOOLEAN, score : Int]
InputRow  == [t : Tournaments, m : Miners, row : ResultRow]
ProjectionRow == [inputs : SUBSET InputRow, provisional : BOOLEAN, pool : Nat,
                  alloc : UNION {[us -> Nat] : us \in SUBSET {Unit[m] : m \in Miners}}]
RootRow == [proj : ProjectionRow, tasks : BOOLEAN]

\* The rows of reward_windows (tasks: task_run_ids names its tournaments),
\* poker_mtt_budget_ledgers and settlement_batches (root: its canonical_root).
WindowRow == [state : {"finalized", "no_positive_weight"}, total : Nat, linked : BOOLEAN,
              tasks : BOOLEAN]
BudgetRow == [approved : Nat, state : {"reserved", "forfeited", "paid"}, linked : BOOLEAN]
BatchRow  == [state : {"open", "cancelled", "anchored", "anchor_failed"}, total : Nat,
              root : RootRow \cup {None}]

ASSUME RewardsAssumption ==
    /\ FieldSize \in Nat \ {0, 1}
    /\ Miners \subseteq Nat
    /\ IsFiniteSet(Miners) /\ IsFiniteSet(Tournaments) /\ IsFiniteSet(Windows)
    /\ None \notin WindowRow \cup BudgetRow \cup BatchRow \cup RootRow
    /\ Unit \in [Miners -> Nat]
    /\ Bound \subseteq Miners
    /\ Projections \cup LegacyResults \subseteq ProjectionType
    /\ HiddenScores \in [Miners -> SUBSET {-1, 0, 1}]
    /\ Covers \in [Windows -> SUBSET Tournaments]
    /\ Pool \in [Windows -> Nat] /\ Requested \in [Windows -> SUBSET Nat]
    /\ Budget \in Nat \ {0}
    /\ LoopEnabled \in BOOLEAN
    /\ MaxCrashes \in Nat

\* The pools for which the doubles of _allocate_integer_pool_by_weights tell any two
\* remainders apart that differ: with n units, weights up to 10^6 and shares rounded
\* n + 3 times, pool * n * (n + 3) * 10^6 * 2 < 2^53.  Nothing in the code keeps a
\* pool this small; what is said of payments is said of pools that are.
ASSUME ExactPools ==
    \A w \in Windows : \A pool \in Requested[w] \cup {Pool[w]} :
      pool * Cardinality(Miners) * (Cardinality(Miners) + 3) <= 2^30

VARIABLES
    ranking,   \* poker_mtt_final_rankings: tournament, miner -> [rank, snap] or None
    hidden,    \* poker_mtt_hidden_eval_entries: tournament, miner -> score or None
    result,    \* poker_mtt_result_entries: tournament, miner -> row or None
    projected, \* projection ids with a stored artifact
    window,    \* reward_windows: window -> row or None
    proj,      \* the projection artifact of a window: what it was built from, or None
    ledger,    \* poker_mtt_budget_ledgers: window -> row or None
    batch,     \* settlement_batches: window -> row or None
    proc,      \* worker -> the handler it runs
    crashes

inputRows == <<ranking, hidden, result, projected>>
payRows == <<window, proj, ledger, batch>>
vars == <<inputRows, payRows, proc, crashes>>

Idle == [pc |-> "idle", w |-> None, p |-> None, todo |-> {}, rows |-> None, hid |-> None,
         inputs |-> {}, prov |-> FALSE, pool |-> 0, linked |-> FALSE, then |-> "done"]

Goto(k, f) == proc' = [proc EXCEPT ![k] = f]
At(k, pc)  == proc[k].pc = pc

Init ==
    /\ ranking = [t \in Tournaments |-> [m \in Miners |-> None]]
    /\ hidden  = [t \in Tournaments |-> [m \in Miners |-> None]]
    /\ result  = [t \in Tournaments |-> [m \in Miners |-> None]]
    /\ projected = {}
    /\ window = [w \in Windows |-> None]
    /\ proj   = [w \in Windows |-> None]
    /\ ledger = [w \in Windows |-> None]
    /\ batch  = [w \in Windows |-> None]
    /\ proc = [k \in Workers |-> Idle]
    /\ crashes = 0

------------------------------------------------------------------------------
(* Scores, canonical rows and payout ranks.                                 *)

\* round(a / b): the nearest integer; which one at a tie is up to the double.
Nearest(a, b) ==
    CHOOSE n \in {a \div b, a \div b + 1} : 2 * (b * n - a) <= b /\ 2 * (a - b * n) <= b

\* The six digits to which scores and weights are rounded.
Scale == 1000000

\* tournament_result_score and total_score: 0.55 for the rank, 0.25 for the hidden
\* evaluation, each rounded to six digits.
Score(rank, hid) ==
    LET tournament == Nearest(Scale * (FieldSize - rank), FieldSize - 1)
    IN Nearest(55 * tournament + 25 * Scale * hid, 100)

\* _canonical_poker_mtt_projection_rows keeps the best rank of a unit, and the
\* smaller id among equals.
Canonical(t) ==
    LET ranked == {m \in Miners : ranking[t][m] # None} IN
    {m \in ranked : \A n \in ranked : Unit[n] = Unit[m] /\ n # m =>
        \/ ranking[t][m].rank < ranking[t][n].rank
        \/ ranking[t][m].rank = ranking[t][n].rank /\ m < n}

\* _validate_poker_mtt_payout_ranks: unique and without a gap.
ValidRanks(t, ms) ==
    /\ {ranking[t][m].rank : m \in ms} = 1..Cardinality(ms)
    /\ Cardinality(ms) <= FieldSize

\* _poker_mtt_final_ranking_matches_legacy_result, for a result of miner m in t.
MatchesRanking(t, m, rank, snap) == ranking[t][m] = [rank |-> rank, snap |-> snap]

\* _poker_mtt_reward_identity_blocker finds nothing.
RewardIdentity(m) == m \in Bound

------------------------------------------------------------------------------
(* finalize_poker_mtt_hidden_eval saves its entries one by one.             *)

SaveHiddenEvalEntry(t, m, s) ==
    /\ hidden[t][m] # s
    /\ hidden' = [hidden EXCEPT ![t][m] = s]
    /\ UNCHANGED <<ranking, result, projected, payRows, proc, crashes>>

------------------------------------------------------------------------------
(* The projection of final rankings.                                        *)

\* A request whose projection id has an artifact gets the stored answer.
ProjectStart(k, p) ==
    /\ At(k, "idle")
    /\ p.id \notin projected
    /\ Goto(k, [Idle EXCEPT !.pc = "rank", !.p = p, !.todo = DOMAIN p.ranks])
    /\ UNCHANGED <<inputRows, payRows, crashes>>

\* Its rows overwrite the stored rankings one by one,
SaveFinalRanking(k) ==
    /\ At(k, "rank")
    /\ LET p == proc[k].p IN
       \E m \in proc[k].todo :
         /\ ranking' = [ranking EXCEPT ![p.tournament][m] =
                          [rank |-> p.ranks[m], snap |-> p.id]]
         /\ Goto(k, [proc[k] EXCEPT !.todo = @ \ {m}])
    /\ UNCHANGED <<hidden, result, projected, payRows, crashes>>

\* before the ranks of all stored rows are validated; a bad list raises.
ProjectValidate(k) ==
    /\ At(k, "rank")
    /\ proc[k].todo = {}
    /\ LET t == proc[k].p.tournament  ms == Canonical(t) IN
         Goto(k, IF ValidRanks(t, ms)
                   THEN [proc[k] EXCEPT !.pc = "result", !.todo = ms, !.rows = ranking[t],
                                        !.hid = hidden[t]]
                   ELSE Idle)
    /\ UNCHANGED <<inputRows, payRows, crashes>>

\* The row that project_poker_mtt_final_rankings makes of miner m's ranking r:
\* without a hidden evaluation or a bound identity it is not eligible.
ProjectedRow(m, r, hid) ==
    [rank |-> r.rank, snap |-> r.snap, final |-> TRUE,
     eligible |-> hid # None /\ RewardIdentity(m),
     score |-> Score(r.rank, IF hid = None THEN 0 ELSE hid)]

\* The results are saved best rank first.
SaveResult(k) ==
    /\ At(k, "result")
    /\ LET rows == proc[k].rows IN
       \E m \in proc[k].todo :
         /\ \A n \in proc[k].todo : rows[m].rank <= rows[n].rank
         /\ result' = [result EXCEPT ![proc[k].p.tournament][m] =
                         ProjectedRow(m, rows[m], proc[k].hid[m])]
         /\ Goto(k, [proc[k] EXCEPT !.todo = @ \ {m}])
    /\ UNCHANGED <<ranking, hidden, projected, payRows, crashes>>

SaveProjectionArtifact(k) ==
    /\ At(k, "result")
    /\ proc[k].todo = {}
    /\ projected' = projected \cup {proc[k].p.id}
    /\ Goto(k, Idle)
    /\ UNCHANGED <<ranking, hidden, result, payRows, crashes>>

\* apply_poker_mtt_results takes results that name their ranking: a row that
\* agrees with the stored ranking and is evaluated is eligible, any other is
\* stored all the same, with a score that counts the rank only.  The request says
\* whether it is final (evaluation_state).
ApplyResult(t, m, p, final) ==
    LET eligible == /\ MatchesRanking(t, m, p.ranks[m], p.id)
                    /\ hidden[t][m] # None
    IN
    /\ p.tournament = t /\ m \in DOMAIN p.ranks
    /\ result' = [result EXCEPT ![t][m] =
         [rank |-> p.ranks[m], snap |-> p.id, final |-> final, eligible |-> eligible,
          score |-> Score(p.ranks[m], IF eligible THEN hidden[t][m] ELSE 0)]]
    /\ result' # result
    /\ UNCHANGED <<ranking, hidden, projected, payRows, proc, crashes>>

Project(k) == \/ \E p \in Projections : ProjectStart(k, p)
              \/ SaveFinalRanking(k) \/ ProjectValidate(k) \/ SaveResult(k)
              \/ SaveProjectionArtifact(k)

------------------------------------------------------------------------------
(* Reward windows.                                                          *)

\* load_poker_mtt_reward_window_inputs and the selection from it: eligible
\* results that still agree with their ranking.  Of a row, all but whether it is
\* final goes into the root of the inputs.
Selected(w, provisional) ==
    {[t |-> y[1], m |-> y[2], row |-> [result[y[1]][y[2]] EXCEPT !.final = TRUE]] :
       y \in {x \in Covers[w] \X Miners :
          LET r == result[x[1]][x[2]] IN
          /\ r # None
          /\ r.eligible
          /\ r.final \/ provisional
          /\ MatchesRanking(x[1], x[2], r.rank, r.snap)
          /\ RewardIdentity(x[2])}}

\* _poker_mtt_aggregate_reward_weights, capped_top3_mean_v1: the mean of a unit's
\* three best scores, rounded to six digits.
UnitWeight(inputs, u) ==
    LET rows == {i \in inputs : Unit[i.m] = u}
        n == IF Cardinality(rows) < 3 THEN Cardinality(rows) ELSE 3
        points == [i \in rows |-> IF i.row.score > 0 THEN i.row.score ELSE 0]
    IN Max({Nearest(SumFunctionOnSet(points, s), n) : s \in kSubset(n, rows)})

Units(inputs) == {Unit[i.m] : i \in inputs}
TotalWeight(inputs) == SumFunction([u \in Units(inputs) |-> UnitWeight(inputs, u)])

\* The share of a unit, rounded down, and what that cuts off.
Floors(inputs, pool) ==
    [u \in Units(inputs) |-> (UnitWeight(inputs, u) * pool) \div TotalWeight(inputs)]
Remainders(inputs, pool) ==
    [u \in Units(inputs) |-> (UnitWeight(inputs, u) * pool) % TotalWeight(inputs)]

\* The allocation without the pass over the remainders.
AllocationsFloors(inputs, pool) == {Floors(inputs, pool)}

\* _allocate_integer_pool_by_weights: floors, then one more for the largest
\* remainders.  The code compares remainders of doubles, so among equal ones, for
\* which it means the smaller id, rounding may decide.
Allocations(inputs, pool) ==
    LET base == Floors(inputs, pool)
        rem == Remainders(inputs, pool)
        left == pool - SumFunction(base)
        Largest(s) == \A u \in s, v \in Units(inputs) \ s : rem[u] >= rem[v]
    IN {[u \in Units(inputs) |-> base[u] + IF u \in s THEN 1 ELSE 0] :
          s \in {x \in kSubset(left, Units(inputs)) : Largest(x)}}

HasPositiveWeight(inputs) == TotalWeight(inputs) > 0

\* A batch whose root has been sent to the chain.
Sent(b) == b # None /\ b.state \in {"anchored", "anchor_failed"}

\* A build that does not look at the batch.
ClosedNever(w) == FALSE

\* build_poker_mtt_reward_window returns at once when the batch of the window is
\* no longer open.
Closed(w) == /\ window[w] # None
             /\ window[w].linked
             /\ batch[w] # None
             /\ batch[w].state # "open"

\* The inputs and the pool are those of the stored projection, and it has come to a
\* batch or to a forfeiture.
UpToDate(w, inputs, provisional, pool) ==
    /\ window[w] # None /\ proj[w] # None
    /\ proj[w].inputs = inputs /\ proj[w].provisional = provisional /\ proj[w].pool = pool
    /\ window[w].linked \/ window[w].state = "no_positive_weight"

\* It raises without results.  What happens next depends on the weight: a window
\* that pays goes on to the budget, one that does not first cancels its batch.
BuildStart(k, w, provisional, pool, then) ==
    LET inputs == Selected(w, provisional)
        found == [Idle EXCEPT !.w = w, !.inputs = inputs, !.then = then, !.prov = provisional,
                              !.pool = pool, !.linked = window[w] # None /\ window[w].linked]
    IN /\ At(k, "idle")
       /\ Goto(k, IF Closed(w) \/ (inputs # {} /\ UpToDate(w, inputs, provisional, pool))
                    THEN [Idle EXCEPT !.pc = then, !.w = w]
                  ELSE IF inputs = {} THEN Idle
                  ELSE IF HasPositiveWeight(inputs)
                    THEN [found EXCEPT !.pc = "budget"]
                  ELSE [found EXCEPT !.pc = "cancel"])
       /\ UNCHANGED <<inputRows, payRows, crashes>>

\* The batch of a window that is forfeited stays open.
CancelBatchNever(k) ==
    /\ At(k, "cancel")
    /\ Goto(k, [proc[k] EXCEPT !.pc = "budget"])
    /\ UNCHANGED <<inputRows, payRows, crashes>>

CancelBatch(k) ==
    /\ At(k, "cancel")
    /\ LET w == proc[k].w IN
         batch' = IF proc[k].linked /\ batch[w] # None /\ batch[w].state = "open"
                    THEN [batch EXCEPT ![w] = [state |-> "cancelled", total |-> 0, root |-> None]]
                    ELSE batch
    /\ Goto(k, [proc[k] EXCEPT !.pc = "budget"])
    /\ UNCHANGED <<inputRows, window, proj, ledger, crashes>>

\* What the build wants to pay.
Amount(p) == IF HasPositiveWeight(p.inputs) THEN p.pool ELSE 0

\* What each window has reserved.
Approved == [v \in Windows |-> IF ledger[v] = None THEN 0 ELSE ledger[v].approved]

\* The sum over the window's own lane only.
ReservedInLane(w) == 0

\* _prepare_poker_mtt_budget_ledger adds up what the other windows of the epoch
\* have reserved.
Reserved(w) == SumFunctionOnSet(Approved, Windows \ {w})

CheckBudget(k) ==
    /\ At(k, "budget")
    /\ Goto(k, IF Reserved(proc[k].w) + Amount(proc[k]) <= Budget
                 THEN [proc[k] EXCEPT !.pc = "window"] ELSE Idle)
    /\ UNCHANGED <<inputRows, payRows, crashes>>

SaveRewardWindow(k) ==
    /\ At(k, "window")
    /\ LET p == proc[k]  pays == HasPositiveWeight(p.inputs) IN
         window' = [window EXCEPT ![p.w] =
           [state |-> IF pays THEN "finalized" ELSE "no_positive_weight",
            total |-> Amount(p), linked |-> p.linked /\ pays, tasks |-> TRUE]]
    /\ Goto(k, [proc[k] EXCEPT !.pc = "ledger"])
    /\ UNCHANGED <<inputRows, proj, ledger, batch, crashes>>

LedgerRow(p) == [approved |-> Amount(p),
                 state |-> IF HasPositiveWeight(p.inputs) THEN "reserved" ELSE "forfeited",
                 linked |-> FALSE]

SaveBudgetLedger(k) ==
    /\ At(k, "ledger")
    /\ ledger' = [ledger EXCEPT ![proc[k].w] = LedgerRow(proc[k])]
    /\ Goto(k, [proc[k] EXCEPT !.pc = "projection"])
    /\ UNCHANGED <<inputRows, window, proj, batch, crashes>>

SaveProjection(k) ==
    /\ At(k, "projection")
    /\ LET p == proc[k]  pays == HasPositiveWeight(p.inputs) IN
         /\ \E a \in IF pays THEN Allocations(p.inputs, p.pool)
                      ELSE {[u \in Units(p.inputs) |-> 0]} :
              proj' = [proj EXCEPT ![p.w] =
                [inputs |-> p.inputs, provisional |-> p.prov, pool |-> p.pool, alloc |-> a]]
         /\ Goto(k, IF pays THEN [p EXCEPT !.pc = "sync"]
                    ELSE [Idle EXCEPT !.pc = p.then, !.w = p.w])
    /\ UNCHANGED <<inputRows, window, ledger, batch, crashes>>

\* _sync_single_reward_window_settlement_batch and, in reconcile, the same for
\* every window that is not forfeited (_build_settlement_batches): the window's
\* total goes into a new or an open batch.
SyncBatch(k) ==
    /\ At(k, "sync")
    /\ LET w == proc[k].w IN
         batch' = IF batch[w] = None \/ batch[w].state = "open"
                    THEN [batch EXCEPT ![w] = [state |-> "open", total |-> window[w].total,
                                            root |-> None]]
                    ELSE batch
    /\ Goto(k, [proc[k] EXCEPT !.pc = "link"])
    /\ UNCHANGED <<inputRows, window, proj, ledger, crashes>>

LinkWindow(k) ==
    /\ At(k, "link")
    /\ LET p == proc[k] IN
         /\ window' = [window EXCEPT ![p.w].linked = TRUE]
         /\ Goto(k, IF p.inputs = {} THEN [Idle EXCEPT !.pc = p.then, !.w = p.w]
                    ELSE [p EXCEPT !.pc = "ledgerLink"])
    /\ UNCHANGED <<inputRows, proj, ledger, batch, crashes>>

\* The ledger is saved again, with the batch.
LinkLedger(k) ==
    /\ At(k, "ledgerLink")
    /\ LET p == proc[k] IN
         /\ ledger' = [ledger EXCEPT ![p.w] = [LedgerRow(p) EXCEPT !.linked = TRUE]]
         /\ Goto(k, [Idle EXCEPT !.pc = p.then, !.w = p.w])
    /\ UNCHANGED <<inputRows, window, proj, batch, crashes>>

Build(k) == CancelBatch(k) \/ CheckBudget(k) \/ SaveRewardWindow(k) \/ SaveBudgetLedger(k)
              \/ SaveProjection(k) \/ SyncBatch(k) \/ LinkWindow(k) \/ LinkLedger(k)

------------------------------------------------------------------------------
(* reconcile, with which every request begins, and the requests themselves. *)

\* The build request of an admin, with a pool of its own.
AdminBuild(k, w) ==
    \E provisional \in BOOLEAN, pool \in Requested[w] : BuildStart(k, w, provisional, pool, "done")

\* list_poker_mtt_closed_reward_window_candidates: eligible results, whether they
\* still agree with their ranking or not.
Candidates(w) == {r \in {result[x[1]][x[2]] : x \in Covers[w] \X Miners} :
                    r # None /\ r.eligible}

\* reconcile builds the windows that have candidates, if the loop is enabled and
\* the lane has a pool; a build that raises ends it.
ReconcileWindow(k, w, then) ==
    /\ LoopEnabled /\ Pool[w] > 0
    /\ Candidates(w) # {}
    /\ BuildStart(k, w, \E r \in Candidates(w) : ~r.final, Pool[w], then)

ReconcileNoWindow(k, w, then) ==
    /\ ~LoopEnabled \/ Pool[w] = 0 \/ Candidates(w) = {}
    /\ At(k, "idle")
    /\ Goto(k, [Idle EXCEPT !.pc = then, !.w = w])
    /\ UNCHANGED <<inputRows, payRows, crashes>>

Reconcile(k, w) == ReconcileWindow(k, w, "batches") \/ ReconcileNoWindow(k, w, "batches")

BuildSettlementBatch(k) ==
    /\ At(k, "batches")
    /\ LET w == proc[k].w IN
         Goto(k, IF window[w] = None \/ window[w].state = "no_positive_weight"
                   THEN [Idle EXCEPT !.pc = "reconciled", !.w = w]
                   ELSE [Idle EXCEPT !.pc = "sync", !.w = w, !.then = "reconciled"])
    /\ UNCHANGED <<inputRows, payRows, crashes>>

\* What retry_anchor_settlement_batch hashes: the projection of the window, from which
\* it takes the payments, and the window's task_run_ids.
Root(w) == [proj |-> proj[w], tasks |-> window[w].tasks]

\* retry-anchor, submit, broadcast and confirm (the steps between are AnchorPipeline's):
\* a batch with an amount, not yet anchored, whose root is not that of other contents.
AnchorBatch(k) ==
    /\ At(k, "reconciled")
    /\ LET w == proc[k].w IN
         /\ batch[w] # None /\ batch[w].state \in {"open", "anchor_failed"}
         /\ batch[w].total > 0 /\ proj[w] # None
         /\ batch[w].root \in {None, Root(w)}
         /\ \E state \in {"anchored", "anchor_failed"} :
              /\ batch' = [batch EXCEPT ![w] = [state |-> state, total |-> batch[w].total,
                                                root |-> Root(w)]]
              /\ Goto(k, IF state = "anchored" THEN [proc[k] EXCEPT !.pc = "pay"] ELSE Idle)
    /\ UNCHANGED <<inputRows, window, proj, ledger, crashes>>

\* The job of a batch whose root has been sent is marked as failed, by an admin or
\* after a transaction that failed, even when it was anchored;
MarkAnchorJobFailed(k) ==
    /\ At(k, "reconciled")
    /\ LET w == proc[k].w IN
         /\ Sent(batch[w])
         /\ batch' = [batch EXCEPT ![w].state = "anchor_failed"]
    /\ Goto(k, Idle)
    /\ UNCHANGED <<inputRows, window, proj, ledger, crashes>>

\* and a failed one, as anchored, once its transaction is found on the chain.
MarkAnchorJobAnchored(k) ==
    /\ At(k, "reconciled")
    /\ LET w == proc[k].w IN
         /\ Sent(batch[w]) /\ batch[w].state = "anchor_failed"
         /\ batch' = [batch EXCEPT ![w].state = "anchored"]
    /\ Goto(k, [proc[k] EXCEPT !.pc = "pay"])
    /\ UNCHANGED <<inputRows, window, proj, ledger, crashes>>

\* rebuild_reward_window counts the forecast tasks of a window.  A poker window has
\* none: its total becomes 0 and its task_run_ids empty, whatever its batch.
RebuildRewardWindow(k) ==
    /\ At(k, "reconciled")
    /\ LET w == proc[k].w IN
         /\ window[w] # None
         /\ window' = [window EXCEPT ![w].total = 0, ![w].tasks = FALSE]
    /\ Goto(k, Idle)
    /\ UNCHANGED <<inputRows, proj, ledger, batch, crashes>>

PayLedger(k) ==
    /\ At(k, "pay")
    /\ LET w == proc[k].w IN
         ledger' = IF ledger[w] = None THEN ledger
                   ELSE [ledger EXCEPT ![w].linked = TRUE,
                           ![w].state = IF ledger[w].approved > 0 THEN "paid" ELSE @]
    /\ Goto(k, Idle)
    /\ UNCHANGED <<inputRows, window, proj, batch, crashes>>

\* A build is answered; a request that reconciled is refused, or writes nothing here.
Return(k) ==
    /\ proc[k].pc \in {"done", "reconciled"}
    /\ Goto(k, Idle)
    /\ UNCHANGED <<inputRows, payRows, crashes>>

Anchor(k) == \/ \E w \in Windows : Reconcile(k, w)
             \/ BuildSettlementBatch(k) \/ AnchorBatch(k) \/ PayLedger(k)
             \/ MarkAnchorJobFailed(k) \/ MarkAnchorJobAnchored(k) \/ RebuildRewardWindow(k)

Crash ==
    /\ crashes < MaxCrashes
    /\ crashes' = crashes + 1
    /\ proc' = [k \in Workers |-> Idle]
    /\ UNCHANGED <<inputRows, payRows>>

Next == \/ \E t \in Tournaments, m \in Miners :
             \/ \E s \in HiddenScores[m] : SaveHiddenEvalEntry(t, m, s)
             \/ \E p \in LegacyResults, final \in BOOLEAN : ApplyResult(t, m, p, final)
        \/ \E k \in Workers :
             \/ Project(k) \/ Build(k) \/ Anchor(k) \/ Return(k)
             \/ \E w \in Windows : AdminBuild(k, w)
        \/ Crash

Spec == Init /\ [][Next]_vars

------------------------------------------------------------------------------
(* Properties.                                                              *)

\* Daily and weekly windows together never reserve more than the epoch's budget,
\* whatever is rebuilt, forfeited or interrupted (one build at a time).
BudgetHolds == SumFunction(Approved) <= Budget

\* The payments of a projection add up to the pool it was built for, to the last
\* unit, and a unit with more weight is not paid less; a forfeited window pays
\* nothing.
AllocationAddsUp ==
    \A w \in Windows : proj[w] # None =>
      LET a == proj[w].alloc  i == proj[w].inputs IN
      /\ SumFunction(a) = IF HasPositiveWeight(i) THEN proj[w].pool ELSE 0
      /\ \A u, v \in DOMAIN a :
           UnitWeight(i, u) > UnitWeight(i, v) => a[u] >= a[v]

\* Once the root of a batch has been sent to the chain, its root and its total, the
\* payments and the reservation stay what they were, although results are projected
\* again, other pools are asked for and every request may be repeated.  Two things do
\* change, against the documents: an anchored batch may be marked as failed, and a
\* rebuild may set the window's own total to 0.  (Of a window that lost the link to its
\* batch in a crash only the batch stays: it is built again.)
AnchoredIsFinal ==
    [][\A w \in Windows : Sent(batch[w]) =>
         /\ Sent(batch'[w])
         /\ batch'[w].root = batch[w].root /\ batch'[w].total = batch[w].total
         /\ window[w].linked =>
              /\ proj'[w] = proj[w]
              /\ window'[w].total \in {window[w].total, 0}
              /\ ledger'[w].approved = ledger[w].approved]_vars

\* Without a crash, what a batch pays on the chain was reserved in the budget of
\* its window, and is what the projection it takes the payments from adds up to.
AnchoredIsReserved ==
    crashes = 0 =>
      \A w \in Windows : Sent(batch[w]) =>
        /\ ledger[w].approved = batch[w].total
        /\ SumFunction(proj[w].alloc) = batch[w].total
=============================================================================

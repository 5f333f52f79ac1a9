----------------------------- MODULE Repositories -----------------------------
(***************************************************************************)
(* The two implementations of MiningRepository side by side.  Clients (the   *)
(* service's asyncio tasks) call Postgres, where a call is one or more       *)
(* statements and READ COMMITTED lets other clients commit between them; the *)
(* same call is applied to the Fake, in one step, when Postgres commits it.  *)
(*                                                                          *)
(* A behaviour looks at one table.  A call carries one value for the columns *)
(* that either repository writes, and its created_at and updated_at, which   *)
(* are read from the caller's clock before the call and so may come in any   *)
(* order; each repository takes the columns it stores.  Times are            *)
(* whole seconds, as isoformat_z leaves them, and compare alike as ISO text  *)
(* in the Fake and as timestamps in Postgres.  The re-read that makes up a   *)
(* method's answer is left out.                                             *)
(***************************************************************************)
EXTENDS Integers, FiniteSets

CONSTANTS Clients, Ids, Vals, MaxCalls, NoRow

ASSUME RepositoriesAssumption ==
    /\ Ids \subseteq Nat /\ Vals \subseteq Nat \ {0} /\ Vals # {}
    /\ MaxCalls \in Nat

P == INSTANCE PostgresTables
F == INSTANCE FakeTables

\* The columns of the rows of Postgres and of the Fake.
ColumnsOf(t) == UNION {P!Tables[t][m].cols : m \in DOMAIN P!Tables[t]}
FakeColumnsOf(t) == UNION {F!Tables[t][m].cols : m \in DOMAIN F!Tables[t]}

\* The null value is no number and no row.
ASSUME NoRowAssumption ==
    /\ NoRow \notin Nat
    /\ \A t \in DOMAIN P!Tables : /\ NoRow \notin [ColumnsOf(t) \cup {"id"} -> Nat]
                                 /\ NoRow \notin [FakeColumnsOf(t) \cup {"id"} -> Nat]

\* MiningRepository: the writing methods of the forecast lane and of poker.
ForecastInterface ==
    {"register_miner", "update_miner", "update_miner_cluster_identity",
     "update_miner_forecast_participation", "update_miner_forecast_settlement",
     "update_miner_public_ranking", "update_arena_miner_multiplier",
     "update_poker_mtt_miner_multiplier", "upsert_task", "save_submission",
     "save_hold_entry", "save_reward_window", "link_reward_window_settlement_batch",
     "save_poker_mtt_budget_ledger", "save_settlement_batch",
     "sync_open_settlement_batch", "mark_settlement_batch_anchor_ready",
     "mark_settlement_batch_anchor_submitted", "mark_settlement_batch_terminal",
     "cancel_settlement_batch", "save_anchor_job", "update_anchor_job_broadcast"}
PokerInterface ==
    {"update_anchor_job_confirmation", "mark_anchor_job_terminal", "save_artifact",
     "save_artifacts_bulk", "save_risk_case", "save_arena_result",
     "save_poker_mtt_tournament", "save_poker_mtt_hand_event",
     "save_poker_mtt_mq_checkpoint", "save_poker_mtt_mq_conflict",
     "save_poker_mtt_mq_dlq", "save_poker_mtt_hud_snapshot",
     "save_poker_mtt_hidden_eval_entry", "save_poker_mtt_rating_snapshot",
     "save_poker_mtt_multiplier_snapshot", "save_poker_mtt_final_ranking",
     "save_poker_mtt_result", "save_poker_mtt_correction"}

MethodsOf(tables) == UNION {DOMAIN tables[t] : t \in DOMAIN tables}

\* Both repositories implement the protocol.
ASSUME BothImplement ==
    /\ MethodsOf(P!Tables) = ForecastInterface \cup PokerInterface
    /\ MethodsOf(F!Tables) = ForecastInterface \cup PokerInterface

VARIABLES
    table,      \* the table a behaviour is about
    pg,         \* id -> row or NoRow
    fake,       \* id -> row or NoRow
    index,      \* the Fake's _request_index: request id -> submission id or NoRow
    underway,       \* client -> the call it is in, or NoRow
    calls,      \* calls begun
    overlapped, \* some call began while another was under way
    reused      \* a request id was saved with a second submission

storeVars == <<table, pg, fake, index, underway, calls, overlapped, reused>>

PgMethod(m) == P!Tables[table][m]
FakeMethod(m) == F!Tables[table][m]
Columns == ColumnsOf(table)
FakeColumns == FakeColumnsOf(table)

\* What each repository stores of the values a call carries.
Given(vals, cols) == [c \in cols |-> vals[c]]
PgVals(call) == Given(call.vals, PgMethod(call.m).cols)
FakeVals(call) == Given(call.vals, FakeMethod(call.m).cols)

\* A new row has the columns given and the defaults of the others.
NewRow(cols, id, vals) ==
    [c \in cols \cup {"id"} |->
       IF c = "id" THEN id ELSE IF c \in DOMAIN vals THEN vals[c] ELSE 0]
With(row, vals) == [c \in DOMAIN row |-> IF c \in DOMAIN vals THEN vals[c] ELSE row[c]]

StoreInit ==
    /\ table \in DOMAIN P!Tables
    /\ pg = [i \in Ids |-> NoRow]
    /\ fake = [i \in Ids |-> NoRow]
    /\ index = [r \in Vals |-> NoRow]
    /\ underway = [c \in Clients |-> NoRow]
    /\ calls = 0
    /\ overlapped = FALSE
    /\ reused = FALSE

------------------------------------------------------------------------------
(* The Fake.                                                                *)

\* dict.update of the stored row, or of {}
Put(id, vals) ==
    [fake EXCEPT ![id] = IF @ = NoRow THEN NewRow(FakeColumns, id, vals) ELSE With(@, vals)]

\* A version that is newer than the stored one, if there is one.
Newer(row, vals) == row = NoRow \/ vals["version"] > row["version"]

Without(vals, col) == [c \in DOMAIN vals \ {col} |-> vals[c]]

FakeApply(call) ==
    LET id == call.id  row == fake[id]  vals == FakeVals(call) IN
    CASE FakeMethod(call.m).how = "register" -> IF row = NoRow THEN Put(id, vals) ELSE fake
      [] FakeMethod(call.m).how = "update" -> IF row = NoRow THEN fake ELSE Put(id, vals)
      [] FakeMethod(call.m).how = "put" -> Put(id, vals)
      [] FakeMethod(call.m).how = "indexed" ->
           IF index[vals["request"]] \in {NoRow, id} THEN Put(id, vals) ELSE fake
      [] FakeMethod(call.m).how = "unlessSame" ->
           IF row # NoRow /\ row["content"] = vals["content"] THEN fake ELSE Put(id, vals)
      [] FakeMethod(call.m).how = "versioned" ->
           IF ~Newer(row, vals) THEN fake
           ELSE IF row = NoRow THEN Put(id, vals) ELSE Put(id, Without(vals, "created_at"))

\* The call is over; the Fake has done the same call.
Applied(call) ==
    /\ fake' = FakeApply(call)
    /\ IF FakeMethod(call.m).how = "indexed"
         THEN LET r == call.vals["request"] IN
              /\ index' = [index EXCEPT ![r] = IF @ = NoRow THEN call.id ELSE @]
              /\ reused' = (reused \/ index[r] \notin {NoRow, call.id})
         ELSE UNCHANGED <<index, reused>>

Done(c) == underway' = [underway EXCEPT ![c] = NoRow]

------------------------------------------------------------------------------
(* Postgres.                                                                *)

FirstStep == [register |-> "select", upsert |-> "select", readUpsert |-> "select",
              merge |-> "select", keepCreated |-> "read", versioned |-> "read",
              update |-> "write", onConflict |-> "write", unlessSame |-> "write"]

\* created_at as the method writes it: that of the row read first, if there was one.
Stamped(call) == IF call.kept = NoRow THEN PgVals(call)
                 ELSE [PgVals(call) EXCEPT !["created_at"] = call.kept]
Created(row) == IF row = NoRow THEN NoRow ELSE row["created_at"]

\* A merge that does not give every column (sync_open_settlement_batch without
\* created_at) is only called on a stored row.
Begin(c, m, id, val, at, created) ==
    /\ underway[c] = NoRow
    /\ calls < MaxCalls
    /\ created <= at
    /\ PgMethod(m).how = "merge" /\ PgMethod(m).cols # Columns => pg[id] # NoRow
    /\ underway' = [underway EXCEPT ![c] =
         [m |-> m, id |-> id, pc |-> FirstStep[PgMethod(m).how], read |-> NoRow, kept |-> NoRow,
          vals |-> [x \in PgMethod(m).cols \cup FakeMethod(m).cols |->
                      CASE x = "created_at" -> created
                        [] x = "updated_at" -> at
                        [] OTHER -> val]]]
    /\ calls' = calls + 1
    /\ overlapped' = (overlapped \/ \E d \in Clients : underway[d] # NoRow)
    /\ UNCHANGED <<table, pg, fake, index, reused>>

\* The read before the transaction: of the row whose created_at is kept, or of
\* the hand whose version decides.
Read(c) ==
    /\ underway[c] # NoRow /\ underway[c].pc = "read"
    /\ LET call == underway[c]  row == pg[call.id] IN
       \/ /\ PgMethod(call.m).how = "keepCreated"
          /\ underway' = [underway EXCEPT ![c].pc = "select", ![c].kept = Created(row)]
          /\ UNCHANGED <<fake, index, reused>>
       \/ /\ PgMethod(call.m).how = "versioned"
          /\ IF Newer(row, call.vals)
               THEN /\ underway' = [underway EXCEPT ![c].pc = "write", ![c].read = row,
                                                    ![c].kept = Created(row)]
                    /\ UNCHANGED <<fake, index, reused>>
               ELSE Done(c) /\ Applied(call)
    /\ UNCHANGED <<table, pg, calls, overlapped>>

\* The SELECT that decides between INSERT and UPDATE.
Select(c) ==
    /\ underway[c] # NoRow /\ underway[c].pc = "select"
    /\ LET call == underway[c]  row == pg[call.id] IN
         IF PgMethod(call.m).how = "register" /\ row # NoRow
           THEN Done(c) /\ Applied(call)
           ELSE /\ underway' = [underway EXCEPT ![c].pc = "write", ![c].read = row]
                /\ UNCHANGED <<fake, index, reused>>
    /\ UNCHANGED <<table, pg, calls, overlapped>>

\* The unique constraint on the request ids.
RequestIsTaken(id, vals) ==
    /\ "request" \in DOMAIN vals
    /\ \E j \in Ids \ {id} : pg[j] # NoRow /\ pg[j]["request"] = vals["request"]

\* What the INSERT or UPDATE leaves in the row: merge writes the row it selected.
Written(call) ==
    LET id == call.id  row == pg[id] IN
    IF row = NoRow THEN NewRow(Columns, id, Stamped(call))
    ELSE IF PgMethod(call.m).how = "merge" THEN With(call.read, PgVals(call))
    ELSE IF PgMethod(call.m).how = "unlessSame" /\ row["content"] = call.vals["content"] THEN row
    ELSE With(row, Stamped(call))

\* An INSERT fails when the row has come into being since the SELECT, or when a
\* request id is taken; an UPDATE alone fails when there is no row.
Fails(call) ==
    LET row == pg[call.id]  how == PgMethod(call.m).how IN
    \/ how \in {"register", "upsert", "readUpsert", "keepCreated", "merge", "versioned"}
         /\ call.read = NoRow /\ row # NoRow
    \/ how = "update" /\ row = NoRow
    \/ RequestIsTaken(call.id, PgVals(call))

Write(c) ==
    /\ underway[c] # NoRow /\ underway[c].pc = "write"
    /\ Done(c)
    /\ IF Fails(underway[c])
         THEN UNCHANGED <<pg, fake, index, reused>>
         ELSE /\ pg' = [pg EXCEPT ![underway[c].id] = Written(underway[c])]
              /\ Applied(underway[c])
    /\ UNCHANGED <<table, calls, overlapped>>

StoreNext == \E c \in Clients :
          \/ \E m \in DOMAIN P!Tables[table], id \in Ids, val, at, created \in Vals :
               Begin(c, m, id, val, at, created)
          \/ Read(c) \/ Select(c) \/ Write(c)

StoreSpec == StoreInit /\ [][StoreNext]_storeVars

------------------------------------------------------------------------------
(* Properties.                                                              *)

\* Tables whose rows keep the first created_at in Postgres and take the last one in
\* the Fake.
KeepsCreated(t) == t \in {"budget_ledgers", "rating_snapshots", "multiplier_snapshots"}

\* Tables in which a write rests on a row read earlier: two calls at once may
\* lose the columns of one (a sync of a batch), or an older hand may overwrite a
\* newer one.
Racy == {"settlement_batches", "hand_events"}

\* The columns that only the Fake stores: the reward rows of a window, which a reader
\* of the window finds in the tests and never on Postgres.
FakeOnly(t) == IF t = "reward_windows" THEN {"reward_rows"} ELSE {}

\* After the same calls the two repositories hold the same rows, with the same
\* columns, so that what the tests show on the Fake holds on Postgres, even when
\* calls overlap: a call never undoes columns that another client has written.
\* Excepted are the columns that only the Fake stores, created_at where only
\* Postgres keeps the first one, overlapping calls on a racy table, and submissions
\* once a request id was used for two of them.
FakeAgrees ==
    (table \in Racy => ~overlapped) /\ ~reused =>
      \A i \in Ids :
        /\ (pg[i] = NoRow) = (fake[i] = NoRow)
        /\ pg[i] # NoRow =>
             /\ DOMAIN fake[i] = DOMAIN pg[i] \cup FakeOnly(table)
             /\ \A x \in DOMAIN pg[i] :
                  (x = "created_at" => ~KeepsCreated(table)) => pg[i][x] = fake[i][x]

=============================================================================

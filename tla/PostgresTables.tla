---------------------------- MODULE PostgresTables ----------------------------
(***************************************************************************)
(* The tables of PostgresRepository: for each, how every writing method      *)
(* reaches the row and which of its columns it writes.  Columns that are     *)
(* always written together are one column; columns the id determines are     *)
(* part of the id.  What the lists of a table return is not modelled.        *)
(*                                                                          *)
(* How a method writes (Repositories gives the steps):                       *)
(*   register    raises when the row is there, else inserts it               *)
(*   update      UPDATE of its own columns; raises when no row matches       *)
(*   upsert      SELECT id, then INSERT or UPDATE, in one transaction        *)
(*   readUpsert  the SELECT is a transaction of its own                      *)
(*   keepCreated a read of the stored row first, whose created_at goes into  *)
(*               the row that is then upserted                               *)
(*   merge       SELECT of the row, then the whole row is written: the       *)
(*               stored one updated with the columns given                   *)
(*   onConflict  INSERT ... ON CONFLICT DO UPDATE, one statement             *)
(*   unlessSame  the same, but a row with the same content stays             *)
(*   versioned   a read, then, if the version is newer, INSERT or UPDATE in  *)
(*               another transaction                                        *)
(***************************************************************************)

Times == {"created_at", "updated_at"}
Row(cols) == cols \cup Times

Writes(how, cols) == [how |-> how, cols |-> cols]

\* A miner's row as one unit.
minersWholeRow ==
    LET all == Row({"identity", "participation", "settlement", "ranking", "arena", "poker"}) IN
    [register_miner |-> Writes("register", all),
     update_miner_forecast_settlement |-> Writes("merge", {"settlement", "updated_at"}),
     update_miner_forecast_participation |-> Writes("merge", {"participation", "updated_at"}),
     update_miner_cluster_identity |-> Writes("merge", {"identity", "updated_at"}),
     update_miner_public_ranking |-> Writes("merge", {"ranking"}),
     update_arena_miner_multiplier |-> Writes("merge", {"arena", "updated_at"}),
     update_poker_mtt_miner_multiplier |-> Writes("merge", {"poker", "updated_at"}),
     update_miner |-> Writes("merge", all \ {"created_at"})]

\* _update_miner_fields and its callers write the columns of one lane each.
miners ==
    LET all == Row({"identity", "participation", "settlement", "ranking", "arena", "poker"}) IN
    [register_miner |-> Writes("register", all),
     update_miner |-> Writes("update", all \ {"created_at"}),
     update_miner_cluster_identity |-> Writes("update", {"identity", "updated_at"}),
     update_miner_forecast_participation |-> Writes("update", {"participation", "updated_at"}),
     update_miner_forecast_settlement |-> Writes("update", {"settlement", "updated_at"}),
     update_miner_public_ranking |-> Writes("update", {"ranking"}),
     update_arena_miner_multiplier |-> Writes("update", {"arena", "updated_at"}),
     update_poker_mtt_miner_multiplier |-> Writes("update", {"poker", "updated_at"})]

tasks == [upsert_task |-> Writes("readUpsert", Row({"row"}))]

\* A second row with a request id that is taken violates a unique constraint.
submissions ==
    [save_submission |-> Writes("onConflict", Row({"request", "reveal_at"}))]

hold_entries == [save_hold_entry |-> Writes("upsert", Row({"row"}))]

\* _reward_window_values drops the miners' reward rows, their root and count and the
\* artifact pages, which the caller passes.
reward_windows ==
    [save_reward_window |-> Writes("merge", Row({"window_end_at", "batch"})),
     link_reward_window_settlement_batch |-> Writes("update", {"batch", "updated_at"})]

\* Ledger rows come with their id, so the stored created_at is found.
budget_ledgers ==
    [save_poker_mtt_budget_ledger |-> Writes("keepCreated", Row({"row"}))]

\* sync_open_settlement_batch goes through save_settlement_batch; a new batch
\* comes with created_at and an empty root and job.
settlement_batches ==
    [save_settlement_batch |-> Writes("merge", Row({"state", "window_end_at", "total", "policy", "root", "job"})),
     sync_open_settlement_batch |-> Writes("merge", {"state", "window_end_at", "total", "policy", "updated_at"}),
     mark_settlement_batch_anchor_ready |-> Writes("update", {"state", "policy", "root", "job", "updated_at"}),
     mark_settlement_batch_anchor_submitted |-> Writes("update", {"state", "job", "updated_at"}),
     mark_settlement_batch_terminal |-> Writes("update", {"state", "updated_at"}),
     cancel_settlement_batch |-> Writes("update", {"state", "total", "root", "job", "updated_at"})]

anchor_jobs ==
    [save_anchor_job |-> Writes("merge", Row({"state", "broadcast", "confirmation", "outcome"})),
     update_anchor_job_broadcast |-> Writes("update", {"state", "broadcast", "updated_at"}),
     update_anchor_job_confirmation |-> Writes("update", {"confirmation", "updated_at"}),
     mark_anchor_job_terminal |-> Writes("update", {"state", "outcome", "confirmation", "updated_at"})]

artifacts ==
    [save_artifact |-> Writes("merge", Row({"content"})),
     save_artifacts_bulk |-> Writes("unlessSame", Row({"content"}))]

risk_cases == [save_risk_case |-> Writes("upsert", Row({"row"}))]

arena_results == [save_arena_result |-> Writes("upsert", Row({"row"}))]

tournaments == [save_poker_mtt_tournament |-> Writes("upsert", Row({"row"}))]

hand_events ==
    [save_poker_mtt_hand_event |-> Writes("versioned", Row({"version"}))]

mq_checkpoints ==
    [save_poker_mtt_mq_checkpoint |-> Writes("upsert", Row({"row"}))]

mq_conflicts ==
    [save_poker_mtt_mq_conflict |-> Writes("upsert", Row({"row"}))]

mq_dlq == [save_poker_mtt_mq_dlq |-> Writes("upsert", Row({"row"}))]

\* Short-term and long-term snapshots are in two tables; this is one of them.
hud_snapshots ==
    [save_poker_mtt_hud_snapshot |-> Writes("upsert", Row({"row"}))]

hidden_eval_entries ==
    [save_poker_mtt_hidden_eval_entry |-> Writes("upsert", Row({"row"}))]

rating_snapshots ==
    [save_poker_mtt_rating_snapshot |-> Writes("keepCreated", Row({"row"}))]

multiplier_snapshots ==
    [save_poker_mtt_multiplier_snapshot |-> Writes("keepCreated", Row({"row"}))]

final_rankings ==
    [save_poker_mtt_final_ranking |-> Writes("upsert", Row({"rank"}))]

results == [save_poker_mtt_result |-> Writes("upsert", Row({"row"}))]

corrections == [save_poker_mtt_correction |-> Writes("upsert", Row({"row"}))]

Tables ==
    [miners |-> miners, tasks |-> tasks, submissions |-> submissions,
     hold_entries |-> hold_entries, reward_windows |-> reward_windows, budget_ledgers |-> budget_ledgers,
     settlement_batches |-> settlement_batches, anchor_jobs |-> anchor_jobs, artifacts |-> artifacts,
     risk_cases |-> risk_cases, arena_results |-> arena_results, tournaments |-> tournaments,
     hand_events |-> hand_events, mq_checkpoints |-> mq_checkpoints, mq_conflicts |-> mq_conflicts,
     mq_dlq |-> mq_dlq, hud_snapshots |-> hud_snapshots, hidden_eval_entries |-> hidden_eval_entries,
     rating_snapshots |-> rating_snapshots, multiplier_snapshots |-> multiplier_snapshots, final_rankings |-> final_rankings,
     results |-> results, corrections |-> corrections]
=============================================================================

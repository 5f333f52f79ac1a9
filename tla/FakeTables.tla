------------------------------ MODULE FakeTables ------------------------------
(***************************************************************************)
(* The tables of FakeRepository, the repository in memory that the tests use *)
(* in place of Postgres (see PostgresTables).  Every method is one step.     *)
(*                                                                          *)
(*   register    raises when the row is there, else stores it                *)
(*   update      dict.update of the row; raises when there is none           *)
(*   put         dict.update of the row, or of an empty one                  *)
(*   indexed     put, unless a request id belongs to another row             *)
(*   unlessSame  put, unless the stored content is the same                  *)
(*   versioned   stored if the version is newer, with the first created_at   *)
(***************************************************************************)

Times == {"created_at", "updated_at"}
Row(cols) == cols \cup Times

Writes(how, cols) == [how |-> how, cols |-> cols]

miners ==
    LET all == Row({"identity", "participation", "settlement", "ranking", "arena", "poker"}) IN
    [register_miner |-> Writes("register", all),
     update_miner |-> Writes("update", all \ {"created_at"}),
     update_miner_cluster_identity |-> Writes("update", {"identity", "updated_at"}),
     update_miner_forecast_participation |-> Writes("update", {"participation", "updated_at"}),
     update_miner_forecast_settlement |-> Writes("update", {"settlement", "updated_at"}),
     update_miner_public_ranking |-> Writes("update", {"ranking"}),
     update_arena_miner_multiplier |-> Writes("update", {"arena", "updated_at"}),
     update_poker_mtt_miner_multiplier |-> Writes("update", {"poker", "updated_at"})]

tasks == [upsert_task |-> Writes("put", Row({"row"}))]

\* _request_index keeps every request id ever saved.
submissions ==
    [save_submission |-> Writes("indexed", Row({"request", "reveal_at"}))]

hold_entries == [save_hold_entry |-> Writes("put", Row({"row"}))]

\* The whole dict that the caller passes is stored, the miners' reward rows with it.
reward_windows ==
    [save_reward_window |-> Writes("put", Row({"window_end_at", "batch", "reward_rows"})),
     link_reward_window_settlement_batch |-> Writes("update", {"batch", "updated_at"})]

\* The row is normalized before it is stored, created_at included.
budget_ledgers ==
    [save_poker_mtt_budget_ledger |-> Writes("put", Row({"row"}))]

settlement_batches ==
    [save_settlement_batch |-> Writes("put", Row({"state", "window_end_at", "total", "policy", "root", "job"})),
     sync_open_settlement_batch |-> Writes("put", {"state", "window_end_at", "total", "policy", "updated_at"}),
     mark_settlement_batch_anchor_ready |-> Writes("update", {"state", "policy", "root", "job", "updated_at"}),
     mark_settlement_batch_anchor_submitted |-> Writes("update", {"state", "job", "updated_at"}),
     mark_settlement_batch_terminal |-> Writes("update", {"state", "updated_at"}),
     cancel_settlement_batch |-> Writes("update", {"state", "total", "root", "job", "updated_at"})]

anchor_jobs ==
    [save_anchor_job |-> Writes("put", Row({"state", "broadcast", "confirmation", "outcome"})),
     update_anchor_job_broadcast |-> Writes("update", {"state", "broadcast", "updated_at"}),
     update_anchor_job_confirmation |-> Writes("update", {"confirmation", "updated_at"}),
     mark_anchor_job_terminal |-> Writes("update", {"state", "outcome", "confirmation", "updated_at"})]

artifacts ==
    [save_artifact |-> Writes("put", Row({"content"})),
     save_artifacts_bulk |-> Writes("unlessSame", Row({"content"}))]

risk_cases == [save_risk_case |-> Writes("put", Row({"row"}))]

arena_results == [save_arena_result |-> Writes("put", Row({"row"}))]

tournaments == [save_poker_mtt_tournament |-> Writes("put", Row({"row"}))]

hand_events ==
    [save_poker_mtt_hand_event |-> Writes("versioned", Row({"version"}))]

mq_checkpoints ==
    [save_poker_mtt_mq_checkpoint |-> Writes("put", Row({"row"}))]

mq_conflicts ==
    [save_poker_mtt_mq_conflict |-> Writes("put", Row({"row"}))]

mq_dlq == [save_poker_mtt_mq_dlq |-> Writes("put", Row({"row"}))]

\* Both kinds of snapshots are in one dict.
hud_snapshots ==
    [save_poker_mtt_hud_snapshot |-> Writes("put", Row({"row"}))]

hidden_eval_entries ==
    [save_poker_mtt_hidden_eval_entry |-> Writes("put", Row({"row"}))]

rating_snapshots ==
    [save_poker_mtt_rating_snapshot |-> Writes("put", Row({"row"}))]

multiplier_snapshots ==
    [save_poker_mtt_multiplier_snapshot |-> Writes("put", Row({"row"}))]

final_rankings ==
    [save_poker_mtt_final_ranking |-> Writes("put", Row({"rank"}))]

results == [save_poker_mtt_result |-> Writes("put", Row({"row"}))]

corrections == [save_poker_mtt_correction |-> Writes("put", Row({"row"}))]

Tables ==
    [miners |-> miners, tasks |-> tasks, submissions |-> submissions,
     hold_entries |-> hold_entries, reward_windows |-> reward_windows, budget_ledgers |-> budget_ledgers,
     settlement_batches |-> settlement_batches, anchor_jobs |-> anchor_jobs, artifacts |-> artifacts,
     risk_cases |-> risk_cases, arena_results |-> arena_results, tournaments |-> tournaments,
     hand_events |-> hand_events, mq_checkpoints |-> mq_checkpoints, mq_conflicts |-> mq_conflicts,
     mq_dlq |-> mq_dlq, hud_snapshots |-> hud_snapshots, hidden_eval_entries |-> hidden_eval_entries,
     rating_snapshots |-> rating_snapshots, multiplier_snapshots |-> multiplier_snapshots, final_rankings |-> final_rankings,
     results |-> results, corrections |-> corrections]
=============================================================================

-------------------------- MODULE MCAnchorPipeline --------------------------
(* Small instances of AnchorPipeline. *)
EXTENDS AnchorPipeline, TLC

CONSTANTS b1, s1, j1, j2, t1, t2, w1, w2

MCRoots == [tasks : SUBSET TaskRuns, totals : SUBSET TaskRuns]

AllHandlers == {"reconcile", "rebuild", "retry", "submit", "fail", "confirm", "sweep",
                "broadcast-typed", "broadcast-fallback",
                "retry-broadcast-typed", "retry-broadcast-fallback"}

\* Every worker is asked for everything.
EveryHandler == [w \in Workers |-> AllHandlers]

\* The two background loops, job by job, beside an operator who prepares, submits
\* and broadcasts.
ConfirmAndOperate ==
    [w \in Workers |-> IF w = w1 THEN {"reconcile", "confirm"}
                       ELSE {"retry", "submit", "broadcast-typed"}]

\* The confirmation loop between the requests of an operator.
LoopAndOperator == [w \in Workers |-> {"sweep", "retry", "submit", "broadcast-typed"}]

\* Job ids and task runs are never ordered.
Symmetry == Permutations(Jobs) \cup Permutations(TaskRuns)
=============================================================================

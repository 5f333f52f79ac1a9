------------------------ MODULE MCForecastSettlement ------------------------
(* Small instances of ForecastSettlement. *)
EXTENDS ForecastSettlement

CONSTANTS t1, t2, m1, m2, p1, p2

\* m1 revealed every task, m2 none.
SubsOfM1 == Tasks \X {m1}

\* t2 was published after t1.  m2 registered in between, so that t1 does not
\* count for it; m1 registered after both, which count for it as it revealed them.
TwoTimes == [t \in Tasks |-> IF t = t1 THEN 1 ELSE 2]
LateMiners == [m \in Miners |-> IF m = m1 THEN 3 ELSE 2]
==============================================================================

---------------------------- MODULE AnchorPromise ----------------------------
(***************************************************************************)
(* What the anchoring of one settlement batch promises to whoever reads the *)
(* job rows: the chain holds at most one anchor for the batch, for good,    *)
(* and a job is reported anchored only while that anchor is its own.  The   *)
(* service may withdraw a report (a later broadcast of the same job fails), *)
(* it may never make a false one.                                           *)
(***************************************************************************)

CONSTANTS Values,  \* the anchors that could be stored, records with a job
          None     \* nothing is stored

VARIABLES value,    \* the anchor stored for the batch, or None
          reported  \* the jobs reported anchored

promiseVars == <<value, reported>>

Record(v) ==
    /\ value = None
    /\ value' = v
    /\ UNCHANGED reported

Report(v) ==
    /\ value = v
    /\ reported' = reported \cup {v.job}
    /\ UNCHANGED value

Withdraw(j) ==
    /\ reported' = reported \ {j}
    /\ UNCHANGED value

PromiseInit == value = None /\ reported = {}

PromiseNext ==
    \/ \E v \in Values : Record(v) \/ Report(v)
    \/ \E j \in reported : Withdraw(j)

PromiseSpec == PromiseInit /\ [][PromiseNext]_promiseVars
==============================================================================

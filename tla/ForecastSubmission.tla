-------------------------- MODULE ForecastSubmission --------------------------
(***************************************************************************)
(* How the mining service takes the commits and reveals of one forecast     *)
(* task: registration of miners, the clustering of miners into economic     *)
(* units from shared network signals, the commit, the reveal with its       *)
(* duplicate detection, and the risk cases both open.                       *)
(*                                                                          *)
(* A handler is one HTTP request in progress, an asyncio task of its own.   *)
(* Each repository call is a transaction of its own and other handlers run  *)
(* between two of them; proc[h] keeps what the handler read.  A crash ends  *)
(* every handler and keeps the rows.  A client may send any request again.  *)
(*                                                                          *)
(* Data.  An economic unit id is a hash of the sorted addresses of its      *)
(* members: here it is that set.  A commit hash binds one forecast: here it *)
(* is the forecast, and stands for the request id and the nonce too, so     *)
(* that a commit with the same forecast is the same request sent again.     *)
(* Signals that normalize to nothing (a loopback address, no user agent)    *)
(* are None.  Signatures, versions, names and timestamps are left out.      *)
(***************************************************************************)
EXTENDS Naturals, FiniteSets

CONSTANTS Miners,
          Ips,         \* normalized addresses of requests, None for a loopback
          Forecasts,   \* admissible p_yes_bps values
          Handlers,    \* requests in progress
          Environments, \* what clients and operators do: who sends which kinds of
                       \* request from which addresses, with which user agent
                       \* hashes (None for none) and forecasts, how many at a
                       \* time; the types of risk case that are decided; and how
                       \* often the service crashes
          None         \* no row, no signal, not revealed

Unit == SUBSET Miners
Agents == UNION {e.agents : e \in Environments}

\* What the model keeps of a miners row and of a forecast_submissions row.
MinerRow == [ip : Ips \cup {None}, ua : Agents \cup {None}, unit : Unit,
             commits : Nat, reveals : Nat]
SubRow == [commit : Forecasts, p : Forecasts \cup {None}, unit : Unit,
           status : {"eligible", "audit_only"}]

ASSUME SubmissionAssumption ==
    /\ None \notin Miners \cup Forecasts
    /\ None \notin MinerRow /\ None \notin SubRow
    /\ Handlers # {}
    /\ \A e \in Environments : /\ e.kinds \subseteq {"register", "commit", "reveal"}
                             /\ e.reviewed \subseteq {"cluster", "duplicate"}
                             /\ e.miners \subseteq Miners
                             /\ e.ips \subseteq Ips
                             /\ e.forecasts \subseteq Forecasts
                             /\ e.handlers \subseteq Handlers
                             /\ e.crashes \in Nat

VARIABLES
    environment, \* the one of Environments that a behaviour is in
    phase,    \* the task's clock: "commit", then "reveal", then "closed"
    miner,    \* miners rows, or None
    sub,      \* forecast_submissions rows of the task, or None
    cases,    \* risk cases: <<type, unit>> -> "none", "open" or "closed"
    proc,     \* the handlers
    crashes,
    overlap   \* history: two requests have been in progress at once

vars == <<environment, phase, miner, sub, cases, proc, crashes, overlap>>

Registered == {m \in Miners : miner[m] # None}
CaseIds == {"cluster", "duplicate"} \X Unit

Idle == [pc |-> "idle", op |-> "none", m |-> None, p |-> None,
         ip |-> None, ua |-> None, row |-> None, rows |-> <<>>, units |-> <<>>,
         left |-> {}, existing |-> None, status |-> "eligible", case |-> None]

At(h, pc) == proc[h].pc = pc
Goto(h, f) == proc' = [proc EXCEPT ![h] = f]
Done(h) == Goto(h, Idle)

------------------------------------------------------------------------------
(* compute_economic_unit_components *)

SharesEvidence(a, b) ==
    \/ a.ip # None /\ a.ip = b.ip
    \/ a.ua # None /\ a.ua = b.ua

\* The members of m's component: what every set with m that is closed under
\* shared evidence contains.
Component(rows, m) ==
    LET Closed(S) == \A a \in S, b \in DOMAIN rows :
                        SharesEvidence(rows[a], rows[b]) => b \in S
    IN  {n \in DOMAIN rows :
           \A S \in SUBSET DOMAIN rows : (m \in S /\ Closed(S)) => n \in S}

\* Mutant: only direct neighbours.
NeighboursOnly(rows) ==
    [m \in DOMAIN rows |-> {m} \cup {n \in DOMAIN rows :
                                       SharesEvidence(rows[m], rows[n])}]

UnitsOf(rows) == [m \in DOMAIN rows |-> Component(rows, m)]

Rows == [m \in Registered |-> miner[m]]

------------------------------------------------------------------------------
(* _sync_cluster_risk_cases: one case per unit of several members, skipped  *)
(* when an operator has decided it.                                         *)

Clusters(units) == {units[m] : m \in {n \in DOMAIN units : Cardinality(units[n]) > 1}}

ClusterCaseRead(h) ==
    /\ At(h, "cluster")
    /\ \E u \in proc[h].left :
         Goto(h, IF cases[<<"cluster", u>>] = "closed"
                   THEN [proc[h] EXCEPT !.left = @ \ {u}]
                   ELSE [proc[h] EXCEPT !.pc = "clusterWrite", !.left = @ \ {u},
                                        !.case = <<"cluster", u>>])
    /\ UNCHANGED <<phase, miner, sub, cases, crashes>>

ClusterCaseWrite(h) ==
    /\ At(h, "clusterWrite")
    /\ cases' = [cases EXCEPT ![proc[h].case] = "open"]
    /\ Goto(h, [proc[h] EXCEPT !.pc = "cluster", !.case = None])
    /\ UNCHANGED <<phase, miner, sub, crashes>>

\* A registration is answered; a commit or reveal reads its miner again.
ClusterCasesDone(h) ==
    /\ At(h, "cluster")
    /\ proc[h].left = {}
    /\ Goto(h, IF proc[h].op = "register" THEN Idle
               ELSE [proc[h] EXCEPT !.pc = proc[h].op, !.row = miner[proc[h].m],
                                    !.rows = <<>>, !.units = <<>>])
    /\ UNCHANGED <<phase, miner, sub, cases, crashes>>

------------------------------------------------------------------------------
(* register_miner *)

RegisterList(h, m, ip, ua) ==
    LET row == [ip |-> ip, ua |-> ua, unit |-> {}, commits |-> 0, reveals |-> 0]
        rows == [n \in Registered \cup {m} |-> IF n = m THEN row ELSE miner[n]]
    IN  /\ At(h, "idle")
        /\ "register" \in environment.kinds
        /\ m \notin Registered
        /\ Goto(h, [Idle EXCEPT !.pc = "registerWrite", !.op = "register", !.m = m,
                                !.rows = rows, !.units = UnitsOf(rows)])
        /\ UNCHANGED <<phase, miner, sub, cases, crashes>>

\* repo.register_miner raises when the row exists by now.
RegisterWrite(h) ==
    LET q == proc[h]
    IN  /\ At(h, "registerWrite")
        /\ IF miner[q.m] # None THEN Done(h) /\ UNCHANGED miner
           ELSE /\ miner' = [miner EXCEPT ![q.m] =
                               [q.rows[q.m] EXCEPT !.unit = q.units[q.m]]]
                /\ Goto(h, [q EXCEPT
                     !.pc = "units",
                     !.left = {n \in DOMAIN q.rows \ {q.m} :
                                 q.units[n] # q.rows[n].unit}])
        /\ UNCHANGED <<phase, sub, cases, crashes>>

------------------------------------------------------------------------------
(* _refresh_miner_cluster *)

\* Unchanged signals end the refresh.  No user agent means the one in the row.
RefreshRead(h) ==
    LET cur == miner[proc[h].m]
        ua == IF proc[h].ua = None THEN cur.ua ELSE proc[h].ua
    IN  /\ At(h, "refresh")
        /\ Goto(h, IF proc[h].ip = cur.ip /\ ua = cur.ua
                     THEN [proc[h] EXCEPT !.pc = proc[h].op, !.row = cur]
                     ELSE [proc[h] EXCEPT !.pc = "refreshList", !.ua = ua,
                                          !.row = cur])
        /\ UNCHANGED <<phase, miner, sub, cases, crashes>>

\* list_miners, with the new signals put in: who needs an update.
RefreshList(h) ==
    LET q == proc[h]
        rows == [Rows EXCEPT ![q.m].ip = q.ip, ![q.m].ua = q.ua]
        units == UnitsOf(rows)
    IN  /\ At(h, "refreshList")
        /\ Goto(h, [q EXCEPT !.pc = "units", !.rows = rows, !.units = units,
                             !.left = {n \in DOMAIN rows :
                                         n = q.m \/ units[n] # rows[n].unit}])
        /\ UNCHANGED <<phase, miner, sub, cases, crashes>>

\* update_miner_cluster_identity of one miner: what differs from the row that
\* was read, except that a None is not written.
UpdateUnit(h) ==
    LET q == proc[h]
        refreshed(n) == n = q.m /\ q.op # "register"
    IN  /\ At(h, "units")
        /\ \E n \in q.left :
             /\ miner' = [miner EXCEPT
                  ![n].unit = IF q.units[n] # q.rows[n].unit THEN q.units[n] ELSE @,
                  ![n].ip = IF refreshed(n) /\ q.ip \notin {None, q.row.ip}
                              THEN q.ip ELSE @,
                  ![n].ua = IF refreshed(n) /\ q.ua \notin {None, q.row.ua}
                              THEN q.ua ELSE @]
             /\ Goto(h, [q EXCEPT !.left = @ \ {n}])
        /\ UNCHANGED <<phase, sub, cases, crashes>>

\* Mutant: no case is opened for the clusters found.
UnitsUpdatedNoCases(h) ==
    /\ At(h, "units")
    /\ proc[h].left = {}
    /\ Goto(h, [proc[h] EXCEPT !.pc = "cluster"])
    /\ UNCHANGED <<phase, miner, sub, cases, crashes>>

UnitsUpdated(h) ==
    /\ At(h, "units")
    /\ proc[h].left = {}
    /\ Goto(h, [proc[h] EXCEPT !.pc = "cluster", !.left = Clusters(proc[h].units)])
    /\ UNCHANGED <<phase, miner, sub, cases, crashes>>

------------------------------------------------------------------------------
(* commit_submission *)

\* The deadline is compared with the time the request came in.
CommitRequest(h, m, p, ip, ua) ==
    /\ At(h, "idle")
    /\ "commit" \in environment.kinds
    /\ phase = "commit"
    /\ m \in Registered
    /\ Goto(h, [Idle EXCEPT !.pc = "refresh", !.op = "commit", !.m = m, !.p = p,
                            !.ip = ip, !.ua = ua])
    /\ UNCHANGED <<phase, miner, sub, cases, crashes>>

\* Mutant: a refused commit is counted.
CommitDuplicateCounts(h) ==
    /\ At(h, "commit")
    /\ sub[proc[h].m] # None
    /\ miner' = [miner EXCEPT ![proc[h].m].commits = proc[h].row.commits + 1]
    /\ Done(h)
    /\ UNCHANGED <<phase, sub, cases, crashes>>

\* "already committed"
CommitDuplicate(h) ==
    /\ At(h, "commit")
    /\ sub[proc[h].m] # None
    /\ Done(h)
    /\ UNCHANGED <<phase, miner, sub, cases, crashes>>

CommitRead(h) ==
    /\ At(h, "commit")
    /\ sub[proc[h].m] = None
    /\ Goto(h, [proc[h] EXCEPT !.pc = "commitWrite"])
    /\ UNCHANGED <<phase, miner, sub, cases, crashes>>

\* save_submission: the whole row, whatever is there by now.
CommitWrite(h) ==
    /\ At(h, "commitWrite")
    /\ sub' = [sub EXCEPT ![proc[h].m] =
                 [commit |-> proc[h].p, p |-> None, unit |-> proc[h].row.unit,
                  status |-> "eligible"]]
    /\ Goto(h, [proc[h] EXCEPT !.pc = "commitCount"])
    /\ UNCHANGED <<phase, miner, cases, crashes>>

CommitCount(h) ==
    /\ At(h, "commitCount")
    /\ miner' = [miner EXCEPT ![proc[h].m].commits = proc[h].row.commits + 1]
    /\ Done(h)
    /\ UNCHANGED <<phase, sub, cases, crashes>>

------------------------------------------------------------------------------
(* reveal_submission *)

\* A reveal is taken from the task's publication on, before the commit
\* deadline too.
RevealRequest(h, m, p, ip, ua) ==
    /\ At(h, "idle")
    /\ "reveal" \in environment.kinds
    /\ phase \in {"commit", "reveal"}
    /\ m \in Registered
    /\ Goto(h, [Idle EXCEPT !.pc = "refresh", !.op = "reveal", !.m = m, !.p = p,
                            !.ip = ip, !.ua = ua])
    /\ UNCHANGED <<phase, miner, sub, cases, crashes>>

Revealable(s, p) == s # None /\ s.p = None /\ s.commit = p

RevealRead(h) ==
    LET s == sub[proc[h].m]
    IN  /\ At(h, "reveal")
        /\ Goto(h, IF Revealable(s, proc[h].p)
                     THEN [proc[h] EXCEPT !.pc = "revealList", !.existing = s]
                     ELSE Idle)
        /\ UNCHANGED <<phase, miner, sub, cases, crashes>>

\* Mutant: the unit of the commit is looked for, not the refreshed one.
EligibilityStaleUnit(m, unit) ==
    IF \E n \in Miners \ {m} : /\ sub[n] # None
                               /\ sub[n].unit = sub[m].unit
                               /\ sub[n].p # None
      THEN "audit_only" ELSE "eligible"

\* Another revealed submission filed under the same unit makes this one a
\* duplicate.
Eligibility(m, unit) ==
    IF \E n \in Miners \ {m} : sub[n] # None /\ sub[n].unit = unit /\ sub[n].p # None
      THEN "audit_only" ELSE "eligible"

\* list_submissions_for_task
RevealList(h) ==
    /\ At(h, "revealList")
    /\ Goto(h, [proc[h] EXCEPT
                  !.pc = "revealWrite",
                  !.status = Eligibility(proc[h].m, proc[h].row.unit)])
    /\ UNCHANGED <<phase, miner, sub, cases, crashes>>

\* Mutant: only the columns of the reveal are written.
RevealWritePatch(h) ==
    LET q == proc[h]
    IN  /\ At(h, "revealWrite")
        /\ sub' = [sub EXCEPT ![q.m].unit = q.row.unit, ![q.m].p = q.p,
                              ![q.m].status = q.status]
        /\ Goto(h, [q EXCEPT !.pc = IF q.status = "audit_only" THEN "duplicate"
                                    ELSE "revealCount"])
        /\ UNCHANGED <<phase, miner, cases, crashes>>

\* save_submission: the row as it was read, with the reveal put in.
RevealWrite(h) ==
    LET q == proc[h]
    IN  /\ At(h, "revealWrite")
        /\ sub' = [sub EXCEPT ![q.m] = [q.existing EXCEPT !.unit = q.row.unit,
                                                          !.p = q.p,
                                                          !.status = q.status]]
        /\ Goto(h, [q EXCEPT !.pc = IF q.status = "audit_only" THEN "duplicate"
                                    ELSE "revealCount"])
        /\ UNCHANGED <<phase, miner, cases, crashes>>

\* _open_duplicate_reveal_case: unless an operator has decided the case.
DuplicateCaseRead(h) ==
    LET c == <<"duplicate", proc[h].row.unit>>
    IN  /\ At(h, "duplicate")
        /\ Goto(h, IF cases[c] = "closed"
                     THEN [proc[h] EXCEPT !.pc = "revealCount"]
                     ELSE [proc[h] EXCEPT !.pc = "duplicateWrite", !.case = c])
        /\ UNCHANGED <<phase, miner, sub, cases, crashes>>

DuplicateCaseWrite(h) ==
    /\ At(h, "duplicateWrite")
    /\ cases' = [cases EXCEPT ![proc[h].case] = "open"]
    /\ Goto(h, [proc[h] EXCEPT !.pc = "revealCount", !.case = None])
    /\ UNCHANGED <<phase, miner, sub, crashes>>

RevealCount(h) ==
    /\ At(h, "revealCount")
    /\ miner' = [miner EXCEPT ![proc[h].m].reveals = proc[h].row.reveals + 1]
    /\ Done(h)
    /\ UNCHANGED <<phase, sub, cases, crashes>>

------------------------------------------------------------------------------
(* override_risk_case, the clock and the crash *)

OverrideRiskCase(c) ==
    /\ c[1] \in environment.reviewed
    /\ cases[c] # "none"
    /\ cases' = [cases EXCEPT ![c] = "closed"]
    /\ UNCHANGED <<phase, miner, sub, proc, crashes>>

Tick ==
    /\ phase # "closed"
    /\ phase' = IF phase = "commit" THEN "reveal" ELSE "closed"
    /\ UNCHANGED <<miner, sub, cases, proc, crashes>>

Crash ==
    /\ crashes < environment.crashes
    /\ \E h \in Handlers : ~At(h, "idle")
    /\ crashes' = crashes + 1
    /\ proc' = [h \in Handlers |-> Idle]
    /\ UNCHANGED <<phase, miner, sub, cases>>

Request(h) ==
    /\ h \in environment.handlers
    /\ \E m \in environment.miners, ip \in environment.ips, ua \in environment.agents :
         \/ RegisterList(h, m, ip, ua)
         \/ \E p \in environment.forecasts : \/ CommitRequest(h, m, p, ip, ua)
                                             \/ RevealRequest(h, m, p, ip, ua)

Step(h) ==
    \/ RegisterWrite(h) \/ RefreshRead(h) \/ RefreshList(h)
    \/ UpdateUnit(h) \/ UnitsUpdated(h)
    \/ ClusterCaseRead(h) \/ ClusterCaseWrite(h) \/ ClusterCasesDone(h)
    \/ CommitDuplicate(h) \/ CommitRead(h) \/ CommitWrite(h) \/ CommitCount(h)
    \/ RevealRead(h) \/ RevealList(h) \/ RevealWrite(h)
    \/ DuplicateCaseRead(h) \/ DuplicateCaseWrite(h) \/ RevealCount(h)

Init ==
    /\ environment \in Environments
    /\ phase = "commit"
    /\ miner = [m \in Miners |-> None]
    /\ sub = [m \in Miners |-> None]
    /\ cases = [c \in CaseIds |-> "none"]
    /\ proc = [h \in Handlers |-> Idle]
    /\ crashes = 0
    /\ overlap = FALSE

\* At most one request is in progress.
Serial == \A a, b \in Handlers : a = b \/ At(a, "idle") \/ At(b, "idle")

Next ==
    /\ \/ \E h \in Handlers : Request(h) \/ Step(h)
       \/ \E c \in CaseIds : OverrideRiskCase(c)
       \/ Tick
       \/ Crash
    /\ UNCHANGED environment
    /\ overlap' = (overlap \/ ~Serial')

Spec == Init /\ [][Next]_vars

------------------------------------------------------------------------------
(* Properties *)

Quiet == \A h \in Handlers : At(h, "idle")

\* No request has met another one so far, and none was cut in two by a crash.
Undisturbed == ~overlap /\ crashes = 0

\* Whatever requests are in progress, a submission never shows a forecast other
\* than the one its commit bound: the reveal writes the commit it checked back
\* together with the forecast.
RevealMatchesCommit ==
    \A m \in Miners :
        (sub[m] # None /\ sub[m].p # None) => sub[m].p = sub[m].commit

\* As long as requests came one after the other, every miner's unit is between
\* two of them its component of the evidence in the rows: the updates of _refresh_miner_cluster and register_miner, which
\* touch only the rows that differ, add up to a recomputation.
UnitsAreComponents ==
    Quiet /\ Undisturbed =>
        \A m \in Registered : miner[m].unit = Component(Rows, m)

\* There is a case, open or decided, for every unit of several miners.
ClusterHasCase ==
    \A m \in Registered :
        Cardinality(miner[m].unit) > 1 => cases[<<"cluster", miner[m].unit>>] # "none"

\* Every reveal marked audit_only has a case for the unit it is filed under.
DuplicateHasCase ==
    \A m \in Miners :
        (sub[m] # None /\ sub[m].status = "audit_only")
            => cases[<<"duplicate", sub[m].unit>>] # "none"

\* docs/HARNESS_BACKEND_ARCHITECTURE.md:347-349: the runtime opens a risk case
\* when miners share an economic unit and when one unit reveals a task several
\* times.  As long as requests came one after the other, neither is between two of
\* them without its case, which _refresh_miner_cluster and
\* _open_duplicate_reveal_case save.
RisksHaveCases == Quiet /\ Undisturbed => ClusterHasCase /\ DuplicateHasCase

EligibleReveal(m) == sub[m] # None /\ sub[m].p # None /\ sub[m].status = "eligible"

EligibleUnitsDiffer ==
    \A m, n \in Miners :
        (m # n /\ EligibleReveal(m) /\ EligibleReveal(n)) => sub[m].unit # sub[n].unit

\* docs/HARNESS_BACKEND_ARCHITECTURE.md:346 and docs/HARNESS_API_CONTRACTS.md:66
\* give a cluster one eligible reveal per task.  reveal_submission compares unit
\* ids, which name the members a cluster had at each reveal, so what holds is
\* this: two eligible reveals of one cluster are never filed under the same
\* membership.  A miner that joins after another member has revealed makes a new
\* id, and its reveal is eligible too.  As long as requests came one after the
\* other, wherever the service crashed.
OneEligiblePerUnit == ~overlap => EligibleUnitsDiffer

\* As long as requests came one after the other, the participation counters,
\* which gate the release of held rewards, count the rows between two of them.
CountersMatchRows ==
    Quiet /\ Undisturbed => \A m \in Registered :
        /\ miner[m].commits = (IF sub[m] # None THEN 1 ELSE 0)
        /\ miner[m].reveals = (IF sub[m] # None /\ sub[m].p # None THEN 1 ELSE 0)
==============================================================================

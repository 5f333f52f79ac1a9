----------------------- MODULE ForecastSubmissionProofs -----------------------
(***************************************************************************)
(* Proofs about ForecastSubmission, for any miners, addresses, forecasts,   *)
(* environments and handlers.                                               *)
(*                                                                          *)
(* With any number of handlers in progress and any crashes: the types, and  *)
(* that a submission never shows a forecast other than the one its commit   *)
(* bound.  The other properties are about what several transactions add up  *)
(* to, and hold until two requests are in progress at once (overlap); all   *)
(* but the eligibility of reveals hold until a crash cuts a request in two. *)
(*                                                                          *)
(* None of them is inductive: they hold between requests, or are made true  *)
(* by a write from values read before.  The invariant follows the handler   *)
(* in progress, step by step: which rows still are as it read them, which   *)
(* rows it has still to write, and which cases it has still to open.        *)
(***************************************************************************)
EXTENDS ForecastSubmission, TLAPS

PCs == {"idle", "registerWrite", "refresh", "refreshList", "units", "cluster",
        "clusterWrite", "commit", "commitWrite", "commitCount", "reveal", "revealList",
        "revealWrite", "duplicate", "duplicateWrite", "revealCount"}
PartialRows == UNION {[D -> MinerRow] : D \in SUBSET Miners}
PartialUnits == UNION {[D -> Unit] : D \in SUBSET Miners}
Handler == [pc : PCs, op : {"none", "register", "commit", "reveal"},
            m : Miners \cup {None}, p : Forecasts \cup {None},
            ip : Ips \cup {None}, ua : Agents \cup {None}, row : MinerRow \cup {None},
            rows : PartialRows \cup {<<>>}, units : PartialUnits \cup {<<>>},
            left : SUBSET (Miners \cup Unit), existing : SubRow \cup {None},
            status : {"eligible", "audit_only"}, case : CaseIds \cup {None}]

\* The steps of a commit or reveal that use the miner's row as it was read, and
\* those that have gone through the list of all miners.
CommitPCs == {"commit", "commitWrite", "commitCount"}
RevealPCs == {"reveal", "revealList", "revealWrite", "duplicate", "duplicateWrite",
              "revealCount"}
RowPCs == CommitPCs \cup RevealPCs
SharedPCs == {"units", "cluster", "clusterWrite"}

\* A handler's local state, given the registered miners.
HandlerOK(q, known) ==
    /\ q \in Handler
    /\ q.pc = "idle" => q = Idle
    /\ q.pc = "registerWrite" =>
         /\ q.op = "register" /\ q.m \in Miners
         /\ q.rows \in PartialRows /\ q.m \in DOMAIN q.rows
         /\ DOMAIN q.rows \subseteq known \cup {q.m}
         /\ q.rows[q.m].commits = 0 /\ q.rows[q.m].reveals = 0
    /\ q.pc \in SharedPCs => q.op # "none" /\ q.m \in known
    /\ q.pc \in {"refresh", "refreshList"} => q.op \in {"commit", "reveal"}
    /\ q.pc \in CommitPCs => q.op = "commit"
    /\ q.pc \in RevealPCs => q.op = "reveal"
    /\ q.op \in {"commit", "reveal"} => q.m \in known /\ q.p \in Forecasts /\ q.ip \in Ips
    /\ q.pc \in {"registerWrite", "units"} => q.units = UnitsOf(q.rows)
    /\ q.pc = "units" =>
         /\ q.rows \in PartialRows /\ q.left \subseteq DOMAIN q.rows
         /\ DOMAIN q.rows \subseteq known
         /\ q.op # "register" => q.row \in MinerRow
    /\ q.pc \in {"cluster", "clusterWrite"} => q.left \subseteq Unit
    /\ q.pc = "clusterWrite" => q.case \in {"cluster"} \X Unit
    /\ q.pc = "duplicateWrite" => q.case = <<"duplicate", q.row.unit>>
    /\ q.pc \in RowPCs \cup {"refreshList"} => q.row \in MinerRow
    /\ q.pc \in {"revealList", "revealWrite"} => q.existing \in SubRow /\ Revealable(q.existing, q.p)

Types ==
    /\ environment \in Environments
    /\ miner \in [Miners -> MinerRow \cup {None}]
    /\ sub \in [Miners -> SubRow \cup {None}]
    /\ cases \in [CaseIds -> {"none", "open", "closed"}]
    /\ proc \in [Handlers -> Handler]
    /\ \A h \in Handlers : HandlerOK(proc[h], Registered)

\* The inductive invariant of any number of handlers.
SubmissionInv == Types /\ RevealMatchesCommit

------------------------------------------------------------------------------
(* What one handler at a time keeps; q is its local state.                  *)

Alone(h) == \A b \in Handlers \ {h} : At(b, "idle")

\* The reveals are at most one per unit, and the one to be written keeps it so.
EligibleOK(q) ==
    /\ EligibleUnitsDiffer
    /\ q.pc = "revealWrite" => q.status = Eligibility(q.m, q.row.unit)

\* The row that was read is the row that is.
RowIsCurrent(q) == q.pc \in RowPCs \cup {"refreshList"} => q.row = miner[q.m]

Counter(m) ==
    /\ miner[m].commits = (IF sub[m] # None THEN 1 ELSE 0)
    /\ miner[m].reveals = (IF sub[m] # None /\ sub[m].p # None THEN 1 ELSE 0)

Uncounted == {"commitCount", "duplicate", "duplicateWrite", "revealCount"}

\* The counters match but for the write the handler has still to count.
CountsOK(q) ==
    /\ \A m \in Miners : sub[m] # None => m \in Registered
    /\ \A m \in Registered : m # q.m \/ q.pc \notin Uncounted => Counter(m)
    /\ q.pc = "commitWrite" => sub[q.m] = None
    /\ q.pc = "commitCount" =>
         /\ sub[q.m] # None /\ sub[q.m].p = None
         /\ miner[q.m].commits = 0 /\ miner[q.m].reveals = 0
    /\ q.pc \in {"revealList", "revealWrite"} => sub[q.m] = q.existing
    /\ q.pc \in Uncounted \ {"commitCount"} =>
         /\ sub[q.m] # None /\ sub[q.m].p # None
         /\ miner[q.m].commits = 1 /\ miner[q.m].reveals = 0

\* The list of miners is still true, but for the units already updated and the
\* signals of the handler's own miner.
ListOK(q) ==
    /\ q.pc = "registerWrite" =>
         /\ q.m \notin Registered
         /\ DOMAIN q.rows = Registered \cup {q.m}
         /\ \A n \in Registered : q.rows[n] = miner[n]
    /\ q.pc = "refreshList" => (q.ua = None => miner[q.m].ua = None)
    /\ q.pc = "units" =>
         /\ DOMAIN q.rows = Registered
         /\ \A n \in Registered :
              miner[n].unit = IF n \in q.left THEN q.rows[n].unit ELSE q.units[n]
         /\ \A n \in Registered \ {q.m} : /\ miner[n].ip = q.rows[n].ip
                                          /\ miner[n].ua = q.rows[n].ua
         /\ q.op = "register" => /\ q.m \notin q.left
                                 /\ miner[q.m].ip = q.rows[q.m].ip
                                 /\ miner[q.m].ua = q.rows[q.m].ua
         /\ q.op # "register" =>
              /\ q.rows[q.m].ip = q.ip /\ q.rows[q.m].ua = q.ua
              /\ q.m \in q.left => miner[q.m].ip = q.row.ip /\ miner[q.m].ua = q.row.ua
              /\ q.m \notin q.left /\ q.ip # None => miner[q.m].ip = q.ip
              /\ q.m \notin q.left /\ q.ua # None => miner[q.m].ua = q.ua
              /\ q.ua = None => miner[q.m].ua = None

\* Every unit is a component, but while the units are being written.
ComponentsOK(q) ==
    None \notin Ips /\ q.pc # "units" =>
      \A m \in Registered : miner[m].unit = Component(Rows, m)

\* A cluster without a case is one the handler has still to open a case for.
ClusterOK(q) ==
    \A m \in Registered : Cardinality(miner[m].unit) > 1 =>
      \/ cases[<<"cluster", miner[m].unit>>] # "none"
      \/ q.pc = "units" /\ miner[m].unit \in Clusters(q.units)
      \/ q.pc \in {"cluster", "clusterWrite"} /\ miner[m].unit \in q.left
      \/ q.pc = "clusterWrite" /\ q.case = <<"cluster", miner[m].unit>>

\* So is a duplicate without a case.
DuplicateOK(q) ==
    \A m \in Miners : sub[m] # None /\ sub[m].status = "audit_only" =>
      \/ cases[<<"duplicate", sub[m].unit>>] # "none"
      \/ q.pc \in {"duplicate", "duplicateWrite"} /\ q.m = m /\ q.row.unit = sub[m].unit

RequestOK(q) ==
    RowIsCurrent(q) /\ CountsOK(q) /\ ListOK(q) /\ ComponentsOK(q) /\ ClusterOK(q) /\ DuplicateOK(q)

\* The inductive invariants of one request at a time: the first for any crashes,
\* the second as long as there is none.
EligibleInv == \A h \in Handlers : Alone(h) => EligibleOK(proc[h])
RequestInv == \A h \in Handlers : Alone(h) => RequestOK(proc[h])

------------------------------------------------------------------------------
(* Types, for any number of handlers.                                       *)

\* A handler's state stays right when miners are added.
LEMMA KnownGrows ==
    ASSUME NEW q, NEW known, NEW more, HandlerOK(q, known), known \subseteq more
    PROVE  HandlerOK(q, more)
  BY DEF HandlerOK

\* A step of one handler keeps the types, if what it writes is of its type.
LEMMA TypesStep ==
    ASSUME Types, NEW h \in Handlers, NEW f, Goto(h, f), environment' = environment,
           miner' \in [Miners -> MinerRow \cup {None}],
           sub' \in [Miners -> SubRow \cup {None}],
           cases' \in [CaseIds -> {"none", "open", "closed"}],
           Registered \subseteq Registered', HandlerOK(f, Registered')
    PROVE  Types'
  <1>1. f \in Handler
    BY DEF HandlerOK
  <1>2. proc' = [proc EXCEPT ![h] = f] /\ proc' \in [Handlers -> Handler]
    BY <1>1 DEF Types, Goto
  <1>3. ASSUME NEW b \in Handlers PROVE HandlerOK(proc'[b], Registered')
    <2>1. CASE b = h
      BY <1>2, <2>1 DEF Types
    <2>2. CASE b # h
      BY <1>2, <2>2, KnownGrows DEF Types
    <2>3. QED BY <2>1, <2>2
  <1>4. QED BY <1>2, <1>3 DEF Types

\* The same, for a step that writes no row.
LEMMA LocalTypes ==
    ASSUME Types, NEW h \in Handlers, NEW f, Goto(h, f), environment' = environment,
           UNCHANGED <<miner, sub, cases>>, HandlerOK(f, Registered)
    PROVE  Types'
  <1>1. Registered' = Registered
    BY DEF Registered
  <1>2. QED BY <1>1, TypesStep DEF Types

\* An idle handler knows nothing.
LEMMA IdleOK ==
    ASSUME NEW known
    PROVE  HandlerOK(Idle, known)
  <1>1. Idle \in Handler
    BY DEF Idle, Handler, PCs
  <1>2. QED
    BY <1>1 DEF Idle, HandlerOK, SharedPCs, CommitPCs, RevealPCs, RowPCs

\* What a component is made of.
LEMMA ComponentIsUnit ==
    ASSUME NEW rows \in PartialRows
    PROVE  UnitsOf(rows) \in [DOMAIN rows -> Unit] /\ UnitsOf(rows) \in PartialUnits
  <1>1. DOMAIN rows \in SUBSET Miners
    BY DEF PartialRows
  <1>2. \A m : Component(rows, m) \subseteq DOMAIN rows
    BY DEF Component
  <1>3. QED BY <1>1, <1>2 DEF UnitsOf, Unit, PartialUnits

\* list_miners gives a row for each registered miner.
LEMMA RowsArePartial ==
    ASSUME Types
    PROVE  Rows \in [Registered -> MinerRow] /\ Rows \in PartialRows
  <1>1. Registered \in SUBSET Miners
    BY DEF Registered
  <1>2. Rows \in [Registered -> MinerRow]
    BY DEF Rows, Registered, Types
  <1>3. QED BY <1>1, <1>2 DEF PartialRows

\* The updates of a handler's state that its steps make.
LEMMA HandlerUpdate ==
    ASSUME NEW q \in Handler, NEW pc \in PCs
    PROVE  /\ [q EXCEPT !.pc = pc] \in Handler
           /\ \A s \in SubRow : [q EXCEPT !.pc = pc, !.existing = s] \in Handler
           /\ \A e \in {"eligible", "audit_only"} : [q EXCEPT !.pc = pc, !.status = e] \in Handler
           /\ \A c \in CaseIds \cup {None} : [q EXCEPT !.pc = pc, !.case = c] \in Handler
           /\ \A l \in SUBSET (Miners \cup Unit) :
                /\ [q EXCEPT !.left = l] \in Handler
                /\ [q EXCEPT !.pc = pc, !.left = l] \in Handler
                /\ \A c \in CaseIds : [q EXCEPT !.pc = pc, !.left = l, !.case = c] \in Handler
  <1>1. [q EXCEPT !.pc = pc] \in Handler
    BY DEF Handler
  <1>2. \A s \in SubRow : [q EXCEPT !.pc = pc, !.existing = s] \in Handler
    BY DEF Handler
  <1>3. \A e \in {"eligible", "audit_only"} : [q EXCEPT !.pc = pc, !.status = e] \in Handler
    BY DEF Handler
  <1>4. \A c \in CaseIds \cup {None} : [q EXCEPT !.pc = pc, !.case = c] \in Handler
    BY DEF Handler
  <1>5. \A l \in SUBSET (Miners \cup Unit) : [q EXCEPT !.left = l] \in Handler
    BY DEF Handler
  <1>6. \A l \in SUBSET (Miners \cup Unit) : [q EXCEPT !.pc = pc, !.left = l] \in Handler
    BY DEF Handler
  <1>7. \A l \in SUBSET (Miners \cup Unit), c \in CaseIds :
          [q EXCEPT !.pc = pc, !.left = l, !.case = c] \in Handler
    BY DEF Handler
  <1>8. QED BY <1>1, <1>2, <1>3, <1>4, <1>5, <1>6, <1>7

\* The handlers' states after the steps that write no row.
LEMMA LocalSteps ==
    ASSUME Types, environment' = environment, NEW h \in Handlers,
           \/ RefreshRead(h) \/ RefreshList(h) \/ UnitsUpdated(h)
           \/ ClusterCaseRead(h) \/ ClusterCasesDone(h)
           \/ CommitDuplicate(h) \/ CommitRead(h)
           \/ RevealRead(h) \/ RevealList(h) \/ DuplicateCaseRead(h)
    PROVE  Types' /\ UNCHANGED <<miner, sub, cases>>
  <1> DEFINE q == proc[h]
  <1>0. q \in Handler /\ HandlerOK(q, Registered)
    BY DEF Types
  <1>1. \A m \in Registered : miner[m] \in MinerRow
    BY DEF Registered, Types
  <1>2. CASE RefreshRead(h)
    <2> DEFINE cur == miner[q.m]
               ua == IF q.ua = None THEN cur.ua ELSE q.ua
               f == IF q.ip = cur.ip /\ ua = cur.ua
                      THEN [q EXCEPT !.pc = q.op, !.row = cur]
                      ELSE [q EXCEPT !.pc = "refreshList", !.ua = ua, !.row = cur]
    <2>1. q.pc = "refresh" /\ Goto(h, f) /\ UNCHANGED <<miner, sub, cases>>
      BY <1>2 DEF RefreshRead, At
    <2>2. q.op \in {"commit", "reveal"} /\ q.m \in Registered /\ q.p \in Forecasts /\ q.ip \in Ips
      BY <1>0, <2>1 DEF HandlerOK
    <2>3. cur \in MinerRow /\ ua \in Agents \cup {None}
      BY <1>0, <1>1, <2>2 DEF MinerRow, Handler
    <2> HIDE DEF cur, ua
    <2>4. f \in Handler
      <3>0. q.op \in PCs /\ "refreshList" \in PCs
        BY <2>2 DEF PCs
      <3> HIDE DEF q
      <3>1. [q EXCEPT !.pc = q.op, !.row = cur] \in Handler
        BY <1>0, <2>3, <3>0 DEF Handler
      <3>2. [q EXCEPT !.pc = "refreshList", !.ua = ua, !.row = cur] \in Handler
        BY <1>0, <2>3, <3>0 DEF Handler
      <3>3. QED BY <3>1, <3>2
    <2>5. /\ f.op = q.op /\ f.m = q.m /\ f.p = q.p /\ f.ip = q.ip /\ f.row = cur
          /\ f.pc \in {q.op, "refreshList"}
      BY <1>0 DEF Handler
    <2> HIDE DEF f
    <2>6. HandlerOK(f, Registered)
      BY <2>2, <2>3, <2>4, <2>5 DEF HandlerOK, CommitPCs, RevealPCs, RowPCs, SharedPCs
    <2>7. QED BY <2>1, <2>6, LocalTypes
  <1>3. CASE RefreshList(h)
    <2> DEFINE rows == [Rows EXCEPT ![q.m].ip = q.ip, ![q.m].ua = q.ua]
               units == UnitsOf(rows)
               left == {n \in DOMAIN rows : n = q.m \/ units[n] # rows[n].unit}
               f == [q EXCEPT !.pc = "units", !.rows = rows, !.units = units, !.left = left]
    <2>1. q.pc = "refreshList" /\ Goto(h, f) /\ UNCHANGED <<miner, sub, cases>>
      BY <1>3 DEF RefreshList, At
    <2>2. /\ q.op \in {"commit", "reveal"} /\ q.m \in Registered /\ q.p \in Forecasts
          /\ q.ip \in Ips /\ q.row \in MinerRow
      BY <1>0, <2>1 DEF HandlerOK
    <2>3. Rows \in [Registered -> MinerRow] /\ Registered \in SUBSET Miners
      BY RowsArePartial DEF Registered
    <2>4. rows \in [Registered -> MinerRow]
      BY <1>0, <2>2, <2>3 DEF MinerRow, Handler
    <2>5. rows \in PartialRows /\ DOMAIN rows = Registered
      BY <2>3, <2>4 DEF PartialRows
    <2> HIDE DEF rows
    <2>6. units \in PartialUnits
      BY <2>5, ComponentIsUnit
    <2> HIDE DEF units
    <2>7. left \in SUBSET (Miners \cup Unit) /\ left \subseteq DOMAIN rows
      BY <2>3, <2>5
    <2> HIDE DEF left
    <2>8. f \in Handler
      BY <1>0, <2>2, <2>5, <2>6, <2>7 DEF Handler, PCs
    <2>9. /\ f.op = q.op /\ f.m = q.m /\ f.p = q.p /\ f.ip = q.ip /\ f.row = q.row
          /\ f.pc = "units" /\ f.rows = rows /\ f.units = units /\ f.left = left
      BY <1>0 DEF Handler
    <2> HIDE DEF f
    <2>10. HandlerOK(f, Registered)
      BY <2>2, <2>5, <2>7, <2>8, <2>9
         DEF HandlerOK, CommitPCs, RevealPCs, RowPCs, SharedPCs, units
    <2>11. QED BY <2>1, <2>10, LocalTypes
  <1>4. CASE UnitsUpdated(h)
    <2> DEFINE f == [q EXCEPT !.pc = "cluster", !.left = Clusters(q.units)]
    <2>1. q.pc = "units" /\ Goto(h, f) /\ UNCHANGED <<miner, sub, cases>>
      BY <1>4 DEF UnitsUpdated, At
    <2>2. q.units \in [DOMAIN q.rows -> Unit]
      BY <1>0, <2>1, ComponentIsUnit DEF HandlerOK
    <2>3. Clusters(q.units) \subseteq Unit
      BY <2>2 DEF Clusters
    <2>4. f \in Handler
      <3>1. Clusters(q.units) \in SUBSET (Miners \cup Unit)
        BY <2>3
      <3>2. "cluster" \in PCs
        BY DEF PCs
      <3>3. QED BY <1>0, <3>1, <3>2, HandlerUpdate
    <2>5. /\ f.op = q.op /\ f.m = q.m /\ f.p = q.p /\ f.ip = q.ip
          /\ f.pc = "cluster" /\ f.left = Clusters(q.units)
      BY <1>0 DEF Handler
    <2> HIDE DEF f
    <2>6. HandlerOK(f, Registered)
      BY <1>0, <2>1, <2>3, <2>4, <2>5
         DEF HandlerOK, CommitPCs, RevealPCs, RowPCs, SharedPCs
    <2>7. QED BY <2>1, <2>6, LocalTypes
  <1>5. CASE ClusterCaseRead(h)
    <2>1. q.pc = "cluster" /\ UNCHANGED <<miner, sub, cases>>
      BY <1>5 DEF ClusterCaseRead, At
    <2>2. PICK u \in q.left :
            Goto(h, IF cases[<<"cluster", u>>] = "closed"
                      THEN [q EXCEPT !.left = @ \ {u}]
                      ELSE [q EXCEPT !.pc = "clusterWrite", !.left = @ \ {u},
                                     !.case = <<"cluster", u>>])
      BY <1>5 DEF ClusterCaseRead
    <2> DEFINE f == IF cases[<<"cluster", u>>] = "closed"
                      THEN [q EXCEPT !.left = @ \ {u}]
                      ELSE [q EXCEPT !.pc = "clusterWrite", !.left = @ \ {u},
                                     !.case = <<"cluster", u>>]
    <2>3. u \in Unit /\ q.left \subseteq Unit /\ <<"cluster", u>> \in CaseIds
      BY <1>0, <2>1 DEF HandlerOK, CaseIds
    <2>4. f \in Handler
      <3>1. q.left \ {u} \in SUBSET (Miners \cup Unit)
        BY <2>3
      <3>2. "clusterWrite" \in PCs
        BY DEF PCs
      <3>3. QED BY <1>0, <2>3, <3>1, <3>2, HandlerUpdate
    <2>5. /\ f.op = q.op /\ f.m = q.m /\ f.p = q.p /\ f.ip = q.ip /\ f.left = q.left \ {u}
          /\ f.pc \in {"cluster", "clusterWrite"}
          /\ f.pc = "clusterWrite" => f.case = <<"cluster", u>>
      BY <1>0, <2>1 DEF Handler
    <2> HIDE DEF f
    <2>6. HandlerOK(f, Registered)
      BY <1>0, <2>1, <2>3, <2>4, <2>5
         DEF HandlerOK, CommitPCs, RevealPCs, RowPCs, SharedPCs
    <2>7. QED BY <2>1, <2>2, <2>6, LocalTypes DEF f
  <1>6. CASE ClusterCasesDone(h)
    <2> DEFINE f == IF q.op = "register" THEN Idle
                    ELSE [q EXCEPT !.pc = q.op, !.row = miner[q.m],
                                   !.rows = <<>>, !.units = <<>>]
    <2>1. q.pc = "cluster" /\ Goto(h, f) /\ UNCHANGED <<miner, sub, cases>>
      BY <1>6 DEF ClusterCasesDone, At
    <2>2. CASE q.op = "register"
      BY <2>1, <2>2, IdleOK, LocalTypes
    <2>3. CASE q.op # "register"
      <3>1. q.op \in {"commit", "reveal"} /\ q.m \in Registered /\ q.p \in Forecasts /\ q.ip \in Ips
        BY <1>0, <2>1, <2>3 DEF HandlerOK, Handler, SharedPCs
      <3>2. miner[q.m] \in MinerRow
        BY <1>1, <3>1
      <3>3. f \in Handler
        <4>1. [q EXCEPT !.pc = q.op, !.row = miner[q.m], !.rows = <<>>, !.units = <<>>]
                \in Handler
          BY <1>0, <3>1, <3>2 DEF Handler, PCs
        <4>2. QED BY <2>3, <4>1
      <3>4. /\ f.op = q.op /\ f.m = q.m /\ f.p = q.p /\ f.ip = q.ip /\ f.row = miner[q.m]
            /\ f.pc = q.op
        BY <1>0, <2>3 DEF Handler
      <3> HIDE DEF f
      <3>5. HandlerOK(f, Registered)
        BY <3>1, <3>2, <3>3, <3>4 DEF HandlerOK, CommitPCs, RevealPCs, RowPCs, SharedPCs
      <3>6. QED BY <2>1, <3>5, LocalTypes
    <2>4. QED BY <2>2, <2>3
  <1>7. CASE CommitDuplicate(h)
    BY <1>7, IdleOK, LocalTypes DEF CommitDuplicate, Done
  <1>8. CASE CommitRead(h)
    <2> DEFINE f == [q EXCEPT !.pc = "commitWrite"]
    <2>1. q.pc = "commit" /\ Goto(h, f) /\ UNCHANGED <<miner, sub, cases>>
      BY <1>8 DEF CommitRead, At
    <2>2. HandlerOK(f, Registered)
      BY <1>0, <2>1 DEF HandlerOK, Handler, PCs, CommitPCs, RevealPCs, RowPCs, SharedPCs
    <2>3. QED BY <2>1, <2>2, LocalTypes
  <1>9. CASE RevealRead(h)
    <2> DEFINE s == sub[q.m]
               f == IF Revealable(s, q.p) THEN [q EXCEPT !.pc = "revealList", !.existing = s]
                    ELSE Idle
    <2>1. q.pc = "reveal" /\ Goto(h, f) /\ UNCHANGED <<miner, sub, cases>>
      BY <1>9 DEF RevealRead, At
    <2>2. CASE ~Revealable(s, q.p)
      BY <2>1, <2>2, IdleOK, LocalTypes
    <2>3. CASE Revealable(s, q.p)
      <3>1. s \in SubRow
        BY <1>0, <2>1, <2>3 DEF Types, HandlerOK, Registered, Revealable, RevealPCs
      <3>2. f \in Handler
        <4>1. "revealList" \in PCs
          BY DEF PCs
        <4>2. QED BY <1>0, <2>3, <3>1, <4>1, HandlerUpdate
      <3>3. /\ f.op = q.op /\ f.m = q.m /\ f.p = q.p /\ f.ip = q.ip /\ f.row = q.row
            /\ f.pc = "revealList" /\ f.existing = s
        BY <1>0, <2>3 DEF Handler
      <3>4. Revealable(f.existing, f.p)
        BY <2>3, <3>3
      <3> HIDE DEF f, s
      <3>5. HandlerOK(f, Registered)
        BY <1>0, <2>1, <3>1, <3>2, <3>3, <3>4
           DEF HandlerOK, CommitPCs, RevealPCs, RowPCs, SharedPCs
      <3>6. QED BY <2>1, <3>5, LocalTypes
    <2>4. QED BY <2>2, <2>3
  <1>10. CASE RevealList(h)
    <2> DEFINE e == Eligibility(q.m, q.row.unit)
               f == [q EXCEPT !.pc = "revealWrite", !.status = e]
    <2>1. q.pc = "revealList" /\ Goto(h, f) /\ UNCHANGED <<miner, sub, cases>>
      BY <1>10 DEF RevealList, At
    <2>2. e \in {"eligible", "audit_only"}
      BY DEF Eligibility
    <2> HIDE DEF e
    <2>3. f \in Handler
      <3>1. "revealWrite" \in PCs
        BY DEF PCs
      <3>2. QED BY <1>0, <2>2, <3>1, HandlerUpdate
    <2>4. /\ f.op = q.op /\ f.m = q.m /\ f.p = q.p /\ f.ip = q.ip /\ f.row = q.row
          /\ f.pc = "revealWrite" /\ f.existing = q.existing
      BY <1>0 DEF Handler
    <2> HIDE DEF f
    <2>5. HandlerOK(f, Registered)
      BY <1>0, <2>1, <2>3, <2>4 DEF HandlerOK, CommitPCs, RevealPCs, RowPCs, SharedPCs
    <2>6. QED BY <2>1, <2>5, LocalTypes
  <1>11. CASE DuplicateCaseRead(h)
    <2> DEFINE c == <<"duplicate", q.row.unit>>
               f == IF cases[c] = "closed" THEN [q EXCEPT !.pc = "revealCount"]
                    ELSE [q EXCEPT !.pc = "duplicateWrite", !.case = c]
    <2>1. q.pc = "duplicate" /\ Goto(h, f) /\ UNCHANGED <<miner, sub, cases>>
      BY <1>11 DEF DuplicateCaseRead, At
    <2>2. q.row \in MinerRow /\ c \in CaseIds
      BY <1>0, <2>1 DEF HandlerOK, MinerRow, CaseIds, RowPCs, RevealPCs
    <2>3. f \in Handler
      <3>1. "revealCount" \in PCs /\ "duplicateWrite" \in PCs
        BY DEF PCs
      <3>2. QED BY <1>0, <2>2, <3>1, HandlerUpdate
    <2>4. /\ f.op = q.op /\ f.m = q.m /\ f.p = q.p /\ f.ip = q.ip /\ f.row = q.row
          /\ f.pc \in {"duplicateWrite", "revealCount"}
          /\ f.pc = "duplicateWrite" => f.case = c
      BY <1>0 DEF Handler
    <2>5. f.pc = "duplicateWrite" => f.case = <<"duplicate", f.row.unit>>
      BY <2>4
    <2> HIDE DEF f, c
    <2>6. HandlerOK(f, Registered)
      BY <1>0, <2>1, <2>2, <2>3, <2>4, <2>5
         DEF HandlerOK, CommitPCs, RevealPCs, RowPCs, SharedPCs
    <2>7. QED BY <2>1, <2>6, LocalTypes
  <1>12. QED
    BY <1>2, <1>3, <1>4, <1>5, <1>6, <1>7, <1>8, <1>9, <1>10, <1>11

\* The requests come with a fresh state.
LEMMA RequestTypes ==
    ASSUME Types, environment' = environment, NEW h \in Handlers, Request(h)
    PROVE  Types' /\ UNCHANGED <<miner, sub, cases>>
  <1>0. environment \in Environments
    BY DEF Types
  <1>1. PICK m \in Miners, ip \in Ips, ua \in environment.agents :
          \/ RegisterList(h, m, ip, ua)
          \/ \E p \in Forecasts : CommitRequest(h, m, p, ip, ua) \/ RevealRequest(h, m, p, ip, ua)
    BY <1>0, SubmissionAssumption DEF Request
  <1>2. ua \in Agents
    BY DEF Types, Agents
  <1>3. CASE RegisterList(h, m, ip, ua)
    <2> DEFINE row == [ip |-> ip, ua |-> ua, unit |-> {}, commits |-> 0, reveals |-> 0]
               rows == [n \in Registered \cup {m} |-> IF n = m THEN row ELSE miner[n]]
               units == UnitsOf(rows)
               f == [Idle EXCEPT !.pc = "registerWrite", !.op = "register", !.m = m,
                                 !.rows = rows, !.units = units]
    <2>1. Goto(h, f) /\ UNCHANGED <<miner, sub, cases>>
      BY <1>3 DEF RegisterList
    <2>2. row \in MinerRow /\ row.commits = 0 /\ row.reveals = 0
      BY <1>2 DEF MinerRow, Unit
    <2> HIDE DEF row
    <2>3. Registered \cup {m} \in SUBSET Miners /\ \A n \in Registered : miner[n] \in MinerRow
      BY DEF Registered, Types
    <2>4. rows \in [Registered \cup {m} -> MinerRow] /\ rows[m] = row
      BY <2>2, <2>3
    <2>5. rows \in PartialRows /\ DOMAIN rows = Registered \cup {m}
      BY <2>3, <2>4 DEF PartialRows
    <2> HIDE DEF rows
    <2>6. units \in PartialUnits
      BY <2>5, ComponentIsUnit
    <2> HIDE DEF units
    <2>7. f \in Handler
      BY <2>5, <2>6 DEF Idle, Handler, PCs
    <2>8. f.pc = "registerWrite" /\ f.op = "register" /\ f.m = m /\ f.rows = rows /\ f.units = units
      BY DEF Idle
    <2> HIDE DEF f
    <2>9. HandlerOK(f, Registered)
      BY <2>2, <2>4, <2>5, <2>7, <2>8
         DEF HandlerOK, CommitPCs, RevealPCs, RowPCs, SharedPCs, units
    <2>10. QED BY <2>1, <2>9, LocalTypes
  <1>4. ASSUME NEW p \in Forecasts, NEW op \in {"commit", "reveal"}, m \in Registered,
               Goto(h, [Idle EXCEPT !.pc = "refresh", !.op = op, !.m = m, !.p = p,
                                    !.ip = ip, !.ua = ua]),
               UNCHANGED <<miner, sub, cases>>
        PROVE  Types'
    <2> DEFINE f == [Idle EXCEPT !.pc = "refresh", !.op = op, !.m = m, !.p = p,
                                 !.ip = ip, !.ua = ua]
    <2>1. f \in Handler
      BY <1>2 DEF Idle, Handler, PCs
    <2>2. f.pc = "refresh" /\ f.op = op /\ f.m = m /\ f.p = p /\ f.ip = ip
      BY DEF Idle
    <2>3. Goto(h, f)
      BY <1>4
    <2> HIDE DEF f
    <2>4. HandlerOK(f, Registered)
      BY <1>4, <2>1, <2>2 DEF HandlerOK, CommitPCs, RevealPCs, RowPCs, SharedPCs
    <2>5. QED BY <1>4, <2>3, <2>4, LocalTypes
  <1>5. QED
    BY <1>1, <1>3, <1>4 DEF CommitRequest, RevealRequest, RegisterList

\* The steps that write a miner's row.
LEMMA MinerSteps ==
    ASSUME Types, environment' = environment, NEW h \in Handlers,
           RegisterWrite(h) \/ UpdateUnit(h) \/ CommitCount(h) \/ RevealCount(h)
    PROVE  Types' /\ UNCHANGED <<sub, cases>>
  <1> DEFINE q == proc[h]
  <1>0. q \in Handler /\ HandlerOK(q, Registered)
    BY DEF Types
  <1>1. \A m \in Registered : m \in Miners /\ miner[m] \in MinerRow
    BY DEF Registered, Types
  <1>2. ASSUME NEW m \in Miners, NEW row \in MinerRow, miner' = [miner EXCEPT ![m] = row]
        PROVE  /\ miner' \in [Miners -> MinerRow \cup {None}]
               /\ Registered \subseteq Registered' /\ m \in Registered'
    BY <1>2, SubmissionAssumption DEF Types, Registered
  <1>3. CASE RegisterWrite(h)
    <2>1. q.pc = "registerWrite" /\ UNCHANGED <<sub, cases>>
      BY <1>3 DEF RegisterWrite, At
    <2>2. /\ q.op = "register" /\ q.m \in Miners /\ q.rows \in PartialRows
          /\ q.m \in DOMAIN q.rows /\ q.units = UnitsOf(q.rows)
      BY <1>0, <2>1 DEF HandlerOK
    <2>3. CASE miner[q.m] # None
      BY <1>3, <2>3, IdleOK, LocalTypes DEF RegisterWrite, Done
    <2>4. CASE miner[q.m] = None
      <3> DEFINE row == [q.rows[q.m] EXCEPT !.unit = q.units[q.m]]
                 left == {n \in DOMAIN q.rows \ {q.m} : q.units[n] # q.rows[n].unit}
                 f == [q EXCEPT !.pc = "units", !.left = left]
      <3>1. miner' = [miner EXCEPT ![q.m] = row] /\ Goto(h, f)
        BY <1>3, <2>4 DEF RegisterWrite
      <3>2. q.units \in [DOMAIN q.rows -> Unit] /\ DOMAIN q.rows \subseteq Miners
        BY <2>2, ComponentIsUnit DEF PartialRows
      <3>3. row \in MinerRow
        <4>1. q.rows[q.m] \in MinerRow /\ q.units[q.m] \in Unit
          BY <2>2, <3>2 DEF PartialRows
        <4>2. QED BY <4>1 DEF MinerRow
      <3>4. /\ miner' \in [Miners -> MinerRow \cup {None}]
            /\ Registered \subseteq Registered' /\ q.m \in Registered'
        BY <1>2, <2>2, <3>1, <3>3
      <3> HIDE DEF row
      <3>5. DOMAIN q.rows \subseteq Registered'
        BY <1>0, <2>1, <3>4 DEF HandlerOK
      <3>6. left \in SUBSET (Miners \cup Unit) /\ left \subseteq DOMAIN q.rows
        BY <3>2
      <3> HIDE DEF left
      <3>7. f \in Handler
        <4>1. "units" \in PCs
          BY DEF PCs
        <4>2. QED BY <1>0, <3>6, <4>1, HandlerUpdate
      <3>8. /\ f.pc = "units" /\ f.op = q.op /\ f.m = q.m /\ f.left = left
            /\ f.rows = q.rows /\ f.units = q.units
        BY <1>0 DEF Handler
      <3> HIDE DEF f
      <3>9. HandlerOK(f, Registered')
        BY <2>2, <3>4, <3>5, <3>6, <3>7, <3>8
           DEF HandlerOK, CommitPCs, RevealPCs, RowPCs, SharedPCs
      <3>10. QED BY <2>1, <3>1, <3>4, <3>9, TypesStep DEF Types
    <2>5. QED BY <2>3, <2>4
  <1>4. CASE UpdateUnit(h)
    <2> DEFINE refreshed(n) == n = q.m /\ q.op # "register"
               unit(n) == IF q.units[n] # q.rows[n].unit THEN q.units[n] ELSE miner[n].unit
               ip(n) == IF refreshed(n) /\ q.ip \notin {None, q.row.ip}
                          THEN q.ip ELSE miner[n].ip
               ua(n) == IF refreshed(n) /\ q.ua \notin {None, q.row.ua}
                          THEN q.ua ELSE miner[n].ua
               row(n) == [miner[n] EXCEPT !.unit = unit(n), !.ip = ip(n), !.ua = ua(n)]
    <2>1. q.pc = "units" /\ UNCHANGED <<sub, cases>>
      BY <1>4 DEF UpdateUnit, At
    <2>2. q.rows \in PartialRows /\ q.left \subseteq DOMAIN q.rows /\ DOMAIN q.rows \subseteq Registered
      BY <1>0, <2>1 DEF HandlerOK
    <2>3. q.units \in [DOMAIN q.rows -> Unit]
      BY <1>0, <2>1, <2>2, ComponentIsUnit DEF HandlerOK
    <2>4. PICK n \in q.left :
            /\ miner' = [miner EXCEPT
                  ![n].unit = IF q.units[n] # q.rows[n].unit THEN q.units[n] ELSE @,
                  ![n].ip = IF refreshed(n) /\ q.ip \notin {None, q.row.ip} THEN q.ip ELSE @,
                  ![n].ua = IF refreshed(n) /\ q.ua \notin {None, q.row.ua} THEN q.ua ELSE @]
            /\ Goto(h, [q EXCEPT !.left = @ \ {n}])
      BY <1>4 DEF UpdateUnit
    <2>5. n \in Registered /\ n \in Miners /\ miner[n] \in MinerRow /\ n \in DOMAIN q.rows
      BY <1>1, <2>2
    <2>6. miner' = [miner EXCEPT ![n] = row(n)]
      <3> HIDE DEF refreshed
      <3>1. miner \in [Miners -> MinerRow \cup {None}]
        BY DEF Types
      <3>2. QED BY <2>4, <2>5, <3>1 DEF MinerRow
    <2>7. row(n) \in MinerRow
      <3>1. unit(n) \in Unit /\ ip(n) \in Ips \cup {None} /\ ua(n) \in Agents \cup {None}
        BY <1>0, <2>3, <2>5 DEF MinerRow, Handler
      <3> HIDE DEF unit, ip, ua
      <3>2. QED BY <2>5, <3>1 DEF MinerRow
    <2> HIDE DEF row
    <2>8. miner' \in [Miners -> MinerRow \cup {None}] /\ Registered \subseteq Registered'
      BY <1>2, <2>5, <2>6, <2>7
    <2> DEFINE f == [q EXCEPT !.left = @ \ {n}]
    <2>9. f \in Handler
      <3>1. q.left \ {n} \in SUBSET (Miners \cup Unit) /\ q.pc \in PCs
        BY <1>0 DEF Handler
      <3>2. QED BY <1>0, <3>1, HandlerUpdate
    <2>10. /\ f.pc = "units" /\ f.op = q.op /\ f.m = q.m /\ f.left = q.left \ {n} /\ f.p = q.p
           /\ f.rows = q.rows /\ f.units = q.units /\ f.row = q.row /\ f.ip = q.ip
      BY <1>0, <2>1 DEF Handler
    <2> HIDE DEF f
    <2>11. HandlerOK(f, Registered)
      BY <1>0, <2>1, <2>9, <2>10
         DEF HandlerOK, CommitPCs, RevealPCs, RowPCs, SharedPCs
    <2>12. HandlerOK(f, Registered')
      BY <2>8, <2>11, KnownGrows
    <2>13. QED BY <2>1, <2>4, <2>8, <2>12, TypesStep DEF f, Types
  <1>5. ASSUME q.m \in Registered, q.row \in MinerRow, Done(h),
               miner' = [miner EXCEPT ![q.m].commits = q.row.commits + 1]
                 \/ miner' = [miner EXCEPT ![q.m].reveals = q.row.reveals + 1],
               UNCHANGED <<sub, cases>>
        PROVE  Types'
    <2>1. miner[q.m] \in MinerRow /\ q.m \in Miners
      BY <1>1, <1>5
    <2>2. q.row.commits + 1 \in Nat /\ q.row.reveals + 1 \in Nat
      BY <1>5 DEF MinerRow
    <2>3. PICK row \in MinerRow : miner' = [miner EXCEPT ![q.m] = row]
      <3>1. CASE miner' = [miner EXCEPT ![q.m].commits = q.row.commits + 1]
        <4>1. [miner[q.m] EXCEPT !.commits = q.row.commits + 1] \in MinerRow
          BY <2>1, <2>2 DEF MinerRow
        <4>2. QED BY <3>1, <4>1
      <3>2. CASE miner' = [miner EXCEPT ![q.m].reveals = q.row.reveals + 1]
        <4>1. [miner[q.m] EXCEPT !.reveals = q.row.reveals + 1] \in MinerRow
          BY <2>1, <2>2 DEF MinerRow
        <4>2. QED BY <3>2, <4>1
      <3>3. QED BY <1>5, <3>1, <3>2
    <2>4. miner' \in [Miners -> MinerRow \cup {None}] /\ Registered \subseteq Registered'
      BY <1>2, <2>1, <2>3
    <2>5. HandlerOK(Idle, Registered')
      BY IdleOK
    <2>6. QED BY <1>5, <2>4, <2>5, TypesStep DEF Done, Types
  <1>6. CASE CommitCount(h)
    BY <1>0, <1>5, <1>6 DEF CommitCount, At, HandlerOK, CommitPCs, RowPCs
  <1>7. CASE RevealCount(h)
    BY <1>0, <1>5, <1>7 DEF RevealCount, At, HandlerOK, RevealPCs, RowPCs
  <1>8. QED BY <1>3, <1>4, <1>6, <1>7 DEF RegisterWrite, UpdateUnit, CommitCount, RevealCount

\* The steps that write a submission or a case.
LEMMA OtherSteps ==
    ASSUME Types, environment' = environment, NEW h \in Handlers,
           \/ CommitWrite(h) \/ RevealWrite(h)
           \/ ClusterCaseWrite(h) \/ DuplicateCaseWrite(h)
    PROVE  Types' /\ UNCHANGED miner
  <1> DEFINE q == proc[h]
  <1>0. q \in Handler /\ HandlerOK(q, Registered)
    BY DEF Types
  <1>1. Registered \subseteq Miners
    BY DEF Registered
  <1>2. miner' = miner => Registered' = Registered
    BY DEF Registered
  <1>3. CASE CommitWrite(h)
    <2> DEFINE row == [commit |-> q.p, p |-> None, unit |-> q.row.unit, status |-> "eligible"]
               f == [q EXCEPT !.pc = "commitCount"]
    <2>1. /\ q.pc = "commitWrite" /\ Goto(h, f) /\ UNCHANGED <<miner, cases>>
          /\ sub' = [sub EXCEPT ![q.m] = row]
      BY <1>3 DEF CommitWrite, At
    <2>2. q.p \in Forecasts /\ q.row \in MinerRow /\ q.m \in Miners
      BY <1>0, <1>1, <2>1 DEF HandlerOK, CommitPCs, RowPCs
    <2>3. row \in SubRow
      BY <2>2 DEF SubRow, MinerRow
    <2> HIDE DEF row
    <2>4. sub' \in [Miners -> SubRow \cup {None}]
      BY <2>1, <2>3 DEF Types
    <2>5. f \in Handler
      <3>1. "commitCount" \in PCs
        BY DEF PCs
      <3>2. QED BY <1>0, <3>1, HandlerUpdate
    <2>6. f.pc = "commitCount" /\ f.op = q.op /\ f.m = q.m /\ f.p = q.p /\ f.ip = q.ip /\ f.row = q.row
      BY <1>0 DEF Handler
    <2> HIDE DEF f
    <2>7. HandlerOK(f, Registered)
      BY <1>0, <2>1, <2>5, <2>6 DEF HandlerOK, CommitPCs, RevealPCs, RowPCs, SharedPCs
    <2>8. QED BY <1>2, <2>1, <2>4, <2>7, TypesStep DEF Types
  <1>4. CASE RevealWrite(h)
    <2> DEFINE row == [q.existing EXCEPT !.unit = q.row.unit, !.p = q.p, !.status = q.status]
               f == [q EXCEPT !.pc = IF q.status = "audit_only" THEN "duplicate"
                                     ELSE "revealCount"]
    <2>1. /\ q.pc = "revealWrite" /\ Goto(h, f) /\ UNCHANGED <<miner, cases>>
          /\ sub' = [sub EXCEPT ![q.m] = row]
      BY <1>4 DEF RevealWrite, At
    <2>2. /\ q.p \in Forecasts /\ q.row \in MinerRow /\ q.m \in Miners /\ q.existing \in SubRow
          /\ q.status \in {"eligible", "audit_only"}
      BY <1>0, <1>1, <2>1 DEF HandlerOK, RevealPCs, RowPCs, Handler
    <2>3. row \in SubRow
      BY <2>2 DEF SubRow, MinerRow
    <2> HIDE DEF row
    <2>4. sub' \in [Miners -> SubRow \cup {None}]
      BY <2>1, <2>3 DEF Types
    <2>5. f \in Handler
      <3>1. "duplicate" \in PCs /\ "revealCount" \in PCs
        BY DEF PCs
      <3>2. QED BY <1>0, <3>1, HandlerUpdate
    <2>6. /\ f.pc \in {"duplicate", "revealCount"} /\ f.op = q.op /\ f.m = q.m /\ f.p = q.p
          /\ f.ip = q.ip /\ f.row = q.row
      BY <1>0 DEF Handler
    <2> HIDE DEF f
    <2>7. HandlerOK(f, Registered)
      BY <1>0, <2>1, <2>5, <2>6 DEF HandlerOK, CommitPCs, RevealPCs, RowPCs, SharedPCs
    <2>8. QED BY <1>2, <2>1, <2>4, <2>7, TypesStep DEF Types
  <1>5. CASE ClusterCaseWrite(h)
    <2> DEFINE f == [q EXCEPT !.pc = "cluster", !.case = None]
    <2>1. /\ q.pc = "clusterWrite" /\ Goto(h, f) /\ UNCHANGED <<miner, sub>>
          /\ cases' = [cases EXCEPT ![q.case] = "open"]
      BY <1>5 DEF ClusterCaseWrite, At
    <2>2. cases' \in [CaseIds -> {"none", "open", "closed"}]
      BY <2>1 DEF Types
    <2>3. f \in Handler
      <3>1. "cluster" \in PCs
        BY DEF PCs
      <3>2. QED BY <1>0, <3>1, HandlerUpdate
    <2>4. /\ f.pc = "cluster" /\ f.op = q.op /\ f.m = q.m /\ f.p = q.p /\ f.ip = q.ip
          /\ f.left = q.left
      BY <1>0 DEF Handler
    <2> HIDE DEF f
    <2>5. HandlerOK(f, Registered)
      BY <1>0, <2>1, <2>3, <2>4 DEF HandlerOK, CommitPCs, RevealPCs, RowPCs, SharedPCs
    <2>6. QED BY <1>2, <2>1, <2>2, <2>5, TypesStep DEF Types
  <1>6. CASE DuplicateCaseWrite(h)
    <2> DEFINE f == [q EXCEPT !.pc = "revealCount", !.case = None]
    <2>1. /\ q.pc = "duplicateWrite" /\ Goto(h, f) /\ UNCHANGED <<miner, sub>>
          /\ cases' = [cases EXCEPT ![q.case] = "open"]
      BY <1>6 DEF DuplicateCaseWrite, At
    <2>2. cases' \in [CaseIds -> {"none", "open", "closed"}]
      BY <2>1 DEF Types
    <2>3. f \in Handler
      <3>1. "revealCount" \in PCs
        BY DEF PCs
      <3>2. QED BY <1>0, <3>1, HandlerUpdate
    <2>4. f.pc = "revealCount" /\ f.op = q.op /\ f.m = q.m /\ f.p = q.p /\ f.ip = q.ip /\ f.row = q.row
      BY <1>0 DEF Handler
    <2> HIDE DEF f
    <2>5. HandlerOK(f, Registered)
      BY <1>0, <2>1, <2>3, <2>4 DEF HandlerOK, CommitPCs, RevealPCs, RowPCs, SharedPCs
    <2>6. QED BY <1>2, <2>1, <2>2, <2>5, TypesStep DEF Types
  <1>7. QED BY <1>3, <1>4, <1>5, <1>6 DEF CommitWrite, RevealWrite, ClusterCaseWrite, DuplicateCaseWrite

\* The operators, the clock and the crash.
LEMMA OutsideTypes ==
    ASSUME Types, environment' = environment,
           (\E c \in CaseIds : OverrideRiskCase(c)) \/ Tick \/ Crash
    PROVE  Types' /\ UNCHANGED <<miner, sub>>
  <1>1. UNCHANGED <<miner, sub>> /\ Registered' = Registered
    BY DEF OverrideRiskCase, Tick, Crash, Registered
  <1>2. CASE Crash
    <2>1. proc' = [h \in Handlers |-> Idle] /\ cases' = cases
      BY <1>2 DEF Crash
    <2>2. HandlerOK(Idle, Registered) /\ Idle \in Handler
      BY IdleOK DEF HandlerOK
    <2>3. QED BY <1>1, <2>1, <2>2 DEF Types
  <1>3. CASE (\E c \in CaseIds : OverrideRiskCase(c)) \/ Tick
    <2>1. cases' \in [CaseIds -> {"none", "open", "closed"}] /\ proc' = proc
      BY <1>3 DEF OverrideRiskCase, Tick, Types
    <2>2. QED BY <1>1, <2>1 DEF Types
  <1>4. QED BY <1>1, <1>2, <1>3

\* A reveal is written with the commit it was checked against; nothing else writes
\* a forecast.
LEMMA RevealMatchesStep ==
    ASSUME SubmissionInv, NEW h \in Handlers, Step(h)
    PROVE  RevealMatchesCommit'
  <1> DEFINE q == proc[h]
  <1>0. HandlerOK(q, Registered) /\ Registered \subseteq Miners
    BY DEF SubmissionInv, Types, Registered
  <1>1. CASE sub' = sub
    BY <1>1 DEF SubmissionInv, RevealMatchesCommit
  <1>2. CASE CommitWrite(h)
    <2>1. sub' = [sub EXCEPT ![q.m] = [commit |-> q.p, p |-> None, unit |-> q.row.unit,
                                       status |-> "eligible"]]
      BY <1>2 DEF CommitWrite
    <2>2. QED BY <2>1 DEF SubmissionInv, RevealMatchesCommit, Types
  <1>3. CASE RevealWrite(h)
    <2> DEFINE row == [q.existing EXCEPT !.unit = q.row.unit, !.p = q.p, !.status = q.status]
    <2>1. sub' = [sub EXCEPT ![q.m] = row]
      BY <1>3 DEF RevealWrite
    <2>2. q.existing \in SubRow /\ q.existing.commit = q.p
      BY <1>0, <1>3 DEF RevealWrite, At, HandlerOK, Revealable
    <2>3. row.p = row.commit
      BY <2>2 DEF SubRow
    <2> HIDE DEF row
    <2>4. QED BY <2>1, <2>3 DEF SubmissionInv, RevealMatchesCommit, Types
  <1>4. QED
    BY <1>1, <1>2, <1>3
       DEF Step, RegisterWrite, RefreshRead, RefreshList, UpdateUnit, UnitsUpdated,
           ClusterCaseRead, ClusterCaseWrite, ClusterCasesDone, CommitDuplicate, CommitRead,
           CommitCount, RevealRead, RevealList, DuplicateCaseRead, DuplicateCaseWrite,
           RevealCount

\* The invariant holds of an empty task,
LEMMA SubmissionInit == Init => SubmissionInv
  <1> SUFFICES ASSUME Init PROVE SubmissionInv
    OBVIOUS
  <1>1. HandlerOK(Idle, Registered) /\ Idle \in Handler
    BY IdleOK DEF HandlerOK
  <1>2. QED BY <1>1 DEF Init, SubmissionInv, Types, RevealMatchesCommit

\* is kept by every step, whoever runs beside it,
LEMMA SubmissionNext == SubmissionInv /\ [Next]_vars => SubmissionInv'
  <1> SUFFICES ASSUME SubmissionInv, [Next]_vars PROVE SubmissionInv'
    OBVIOUS
  <1>1. CASE UNCHANGED vars
    BY <1>1 DEF vars, SubmissionInv, Types, RevealMatchesCommit, Registered
  <1>2. ASSUME NEW h \in Handlers, Request(h), environment' = environment
        PROVE  SubmissionInv'
    BY <1>2, RequestTypes DEF SubmissionInv, RevealMatchesCommit
  <1>3. ASSUME NEW h \in Handlers, Step(h), environment' = environment
        PROVE  SubmissionInv'
    <2>1. Types'
      BY <1>3, LocalSteps, MinerSteps, OtherSteps DEF Step, SubmissionInv
    <2>2. QED BY <1>3, <2>1, RevealMatchesStep DEF SubmissionInv
  <1>4. ASSUME (\E c \in CaseIds : OverrideRiskCase(c)) \/ Tick \/ Crash,
               environment' = environment
        PROVE  SubmissionInv'
    BY <1>4, OutsideTypes DEF SubmissionInv, RevealMatchesCommit
  <1>5. QED BY <1>1, <1>2, <1>3, <1>4 DEF Next

\* and so always.
LEMMA SubmissionInvAlways == Spec => []SubmissionInv
  BY SubmissionInit, SubmissionNext, PTL DEF Spec

\* Whatever requests are in progress and whenever the service crashes, a
\* submission never shows a forecast other than the one its commit bound
\* (reveal_submission writes the row it has checked).
THEOREM RevealsMatchCommits == Spec => []RevealMatchesCommit
  <1>1. SubmissionInv => RevealMatchesCommit
    BY DEF SubmissionInv
  <1>2. QED BY <1>1, SubmissionInvAlways, PTL

------------------------------------------------------------------------------
(* One request at a time.                                                   *)

\* What a step of handler h does to the handlers.
OnlyMoves(h) == \E f : Goto(h, f)

\* A step of a handler moves that handler only.
LEMMA StepMoves ==
    ASSUME NEW h \in Handlers, Request(h) \/ Step(h)
    PROVE  OnlyMoves(h)
  <1>1. ASSUME Request(h) PROVE OnlyMoves(h)
    BY <1>1 DEF Request, OnlyMoves, RegisterList, CommitRequest, RevealRequest
  <1>2. ASSUME Step(h) PROVE OnlyMoves(h)
    BY <1>2 DEF OnlyMoves, Done,
           Step, RegisterWrite, RefreshRead, RefreshList, UpdateUnit, UnitsUpdated,
           ClusterCaseRead, ClusterCaseWrite, ClusterCasesDone, CommitDuplicate, CommitRead,
           CommitWrite, CommitCount, RevealRead, RevealList, RevealWrite, DuplicateCaseRead,
           DuplicateCaseWrite, RevealCount
  <1>3. QED BY <1>1, <1>2

\* A handler that takes a step is alone.
LEMMA StepAlone ==
    ASSUME Types, Serial, Serial', NEW h \in Handlers, Request(h) \/ Step(h)
    PROVE  Alone(h)
  <1>1. CASE Step(h)
    <2>1. ~At(h, "idle")
      BY <1>1 DEF At, Step, RegisterWrite, RefreshRead, RefreshList, UpdateUnit, UnitsUpdated,
           ClusterCaseRead, ClusterCaseWrite, ClusterCasesDone, CommitDuplicate, CommitRead,
           CommitWrite, CommitCount, RevealRead, RevealList, RevealWrite, DuplicateCaseRead,
           DuplicateCaseWrite, RevealCount
    <2>2. QED BY <2>1 DEF Serial, Alone
  <1>2. CASE Request(h)
    <2>1. PICK f : Goto(h, f)
      BY <1>2, StepMoves DEF OnlyMoves
    <2>2. \A b \in Handlers \ {h} : proc'[b] = proc[b]
      BY <2>1 DEF Goto, Types
    <2>3. proc'[h].pc # "idle"
      <3>1. ASSUME NEW m, NEW ip, NEW ua, RegisterList(h, m, ip, ua)
            PROVE  proc'[h].pc # "idle"
        <4> DEFINE rows == [n \in Registered \cup {m} |->
                              IF n = m THEN [ip |-> ip, ua |-> ua, unit |-> {}, commits |-> 0,
                                             reveals |-> 0] ELSE miner[n]]
        <4>1. Goto(h, [Idle EXCEPT !.pc = "registerWrite", !.op = "register", !.m = m,
                                   !.rows = rows, !.units = UnitsOf(rows)])
          BY <3>1 DEF RegisterList
        <4> HIDE DEF rows
        <4>2. QED BY <4>1 DEF Goto, Idle, Types
      <3>2. ASSUME NEW m, NEW p, NEW ip, NEW ua,
                   CommitRequest(h, m, p, ip, ua) \/ RevealRequest(h, m, p, ip, ua)
            PROVE  proc'[h].pc # "idle"
        <4>1. PICK op : Goto(h, [Idle EXCEPT !.pc = "refresh", !.op = op, !.m = m, !.p = p,
                                             !.ip = ip, !.ua = ua])
          BY <3>2 DEF CommitRequest, RevealRequest
        <4>2. QED BY <4>1 DEF Goto, Idle, Types
      <3>3. QED BY <1>2, <3>1, <3>2 DEF Request
    <2>4. QED BY <2>2, <2>3 DEF Serial, Alone, At
  <1>3. QED BY <1>1, <1>2

\* After a step of a handler that is alone, every handler that is alone is in
\* the same state.
LEMMA AloneAfter ==
    ASSUME Types, Types', NEW h \in Handlers, Alone(h), OnlyMoves(h),
           NEW b \in Handlers, Alone(b)'
    PROVE  proc'[b] = proc'[h]
  <1>1. CASE b = h
    BY <1>1
  <1>2. CASE b # h
    <2>1. PICK f : proc' = [proc EXCEPT ![h] = f]
      BY DEF OnlyMoves, Goto
    <2>2. proc'[b] = proc[b] /\ proc[b].pc = "idle"
      BY <1>2, <2>1 DEF Types, Alone, At
    <2>3. proc'[h].pc = "idle"
      BY <1>2 DEF Alone, At
    <2>4. QED BY <2>2, <2>3 DEF Types, HandlerOK
  <1>3. QED BY <1>1, <1>2\* Only the list of the submissions leads to the write of a reveal.

\* A reveal is about to be written only after its duplicate check.
LEMMA RevealWriteAfter ==
    ASSUME Types, NEW h \in Handlers, Step(h), proc'[h].pc = "revealWrite"
    PROVE  RevealList(h)
  <1> DEFINE q == proc[h]
  <1>0. q \in Handler /\ HandlerOK(q, Registered) /\ \A f : Goto(h, f) => proc'[h] = f
    BY DEF Types, Goto
  <1>i. Idle.pc # "revealWrite"
    BY DEF Idle
  <1> USE DEF At, Done
  <1>1. ~RegisterWrite(h)
    BY <1>0, <1>i DEF RegisterWrite, Handler
  <1>2. ~RefreshRead(h)
    BY <1>0 DEF RefreshRead, Handler, HandlerOK
  <1>3. ~RefreshList(h)
    BY <1>0 DEF RefreshList, Handler
  <1>4. ~UpdateUnit(h)
    BY <1>0 DEF UpdateUnit, Handler
  <1>5. ~UnitsUpdated(h)
    BY <1>0 DEF UnitsUpdated, Handler
  <1>6. ~ClusterCaseRead(h)
    BY <1>0 DEF ClusterCaseRead, Handler
  <1>7. ~ClusterCaseWrite(h)
    BY <1>0 DEF ClusterCaseWrite, Handler
  <1>8. ~ClusterCasesDone(h)
    BY <1>0, <1>i DEF ClusterCasesDone, Handler, HandlerOK
  <1>9. ~CommitDuplicate(h) /\ ~CommitCount(h) /\ ~RevealCount(h)
    BY <1>0, <1>i DEF CommitDuplicate, CommitCount, RevealCount
  <1>10. ~CommitRead(h) /\ ~CommitWrite(h)
    BY <1>0 DEF CommitRead, CommitWrite, Handler
  <1>11. ~RevealRead(h)
    BY <1>0, <1>i DEF RevealRead, Handler
  <1>12. ~RevealWrite(h)
    BY <1>0 DEF RevealWrite, Handler
  <1>13. ~DuplicateCaseRead(h) /\ ~DuplicateCaseWrite(h)
    BY <1>0 DEF DuplicateCaseRead, DuplicateCaseWrite, Handler
  <1>14. QED
    BY <1>1, <1>2, <1>3, <1>4, <1>5, <1>6, <1>7, <1>8, <1>9, <1>10, <1>11, <1>12, <1>13 DEF Step

\* A request leaves the submissions alone and does not begin with a write.
LEMMA RequestFresh ==
    ASSUME Types, NEW h \in Handlers, Request(h)
    PROVE  proc[h] = Idle /\ proc'[h].pc \in {"registerWrite", "refresh"}
  <1>1. proc[h] = Idle
    BY DEF Request, RegisterList, CommitRequest, RevealRequest, Types, HandlerOK, At
  <1>2. ASSUME NEW m, NEW ip, NEW ua, RegisterList(h, m, ip, ua)
        PROVE  proc'[h].pc = "registerWrite"
    <2> DEFINE rows == [n \in Registered \cup {m} |->
                          IF n = m THEN [ip |-> ip, ua |-> ua, unit |-> {}, commits |-> 0,
                                         reveals |-> 0] ELSE miner[n]]
    <2>1. Goto(h, [Idle EXCEPT !.pc = "registerWrite", !.op = "register", !.m = m,
                               !.rows = rows, !.units = UnitsOf(rows)])
      BY <1>2 DEF RegisterList
    <2> HIDE DEF rows
    <2>2. QED BY <2>1 DEF Goto, Idle, Types
  <1>3. ASSUME NEW m, NEW p, NEW ip, NEW ua,
               CommitRequest(h, m, p, ip, ua) \/ RevealRequest(h, m, p, ip, ua)
        PROVE  proc'[h].pc = "refresh"
    <2>1. PICK op : Goto(h, [Idle EXCEPT !.pc = "refresh", !.op = op, !.m = m, !.p = p,
                                         !.ip = ip, !.ua = ua])
      BY <1>3 DEF CommitRequest, RevealRequest
    <2>2. QED BY <2>1 DEF Goto, Idle, Types
  <1>4. QED BY <1>1, <1>2, <1>3 DEF Request

\* The step of a handler that is alone keeps at most one eligible reveal per unit.
LEMMA EligibleStep ==
    ASSUME SubmissionInv, NEW h \in Handlers, EligibleOK(proc[h]), Request(h) \/ Step(h),
           environment' = environment
    PROVE  EligibleOK(proc[h])'
  <1> DEFINE q == proc[h]
  <1>0. Types /\ q \in Handler /\ HandlerOK(q, Registered) /\ Registered \subseteq Miners
    BY DEF SubmissionInv, Types, Registered
  <1>1. CASE RevealList(h)
    <2>1. sub' = sub /\ q.pc = "revealList"
      BY <1>1 DEF RevealList, At
    <2>2. proc'[h] = [q EXCEPT !.pc = "revealWrite", !.status = Eligibility(q.m, q.row.unit)]
      BY <1>0, <1>1 DEF RevealList, Goto, Types
    <2>3. /\ proc'[h].status = Eligibility(q.m, q.row.unit)
          /\ proc'[h].m = q.m /\ proc'[h].row = q.row
      BY <1>0, <2>2 DEF Handler
    <2>4. QED BY <2>1, <2>3 DEF EligibleOK, EligibleUnitsDiffer, EligibleReveal, Eligibility
  <1>2. CASE ~RevealList(h)
    <2>1. proc'[h].pc # "revealWrite"
      BY <1>0, <1>2, RevealWriteAfter, RequestFresh
    <2>2. CASE sub' = sub
      BY <2>1, <2>2 DEF EligibleOK, EligibleUnitsDiffer, EligibleReveal
    <2>3. CASE CommitWrite(h)
      <3>1. sub' = [sub EXCEPT ![q.m] = [commit |-> q.p, p |-> None, unit |-> q.row.unit,
                                         status |-> "eligible"]]
        BY <2>3 DEF CommitWrite
      <3>2. q.m \in Miners /\ sub'[q.m].p = None
        BY <1>0, <2>3, <3>1 DEF Types, CommitWrite, At, HandlerOK, CommitPCs
      <3>3. \A m \in Miners \ {q.m} : sub'[m] = sub[m]
        BY <1>0, <3>1 DEF Types
      <3>4. QED BY <2>1, <3>2, <3>3 DEF EligibleOK, EligibleUnitsDiffer, EligibleReveal
    <2>4. CASE RevealWrite(h)
      <3> DEFINE row == [q.existing EXCEPT !.unit = q.row.unit, !.p = q.p, !.status = q.status]
      <3>1. sub' = [sub EXCEPT ![q.m] = row] /\ q.pc = "revealWrite"
        BY <2>4 DEF RevealWrite, At
      <3>2. q.m \in Miners /\ q.existing \in SubRow
        BY <1>0, <3>1 DEF HandlerOK, RevealPCs
      <3>3. row.unit = q.row.unit /\ row.status = q.status
        BY <3>2 DEF SubRow
      <3> HIDE DEF row
      <3>4. sub'[q.m] = row /\ \A m \in Miners \ {q.m} : sub'[m] = sub[m]
        BY <1>0, <3>1, <3>2 DEF Types
      <3>5. q.status = "eligible" =>
              \A n \in Miners \ {q.m} : EligibleReveal(n) => sub[n].unit # q.row.unit
        BY <3>1 DEF EligibleOK, Eligibility, EligibleReveal
      <3>6. QED
        BY <2>1, <3>3, <3>4, <3>5 DEF EligibleOK, EligibleUnitsDiffer, EligibleReveal
    <2>5. QED
      BY <2>2, <2>3, <2>4
         DEF Request, RegisterList, CommitRequest, RevealRequest,
           Step, RegisterWrite, RefreshRead, RefreshList, UpdateUnit, UnitsUpdated,
           ClusterCaseRead, ClusterCaseWrite, ClusterCasesDone, CommitDuplicate, CommitRead,
           CommitCount, RevealRead, RevealList, DuplicateCaseRead, DuplicateCaseWrite,
           RevealCount
  <1>3. QED BY <1>1, <1>2

\* One eligible reveal per unit is kept while requests come one after the
\* other.
LEMMA EligibleNext ==
    SubmissionInv /\ SubmissionInv' /\ EligibleInv /\ Serial /\ Serial' /\ [Next]_vars
      => EligibleInv'
  <1> SUFFICES ASSUME SubmissionInv, SubmissionInv', EligibleInv, Serial, Serial', [Next]_vars
               PROVE  EligibleInv'
    OBVIOUS
  <1> USE DEF SubmissionInv
  <1>1. ASSUME NEW h \in Handlers, Request(h) \/ Step(h), environment' = environment
        PROVE  EligibleInv'
    <2>1. Alone(h) /\ OnlyMoves(h)
      BY <1>1, StepAlone, StepMoves
    <2>2. EligibleOK(proc[h])'
      BY <1>1, <2>1, EligibleStep DEF EligibleInv
    <2>3. QED BY <2>1, <2>2, AloneAfter DEF EligibleInv, EligibleOK
  <1>2. CASE UNCHANGED <<sub, proc>>
    BY <1>2 DEF EligibleInv, Alone, At, EligibleOK, EligibleUnitsDiffer, EligibleReveal,
                Eligibility
  <1>3. CASE Crash
    <2>1. sub' = sub /\ \A h \in Handlers : proc'[h] = Idle
      BY <1>3 DEF Crash
    <2>2. EligibleUnitsDiffer
      <3>1. PICK h \in Handlers : TRUE
        BY SubmissionAssumption
      <3>2. PICK a \in Handlers : Alone(a)
        BY <3>1 DEF Serial, Alone
      <3>3. QED BY <3>2 DEF EligibleInv, EligibleOK
    <2>3. QED
      BY <2>1, <2>2 DEF EligibleInv, EligibleOK, EligibleUnitsDiffer, EligibleReveal, Idle
  <1>4. QED
    BY <1>1, <1>2, <1>3 DEF Next, OverrideRiskCase, Tick, vars

\* Until two requests have been in progress at once, there is at most one.
NoOverlap == ~overlap => Serial

LEMMA OverlapStep ==
    [Next]_vars => /\ NoOverlap => NoOverlap'
                   /\ ~overlap' => ~overlap
  <1> SUFFICES ASSUME [Next]_vars
               PROVE  (NoOverlap => NoOverlap') /\ (~overlap' => ~overlap)
    OBVIOUS
  <1>1. CASE overlap' = (overlap \/ ~Serial')
    BY <1>1 DEF NoOverlap
  <1>2. CASE UNCHANGED vars
    BY <1>2 DEF vars, NoOverlap, Serial, At
  <1>3. QED BY <1>1, <1>2 DEF Next

LEMMA NoOverlapAlways == Spec => []NoOverlap
  <1>1. Init => NoOverlap
    BY DEF Init, NoOverlap, Serial, At, Idle
  <1>2. QED BY <1>1, OverlapStep, PTL DEF Spec

\* As long as the requests came one after the other, no two eligible reveals are
\* filed under the same members of a cluster, wherever the service crashed
\* (reveal_submission's search for a reveal with the same unit id).
THEOREM OneEligibleReveal == Spec => []OneEligiblePerUnit
  <1> DEFINE P == ~overlap => EligibleInv
  <1>1. Init => P
    BY DEF Init, EligibleInv, EligibleOK, EligibleUnitsDiffer, EligibleReveal, Idle
  <1>2. ASSUME SubmissionInv, SubmissionInv', NoOverlap, NoOverlap', P, [Next]_vars
        PROVE  P'
    BY <1>2, EligibleNext, OverlapStep DEF NoOverlap
  <1>3. P /\ NoOverlap => OneEligiblePerUnit
    <2> SUFFICES ASSUME EligibleInv, Serial PROVE EligibleUnitsDiffer
      BY DEF NoOverlap, OneEligiblePerUnit
    <2>1. PICK h \in Handlers : Alone(h)
      BY SubmissionAssumption DEF Serial, Alone
    <2>2. QED BY <2>1 DEF EligibleInv, EligibleOK
  <1> HIDE DEF P
  <1>4. QED BY <1>1, <1>2, <1>3, NoOverlapAlways, SubmissionInvAlways, PTL DEF Spec

------------------------------------------------------------------------------
(* What a whole request adds up to.                                         *)

\* What holds between two requests, and during one until it writes.
Settled ==
    /\ \A m \in Miners : sub[m] # None => m \in Registered
    /\ \A m \in Registered : Counter(m)
    /\ None \notin Ips => \A m \in Registered : miner[m].unit = Component(Rows, m)
    /\ ClusterHasCase /\ DuplicateHasCase

SettledPCs == {"idle", "registerWrite", "refresh", "refreshList", "commit", "commitWrite",
               "reveal", "revealList", "revealWrite"}

\* What the submission read still is.
SubIsCurrent(q) ==
    /\ q.pc = "commitWrite" => sub[q.m] = None
    /\ q.pc \in {"revealList", "revealWrite"} => sub[q.m] = q.existing

\* Where a request owes nothing the rows are settled,
LEMMA SettledFrom ==
    ASSUME NEW q, RequestOK(q), q.pc \in SettledPCs
    PROVE  Settled /\ SubIsCurrent(q)
  BY DEF RequestOK, RowIsCurrent, CountsOK, ListOK, ComponentsOK, ClusterOK, DuplicateOK,
         Settled, SettledPCs, SubIsCurrent, ClusterHasCase, DuplicateHasCase, Uncounted

\* and settled rows owe nothing to such a request,
LEMMA SettledTo ==
    ASSUME NEW q, Settled, q.pc \in SettledPCs, RowIsCurrent(q), SubIsCurrent(q), ListOK(q)
    PROVE  RequestOK(q)
  BY DEF RequestOK, CountsOK, ComponentsOK, ClusterOK, DuplicateOK,
         Settled, SettledPCs, SubIsCurrent, ClusterHasCase, DuplicateHasCase, Uncounted

\* nor to a handler that is idle.
LEMMA SettledIdle ==
    Settled => RequestOK(Idle)
  BY SettledTo DEF Idle, SettledPCs, RowIsCurrent, SubIsCurrent, ListOK, RowPCs, CommitPCs,
                   RevealPCs

\* A step that writes no row is judged by the rows there are.
LEMMA LocalRequest ==
    ASSUME NEW h \in Handlers, UNCHANGED <<miner, sub, cases>>, RequestOK(proc'[h])
    PROVE  RequestOK(proc[h])'
  <1>1. Registered' = Registered /\ Rows' = Rows
    BY DEF Registered, Rows
  <1>2. QED
    BY <1>1 DEF RequestOK, RowIsCurrent, CountsOK, Counter, ListOK, ComponentsOK, ClusterOK,
                DuplicateOK

\* Components depend on the addresses and agents only.
LEMMA ComponentOfSignals ==
    ASSUME NEW r, NEW s, DOMAIN r = DOMAIN s,
           \A n \in DOMAIN r : r[n].ip = s[n].ip /\ r[n].ua = s[n].ua
    PROVE  \A m : Component(r, m) = Component(s, m)
  <1>1. \A a, b \in DOMAIN r : SharesEvidence(r[a], r[b]) = SharesEvidence(s[a], s[b])
    BY DEF SharesEvidence
  <1>2. QED BY <1>1 DEF Component

\* register_miner: the listing, the row, and the units it will write.
LEMMA RegisterRequest ==
    ASSUME Types, NEW h \in Handlers, Request(h), RequestOK(proc[h])
    PROVE  RequestOK(proc[h])'
  <1>0. proc[h] = Idle /\ proc'[h].pc \in {"registerWrite", "refresh"}
    BY RequestFresh
  <1>1. Settled
    BY <1>0, SettledFrom DEF Idle, SettledPCs
  <1>2. UNCHANGED <<miner, sub, cases>>
    BY DEF Request, RegisterList, CommitRequest, RevealRequest
  <1>3. ListOK(proc'[h])
    <2>1. CASE proc'[h].pc = "refresh"
      BY <2>1 DEF ListOK
    <2>2. CASE proc'[h].pc = "registerWrite"
      <3>1. ASSUME NEW m, NEW p, NEW ip, NEW ua,
                   CommitRequest(h, m, p, ip, ua) \/ RevealRequest(h, m, p, ip, ua)
            PROVE  FALSE
        <4>1. PICK op : Goto(h, [Idle EXCEPT !.pc = "refresh", !.op = op, !.m = m, !.p = p,
                                             !.ip = ip, !.ua = ua])
          BY <3>1 DEF CommitRequest, RevealRequest
        <4>2. QED BY <2>2, <4>1 DEF Goto, Idle, Types
      <3>2. PICK m, ip, ua : RegisterList(h, m, ip, ua)
        BY <3>1 DEF Request
      <3> DEFINE row == [ip |-> ip, ua |-> ua, unit |-> {}, commits |-> 0, reveals |-> 0]
                 rows == [n \in Registered \cup {m} |-> IF n = m THEN row ELSE miner[n]]
      <3>3. /\ m \notin Registered
            /\ Goto(h, [Idle EXCEPT !.pc = "registerWrite", !.op = "register", !.m = m,
                                    !.rows = rows, !.units = UnitsOf(rows)])
        BY <3>2 DEF RegisterList
      <3>4. DOMAIN rows = Registered \cup {m} /\ \A n \in Registered : rows[n] = miner[n]
        BY <3>3
      <3> HIDE DEF rows
      <3>5. proc'[h].m = m /\ proc'[h].rows = rows
        BY <3>3 DEF Goto, Idle, Types
      <3>6. QED BY <2>2, <3>3, <3>4, <3>5 DEF ListOK
    <2>3. QED BY <1>0, <2>1, <2>2
  <1>4. RowIsCurrent(proc'[h]) /\ SubIsCurrent(proc'[h])
    BY <1>0 DEF RowIsCurrent, SubIsCurrent, RowPCs, CommitPCs, RevealPCs
  <1>5. RequestOK(proc'[h])
    BY <1>0, <1>1, <1>3, <1>4, SettledTo DEF SettledPCs
  <1>6. QED BY <1>2, <1>5, LocalRequest

\* The reads of a commit or a reveal.
LEMMA ReadSteps ==
    ASSUME Types, NEW h \in Handlers, RequestOK(proc[h]),
           \/ RefreshRead(h) \/ CommitDuplicate(h) \/ CommitRead(h)
           \/ RevealRead(h) \/ RevealList(h)
    PROVE  RequestOK(proc[h])'
  <1> DEFINE q == proc[h]
  <1>0. q \in Handler /\ HandlerOK(q, Registered) /\ \A f : Goto(h, f) => proc'[h] = f
    BY DEF Types, Goto
  <1>1. UNCHANGED <<miner, sub, cases>> /\ q.pc \in SettledPCs
    BY DEF RefreshRead, CommitDuplicate, CommitRead, RevealRead, RevealList, At, SettledPCs
  <1>2. Settled /\ SubIsCurrent(q) /\ RowIsCurrent(q)
    BY <1>1, SettledFrom DEF RequestOK
  <1>3. proc'[h] = Idle => RequestOK(proc'[h])
    BY <1>2, SettledIdle
  <1>4. CASE RefreshRead(h)
    <2> DEFINE cur == miner[q.m]
               ua == IF q.ua = None THEN cur.ua ELSE q.ua
               f == IF q.ip = cur.ip /\ ua = cur.ua
                      THEN [q EXCEPT !.pc = q.op, !.row = cur]
                      ELSE [q EXCEPT !.pc = "refreshList", !.ua = ua, !.row = cur]
    <2>1. q.pc = "refresh" /\ proc'[h] = f
      BY <1>0, <1>4 DEF RefreshRead, At
    <2>2. q.op \in {"commit", "reveal"}
      BY <1>0, <2>1 DEF HandlerOK
    <2>3. /\ f.m = q.m /\ f.row = cur /\ f.pc \in {q.op, "refreshList"}
          /\ f.pc = "refreshList" => f.ua = ua
      BY <1>0, <2>2 DEF Handler
    <2> HIDE DEF f
    <2>4. RowIsCurrent(f) /\ SubIsCurrent(f) /\ ListOK(f) /\ f.pc \in SettledPCs
      BY <2>2, <2>3 DEF RowIsCurrent, SubIsCurrent, ListOK, SettledPCs
    <2>5. QED BY <1>1, <1>2, <2>1, <2>4, SettledTo, LocalRequest
  <1>5. CASE CommitDuplicate(h)
    BY <1>0, <1>1, <1>3, <1>5, LocalRequest DEF CommitDuplicate, Done
  <1>6. CASE CommitRead(h)
    <2> DEFINE f == [q EXCEPT !.pc = "commitWrite"]
    <2>1. q.pc = "commit" /\ sub[q.m] = None /\ proc'[h] = f
      BY <1>0, <1>6 DEF CommitRead, At
    <2>2. f.m = q.m /\ f.row = q.row /\ f.pc = "commitWrite"
      BY <1>0 DEF Handler
    <2> HIDE DEF f
    <2>3. RowIsCurrent(f) /\ SubIsCurrent(f) /\ ListOK(f) /\ f.pc \in SettledPCs
      BY <1>2, <2>1, <2>2 DEF RowIsCurrent, SubIsCurrent, ListOK, SettledPCs, RowPCs, CommitPCs
    <2>4. QED BY <1>1, <1>2, <2>1, <2>3, SettledTo, LocalRequest
  <1>7. CASE RevealRead(h)
    <2> DEFINE s == sub[q.m]
               f == [q EXCEPT !.pc = "revealList", !.existing = s]
    <2>1. q.pc = "reveal" /\ proc'[h] \in {f, Idle}
      BY <1>0, <1>7 DEF RevealRead, At
    <2>2. f.m = q.m /\ f.row = q.row /\ f.pc = "revealList" /\ f.existing = s
      BY <1>0 DEF Handler
    <2> HIDE DEF f
    <2>3. RowIsCurrent(f) /\ SubIsCurrent(f) /\ ListOK(f) /\ f.pc \in SettledPCs
      BY <1>2, <2>1, <2>2 DEF RowIsCurrent, SubIsCurrent, ListOK, SettledPCs, RowPCs, RevealPCs
    <2>4. QED BY <1>1, <1>2, <1>3, <2>1, <2>3, SettledTo, LocalRequest
  <1>8. CASE RevealList(h)
    <2> DEFINE f == [q EXCEPT !.pc = "revealWrite",
                              !.status = Eligibility(q.m, q.row.unit)]
    <2>1. q.pc = "revealList" /\ proc'[h] = f
      BY <1>0, <1>8 DEF RevealList, At
    <2>2. f.m = q.m /\ f.row = q.row /\ f.pc = "revealWrite" /\ f.existing = q.existing
      BY <1>0 DEF Handler
    <2> HIDE DEF f
    <2>3. RowIsCurrent(f) /\ SubIsCurrent(f) /\ ListOK(f) /\ f.pc \in SettledPCs
      BY <1>2, <2>1, <2>2 DEF RowIsCurrent, SubIsCurrent, ListOK, SettledPCs, RowPCs, RevealPCs
    <2>4. QED BY <1>1, <1>2, <2>1, <2>3, SettledTo, LocalRequest
  <1>9. QED BY <1>4, <1>5, <1>6, <1>7, <1>8

\* The part that the clustering of the miners leaves alone.
Counted ==
    /\ \A m \in Miners : sub[m] # None => m \in Registered
    /\ \A m \in Registered : Counter(m)
    /\ DuplicateHasCase

\* What the steps shared by registration and refresh rely on,
LEMMA SharedFrom ==
    ASSUME NEW q, RequestOK(q), q.pc \in SharedPCs
    PROVE  Counted /\ ListOK(q) /\ ClusterOK(q) /\ ComponentsOK(q)
  BY DEF RequestOK, CountsOK, DuplicateOK, Counted, SharedPCs, DuplicateHasCase, Uncounted

\* and what they have to leave.
LEMMA SharedTo ==
    ASSUME NEW q, Counted, q.pc \in SharedPCs, ListOK(q), ClusterOK(q), ComponentsOK(q)
    PROVE  RequestOK(q)
  BY DEF RequestOK, CountsOK, DuplicateOK, RowIsCurrent, Counted, SharedPCs,
         DuplicateHasCase, Uncounted, RowPCs, CommitPCs, RevealPCs

\* _refresh_miner_cluster lists the miners and computes the units.
LEMMA RefreshListRequest ==
    ASSUME Types, NEW h \in Handlers, RequestOK(proc[h]), RefreshList(h)
    PROVE  RequestOK(proc[h])'
  <1> DEFINE q == proc[h]
             rows == [Rows EXCEPT ![q.m].ip = q.ip, ![q.m].ua = q.ua]
             units == UnitsOf(rows)
             left == {n \in DOMAIN rows : n = q.m \/ units[n] # rows[n].unit}
             f == [q EXCEPT !.pc = "units", !.rows = rows, !.units = units, !.left = left]
  <1>0. q \in Handler /\ HandlerOK(q, Registered) /\ q.pc = "refreshList"
    BY DEF Types, RefreshList, At
  <1>1. UNCHANGED <<miner, sub, cases>> /\ proc'[h] = f
    BY DEF RefreshList, Goto, Types
  <1>2. q.m \in Registered /\ q.op \in {"commit", "reveal"}
    BY <1>0 DEF HandlerOK
  <1>3. Settled /\ q.row = miner[q.m] /\ (q.ua = None => miner[q.m].ua = None)
    BY <1>0, SettledFrom DEF SettledPCs, RequestOK, RowIsCurrent, ListOK
  <1>4. Rows \in [Registered -> MinerRow] /\ \A n \in Registered : Rows[n] = miner[n]
    BY RowsArePartial DEF Rows
  <1>5. /\ rows \in [Registered -> MinerRow]
        /\ \A n \in Registered \ {q.m} : rows[n] = miner[n]
        /\ rows[q.m].ip = q.ip /\ rows[q.m].ua = q.ua /\ rows[q.m].unit = miner[q.m].unit
    <2>1. q.ip \in Ips \cup {None} /\ q.ua \in Agents \cup {None}
      BY <1>0 DEF Handler
    <2>2. \A n \in Registered \ {q.m} : rows[n] = miner[n]
      BY <1>4
    <2>3. rows[q.m] = [Rows[q.m] EXCEPT !.ip = q.ip, !.ua = q.ua]
      BY <1>2, <1>4
    <2>4. DOMAIN rows = Registered /\ rows = [n \in Registered |-> rows[n]]
      BY <1>4
    <2> HIDE DEF rows
    <2>5. /\ rows[q.m] \in MinerRow /\ rows[q.m].ip = q.ip /\ rows[q.m].ua = q.ua
          /\ rows[q.m].unit = miner[q.m].unit
      <3>1. Rows[q.m] \in MinerRow /\ Rows[q.m] = miner[q.m]
        BY <1>2, <1>4
      <3> HIDE DEF q
      <3>2. QED BY <2>1, <2>3, <3>1 DEF MinerRow
    <2>6. \A n \in Registered : rows[n] \in MinerRow
      BY <1>4, <2>2, <2>5
    <2>7. QED BY <2>2, <2>4, <2>5, <2>6
  <1>6. DOMAIN rows = Registered /\ \A n \in Registered : rows[n].unit = miner[n].unit
    BY <1>5
  <1> HIDE DEF rows
  <1> HIDE DEF units
  <1>7. q.m \in left /\ \A n \in Registered : n \notin left => units[n] = miner[n].unit
    BY <1>2, <1>6
  <1> HIDE DEF left
  <1>8. /\ f.pc = "units" /\ f.m = q.m /\ f.op = q.op /\ f.ip = q.ip /\ f.ua = q.ua
        /\ f.row = q.row /\ f.rows = rows /\ f.units = units /\ f.left = left
    BY <1>0 DEF Handler
  <1> HIDE DEF f
  <1>9. ListOK(f)
    BY <1>2, <1>3, <1>5, <1>6, <1>7, <1>8 DEF ListOK
  <1>10. ClusterOK(f) /\ ComponentsOK(f)
    BY <1>3, <1>8 DEF Settled, ClusterHasCase, ClusterOK, ComponentsOK
  <1>11. RequestOK(f)
    BY <1>3, <1>8, <1>9, <1>10, SharedTo DEF Settled, Counted, SharedPCs
  <1>12. QED BY <1>1, <1>11, LocalRequest

\* When the last unit is written the rows hold the components of their signals.
LEMMA UnitsUpdatedRequest ==
    ASSUME Types, NEW h \in Handlers, RequestOK(proc[h]), UnitsUpdated(h)
    PROVE  RequestOK(proc[h])'
  <1> DEFINE q == proc[h]
             f == [q EXCEPT !.pc = "cluster", !.left = Clusters(q.units)]
  <1>0. q \in Handler /\ HandlerOK(q, Registered) /\ q.pc = "units" /\ q.left = {}
    BY DEF Types, UnitsUpdated, At
  <1>1. UNCHANGED <<miner, sub, cases>> /\ proc'[h] = f
    BY DEF UnitsUpdated, Goto, Types
  <1>2. Counted /\ ListOK(q) /\ ClusterOK(q)
    BY <1>0, SharedFrom DEF SharedPCs
  <1>3. f.pc = "cluster" /\ f.left = Clusters(q.units)
    BY <1>0 DEF Handler
  <1> HIDE DEF f
  <1>4. ASSUME None \notin Ips, NEW m \in Registered PROVE miner[m].unit = Component(Rows, m)
    <2>1. DOMAIN q.rows = Registered /\ q.m \in Registered /\ q.units = UnitsOf(q.rows)
      BY <1>0, <1>2 DEF ListOK, HandlerOK, SharedPCs
    <2>2. \A n \in Registered : miner[n].ip = q.rows[n].ip /\ miner[n].ua = q.rows[n].ua
      <3>1. \A n \in Registered \ {q.m} : miner[n].ip = q.rows[n].ip /\ miner[n].ua = q.rows[n].ua
        BY <1>0, <1>2 DEF ListOK
      <3>2. CASE q.op = "register"
        BY <1>0, <1>2, <3>1, <3>2 DEF ListOK
      <3>3. CASE q.op # "register"
        <4>1. q.ip # None
          BY <1>0, <1>4, <3>3 DEF HandlerOK, Handler, SharedPCs
        <4>2. miner[q.m].ip = q.rows[q.m].ip /\ miner[q.m].ua = q.rows[q.m].ua
          BY <1>0, <1>2, <3>3, <4>1 DEF ListOK
        <4>3. QED BY <3>1, <4>2
      <3>4. QED BY <3>2, <3>3
    <2>3. DOMAIN Rows = Registered /\ \A n \in Registered : Rows[n] = miner[n]
      BY DEF Rows
    <2>4. Component(q.rows, m) = Component(Rows, m)
      BY <2>1, <2>2, <2>3, ComponentOfSignals
    <2>5. miner[m].unit = q.units[m] /\ q.units[m] = Component(q.rows, m)
      BY <1>0, <1>2, <2>1 DEF ListOK, UnitsOf
    <2>6. QED BY <2>4, <2>5
  <1>5. ComponentsOK(f) /\ ClusterOK(f) /\ ListOK(f)
    BY <1>0, <1>2, <1>3, <1>4 DEF ComponentsOK, ClusterOK, ListOK
  <1>6. QED BY <1>1, <1>2, <1>3, <1>5, SharedTo, LocalRequest DEF SharedPCs

\* _sync_cluster_risk_cases reads the case of a unit.
LEMMA ClusterReadRequest ==
    ASSUME Types, NEW h \in Handlers, RequestOK(proc[h]),
           ClusterCaseRead(h) \/ ClusterCasesDone(h)
    PROVE  RequestOK(proc[h])'
  <1> DEFINE q == proc[h]
  <1>0. q \in Handler /\ HandlerOK(q, Registered) /\ q.pc = "cluster"
    BY DEF Types, ClusterCaseRead, ClusterCasesDone, At
  <1>1. UNCHANGED <<miner, sub, cases>>
    BY DEF ClusterCaseRead, ClusterCasesDone
  <1>2. Counted /\ ClusterOK(q) /\ ComponentsOK(q)
    BY <1>0, SharedFrom DEF SharedPCs
  <1>3. CASE ClusterCaseRead(h)
    <2>1. PICK u \in q.left :
            Goto(h, IF cases[<<"cluster", u>>] = "closed"
                      THEN [q EXCEPT !.left = @ \ {u}]
                      ELSE [q EXCEPT !.pc = "clusterWrite", !.left = @ \ {u},
                                     !.case = <<"cluster", u>>])
      BY <1>3 DEF ClusterCaseRead
    <2> DEFINE f == IF cases[<<"cluster", u>>] = "closed"
                      THEN [q EXCEPT !.left = @ \ {u}]
                      ELSE [q EXCEPT !.pc = "clusterWrite", !.left = @ \ {u},
                                     !.case = <<"cluster", u>>]
    <2>2. proc'[h] = f
      BY <2>1 DEF Goto, Types
    <2>3. /\ f.left = q.left \ {u}
          /\ \/ f.pc = "cluster" /\ cases[<<"cluster", u>>] = "closed"
             \/ f.pc = "clusterWrite" /\ f.case = <<"cluster", u>>
      BY <1>0 DEF Handler
    <2> HIDE DEF f
    <2>4. ClusterOK(f) /\ ComponentsOK(f) /\ ListOK(f)
      BY <1>0, <1>2, <2>3 DEF ClusterOK, ComponentsOK, ListOK
    <2>5. QED BY <1>1, <1>2, <2>2, <2>3, <2>4, SharedTo, LocalRequest DEF SharedPCs
  <1>4. CASE ClusterCasesDone(h)
    <2> DEFINE f == [q EXCEPT !.pc = q.op, !.row = miner[q.m], !.rows = <<>>, !.units = <<>>]
    <2>1. q.left = {} /\ proc'[h] = IF q.op = "register" THEN Idle ELSE f
      BY <1>4 DEF ClusterCasesDone, Goto, Types
    <2>2. Settled
      BY <1>0, <1>2, <2>1 DEF Settled, Counted, ClusterHasCase, ClusterOK, ComponentsOK
    <2>3. CASE q.op = "register"
      BY <1>1, <2>1, <2>2, <2>3, SettledIdle, LocalRequest
    <2>4. CASE q.op # "register"
      <3>1. q.op \in {"commit", "reveal"}
        BY <1>0, <2>4 DEF HandlerOK, Handler, SharedPCs
      <3>2. f.pc = q.op /\ f.m = q.m /\ f.row = miner[q.m]
        BY <1>0 DEF Handler
      <3> HIDE DEF f
      <3>3. RowIsCurrent(f) /\ SubIsCurrent(f) /\ ListOK(f) /\ f.pc \in SettledPCs
        BY <3>1, <3>2 DEF RowIsCurrent, SubIsCurrent, ListOK, SettledPCs
      <3>4. QED BY <1>1, <2>1, <2>2, <2>4, <3>3, SettledTo, LocalRequest
    <2>5. QED BY <2>3, <2>4
  <1>5. QED BY <1>3, <1>4

\* A miner's row is written with its unit, and the others' units are still to be.
LEMMA RegisterWriteRequest ==
    ASSUME Types, NEW h \in Handlers, RequestOK(proc[h]), RegisterWrite(h)
    PROVE  RequestOK(proc[h])'
  <1> DEFINE q == proc[h]
             row == [q.rows[q.m] EXCEPT !.unit = q.units[q.m]]
             left == {n \in DOMAIN q.rows \ {q.m} : q.units[n] # q.rows[n].unit}
             f == [q EXCEPT !.pc = "units", !.left = left]
  <1>0. q \in Handler /\ HandlerOK(q, Registered) /\ q.pc = "registerWrite"
    BY DEF Types, RegisterWrite, At
  <1>1. /\ q.m \in Miners /\ q.rows \in PartialRows /\ q.m \in DOMAIN q.rows
        /\ q.rows[q.m].commits = 0 /\ q.rows[q.m].reveals = 0
        /\ q.op = "register" /\ q.units = UnitsOf(q.rows)
    BY <1>0 DEF HandlerOK
  <1>2. Settled /\ ListOK(q)
    BY <1>0, SettledFrom DEF SettledPCs, RequestOK
  <1>3. /\ q.m \notin Registered /\ DOMAIN q.rows = Registered \cup {q.m}
        /\ \A n \in Registered : q.rows[n] = miner[n]
    BY <1>0, <1>2 DEF ListOK
  <1>4. miner[q.m] = None
    BY <1>1, <1>3 DEF Registered
  <1>5. miner' = [miner EXCEPT ![q.m] = row] /\ proc'[h] = f /\ UNCHANGED <<sub, cases>>
    BY <1>4 DEF RegisterWrite, Goto, Types
  <1>6. q.rows[q.m] \in MinerRow /\ q.units \in [DOMAIN q.rows -> Unit]
    BY <1>1, ComponentIsUnit DEF PartialRows
  <1>7. /\ row \in MinerRow /\ row.unit = q.units[q.m] /\ row.commits = 0 /\ row.reveals = 0
        /\ row.ip = q.rows[q.m].ip /\ row.ua = q.rows[q.m].ua
    BY <1>1, <1>6 DEF MinerRow
  <1> HIDE DEF row
  <1>8. miner'[q.m] = row /\ \A n \in Registered : miner'[n] = miner[n]
    BY <1>1, <1>3, <1>5 DEF Types, Registered
  <1>9. Registered' = Registered \cup {q.m}
    BY <1>1, <1>5, <1>7, SubmissionAssumption DEF Types, Registered
  <1>10. q.m \notin left /\ \A n \in Registered : n \notin left => q.units[n] = miner[n].unit
    BY <1>3
  <1> HIDE DEF left
  <1>11. /\ f.pc = "units" /\ f.m = q.m /\ f.op = "register" /\ f.rows = q.rows
         /\ f.units = q.units /\ f.left = left
    BY <1>0, <1>1 DEF Handler
  <1> HIDE DEF f
  <1>12. ListOK(proc[h])'
    BY <1>3, <1>5, <1>7, <1>8, <1>9, <1>10, <1>11 DEF ListOK
  <1>13. Counted'
    <2>1. sub[q.m] = None
      BY <1>1, <1>2, <1>3 DEF Settled
    <2>2. \A m \in Registered : Counter(m)'
      BY <1>2, <1>5, <1>8 DEF Settled, Counter
    <2>3. miner'[q.m].commits = 0 /\ miner'[q.m].reveals = 0 /\ sub'[q.m] = None
      BY <1>5, <1>7, <1>8, <2>1
    <2>4. \A m \in Registered' : Counter(m)'
      BY <1>9, <2>2, <2>3 DEF Counter
    <2>5. QED BY <1>2, <1>5, <1>9, <2>4 DEF Settled, Counted, DuplicateHasCase
  <1>14. ClusterOK(proc[h])' /\ ComponentsOK(proc[h])'
    <2>1. \A m \in Registered : Cardinality(miner'[m].unit) > 1 =>
            cases'[<<"cluster", miner'[m].unit>>] # "none"
      BY <1>2, <1>5, <1>8 DEF Settled, ClusterHasCase
    <2>2. Cardinality(row.unit) > 1 => row.unit \in Clusters(q.units)
      BY <1>1, <1>6, <1>7 DEF Clusters
    <2>3. QED BY <1>5, <1>8, <1>9, <1>11, <2>1, <2>2 DEF ClusterOK, ComponentsOK
  <1>15. QED BY <1>5, <1>11, <1>12, <1>13, <1>14
         DEF RequestOK, CountsOK, DuplicateOK, RowIsCurrent, Counted,
             DuplicateHasCase, Uncounted, RowPCs, CommitPCs, RevealPCs

\* The unit of one more row is written.
LEMMA UpdateUnitRequest ==
    ASSUME Types, NEW h \in Handlers, RequestOK(proc[h]), UpdateUnit(h)
    PROVE  RequestOK(proc[h])'
  <1> DEFINE q == proc[h]
             refreshed(n) == n = q.m /\ q.op # "register"
             unit(n) == IF q.units[n] # q.rows[n].unit THEN q.units[n] ELSE miner[n].unit
             ip(n) == IF refreshed(n) /\ q.ip \notin {None, q.row.ip}
                        THEN q.ip ELSE miner[n].ip
             ua(n) == IF refreshed(n) /\ q.ua \notin {None, q.row.ua}
                        THEN q.ua ELSE miner[n].ua
             row(n) == [miner[n] EXCEPT !.unit = unit(n), !.ip = ip(n), !.ua = ua(n)]
  <1>0. q \in Handler /\ HandlerOK(q, Registered) /\ q.pc = "units" /\ UNCHANGED <<sub, cases>>
    BY DEF Types, UpdateUnit, At
  <1>1. Counted /\ ListOK(q) /\ ClusterOK(q)
    BY <1>0, SharedFrom DEF SharedPCs
  <1>2. /\ q.rows \in PartialRows /\ q.left \subseteq Registered /\ DOMAIN q.rows = Registered
        /\ q.units \in [Registered -> Unit] /\ q.m \in Registered
    BY <1>0, <1>1, ComponentIsUnit DEF HandlerOK, ListOK, SharedPCs
  <1>3. PICK n \in q.left :
          /\ miner' = [miner EXCEPT
                ![n].unit = IF q.units[n] # q.rows[n].unit THEN q.units[n] ELSE @,
                ![n].ip = IF refreshed(n) /\ q.ip \notin {None, q.row.ip} THEN q.ip ELSE @,
                ![n].ua = IF refreshed(n) /\ q.ua \notin {None, q.row.ua} THEN q.ua ELSE @]
          /\ Goto(h, [q EXCEPT !.left = @ \ {n}])
    BY DEF UpdateUnit
  <1>4. n \in Registered /\ n \in Miners /\ miner[n] \in MinerRow
    BY <1>2 DEF Registered, Types
  <1>5. miner' = [miner EXCEPT ![n] = row(n)]
    <2> HIDE DEF refreshed
    <2>1. miner \in [Miners -> MinerRow \cup {None}]
      BY DEF Types
    <2>2. QED BY <1>3, <1>4, <2>1 DEF MinerRow
  <1>6. unit(n) = q.units[n]
    BY <1>0, <1>1, <1>4 DEF ListOK
  <1> HIDE DEF unit
  <1>7. /\ row(n).unit = q.units[n] /\ row(n).ip = ip(n) /\ row(n).ua = ua(n)
        /\ row(n).commits = miner[n].commits /\ row(n).reveals = miner[n].reveals
    <2> HIDE DEF ip, ua
    <2>1. QED BY <1>4, <1>6 DEF MinerRow
  <1>8. row(n) # None
    <2>1. unit(n) \in Unit /\ ip(n) \in Ips \cup {None} /\ ua(n) \in Agents \cup {None}
      BY <1>0, <1>2, <1>4, <1>6 DEF MinerRow, Handler
    <2> HIDE DEF ip, ua
    <2>2. row(n) \in MinerRow
      BY <1>4, <2>1 DEF MinerRow
    <2>3. QED BY <2>2, SubmissionAssumption
  <1> HIDE DEF row
  <1>9. miner'[n] = row(n) /\ \A k \in Miners \ {n} : miner'[k] = miner[k]
    BY <1>4, <1>5 DEF Types
  <1>10. Registered' = Registered
    BY <1>4, <1>8, <1>9 DEF Registered
  <1> DEFINE f == [q EXCEPT !.left = @ \ {n}]
  <1>11. proc'[h] = f
    BY <1>3 DEF Goto, Types
  <1>12. /\ f.pc = "units" /\ f.m = q.m /\ f.op = q.op /\ f.ip = q.ip /\ f.ua = q.ua
         /\ f.row = q.row /\ f.rows = q.rows /\ f.units = q.units /\ f.left = q.left \ {n}
    BY <1>0 DEF Handler
  <1> HIDE DEF f
  <1>13. Registered \subseteq Miners
    BY DEF Registered
  <1>14. ListOK(proc[h])'
    <2>1. \A k \in Registered :
            miner'[k].unit = IF k \in f.left THEN q.rows[k].unit ELSE q.units[k]
      BY <1>0, <1>1, <1>7, <1>9, <1>12, <1>13 DEF ListOK
    <2>2. \A k \in Registered \ {q.m} : miner'[k].ip = q.rows[k].ip /\ miner'[k].ua = q.rows[k].ua
      <3>1. CASE n = q.m
        BY <1>0, <1>1, <1>9, <1>13, <3>1 DEF ListOK
      <3>2. CASE n # q.m
        BY <1>0, <1>1, <1>7, <1>9, <1>13, <3>2 DEF ListOK
      <3>3. QED BY <3>1, <3>2
    <2>3. CASE q.op = "register"
      <3>1. n # q.m /\ miner'[q.m] = miner[q.m]
        BY <1>0, <1>1, <1>2, <1>9, <1>13, <2>3 DEF ListOK
      <3>2. QED BY <1>0, <1>1, <1>2, <1>10, <1>11, <1>12, <2>1, <2>2, <2>3, <3>1 DEF ListOK
    <2>4. CASE q.op # "register"
      <3>1. q.rows[q.m].ip = q.ip /\ q.rows[q.m].ua = q.ua
        BY <1>0, <1>1, <2>4 DEF ListOK
      <3>2. CASE n = q.m
        <4>1. miner[q.m].ip = q.row.ip /\ miner[q.m].ua = q.row.ua /\ (q.ua = None => miner[q.m].ua = None)
          BY <1>0, <1>1, <2>4, <3>2 DEF ListOK
        <4>2. /\ q.ip # None => miner'[q.m].ip = q.ip
              /\ q.ua # None => miner'[q.m].ua = q.ua
              /\ q.ua = None => miner'[q.m].ua = None
          BY <1>7, <1>9, <2>4, <3>2, <4>1
        <4>3. QED
          BY <1>2, <1>10, <1>11, <1>12, <2>1, <2>2, <2>4, <3>1, <3>2, <4>2 DEF ListOK
      <3>3. CASE n # q.m
        <4>1. miner'[q.m] = miner[q.m]
          BY <1>2, <1>9, <1>13, <3>3
        <4>2. QED
          BY <1>0, <1>1, <1>2, <1>10, <1>11, <1>12, <2>1, <2>2, <2>4, <3>1, <3>3, <4>1 DEF ListOK
      <3>4. QED BY <3>2, <3>3
    <2>5. QED BY <2>3, <2>4
  <1>15. Counted'
    <2>1. \A k \in Registered : /\ miner'[k].commits = miner[k].commits
                                /\ miner'[k].reveals = miner[k].reveals
      BY <1>7, <1>9, <1>13
    <2>2. QED BY <1>0, <1>1, <1>10, <2>1 DEF Counted, Counter, DuplicateHasCase
  <1>16. ClusterOK(proc[h])' /\ ComponentsOK(proc[h])'
    <2>1. Cardinality(q.units[n]) > 1 => q.units[n] \in Clusters(q.units)
      BY <1>2, <1>4 DEF Clusters
    <2>2. ASSUME NEW k \in Registered, Cardinality(miner'[k].unit) > 1
          PROVE  cases[<<"cluster", miner'[k].unit>>] # "none" \/ miner'[k].unit \in Clusters(q.units)
      <3>1. CASE k = n
        BY <1>7, <1>9, <2>1, <2>2, <3>1
      <3>2. CASE k # n
        BY <1>0, <1>1, <1>9, <1>13, <2>2, <3>2 DEF ClusterOK
      <3>3. QED BY <3>1, <3>2
    <2>3. QED BY <1>0, <1>10, <1>11, <1>12, <2>2 DEF ClusterOK, ComponentsOK
  <1>17. QED
    BY <1>11, <1>12, <1>14, <1>15, <1>16
       DEF RequestOK, CountsOK, DuplicateOK, RowIsCurrent, Counted,
           DuplicateHasCase, Uncounted, RowPCs, CommitPCs, RevealPCs

\* The steps between a reveal's write and its count.
LEMMA DuplicateReadRequest ==
    ASSUME Types, NEW h \in Handlers, RequestOK(proc[h]), DuplicateCaseRead(h)
    PROVE  RequestOK(proc[h])'
  <1> DEFINE q == proc[h]
             c == <<"duplicate", q.row.unit>>
             f == IF cases[c] = "closed" THEN [q EXCEPT !.pc = "revealCount"]
                  ELSE [q EXCEPT !.pc = "duplicateWrite", !.case = c]
  <1>0. q \in Handler /\ q.pc = "duplicate" /\ UNCHANGED <<miner, sub, cases>> /\ proc'[h] = f
    BY DEF Types, DuplicateCaseRead, At, Goto
  <1>1. /\ f.m = q.m /\ f.row = q.row
        /\ \/ f.pc = "revealCount" /\ cases[c] = "closed"
           \/ f.pc = "duplicateWrite"
    BY <1>0 DEF Handler
  <1> HIDE DEF f
  <1>2. RequestOK(f)
    BY <1>0, <1>1 DEF RequestOK, RowIsCurrent, CountsOK, ListOK, ComponentsOK, ClusterOK,
                      DuplicateOK, Uncounted, RowPCs, CommitPCs, RevealPCs
  <1>3. QED BY <1>0, <1>2, LocalRequest

\* A case that is written is no longer missing.
LEMMA CaseWriteRequest ==
    ASSUME Types, NEW h \in Handlers, RequestOK(proc[h]),
           ClusterCaseWrite(h) \/ DuplicateCaseWrite(h)
    PROVE  RequestOK(proc[h])'
  <1> DEFINE q == proc[h]
  <1>0. /\ q \in Handler /\ HandlerOK(q, Registered) /\ UNCHANGED <<miner, sub>>
        /\ cases' = [cases EXCEPT ![q.case] = "open"]
        /\ \A g : Goto(h, g) => proc'[h] = g
    BY DEF Types, ClusterCaseWrite, DuplicateCaseWrite, Goto
  <1>1. \A c \in CaseIds : (cases[c] # "none" \/ c = q.case) => cases'[c] # "none"
    BY <1>0 DEF Types
  <1>2. /\ \A m \in Registered : <<"cluster", miner[m].unit>> \in CaseIds
        /\ \A m \in Miners : sub[m] # None => <<"duplicate", sub[m].unit>> \in CaseIds
    BY DEF Types, Registered, MinerRow, SubRow, CaseIds
  <1>3. Registered' = Registered /\ Rows' = Rows
    BY <1>0 DEF Registered, Rows
  <1>4. CASE ClusterCaseWrite(h)
    <2> DEFINE f == [q EXCEPT !.pc = "cluster", !.case = None]
    <2>1. q.pc = "clusterWrite" /\ proc'[h] = f
      BY <1>0, <1>4 DEF ClusterCaseWrite, At
    <2>2. f.pc = "cluster" /\ f.left = q.left
      BY <1>0 DEF Handler
    <2> HIDE DEF f
    <2>3. Counted /\ ClusterOK(q) /\ ComponentsOK(q)
      BY <2>1, SharedFrom DEF SharedPCs
    <2>4. ClusterOK(proc[h])'
      BY <1>0, <1>1, <1>2, <1>3, <2>1, <2>2, <2>3 DEF ClusterOK
    <2>5. Counted'
      BY <1>0, <1>1, <1>2, <1>3, <2>3 DEF Counted, Counter, DuplicateHasCase
    <2>6. ComponentsOK(proc[h])'
      BY <1>0, <1>3, <2>1, <2>2, <2>3 DEF ComponentsOK
    <2>7. QED
      BY <2>1, <2>2, <2>4, <2>5, <2>6
         DEF RequestOK, CountsOK, DuplicateOK, RowIsCurrent, ListOK, Counted,
             DuplicateHasCase, Uncounted, RowPCs, CommitPCs, RevealPCs
  <1>5. CASE DuplicateCaseWrite(h)
    <2> DEFINE f == [q EXCEPT !.pc = "revealCount", !.case = None]
    <2>1. q.pc = "duplicateWrite" /\ proc'[h] = f
      BY <1>0, <1>5 DEF DuplicateCaseWrite, At
    <2>2. f.pc = "revealCount" /\ f.m = q.m /\ f.row = q.row
      BY <1>0 DEF Handler
    <2> HIDE DEF f
    <2>3. q.case = <<"duplicate", q.row.unit>>
      BY <1>0, <2>1 DEF HandlerOK
    <2>4. DuplicateOK(proc[h])'
      BY <1>0, <1>1, <1>2, <2>1, <2>3 DEF RequestOK, DuplicateOK
    <2>5. ClusterOK(proc[h])'
      BY <1>0, <1>1, <1>2, <1>3, <2>1 DEF RequestOK, ClusterOK
    <2>6. CountsOK(proc[h])' /\ RowIsCurrent(proc[h])' /\ ListOK(proc[h])' /\ ComponentsOK(proc[h])'
      BY <1>0, <1>3, <2>1, <2>2
         DEF RequestOK, RowIsCurrent, CountsOK, Counter, ListOK, ComponentsOK, Uncounted, RowPCs,
             CommitPCs, RevealPCs
    <2>7. QED BY <2>4, <2>5, <2>6 DEF RequestOK
  <1>6. QED BY <1>4, <1>5

\* A commit is written, and owes its count.
LEMMA CommitWriteRequest ==
    ASSUME Types, NEW h \in Handlers, RequestOK(proc[h]), CommitWrite(h)
    PROVE  RequestOK(proc[h])'
  <1> DEFINE q == proc[h]
             row == [commit |-> q.p, p |-> None, unit |-> q.row.unit, status |-> "eligible"]
             f == [q EXCEPT !.pc = "commitCount"]
  <1>0. /\ q \in Handler /\ HandlerOK(q, Registered) /\ q.pc = "commitWrite"
        /\ UNCHANGED <<miner, cases>> /\ sub' = [sub EXCEPT ![q.m] = row] /\ proc'[h] = f
    BY DEF Types, CommitWrite, At, Goto
  <1>1. Settled /\ sub[q.m] = None /\ q.row = miner[q.m]
    BY <1>0, SettledFrom DEF SettledPCs, SubIsCurrent, RequestOK, RowIsCurrent, RowPCs, CommitPCs
  <1>2. q.m \in Registered /\ q.m \in Miners /\ q.p \in Forecasts /\ q.row \in MinerRow
    BY <1>0 DEF HandlerOK, CommitPCs, RowPCs, Registered
  <1>3. row # None /\ row.p = None /\ row.status = "eligible"
    <2>1. row \in SubRow
      BY <1>2 DEF SubRow, MinerRow
    <2>2. QED BY <2>1, SubmissionAssumption
  <1> HIDE DEF row
  <1>4. sub'[q.m] = row /\ \A m \in Miners \ {q.m} : sub'[m] = sub[m]
    BY <1>0, <1>2 DEF Types
  <1>5. Registered' = Registered /\ Rows' = Rows /\ Registered \subseteq Miners
    BY <1>0 DEF Registered, Rows
  <1>6. f.pc = "commitCount" /\ f.m = q.m /\ f.row = q.row
    BY <1>0 DEF Handler
  <1> HIDE DEF f
  <1>7. CountsOK(proc[h])'
    <2>1. miner[q.m].commits = 0 /\ miner[q.m].reveals = 0
      BY <1>1, <1>2 DEF Settled, Counter
    <2>2. \A m \in Registered \ {q.m} : Counter(m)'
      BY <1>0, <1>1, <1>4, <1>5 DEF Settled, Counter
    <2>3. QED
      BY <1>0, <1>1, <1>2, <1>3, <1>4, <1>5, <1>6, <2>1, <2>2 DEF CountsOK, Settled, Uncounted
  <1>8. DuplicateOK(proc[h])' /\ ClusterOK(proc[h])' /\ ComponentsOK(proc[h])'
    BY <1>0, <1>1, <1>3, <1>4, <1>5
       DEF Settled, DuplicateOK, DuplicateHasCase, ClusterOK, ClusterHasCase, ComponentsOK
  <1>9. RowIsCurrent(proc[h])' /\ ListOK(proc[h])'
    BY <1>0, <1>1, <1>6 DEF RowIsCurrent, ListOK
  <1>10. QED BY <1>7, <1>8, <1>9 DEF RequestOK

\* A reveal is written, and owes its count and its case.
LEMMA RevealWriteRequest ==
    ASSUME Types, NEW h \in Handlers, RequestOK(proc[h]), RevealWrite(h)
    PROVE  RequestOK(proc[h])'
  <1> DEFINE q == proc[h]
             row == [q.existing EXCEPT !.unit = q.row.unit, !.p = q.p, !.status = q.status]
             f == [q EXCEPT !.pc = IF q.status = "audit_only" THEN "duplicate"
                                   ELSE "revealCount"]
  <1>0. /\ q \in Handler /\ HandlerOK(q, Registered) /\ q.pc = "revealWrite"
        /\ UNCHANGED <<miner, cases>> /\ sub' = [sub EXCEPT ![q.m] = row] /\ proc'[h] = f
    BY DEF Types, RevealWrite, At, Goto
  <1>1. Settled /\ sub[q.m] = q.existing /\ q.row = miner[q.m]
    BY <1>0, SettledFrom DEF SettledPCs, SubIsCurrent, RequestOK, RowIsCurrent, RowPCs, RevealPCs
  <1>2. /\ q.m \in Registered /\ q.m \in Miners /\ q.p \in Forecasts /\ q.row \in MinerRow
        /\ q.existing \in SubRow /\ q.existing.p = None
        /\ q.status \in {"eligible", "audit_only"}
    BY <1>0 DEF HandlerOK, RevealPCs, RowPCs, Registered, Revealable, Handler
  <1>3. row # None /\ row.p # None /\ row.status = q.status /\ row.unit = q.row.unit
    <2>1. row \in SubRow /\ row.p = q.p /\ row.status = q.status /\ row.unit = q.row.unit
      BY <1>2 DEF SubRow, MinerRow
    <2>2. QED BY <1>2, <2>1, SubmissionAssumption
  <1> HIDE DEF row
  <1>4. sub'[q.m] = row /\ \A m \in Miners \ {q.m} : sub'[m] = sub[m]
    BY <1>0, <1>2 DEF Types
  <1>5. Registered' = Registered /\ Rows' = Rows /\ Registered \subseteq Miners
    BY <1>0 DEF Registered, Rows
  <1>6. /\ f.m = q.m /\ f.row = q.row
        /\ f.pc = IF q.status = "audit_only" THEN "duplicate" ELSE "revealCount"
    BY <1>0 DEF Handler
  <1> HIDE DEF f
  <1>7. CountsOK(proc[h])'
    <2>1. miner[q.m].commits = 1 /\ miner[q.m].reveals = 0
      BY <1>1, <1>2, SubmissionAssumption DEF Settled, Counter
    <2>2. \A m \in Registered \ {q.m} : Counter(m)'
      BY <1>0, <1>1, <1>4, <1>5 DEF Settled, Counter
    <2>3. QED
      BY <1>0, <1>1, <1>2, <1>3, <1>4, <1>5, <1>6, <2>1, <2>2 DEF CountsOK, Settled, Uncounted
  <1>8. DuplicateOK(proc[h])'
    BY <1>0, <1>1, <1>2, <1>3, <1>4, <1>6 DEF Settled, DuplicateOK, DuplicateHasCase
  <1>9. ClusterOK(proc[h])' /\ ComponentsOK(proc[h])'
    BY <1>0, <1>1, <1>5 DEF Settled, ClusterOK, ClusterHasCase, ComponentsOK
  <1>10. RowIsCurrent(proc[h])' /\ ListOK(proc[h])'
    BY <1>0, <1>1, <1>6 DEF RowIsCurrent, ListOK
  <1>11. QED BY <1>7, <1>8, <1>9, <1>10 DEF RequestOK

\* The count is the last write of a request, and closes the books.
LEMMA CountRequest ==
    ASSUME Types, NEW h \in Handlers, RequestOK(proc[h]), CommitCount(h) \/ RevealCount(h)
    PROVE  RequestOK(proc[h])'
  <1> DEFINE q == proc[h]
  <1>0. /\ q \in Handler /\ HandlerOK(q, Registered) /\ UNCHANGED <<sub, cases>>
        /\ q.pc \in {"commitCount", "revealCount"} /\ proc'[h] = Idle
    BY DEF Types, CommitCount, RevealCount, At, Goto, Done
  <1>1. /\ q.m \in Registered /\ q.m \in Miners /\ miner[q.m] \in MinerRow
        /\ q.row = miner[q.m] /\ Registered \subseteq Miners
    BY <1>0 DEF HandlerOK, CommitPCs, RevealPCs, RowPCs, Registered, Types, RequestOK,
                RowIsCurrent
  <1>2. /\ \A m \in Registered \ {q.m} : Counter(m)
        /\ \A m \in Miners : sub[m] # None => m \in Registered
        /\ q.pc = "commitCount" =>
             /\ sub[q.m] # None /\ sub[q.m].p = None
             /\ miner[q.m].commits = 0 /\ miner[q.m].reveals = 0
        /\ q.pc = "revealCount" =>
             /\ sub[q.m] # None /\ sub[q.m].p # None
             /\ miner[q.m].commits = 1 /\ miner[q.m].reveals = 0
    BY DEF RequestOK, CountsOK, Uncounted
  <1>3. PICK row : /\ miner' = [miner EXCEPT ![q.m] = row]
                   /\ row.ip = miner[q.m].ip /\ row.ua = miner[q.m].ua
                   /\ row.unit = miner[q.m].unit /\ row # None
                   /\ row.commits = 1 /\ row.reveals = IF q.pc = "commitCount" THEN 0 ELSE 1
    <2>1. CASE CommitCount(h)
      <3> DEFINE row == [miner[q.m] EXCEPT !.commits = q.row.commits + 1]
      <3>1. q.pc = "commitCount" /\ miner' = [miner EXCEPT ![q.m] = row]
        BY <2>1 DEF CommitCount, At
      <3>2. row \in MinerRow
        BY <1>1 DEF MinerRow
      <3>3. /\ row.ip = miner[q.m].ip /\ row.ua = miner[q.m].ua /\ row.unit = miner[q.m].unit
            /\ row.commits = 1 /\ row.reveals = 0
        BY <1>1, <1>2, <3>1 DEF MinerRow
      <3>4. QED BY <3>1, <3>2, <3>3, SubmissionAssumption
    <2>2. CASE RevealCount(h)
      <3> DEFINE row == [miner[q.m] EXCEPT !.reveals = q.row.reveals + 1]
      <3>1. q.pc = "revealCount" /\ miner' = [miner EXCEPT ![q.m] = row]
        BY <2>2 DEF RevealCount, At
      <3>2. row \in MinerRow
        BY <1>1 DEF MinerRow
      <3>3. /\ row.ip = miner[q.m].ip /\ row.ua = miner[q.m].ua /\ row.unit = miner[q.m].unit
            /\ row.commits = 1 /\ row.reveals = 1
        BY <1>1, <1>2, <3>1 DEF MinerRow
      <3>4. QED BY <3>1, <3>2, <3>3, SubmissionAssumption
    <2>3. QED BY <2>1, <2>2
  <1>4. miner'[q.m] = row /\ \A m \in Miners \ {q.m} : miner'[m] = miner[m]
    BY <1>1, <1>3 DEF Types
  <1>5. Registered' = Registered
    BY <1>1, <1>3, <1>4 DEF Registered
  <1>6. \A m \in Registered : Counter(m)'
    <2>1. \A m \in Registered \ {q.m} : Counter(m)'
      BY <1>0, <1>1, <1>2, <1>4 DEF Counter
    <2>2. /\ miner'[q.m].commits = (IF sub'[q.m] # None THEN 1 ELSE 0)
          /\ miner'[q.m].reveals = (IF sub'[q.m] # None /\ sub'[q.m].p # None THEN 1 ELSE 0)
      BY <1>0, <1>2, <1>3, <1>4
    <2>3. QED BY <2>1, <2>2 DEF Counter
  <1>7. \A m \in Registered : miner'[m].unit = miner[m].unit
    BY <1>1, <1>3, <1>4
  <1>8. \A m : Component(Rows, m) = Component(Rows', m)
    <2>1. DOMAIN Rows = Registered /\ DOMAIN Rows' = Registered
      BY <1>5 DEF Rows
    <2>2. \A n \in Registered : Rows[n].ip = Rows'[n].ip /\ Rows[n].ua = Rows'[n].ua
      BY <1>1, <1>3, <1>4, <1>5 DEF Rows
    <2>3. QED BY <2>1, <2>2, ComponentOfSignals
  <1>9. Settled'
    <2>1. ClusterHasCase' /\ DuplicateHasCase'
      BY <1>0, <1>5, <1>7 DEF ClusterHasCase, DuplicateHasCase, RequestOK, ClusterOK, DuplicateOK
    <2>2. None \notin Ips => \A m \in Registered : miner'[m].unit = Component(Rows, m)
      BY <1>0, <1>7 DEF RequestOK, ComponentsOK
    <2>3. (None \notin Ips => \A m \in Registered : miner[m].unit = Component(Rows, m))'
      BY <1>5, <1>8, <2>2
    <2>4. QED BY <1>0, <1>2, <1>5, <1>6, <2>1, <2>3 DEF Settled
  <1>10. RequestOK(Idle)'
    BY <1>9, SettledIdle, PTL
  <1>11. QED BY <1>0, <1>10 DEF RequestOK, RowIsCurrent, CountsOK, ListOK, ComponentsOK, ClusterOK,
                DuplicateOK

\* An operator's decision removes no case.
LEMMA OutsideRequest ==
    ASSUME Types, NEW h \in Handlers, RequestOK(proc[h]),
           (\E c \in CaseIds : OverrideRiskCase(c)) \/ UNCHANGED <<miner, sub, cases, proc>>
    PROVE  RequestOK(proc[h])'
  <1>1. UNCHANGED <<miner, sub, proc>>
    BY DEF OverrideRiskCase
  <1>2. \A c \in CaseIds : cases[c] # "none" => cases'[c] # "none"
    BY DEF OverrideRiskCase, Types
  <1>3. /\ \A m \in Registered : <<"cluster", miner[m].unit>> \in CaseIds
        /\ \A m \in Miners : sub[m] # None => <<"duplicate", sub[m].unit>> \in CaseIds
    BY DEF Types, Registered, MinerRow, SubRow, CaseIds
  <1>4. Registered' = Registered /\ Rows' = Rows
    BY <1>1 DEF Registered, Rows
  <1>5. ClusterOK(proc[h])' /\ DuplicateOK(proc[h])'
    BY <1>1, <1>2, <1>3, <1>4 DEF RequestOK, ClusterOK, DuplicateOK
  <1>6. RowIsCurrent(proc[h])' /\ CountsOK(proc[h])' /\ ListOK(proc[h])' /\ ComponentsOK(proc[h])'
    BY <1>1, <1>4 DEF RequestOK, RowIsCurrent, CountsOK, Counter, ListOK, ComponentsOK
  <1>7. QED BY <1>5, <1>6 DEF RequestOK

\* Every step keeps what a request owes, one request at a time and without a
\* crash,
LEMMA RequestNext ==
    ASSUME SubmissionInv, SubmissionInv', RequestInv, Serial, Serial', crashes' = 0,
           crashes = 0, [Next]_vars
    PROVE  RequestInv'
  <1> USE DEF SubmissionInv
  <1>1. ASSUME NEW h \in Handlers, Request(h) \/ Step(h)
        PROVE  RequestInv'
    <2>1. Alone(h) /\ OnlyMoves(h)
      BY <1>1, StepAlone, StepMoves
    <2>2. RequestOK(proc[h])
      BY <2>1 DEF RequestInv
    <2>3. RequestOK(proc[h])'
      BY <1>1, <2>2, RegisterRequest, ReadSteps, RefreshListRequest, UnitsUpdatedRequest,
         ClusterReadRequest, RegisterWriteRequest, UpdateUnitRequest, DuplicateReadRequest,
         CaseWriteRequest, CommitWriteRequest, RevealWriteRequest, CountRequest
         DEF Step
    <2>4. \A b \in Handlers : Alone(b)' => proc'[b] = proc'[h]
      BY <2>1, AloneAfter
    <2>5. \A b \in Handlers : proc'[b] = proc'[h] => RequestOK(proc[b])'
      BY <2>3 DEF RequestOK, RowIsCurrent, CountsOK, Counter, ListOK, ComponentsOK, ClusterOK,
                  DuplicateOK
    <2>6. QED BY <2>4, <2>5 DEF RequestInv
  <1>2. ASSUME (\E c \in CaseIds : OverrideRiskCase(c)) \/ UNCHANGED <<miner, sub, cases, proc>>
        PROVE  RequestInv'
    <2>1. proc' = proc
      BY <1>2 DEF OverrideRiskCase
    <2>2. \A h \in Handlers : RequestOK(proc[h]) => RequestOK(proc[h])'
      BY <1>2, OutsideRequest
    <2>3. QED BY <2>1, <2>2 DEF RequestInv, Alone, At
  <1>3. ~Crash
    BY DEF Crash
  <1>4. QED BY <1>1, <1>2, <1>3 DEF Next, Tick, vars

\* Crashes are counted.
CrashCount == crashes \in Nat

\* A step adds to the count, if anything.
LEMMA CrashesStep == CrashCount /\ [Next]_vars => CrashCount' /\ crashes <= crashes'
  <1> SUFFICES ASSUME CrashCount, [Next]_vars PROVE CrashCount' /\ crashes <= crashes'
    OBVIOUS
  <1>1. CASE crashes' = crashes
    BY <1>1 DEF CrashCount
  <1>2. CASE Crash
    BY <1>2 DEF Crash, CrashCount
  <1>3. ASSUME NEW h \in Handlers, Request(h) \/ Step(h)
        PROVE  crashes' = crashes
    BY <1>3 DEF Request, RegisterList, CommitRequest, RevealRequest, Step,
           RegisterWrite, RefreshRead, RefreshList, UpdateUnit, UnitsUpdated,
           ClusterCaseRead, ClusterCaseWrite, ClusterCasesDone, CommitDuplicate, CommitRead,
           CommitWrite, CommitCount, RevealRead, RevealList, RevealWrite, DuplicateCaseRead,
           DuplicateCaseWrite, RevealCount
  <1>4. QED BY <1>1, <1>2, <1>3 DEF Next, OverrideRiskCase, Tick, vars

\* It is a number throughout.
LEMMA CrashesCounted == Spec => []CrashCount
  <1>1. Init => CrashCount
    BY DEF Init, CrashCount
  <1>2. QED BY <1>1, CrashesStep, PTL DEF Spec

\* and so it holds until a request is disturbed.
LEMMA RequestInvAlways == Spec => [](Undisturbed => RequestInv)
  <1> DEFINE P == Undisturbed => RequestInv
  <1>1. Init => P
    <2> SUFFICES ASSUME Init PROVE RequestInv
      OBVIOUS
    <2>1. Settled
      BY DEF Init, Settled, Registered, ClusterHasCase, DuplicateHasCase
    <2>2. RequestOK(Idle)
      BY <2>1, SettledIdle
    <2>3. QED BY <2>2 DEF Init, RequestInv
  <1>2. ASSUME SubmissionInv, SubmissionInv', NoOverlap, NoOverlap', CrashCount,
               P, [Next]_vars
        PROVE  P'
    <2> SUFFICES ASSUME Undisturbed' PROVE RequestInv'
      OBVIOUS
    <2>1. ~overlap' /\ ~overlap /\ crashes' = 0 /\ crashes = 0
      BY <1>2, OverlapStep, CrashesStep DEF Undisturbed, CrashCount
    <2>2. Serial /\ Serial' /\ RequestInv
      BY <1>2, <2>1 DEF NoOverlap, Undisturbed
    <2>3. QED BY <1>2, <2>1, <2>2, RequestNext
  <1> HIDE DEF P
  <1>3. Spec => []P
    BY <1>1, <1>2, NoOverlapAlways, CrashesCounted, SubmissionInvAlways, PTL DEF Spec
  <1>4. QED BY <1>3 DEF P

\* Between two requests the books are settled.
LEMMA QuietIsSettled ==
    ASSUME SubmissionInv, RequestInv, Quiet
    PROVE  Settled
  <1>1. PICK h \in Handlers : TRUE
    BY SubmissionAssumption
  <1>2. Alone(h) /\ proc[h].pc = "idle"
    BY DEF Quiet, Alone, At
  <1>3. QED BY <1>2, SettledFrom DEF RequestInv, SettledPCs

\* Requests that come one after the other and run to their end leave counters
\* that count the rows: no commit or reveal is counted twice or not at all.
THEOREM CountersCountRows == Spec => []CountersMatchRows
  <1>1. SubmissionInv /\ (Undisturbed => RequestInv) => CountersMatchRows
    BY QuietIsSettled DEF CountersMatchRows, Settled, Counter
  <1>2. QED BY <1>1, SubmissionInvAlways, RequestInvAlways, PTL

\* They also leave no unit of several miners and no duplicate reveal without its
\* risk case, whatever the operators decide.
THEOREM RisksAlwaysHaveCases == Spec => []RisksHaveCases
  <1>1. SubmissionInv /\ (Undisturbed => RequestInv) => RisksHaveCases
    BY QuietIsSettled DEF RisksHaveCases, Settled
  <1>2. QED BY <1>1, SubmissionInvAlways, RequestInvAlways, PTL

\* And, when no request comes from a loopback address, they leave every miner
\* filed under its component of the shared signals: the partial updates of
\* _refresh_miner_cluster and register_miner add up to a recomputation.
THEOREM UnitsAreAlwaysComponents ==
    ASSUME None \notin Ips
    PROVE  Spec => []UnitsAreComponents
  <1>1. SubmissionInv /\ (Undisturbed => RequestInv) => UnitsAreComponents
    BY QuietIsSettled DEF UnitsAreComponents, Settled
  <1>2. QED BY <1>1, SubmissionInvAlways, RequestInvAlways, PTL
==============================================================================

----------------------- MODULE ForecastSettlementProofs -----------------------
(***************************************************************************)
(* Proofs about ForecastSettlement, for any tasks, miners, submissions and  *)
(* amounts, while one pass of reconcile() runs at a time (OneAtATime).      *)
(*                                                                          *)
(* Between two passes the books relate a miner's row to the resolved tasks. *)
(* Within a pass they relate it to the submissions that are booked: those   *)
(* of the resolved tasks, and those of the task at hand that the pass has   *)
(* already paid.                                                            *)
(***************************************************************************)
EXTENDS ForecastSettlement, FiniteSums

SubRow  == [state : {"revealed", "pending_resolution", "resolved"}, reward : Nat, held : Nat]
HoldRow == [held : Nat, released : Nat, state : {"none", "held", "released"}]
Account == [total : Nat, held : Nat, settled : Nat, chances : Nat]

\* The steps that pay a submission, those of a listed task, and those of a release.
CreditPCs  == {"paySubmission", "payHold", "payMiner"}
PayPCs     == {"pay"} \cup CreditPCs
TaskPCs    == {"hang", "participation"} \cup PayPCs
ReleasePCs == {"release", "releaseHold"}
PCs == {"idle", "pick"} \cup TaskPCs \cup ReleasePCs

Pass == [pc : PCs, todo : SUBSET Tasks, t : Tasks \cup {None},
         left : (SUBSET Subs) \cup (SUBSET Miners), m : Miners \cup {None}, row : Account,
         amount : Nat, held : Nat, rows : [Subs -> SubRow], snap : [Miners -> Account],
         grown : SUBSET Miners, entries : SUBSET (Subs \X HoldRow), gone : Nat]

\* No two passes run at the same time.
OneAtATime == \A p, r \in Passes : ~At(p, "idle") /\ ~At(r, "idle") => p = r
Alone(p) == \A r \in Passes \ {p} : At(r, "idle")

\* The rows, whoever runs.
TableTypes ==
    /\ task \in [Tasks -> {"published", "awaiting_resolution", "resolved"}]
    /\ due \in SUBSET Tasks
    /\ mature \in SUBSET Miners
    /\ sub \in [Subs -> SubRow]
    /\ hold \in [Subs -> HoldRow]
    /\ \A s \in Subs : /\ hold[s].released <= hold[s].held
                       /\ hold[s].released < hold[s].held => hold[s].state = "held"
    /\ acct \in [Miners -> Account]
    /\ crashes \in Nat

\* The hold entries that are due.
DueEntries(m) == {s \in Subs : s[2] = m /\ Remaining(hold[s]) > 0}

\* What a pass has read is what the rows still say.
PassOK(q) ==
    /\ q \in Pass
    /\ q.pc = "idle" => q = Idle
    /\ q.pc \in {"pick"} \cup TaskPCs => \A x \in q.todo : task[x] # "resolved"
    /\ q.pc \in TaskPCs => q.t \in q.todo
    /\ q.pc \in {"hang"} \cup PayPCs => q.left \subseteq SubsOf(q.t)
    /\ q.pc \in CreditPCs => /\ q.m \in Miners
                             /\ <<q.t, q.m>> \in q.left
                             /\ q.row = acct[q.m]
                             /\ q.held <= q.amount
    /\ q.pc \in {"payHold", "payMiner"} => sub[<<q.t, q.m>>].reward = q.amount
    /\ q.pc \in {"participation"} \cup ReleasePCs =>
         /\ q.left \subseteq Miners
         /\ \A m \in q.left : q.snap[m] = acct[m]
    /\ q.pc = "participation" => q.left \subseteq Entrants(q.t)
    /\ q.pc = "releaseHold" =>
         /\ q.m \in q.left
         /\ q.entries = {<<s, hold[s]>> : s \in DueEntries(q.m)}

\* The submissions of miner m that are credited: those of the resolved tasks, and
\* those the pass has paid.
InHand(q, s) == /\ s[1] = q.t
                /\ (q.pc \in PayPCs /\ s \notin q.left) \/ q.pc = "participation"
Booked(q, m) == {s \in Subs : s[2] = m /\ (task[s[1]] = "resolved" \/ InHand(q, s))}

\* The pass has counted the task at hand for miner m.
Counted(q, m) == q.pc = "participation" /\ m \in Entrants(q.t) /\ m \notin q.left

\* No credit is lost, crash or not.
Kept(q) == \A m \in Miners :
    acct[m].total + acct[m].held >= SumFunctionOnSet(Rewards, Booked(q, m))

\* Without a crash the books are exact at every step.
Exact(q) ==
    /\ \A m \in Miners :
         /\ acct[m].total + acct[m].held = SumFunctionOnSet(Rewards, Booked(q, m))
         /\ OnLedger(m) + (IF q.pc = "releaseHold" /\ q.m = m THEN q.gone ELSE 0)
              = acct[m].held + (IF q.pc = "payMiner" /\ q.m = m THEN q.held ELSE 0)
         /\ acct[m].settled = Cardinality(Booked(q, m))
         /\ acct[m].chances = Cardinality(Chances(m))
                                + (IF Counted(q, m) THEN 1 ELSE 0)
    /\ \A s \in Subs :
         s \in Booked(q, s[2]) \/ (q.pc = "payMiner" /\ s = <<q.t, q.m>>) \/ Remaining(hold[s]) = 0
    /\ q.pc = "payMiner" => Remaining(hold[<<q.t, q.m>>]) = q.held

\* The inductive invariant.
PassInv(p) == /\ Alone(p) /\ PassOK(proc[p]) /\ Kept(proc[p])
              /\ crashes = 0 => Exact(proc[p])
SettleInv == /\ TableTypes
             /\ proc \in [Passes -> Pass]
             /\ \A p \in Passes : At(p, "idle") => proc[p] = Idle
             /\ \E p \in Passes : PassInv(p)

------------------------------------------------------------------------------
(* Submissions and their sums.                                              *)

\* A submission is a task and a miner, and there are finitely many.
LEMMA SubmissionPairs ==
  /\ IsFiniteSet(Subs)
  /\ \A s \in Subs : s[1] \in Tasks /\ s[2] \in Miners /\ s = <<s[1], s[2]>>
<1>1. IsFiniteSet(Tasks \X Miners)
  BY SettlementAssumption, FS_Product
<1>2. IsFiniteSet(Subs)
  BY <1>1, SettlementAssumption, FS_Subset
<1>3. \A s \in Tasks \X Miners : s[1] \in Tasks /\ s[2] \in Miners /\ s = <<s[1], s[2]>>
  OBVIOUS
<1> QED
  BY <1>2, <1>3, SettlementAssumption

\* An entrant is a miner.
LEMMA EntrantsAreMiners ==
  \A t : Entrants(t) \subseteq Miners
BY SettlementAssumption DEF Entrants

\* A miner has finitely many chances.
LEMMA ChancesFinite ==
  \A m : IsFiniteSet(Chances(m)) /\ Cardinality(Chances(m)) \in Nat
<1> TAKE m
<1>1. Chances(m) \in SUBSET Tasks
  BY DEF Chances
<1>2. IsFiniteSet(Chances(m))
  BY <1>1, SettlementAssumption, FS_Subset
<1> QED
  BY <1>2, FS_CardinalityType

\* The held part of an amount is a part of it.
LEMMA HeldIsPart ==
  ASSUME NEW a \in Nat, NEW b \in BOOLEAN
  PROVE  HeldPart(a, b) \in Nat /\ HeldPart(a, b) <= a
<1> DEFINE r == (2 * a + 5) \div 10
<1>1. r \in Nat /\ r <= a
  OBVIOUS
<1> HIDE DEF r
<1>2. ProbationRelease(a) = r
  BY DEF ProbationRelease, r
<1> QED
  BY <1>1, <1>2 DEF HeldPart

\* The rows have numbers.
LEMMA RowTypes ==
  ASSUME TableTypes
  PROVE  /\ \A s \in Subs : sub[s] \in SubRow /\ sub[s].reward \in Nat /\ Rewards[s] = sub[s].reward
         /\ \A s \in Subs : hold[s] \in HoldRow /\ Remaining(hold[s]) \in Nat
         /\ \A m \in Miners : /\ acct[m] \in Account /\ acct[m].total \in Nat /\ acct[m].held \in Nat
                              /\ acct[m].settled \in Nat /\ acct[m].chances \in Nat
         /\ acct \in [Miners -> Account] /\ sub \in [Subs -> SubRow] /\ hold \in [Subs -> HoldRow]
<1>1. sub \in [Subs -> SubRow] /\ hold \in [Subs -> HoldRow] /\ acct \in [Miners -> Account]
  BY DEF TableTypes
<1>2. \A s \in Subs : sub[s] \in SubRow /\ sub[s].reward \in Nat /\ Rewards[s] = sub[s].reward
  BY <1>1 DEF SubRow, Rewards
<1>3. \A s \in Subs : hold[s].released <= hold[s].held
  BY DEF TableTypes
<1>4. \A s \in Subs : hold[s] \in HoldRow /\ Remaining(hold[s]) \in Nat
  BY <1>1, <1>3 DEF HoldRow, Remaining
<1>5. \A m \in Miners : /\ acct[m] \in Account /\ acct[m].total \in Nat /\ acct[m].held \in Nat
                        /\ acct[m].settled \in Nat /\ acct[m].chances \in Nat
  BY <1>1 DEF Account
<1> QED
  BY <1>1, <1>2, <1>4, <1>5

\* What the ledger holds for a miner, from its entries.
Entries == [s \in Subs |-> Remaining(hold[s])]
SubsBy(m) == {s \in Subs : s[2] = m}

\* OnLedger as a sum over the entries of a miner.
LEMMA LedgerSum ==
  ASSUME TableTypes, NEW m
  PROVE  /\ OnLedger(m) = SumFunctionOnSet(Entries, SubsBy(m))
         /\ OnLedger(m) \in Nat
         /\ SubsBy(m) \in SUBSET Subs /\ IsFiniteSet(SubsBy(m))
<1>1. SubsBy(m) \in SUBSET Subs /\ IsFiniteSet(SubsBy(m))
  <2> SubsBy(m) \in SUBSET Subs
    BY DEF SubsBy
  <2> QED
    BY SubmissionPairs, FS_Subset
<1>2. \A s \in SubsBy(m) : Entries[s] \in Nat
  BY <1>1, RowTypes DEF Entries
<1>3. SumFunctionOnSet(Entries, SubsBy(m)) \in Nat
  BY <1>1, <1>2, SumIsNatural
<1>4. OnLedger(m) = SumFunctionOnSet(Entries, SubsBy(m))
  BY DEF OnLedger, Entries, SubsBy
<1> QED
  BY <1>1, <1>3, <1>4

tables == <<due, task, sub, hold, acct, mature>>

\* A step that only reads: it books nothing.
LEMMA ReadStep ==
  ASSUME TableTypes, NEW p \in Passes, proc \in [Passes -> Pass], PassInv(p), NEW f, Goto(p, f),
         UNCHANGED tables, UNCHANGED crashes, PassOK(f),
         proc[p].pc \notin {"payMiner", "releaseHold", "participation"}, f.pc # "payMiner",
         f.pc = "releaseHold" => f.gone = 0,
         f.pc = "participation" => f.left = Entrants(f.t),
         \A s \in Subs : InHand(f, s) <=> InHand(proc[p], s)
  PROVE  TableTypes' /\ PassInv(p)'
<1>1. UNCHANGED <<due, task, sub, hold, acct, mature>>
  BY DEF tables
<1>2. proc'[p] = f /\ \A r \in Passes \ {p} : proc'[r] = proc[r]
  BY DEF Goto
<1>3. Alone(p)'
  BY <1>2 DEF PassInv, Alone, At
<1>4. PassOK(proc[p])'
  BY <1>1, <1>2 DEF PassOK, DueEntries, SubsOf
<1>5. Rewards' = Rewards
  BY <1>1 DEF Rewards
<1>6. \A m \in Miners : Booked(f, m) = Booked(proc[p], m)
  BY DEF Booked
<1>7. \A m : (Booked(proc[p], m))' = Booked(f, m)
  BY <1>1, <1>2 DEF Booked, InHand
<1>8. Kept(proc[p])'
  BY <1>1, <1>5, <1>6, <1>7 DEF Kept, PassInv
<1>9. TableTypes'
  BY <1>1 DEF TableTypes
<1>10. ASSUME crashes = 0
       PROVE  Exact(proc[p])'
  <2>0. Exact(proc[p])
    BY <1>10 DEF PassInv
  <2>1. \A m \in Miners : OnLedger(m)' = OnLedger(m)
    BY <1>1 DEF OnLedger, Remaining
  <2>2. \A m \in Miners : acct[m].held \in Nat /\ acct[m].chances \in Nat
    BY RowTypes
  <2>3. ASSUME NEW m \in Miners
        PROVE  /\ acct[m].total + acct[m].held = SumFunctionOnSet(Rewards, Booked(f, m))
               /\ OnLedger(m) + (IF f.pc = "releaseHold" /\ f.m = m THEN f.gone ELSE 0)
                    = acct[m].held + (IF f.pc = "payMiner" /\ f.m = m THEN f.held ELSE 0)
               /\ acct[m].settled = Cardinality(Booked(f, m))
               /\ acct[m].chances = Cardinality(Chances(m))
                                + (IF Counted(f, m) THEN 1 ELSE 0)
    BY <1>6, <2>0, <2>2 DEF Exact, Counted
  <2>4. \A s \in Subs :
         s \in Booked(f, s[2]) \/ (f.pc = "payMiner" /\ s = <<f.t, f.m>>) \/ Remaining(hold[s]) = 0
    BY <1>6, <2>0, SubmissionPairs DEF Exact
  <2> QED
    BY <1>1, <1>2, <1>5, <1>7, <2>1, <2>3, <2>4, SubmissionPairs DEF Exact, Chances
<1> QED
  BY <1>3, <1>4, <1>8, <1>9, <1>10 DEF PassInv

------------------------------------------------------------------------------
(* The steps that only read.                                                *)

\* An idle pass has the type of a pass.
LEMMA IdleIsPass ==
  Idle \in Pass /\ Idle.pc = "idle" /\ Idle.todo = {} /\ Idle.entries = {} /\ Idle.gone = 0
BY DEF Idle, Pass, PCs, NewAccount, Account, SubRow

\* The listings and reads of a pass, and its start and end.
LEMMA ReadSteps ==
  ASSUME TableTypes, NEW p \in Passes, proc \in [Passes -> Pass], PassInv(p),
         \/ StartPass(p)
         \/ \E t \in Tasks : PickUnresolved(p, t) \/ PickResolved(p, t)
         \/ PayRead(p) \/ ListParticipants(p) \/ ListMiners(p) \/ ReleaseRead(p) \/ EndPass(p)
  PROVE  TableTypes' /\ PassInv(p)'
<1> DEFINE q == proc[p]
<1>0. q \in Pass /\ PassOK(q)
  BY DEF PassInv
<1>1. CASE StartPass(p)
  <2> DEFINE f == [Idle EXCEPT !.pc = "pick", !.todo = {t \in due : task[t] # "resolved"}]
  <2>1. Goto(p, f) /\ UNCHANGED tables /\ UNCHANGED crashes /\ q.pc = "idle"
    BY <1>1 DEF StartPass, tables, At
  <2>2. f \in Pass /\ f.pc = "pick" /\ f.todo = {t \in due : task[t] # "resolved"}
    BY IdleIsPass DEF Pass, PCs, TableTypes
  <2> HIDE DEF f
  <2>3. PassOK(f)
    BY <2>2 DEF PassOK, TaskPCs, PayPCs, CreditPCs, ReleasePCs
  <2>4. \A s \in Subs : InHand(f, s) <=> InHand(q, s)
    BY <2>1, <2>2 DEF InHand, PayPCs, CreditPCs
  <2> QED
    BY <2>1, <2>2, <2>3, <2>4, ReadStep
<1>2. ASSUME NEW t \in Tasks, NEW pc \in {"hang", "pay"}, Pick(p, t, pc)
      PROVE  TableTypes' /\ PassInv(p)'
  <2> DEFINE f == [q EXCEPT !.pc = pc, !.t = t, !.left = SubsOf(t), !.rows = sub]
  <2>1. Goto(p, f) /\ UNCHANGED tables /\ UNCHANGED crashes /\ q.pc = "pick" /\ t \in q.todo
    BY <1>2 DEF Pick, tables, At
  <2>2. f \in Pass /\ f.pc = pc /\ f.t = t /\ f.left = SubsOf(t) /\ f.todo = q.todo
    <3> SubsOf(t) \in SUBSET Subs /\ sub \in [Subs -> SubRow]
      BY DEF SubsOf, TableTypes
    <3> pc \in PCs
      BY DEF PCs, TaskPCs, PayPCs
    <3> QED
      BY <1>0 DEF Pass
  <2> HIDE DEF f
  <2>3. PassOK(f)
    BY <1>0, <2>1, <2>2 DEF PassOK, TaskPCs, PayPCs, CreditPCs, ReleasePCs
  <2>4. \A s \in Subs : InHand(f, s) <=> InHand(q, s)
    BY <2>1, <2>2 DEF InHand, PayPCs, CreditPCs, SubsOf
  <2> QED
    BY <2>1, <2>2, <2>3, <2>4, ReadStep
<1>3. CASE PayRead(p)
  <2>1. PICK s \in q.left, a \in Amounts :
          Goto(p, [q EXCEPT !.pc = "paySubmission", !.m = s[2], !.row = acct[s[2]], !.amount = a,
                            !.held = HeldPart(a, s[2] \in mature)])
    BY <1>3 DEF PayRead
  <2> DEFINE h == HeldPart(a, s[2] \in mature)
             f == [q EXCEPT !.pc = "paySubmission", !.m = s[2], !.row = acct[s[2]], !.amount = a,
                            !.held = h]
  <2>2. Goto(p, f) /\ UNCHANGED tables /\ UNCHANGED crashes /\ q.pc = "pay"
    BY <1>3, <2>1 DEF PayRead, tables, At
  <2>3. q.left \subseteq SubsOf(q.t) /\ q.t \in q.todo /\ \A x \in q.todo : task[x] # "resolved"
    BY <1>0, <2>2 DEF PassOK, PayPCs, TaskPCs
  <2>4. s \in Subs /\ s = <<q.t, s[2]>> /\ s[2] \in Miners /\ acct[s[2]] \in Account
    BY <2>3, SubmissionPairs, RowTypes DEF SubsOf
  <2>5. a \in Nat /\ h \in Nat /\ h <= a
    <3>1. a \in Nat
      BY SettlementAssumption
    <3> DEFINE b == s[2] \in mature
    <3>2. b \in BOOLEAN
      OBVIOUS
    <3> HIDE DEF b
    <3>3. HeldPart(a, b) \in Nat /\ HeldPart(a, b) <= a
      BY <3>1, <3>2, HeldIsPart
    <3> QED
      BY <3>1, <3>3 DEF b
  <2> HIDE DEF h
  <2>6. /\ f \in Pass /\ f.pc = "paySubmission" /\ f.t = q.t /\ f.left = q.left /\ f.m = s[2]
        /\ f.row = acct[s[2]] /\ f.held <= f.amount /\ f.todo = q.todo
    BY <1>0, <2>4, <2>5 DEF Pass, PCs, TaskPCs, PayPCs, CreditPCs
  <2> HIDE DEF f
  <2>7. PassOK(f)
    BY <2>3, <2>4, <2>6 DEF PassOK, TaskPCs, PayPCs, CreditPCs, ReleasePCs
  <2>8. \A x \in Subs : InHand(f, x) <=> InHand(q, x)
    BY <2>2, <2>6 DEF InHand, PayPCs, CreditPCs
  <2> QED
    BY <2>2, <2>6, <2>7, <2>8, ReadStep
<1>4. CASE ListParticipants(p)
  <2> DEFINE f == [q EXCEPT !.pc = "participation", !.left = Entrants(q.t), !.snap = acct]
  <2>1. Goto(p, f) /\ UNCHANGED tables /\ UNCHANGED crashes /\ q.pc = "pay" /\ q.left = {}
    BY <1>4 DEF ListParticipants, tables, At
  <2>2. /\ f \in Pass /\ f.pc = "participation" /\ f.t = q.t /\ f.left = Entrants(q.t) /\ f.snap = acct
        /\ f.todo = q.todo
    <3> Entrants(q.t) \in (SUBSET Subs) \cup (SUBSET Miners) /\ acct \in [Miners -> Account]
      BY EntrantsAreMiners, RowTypes
    <3> QED
      BY <1>0 DEF Pass, PCs, TaskPCs
  <2> HIDE DEF f
  <2>3. PassOK(f)
    BY EntrantsAreMiners, <1>0, <2>1, <2>2 DEF PassOK, TaskPCs, PayPCs, CreditPCs, ReleasePCs
  <2>4. \A x \in Subs : InHand(f, x) <=> InHand(q, x)
    BY <2>1, <2>2 DEF InHand, PayPCs, CreditPCs
  <2> QED
    BY <2>1, <2>2, <2>3, <2>4, ReadStep
<1>5. CASE ListMiners(p)
  <2> DEFINE f == [Idle EXCEPT !.pc = "release", !.left = Miners, !.snap = acct, !.grown = mature]
  <2>1. Goto(p, f) /\ UNCHANGED tables /\ UNCHANGED crashes /\ q.pc = "pick"
    BY <1>5 DEF ListMiners, tables, At
  <2>2. f \in Pass /\ f.pc = "release" /\ f.left = Miners /\ f.snap = acct
    <3> /\ mature \in SUBSET Miners /\ acct \in [Miners -> Account]
        /\ Miners \in (SUBSET Subs) \cup (SUBSET Miners)
      BY DEF TableTypes
    <3> QED
      BY IdleIsPass DEF Pass, PCs, ReleasePCs
  <2> HIDE DEF f
  <2>3. PassOK(f)
    BY <2>2 DEF PassOK, TaskPCs, PayPCs, CreditPCs, ReleasePCs
  <2>4. \A x \in Subs : InHand(f, x) <=> InHand(q, x)
    BY <2>1, <2>2 DEF InHand, PayPCs, CreditPCs
  <2> QED
    BY <2>1, <2>2, <2>3, <2>4, ReadStep
<1>6. CASE ReleaseRead(p)
  <2> DEFINE E(m) == {<<s, hold[s]>> : s \in {x \in Subs : /\ x[2] = m
                                                           /\ hold[x].state = "held"
                                                           /\ Remaining(hold[x]) > 0}}
             g(m) == [q EXCEPT !.pc = "releaseHold", !.m = m, !.gone = 0, !.entries = E(m)]
             h(m) == [q EXCEPT !.left = @ \ {m}]
  <2>1. PICK m \in q.left : Goto(p, IF m \in q.grown THEN g(m) ELSE h(m))
    BY <1>6 DEF ReleaseRead
  <2>2. UNCHANGED tables /\ UNCHANGED crashes /\ q.pc = "release"
    BY <1>6 DEF ReleaseRead, tables, At
  <2>3. q.left \subseteq Miners /\ \A n \in q.left : q.snap[n] = acct[n]
    BY <1>0, <2>2 DEF PassOK, ReleasePCs
  <2>4. CASE m \in q.grown
    <3> DEFINE f == g(m)
    <3>1. E(m) \in SUBSET (Subs \X HoldRow)
      BY RowTypes
    <3>2. E(m) = {<<s, hold[s]>> : s \in DueEntries(m)}
      <4>1. {x \in Subs : /\ x[2] = m /\ hold[x].state = "held" /\ Remaining(hold[x]) > 0}
              = DueEntries(m)
        BY DEF DueEntries, Remaining, TableTypes, HoldRow
      <4> QED
        BY <4>1
    <3> HIDE DEF E
    <3>3. /\ f \in Pass /\ f.pc = "releaseHold" /\ f.m = m /\ f.gone = 0 /\ f.left = q.left
          /\ f.snap = q.snap /\ f.entries = E(m)
      BY <1>0, <2>3, <3>1 DEF Pass, PCs, ReleasePCs
    <3>4. Goto(p, f)
      BY <2>1, <2>4
    <3> HIDE DEF f
    <3>5. PassOK(f)
      BY <2>3, <3>2, <3>3 DEF PassOK, TaskPCs, PayPCs, CreditPCs, ReleasePCs
    <3>6. \A x \in Subs : InHand(f, x) <=> InHand(q, x)
      BY <2>2, <3>3 DEF InHand, PayPCs, CreditPCs
    <3> QED
      BY <2>2, <3>3, <3>4, <3>5, <3>6, ReadStep
  <2>5. CASE m \notin q.grown
    <3> DEFINE f == h(m)
    <3>1. /\ f \in Pass /\ f.pc = "release" /\ f.left = q.left \ {m} /\ f.snap = q.snap
      BY <1>0, <2>2, <2>3 DEF Pass
    <3>2. Goto(p, f)
      BY <2>1, <2>5
    <3> HIDE DEF f
    <3>3. PassOK(f)
      BY <2>3, <3>1 DEF PassOK, TaskPCs, PayPCs, CreditPCs, ReleasePCs
    <3>4. \A x \in Subs : InHand(f, x) <=> InHand(q, x)
      BY <2>2, <3>1 DEF InHand, PayPCs, CreditPCs
    <3> QED
      BY <2>2, <3>1, <3>2, <3>3, <3>4, ReadStep
  <2> QED
    BY <2>4, <2>5
<1>7. CASE EndPass(p)
  <2>1. Goto(p, Idle) /\ UNCHANGED tables /\ UNCHANGED crashes /\ q.pc = "release"
    BY <1>7 DEF EndPass, tables, At
  <2>2. PassOK(Idle)
    BY IdleIsPass DEF PassOK, TaskPCs, PayPCs, CreditPCs, ReleasePCs
  <2>3. \A x \in Subs : InHand(Idle, x) <=> InHand(q, x)
    BY <2>1, IdleIsPass DEF InHand, PayPCs, CreditPCs
  <2> QED
    BY <2>1, <2>2, <2>3, IdleIsPass, ReadStep
<1> QED
  BY <1>1, <1>2, <1>3, <1>4, <1>5, <1>6, <1>7 DEF PickUnresolved, PickResolved

------------------------------------------------------------------------------
(* The steps that write a submission, or hang a task.                       *)

\* What is booked is a finite set of submissions.
LEMMA BookedFinite ==
  ASSUME NEW q, NEW m
  PROVE  Booked(q, m) \in SUBSET Subs /\ IsFiniteSet(Booked(q, m))
<1>1. Booked(q, m) \in SUBSET Subs
  BY DEF Booked
<1> QED
  BY <1>1, SubmissionPairs, FS_Subset

\* A submission that is not booked may be written.
LEMMA WriteSubmission ==
  ASSUME TableTypes, NEW p \in Passes, proc \in [Passes -> Pass], PassInv(p), NEW f, Goto(p, f),
         NEW s \in Subs, NEW r \in SubRow, sub' = [sub EXCEPT ![s] = r],
         UNCHANGED <<due, task, hold, acct, mature, crashes>>,
         s \notin Booked(proc[p], s[2]),
         \A x \in Subs : InHand(f, x) <=> InHand(proc[p], x),
         PassOK(proc[p])',
         proc[p].pc \in {"hang", "paySubmission"}, f.pc \in {"hang", "payHold", "payMiner"},
         f.pc = "payMiner" => f.held = 0 /\ s = <<f.t, f.m>>
  PROVE  TableTypes' /\ PassInv(p)'
<1> DEFINE q == proc[p]
<1>1. proc'[p] = f /\ \A x \in Passes \ {p} : proc'[x] = proc[x]
  BY DEF Goto
<1>2. Alone(p)'
  BY <1>1 DEF PassInv, Alone, At
<1>3. sub' \in [Subs -> SubRow] /\ \A x \in Subs \ {s} : sub'[x] = sub[x]
  BY RowTypes
<1>4. TableTypes'
  BY <1>3 DEF TableTypes
<1>5. (\A m : (Booked(proc[p], m))' = Booked(q, m)) /\ (\A n : Chances(n)' = Chances(n))
  BY <1>1 DEF Booked, InHand, Chances
<1>6. \A x \in Subs \ {s} : Rewards'[x] = Rewards[x]
  BY <1>3 DEF Rewards
<1>7. ASSUME NEW m \in Miners
      PROVE  SumFunctionOnSet(Rewards', Booked(q, m)) = SumFunctionOnSet(Rewards, Booked(q, m))
  <2>1. s \notin Booked(q, m) /\ Booked(q, m) \subseteq Subs /\ IsFiniteSet(Booked(q, m))
    BY BookedFinite DEF Booked
  <2>2. \A x \in Booked(q, m) : Rewards'[x] = Rewards[x]
    BY <1>6, <2>1
  <2> QED
    BY <2>1, <2>2, SumSame
<1>8. Kept(proc[p])'
  BY <1>5, <1>7 DEF Kept, PassInv
<1>9. ASSUME crashes = 0
      PROVE  Exact(proc[p])'
  <2>0. Exact(q)
    BY <1>9 DEF PassInv
  <2>1. \A m \in Miners : OnLedger(m)' = OnLedger(m)
    BY DEF OnLedger
  <2>2. \A m \in Miners : acct[m].held \in Nat /\ acct[m].chances \in Nat /\ OnLedger(m) \in Nat
    BY RowTypes, LedgerSum
  <2>3. Remaining(hold[s]) = 0
    BY <2>0 DEF Exact
  <2>4. ASSUME NEW m \in Miners
        PROVE  /\ acct[m].total + acct[m].held = SumFunctionOnSet(Rewards', Booked(q, m))
               /\ OnLedger(m) = acct[m].held
               /\ acct[m].settled = Cardinality(Booked(q, m))
               /\ acct[m].chances = Cardinality(Chances(m)) + 0
    <3>1. /\ acct[m].total + acct[m].held = SumFunctionOnSet(Rewards, Booked(q, m))
          /\ OnLedger(m) + 0 = acct[m].held + 0
          /\ acct[m].settled = Cardinality(Booked(q, m))
          /\ acct[m].chances = Cardinality(Chances(m)) + 0
      BY <2>0 DEF Exact, Counted
    <3> QED
      BY <1>7, <2>2, <3>1
  <2>5. \A x \in Subs : x \in Booked(q, x[2]) \/ Remaining(hold[x]) = 0
    BY <2>0 DEF Exact
  <2>6. \A m \in Miners : OnLedger(m) + 0 = acct[m].held + 0
    BY <2>2, <2>4
  <2>7. /\ \A m : (IF f.pc = "releaseHold" /\ f.m = m THEN f.gone ELSE 0) = 0
        /\ \A m : (IF f.pc = "payMiner" /\ f.m = m THEN f.held ELSE 0) = 0
        /\ \A m : (IF Counted(f, m) THEN 1 ELSE 0) = 0
    BY DEF Counted
  <2>8. f.pc = "payMiner" => Remaining(hold[<<f.t, f.m>>]) = f.held
    BY <2>3
  <2> QED
    BY <1>1, <1>5, <2>1, <2>4, <2>5, <2>6, <2>7, <2>8 DEF Exact
<1> QED
  BY <1>2, <1>4, <1>8, <1>9 DEF PassInv

\* A submission is hung, or written as resolved before its miner is credited.
LEMMA SubmissionSteps ==
  ASSUME TableTypes, NEW p \in Passes, proc \in [Passes -> Pass], PassInv(p),
         HangSubmission(p) \/ PaySubmission(p)
  PROVE  TableTypes' /\ PassInv(p)'
<1> DEFINE q == proc[p]
<1>0. q \in Pass /\ PassOK(q)
  BY DEF PassInv
<1>1. CASE HangSubmission(p)
  <2>1. PICK s \in q.left : /\ sub' = [sub EXCEPT ![s] = [q.rows[s] EXCEPT !.state = "pending_resolution"]]
                            /\ Goto(p, [q EXCEPT !.left = @ \ {s}])
    BY <1>1 DEF HangSubmission
  <2>2. UNCHANGED <<due, task, hold, acct, mature, crashes>> /\ q.pc = "hang"
    BY <1>1 DEF HangSubmission, At
  <2> DEFINE f == [q EXCEPT !.left = @ \ {s}]
             r == [q.rows[s] EXCEPT !.state = "pending_resolution"]
  <2>3. q.left \subseteq SubsOf(q.t) /\ q.t \in q.todo /\ \A x \in q.todo : task[x] # "resolved"
    BY <1>0, <2>2 DEF PassOK, PayPCs, TaskPCs
  <2>4. s \in Subs /\ s[1] = q.t
    BY <2>3 DEF SubsOf
  <2>5. r \in SubRow
    BY <1>0, <2>4 DEF Pass, SubRow
  <2>6. f \in Pass /\ f.pc = "hang" /\ f.t = q.t /\ f.left = q.left \ {s} /\ f.todo = q.todo
    <3> q.left \ {s} \in SUBSET Subs
      BY <2>3 DEF SubsOf
    <3> QED
      BY <1>0, <2>2 DEF Pass
  <2>7. Goto(p, f) /\ sub' = [sub EXCEPT ![s] = r]
    BY <2>1
  <2> HIDE DEF f, r
  <2>8. proc'[p] = f
    BY <2>7 DEF Goto
  <2>9. PassOK(proc[p])'
    BY <2>2, <2>3, <2>6, <2>8 DEF PassOK, TaskPCs, PayPCs, CreditPCs, ReleasePCs, SubsOf
  <2>10. \A x \in Subs : InHand(f, x) <=> InHand(q, x)
    BY <2>2, <2>6 DEF InHand, PayPCs, CreditPCs
  <2>11. s \notin Booked(q, s[2])
    BY <2>2, <2>3, <2>4 DEF Booked, InHand, PayPCs, CreditPCs
  <2> QED
    BY <2>2, <2>4, <2>5, <2>6, <2>7, <2>9, <2>10, <2>11, WriteSubmission
<1>2. CASE PaySubmission(p)
  <2> DEFINE s == <<q.t, q.m>>
             r == [state |-> "resolved", reward |-> q.amount, held |-> q.held]
             next == IF q.held > 0 THEN "payHold" ELSE "payMiner"
             f == [q EXCEPT !.pc = next]
  <2>1. sub' = [sub EXCEPT ![s] = r] /\ Goto(p, f)
    BY <1>2 DEF PaySubmission
  <2>2. UNCHANGED <<due, task, hold, acct, mature, crashes>> /\ q.pc = "paySubmission"
    BY <1>2 DEF PaySubmission, At
  <2>3. q.left \subseteq SubsOf(q.t) /\ q.t \in q.todo /\ \A x \in q.todo : task[x] # "resolved"
    BY <1>0, <2>2 DEF PassOK, PayPCs, TaskPCs, CreditPCs
  <2>4. q.m \in Miners /\ s \in q.left /\ q.row = acct[q.m] /\ q.held <= q.amount
    BY <1>0, <2>2 DEF PassOK, CreditPCs
  <2>5. s \in Subs /\ s[1] = q.t /\ s[2] = q.m
    BY <2>3, <2>4 DEF SubsOf
  <2>6. r \in SubRow /\ r.reward = q.amount
    BY <1>0 DEF Pass, SubRow
  <2>7. next \in {"payHold", "payMiner"} /\ (next = "payMiner" => q.held = 0)
    BY <1>0 DEF Pass
  <2> HIDE DEF next, r
  <2>8. /\ f \in Pass /\ f.pc = next /\ f.t = q.t /\ f.left = q.left /\ f.todo = q.todo /\ f.m = q.m
        /\ f.row = q.row /\ f.held = q.held /\ f.amount = q.amount
    BY <1>0, <2>7 DEF Pass, PCs, TaskPCs, PayPCs, CreditPCs
  <2> HIDE DEF f
  <2>9. proc'[p] = f
    BY <2>1 DEF Goto
  <2>10. sub'[s] = r
    BY <2>1, <2>5, RowTypes
  <2>11. PassOK(proc[p])'
    BY <2>2, <2>3, <2>4, <2>6, <2>7, <2>8, <2>9, <2>10
       DEF PassOK, TaskPCs, PayPCs, CreditPCs, ReleasePCs, SubsOf
  <2>12. \A x \in Subs : InHand(f, x) <=> InHand(q, x)
    BY <2>2, <2>7, <2>8 DEF InHand, PayPCs, CreditPCs
  <2>13. s \notin Booked(q, s[2])
    BY <2>2, <2>3, <2>4, <2>5 DEF Booked, InHand, PayPCs, CreditPCs
  <2> HIDE DEF s
  <2>14. f.pc = "payMiner" => f.held = 0 /\ s = <<f.t, f.m>>
    BY <2>7, <2>8 DEF s
  <2> QED
    BY <2>1, <2>2, <2>5, <2>6, <2>7, <2>8, <2>11, <2>12, <2>13, <2>14, WriteSubmission
<1> QED
  BY <1>1, <1>2

------------------------------------------------------------------------------
(* The steps that mark a task.                                              *)

\* A task is marked when nothing of what is booked changes with it.
LEMMA MarkTask ==
  ASSUME TableTypes, NEW p \in Passes, proc \in [Passes -> Pass], PassInv(p), NEW f, Goto(p, f),
         task' \in [Tasks -> {"published", "awaiting_resolution", "resolved"}],
         UNCHANGED <<due, sub, hold, acct, mature, crashes>>,
         PassOK(proc[p])', f.pc = "pick", proc[p].pc \in {"hang", "participation"},
         \A m : (Booked(proc[p], m))' = Booked(proc[p], m),
         \A m \in Miners :
           Cardinality(Chances(m)')
             = Cardinality(Chances(m))
                 + (IF Counted(proc[p], m) THEN 1 ELSE 0)
  PROVE  TableTypes' /\ PassInv(p)'
<1> DEFINE q == proc[p]
<1>1. proc'[p] = f /\ \A x \in Passes \ {p} : proc'[x] = proc[x]
  BY DEF Goto
<1>2. Alone(p)'
  BY <1>1 DEF PassInv, Alone, At
<1>3. TableTypes'
  BY DEF TableTypes
<1>4. Rewards' = Rewards
  BY DEF Rewards
<1>5. Kept(proc[p])'
  BY <1>4 DEF Kept, PassInv
<1>6. ASSUME crashes = 0
      PROVE  Exact(proc[p])'
  <2>0. Exact(q)
    BY <1>6 DEF PassInv
  <2>1. \A m \in Miners : OnLedger(m)' = OnLedger(m) /\ acct[m].chances \in Nat
    BY RowTypes DEF OnLedger
  <2>2. ASSUME NEW m \in Miners
        PROVE  /\ acct[m].total + acct[m].held = SumFunctionOnSet(Rewards, Booked(q, m))
               /\ OnLedger(m) + 0 = acct[m].held + 0
               /\ acct[m].settled = Cardinality(Booked(q, m))
               /\ acct[m].chances = Cardinality(Chances(m)') + 0
    <3>1. /\ acct[m].total + acct[m].held = SumFunctionOnSet(Rewards, Booked(q, m))
          /\ OnLedger(m) + 0 = acct[m].held + 0
          /\ acct[m].settled = Cardinality(Booked(q, m))
          /\ acct[m].chances = Cardinality(Chances(m))
                                + (IF Counted(q, m) THEN 1 ELSE 0)
      BY <2>0 DEF Exact
    <3>2. acct[m].chances = Cardinality(Chances(m)')
      BY <3>1
    <3> QED
      BY <2>1, <3>1, <3>2
  <2>3. \A x \in Subs : x \in Booked(q, x[2]) \/ Remaining(hold[x]) = 0
    BY <2>0 DEF Exact
  <2>4. /\ \A m : (IF f.pc = "releaseHold" /\ f.m = m THEN f.gone ELSE 0) = 0
        /\ \A m : (IF f.pc = "payMiner" /\ f.m = m THEN f.held ELSE 0) = 0
        /\ \A m : (IF Counted(f, m) THEN 1 ELSE 0) = 0
    BY DEF Counted
  <2> QED
    BY <1>1, <1>4, <2>1, <2>2, <2>3, <2>4 DEF Exact
<1> QED
  BY <1>2, <1>3, <1>5, <1>6 DEF PassInv

\* A task is hung with nothing booked, or resolved with everything booked.
LEMMA TaskSteps ==
  ASSUME TableTypes, NEW p \in Passes, proc \in [Passes -> Pass], PassInv(p),
         HangTask(p) \/ ResolveTask(p)
  PROVE  TableTypes' /\ PassInv(p)'
<1> DEFINE q == proc[p]
           f == [q EXCEPT !.pc = "pick", !.todo = @ \ {q.t}]
<1>0. q \in Pass /\ PassOK(q)
  BY DEF PassInv
<1>1. /\ Goto(p, f) /\ UNCHANGED <<due, sub, hold, acct, mature, crashes>>
      /\ \/ q.pc = "hang" /\ task' = [task EXCEPT ![q.t] = "awaiting_resolution"]
         \/ q.pc = "participation" /\ q.left = {} /\ task' = [task EXCEPT ![q.t] = "resolved"]
  BY DEF HangTask, ResolveTask, At
<1>2. q.t \in q.todo /\ q.todo \subseteq Tasks /\ \A x \in q.todo : task[x] # "resolved"
  BY <1>0, <1>1 DEF PassOK, TaskPCs, Pass
<1>3. f \in Pass /\ f.pc = "pick" /\ f.todo = q.todo \ {q.t}
  BY <1>0 DEF Pass, PCs
<1> HIDE DEF f
<1>4. proc'[p] = f
  BY <1>1 DEF Goto
<1>5. task \in [Tasks -> {"published", "awaiting_resolution", "resolved"}]
  BY DEF TableTypes
<1>6. /\ task' \in [Tasks -> {"published", "awaiting_resolution", "resolved"}]
      /\ \A x \in Tasks \ {q.t} : task'[x] = task[x]
      /\ q.pc = "hang" => task'[q.t] # "resolved"
      /\ q.pc = "participation" => task'[q.t] = "resolved"
  BY <1>1, <1>2, <1>5
<1>7. PassOK(proc[p])'
  BY <1>2, <1>3, <1>4, <1>6 DEF PassOK, TaskPCs, PayPCs, CreditPCs, ReleasePCs
<1>8. \A m : (Booked(proc[p], m))' = Booked(proc[p], m)
  <2>1. \A s \in Subs : (task'[s[1]] = "resolved" \/ InHand(f, s)) <=> (task[s[1]] = "resolved" \/ InHand(q, s))
    <3> SUFFICES ASSUME NEW s \in Subs
                 PROVE  (task'[s[1]] = "resolved" \/ InHand(f, s)) <=> (task[s[1]] = "resolved" \/ InHand(q, s))
      OBVIOUS
    <3>1. s[1] \in Tasks
      BY SubmissionPairs
    <3>2. ~InHand(f, s) /\ (InHand(q, s) <=> q.pc = "participation" /\ s[1] = q.t)
      BY <1>1, <1>3 DEF InHand, PayPCs, CreditPCs
    <3>3. task[q.t] # "resolved"
      BY <1>2
    <3> QED
      BY <1>1, <1>6, <3>1, <3>2, <3>3
  <2> QED
    BY <1>4, <2>1 DEF Booked, InHand
<1>9. ASSUME NEW m \in Miners
      PROVE  Cardinality(Chances(m)') = Cardinality(Chances(m)) + (IF Counted(q, m) THEN 1 ELSE 0)
  <2>1. IsFiniteSet(Chances(m)) /\ Cardinality(Chances(m)) \in Nat
    BY ChancesFinite
  <2>2. CASE ~Counted(q, m)
    <3>1. q.pc = "participation" => m \notin Entrants(q.t)
      BY <1>1, <2>2 DEF Counted
    <3>2. Chances(m)' = Chances(m)
      BY <1>1, <1>2, <1>6, <3>1 DEF Chances
    <3> QED
      BY <2>1, <2>2, <3>2
  <2>3. CASE Counted(q, m)
    <3>1. Chances(m)' = Chances(m) \cup {q.t}
      BY <1>2, <1>6, <2>3 DEF Chances, Counted
    <3>2. q.t \notin Chances(m)
      BY <1>2 DEF Chances
    <3>3. Cardinality(Chances(m) \cup {q.t}) = Cardinality(Chances(m)) + 1
      BY <2>1, <3>2, FS_AddElement
    <3> QED
      BY <2>3, <3>1, <3>3
  <2> QED
    BY <2>2, <2>3
<1> QED
  BY <1>1, <1>3, <1>6, <1>7, <1>8, <1>9, MarkTask

------------------------------------------------------------------------------
(* The steps that write a hold entry.                                       *)

\* What the ledger holds changes by what the entry does.
LEMMA WriteEntry ==
  ASSUME TableTypes, NEW s \in Subs, NEW h \in HoldRow, hold' = [hold EXCEPT ![s] = h],
         h.released <= h.held, h.released < h.held => h.state = "held",
         UNCHANGED <<due, task, sub, acct, mature, crashes>>
  PROVE  /\ TableTypes'
         /\ hold'[s] = h /\ \A x \in Subs \ {s} : hold'[x] = hold[x]
         /\ Remaining(h) \in Nat
         /\ \A m : m # s[2] => OnLedger(m)' = OnLedger(m)
         /\ \A m : m = s[2] => OnLedger(m)' = OnLedger(m) + (Remaining(h) - Remaining(hold[s]))
<1>1. /\ hold' \in [Subs -> HoldRow] /\ hold'[s] = h /\ \A x \in Subs \ {s} : hold'[x] = hold[x]
  BY RowTypes
<1>2. TableTypes'
  BY <1>1 DEF TableTypes
<1>3. Remaining(h) \in Nat
  BY DEF Remaining, HoldRow
<1>4. /\ \A x \in Subs : Entries[x] \in Nat /\ Entries'[x] \in Nat
      /\ Entries'[s] = Remaining(h) /\ Entries[s] = Remaining(hold[s])
      /\ \A x \in Subs \ {s} : Entries'[x] = Entries[x]
  BY <1>1, <1>3, RowTypes DEF Entries
<1>5. \A m : /\ OnLedger(m) = SumFunctionOnSet(Entries, SubsBy(m))
             /\ SubsBy(m) \in SUBSET Subs /\ IsFiniteSet(SubsBy(m))
             /\ OnLedger(m)' = SumFunctionOnSet(Entries', SubsBy(m))
  <2>1. \A m : OnLedger(m)' = SumFunctionOnSet(Entries', SubsBy(m))
    BY DEF OnLedger, Entries, SubsBy
  <2> QED
    BY <2>1, LedgerSum
<1>6. ASSUME NEW m, m # s[2]
      PROVE  OnLedger(m)' = OnLedger(m)
  <2>1. \A x \in SubsBy(m) : Entries'[x] = Entries[x]
    BY <1>4, <1>6 DEF SubsBy
  <2>2. SumFunctionOnSet(Entries', SubsBy(m)) = SumFunctionOnSet(Entries, SubsBy(m))
    BY <1>5, <2>1, SumSame
  <2> QED
    BY <1>5, <2>2
<1>7. OnLedger(s[2])' = OnLedger(s[2]) + (Remaining(h) - Remaining(hold[s]))
  <2> DEFINE S == SubsBy(s[2])
  <2>1. s \in S
    BY DEF SubsBy
  <2>2. \A x \in S : Entries[x] \in Int /\ Entries'[x] \in Int
    BY <1>4, <1>5
  <2>3. \A x \in S \ {s} : Entries[x] = Entries'[x]
    BY <1>4, <1>5
  <2>4. IsFiniteSet(S)
    BY <1>5
  <2> HIDE DEF S
  <2>5. SumFunctionOnSet(Entries', S) = SumFunctionOnSet(Entries, S) + (Entries'[s] - Entries[s])
    BY <2>1, <2>2, <2>3, <2>4, SumUpdate
  <2> QED
    BY <1>4, <1>5, <2>5 DEF S
<1> QED
  BY <1>1, <1>2, <1>3, <1>6, <1>7

\* The hold entry is written before the row that counts it.
LEMMA PayHoldStep ==
  ASSUME TableTypes, NEW p \in Passes, proc \in [Passes -> Pass], PassInv(p), PayHold(p)
  PROVE  TableTypes' /\ PassInv(p)'
<1> DEFINE q == proc[p]
           s == <<q.t, q.m>>
           h == [held |-> q.held, released |-> 0, state |-> "held"]
           f == [q EXCEPT !.pc = "payMiner"]
<1>0. q \in Pass /\ PassOK(q)
  BY DEF PassInv
<1>1. /\ Goto(p, f) /\ UNCHANGED <<due, task, sub, acct, mature, crashes>>
      /\ hold' = [hold EXCEPT ![s] = h] /\ q.pc = "payHold"
  BY DEF PayHold, At
<1>2. q.left \subseteq SubsOf(q.t) /\ q.t \in q.todo /\ \A x \in q.todo : task[x] # "resolved"
  BY <1>0, <1>1 DEF PassOK, PayPCs, TaskPCs, CreditPCs
<1>3. /\ q.m \in Miners /\ s \in q.left /\ q.row = acct[q.m] /\ q.held <= q.amount
      /\ sub[s].reward = q.amount
  BY <1>0, <1>1 DEF PassOK, CreditPCs
<1>4. s \in Subs /\ s[1] = q.t /\ s[2] = q.m
  BY <1>2, <1>3 DEF SubsOf
<1>5. /\ f \in Pass /\ f.pc = "payMiner" /\ f.t = q.t /\ f.left = q.left /\ f.todo = q.todo
      /\ f.m = q.m /\ f.row = q.row /\ f.held = q.held /\ f.amount = q.amount
  BY <1>0 DEF Pass, PCs, TaskPCs, PayPCs, CreditPCs
<1>6. h \in HoldRow /\ h.released <= h.held /\ h.state = "held" /\ Remaining(h) = q.held /\ q.held \in Nat
  BY <1>0 DEF Pass, HoldRow, Remaining
<1>7. s \notin Booked(q, s[2])
  BY <1>1, <1>2, <1>3, <1>4 DEF Booked, InHand, PayPCs, CreditPCs
<1> HIDE DEF f, h
<1>8. /\ TableTypes'
      /\ hold'[s] = h /\ \A x \in Subs \ {s} : hold'[x] = hold[x]
      /\ \A m : m # s[2] => OnLedger(m)' = OnLedger(m)
      /\ \A m : m = s[2] => OnLedger(m)' = OnLedger(m) + (Remaining(h) - Remaining(hold[s]))
  <2> HIDE DEF s
  <2> QED
    BY <1>1, <1>4, <1>6, WriteEntry
<1>9. proc'[p] = f /\ \A x \in Passes \ {p} : proc'[x] = proc[x]
  BY <1>1 DEF Goto
<1>10. Alone(p)'
  BY <1>9 DEF PassInv, Alone, At
<1>11. PassOK(proc[p])'
  BY <1>1, <1>2, <1>3, <1>5, <1>9 DEF PassOK, TaskPCs, PayPCs, CreditPCs, ReleasePCs, SubsOf
<1>12. /\ \A m : (Booked(proc[p], m))' = Booked(q, m)
       /\ Rewards' = Rewards /\ (\A n : Chances(n)' = Chances(n))
  BY <1>1, <1>5, <1>9 DEF Booked, InHand, PayPCs, CreditPCs, Rewards, Chances
<1>13. Kept(proc[p])'
  BY <1>1, <1>12 DEF Kept, PassInv
<1>14. ASSUME crashes = 0
       PROVE  Exact(proc[p])'
  <2>0. Exact(q)
    BY <1>14 DEF PassInv
  <2>1. Remaining(hold[s]) = 0
    BY <1>1, <1>4, <1>7, <2>0 DEF Exact
  <2>2. ASSUME NEW m \in Miners
        PROVE  /\ acct[m].total + acct[m].held = SumFunctionOnSet(Rewards, Booked(q, m))
               /\ OnLedger(m)' + 0 = acct[m].held + (IF f.pc = "payMiner" /\ f.m = m THEN f.held ELSE 0)
               /\ acct[m].settled = Cardinality(Booked(q, m))
               /\ acct[m].chances = Cardinality(Chances(m)) + 0
    <3>1. /\ acct[m].total + acct[m].held = SumFunctionOnSet(Rewards, Booked(q, m))
          /\ OnLedger(m) + 0 = acct[m].held + 0
          /\ acct[m].settled = Cardinality(Booked(q, m))
          /\ acct[m].chances = Cardinality(Chances(m)) + 0
      BY <1>1, <2>0 DEF Exact, Counted
    <3>2. OnLedger(m) \in Nat /\ acct[m].held \in Nat
      BY RowTypes, LedgerSum
    <3>3. OnLedger(m)' + 0 = acct[m].held + (IF f.pc = "payMiner" /\ f.m = m THEN f.held ELSE 0)
      BY <1>4, <1>5, <1>6, <1>8, <2>1, <3>1, <3>2
    <3> QED
      BY <3>1, <3>3
  <2>3. \A x \in Subs : x \in Booked(q, x[2]) \/ x = s \/ Remaining(hold'[x]) = 0
    BY <1>1, <1>8, <2>0 DEF Exact
  <2>4. /\ \A m : (IF f.pc = "releaseHold" /\ f.m = m THEN f.gone ELSE 0) = 0
        /\ \A m : (IF Counted(f, m) THEN 1 ELSE 0) = 0
    BY <1>5 DEF Counted
  <2>5. <<f.t, f.m>> = s /\ Remaining(hold'[s]) = f.held /\ f.pc = "payMiner"
    BY <1>5, <1>6, <1>8
  <2> QED
    BY <1>1, <1>9, <1>12, <2>2, <2>3, <2>4, <2>5 DEF Exact
<1> QED
  BY <1>1, <1>8, <1>10, <1>11, <1>13, <1>14 DEF PassInv

\* An entry is released before the row that credits it.
LEMMA ReleaseHoldStep ==
  ASSUME TableTypes, NEW p \in Passes, proc \in [Passes -> Pass], PassInv(p), ReleaseHold(p)
  PROVE  TableTypes' /\ PassInv(p)'
<1> DEFINE q == proc[p]
<1>0. q \in Pass /\ PassOK(q)
  BY DEF PassInv
<1>1. /\ UNCHANGED <<due, task, sub, acct, mature, crashes>> /\ q.pc = "releaseHold"
  BY DEF ReleaseHold, At
<1>2. PICK e \in q.entries :
        /\ hold' = [hold EXCEPT ![e[1]] = [e[2] EXCEPT !.released = e[2].held, !.state = "released"]]
        /\ Goto(p, [q EXCEPT !.gone = @ + Remaining(e[2]), !.entries = @ \ {e}])
  BY DEF ReleaseHold
<1>3. /\ q.left \subseteq Miners /\ \A m \in q.left : q.snap[m] = acct[m]
      /\ q.m \in q.left /\ q.entries = {<<x, hold[x]>> : x \in DueEntries(q.m)}
  BY <1>0, <1>1 DEF PassOK, ReleasePCs
<1>4. PICK s \in DueEntries(q.m) : e = <<s, hold[s]>>
  BY <1>2, <1>3
<1> DEFINE h == [hold[s] EXCEPT !.released = hold[s].held, !.state = "released"]
           f == [q EXCEPT !.gone = q.gone + Remaining(hold[s]), !.entries = q.entries \ {e}]
<1>5. s \in Subs /\ s[2] = q.m /\ Remaining(hold[s]) \in Nat /\ hold[s] \in HoldRow
  BY RowTypes DEF DueEntries
<1>6. hold' = [hold EXCEPT ![s] = h] /\ Goto(p, f)
  <2> e[1] = s /\ e[2] = hold[s]
    BY <1>4
  <2> QED
    BY <1>0, <1>2
<1>7. h \in HoldRow /\ h.released = h.held /\ Remaining(h) = 0
  <2>1. h \in HoldRow /\ h.released = h.held
    BY <1>5 DEF HoldRow
  <2>2. h.held \in Nat
    BY <2>1 DEF HoldRow
  <2> HIDE DEF h
  <2> QED
    BY <2>1, <2>2 DEF Remaining
<1>8. /\ f \in Pass /\ f.pc = "releaseHold" /\ f.left = q.left /\ f.m = q.m /\ f.snap = q.snap
      /\ f.gone = q.gone + Remaining(hold[s]) /\ f.entries = q.entries \ {e} /\ q.gone \in Nat
  <2>1. q.gone \in Nat /\ q.gone + Remaining(hold[s]) \in Nat
    BY <1>0, <1>5 DEF Pass
  <2>2. q.entries \ {e} \in SUBSET (Subs \X HoldRow)
    BY <1>0 DEF Pass
  <2> QED
    BY <1>0, <1>1, <2>1, <2>2 DEF Pass
<1> HIDE DEF h, f
<1>9. h.released <= h.held /\ ~(h.released < h.held)
  BY <1>7 DEF HoldRow
<1>10. /\ TableTypes'
       /\ hold'[s] = h /\ \A x \in Subs \ {s} : hold'[x] = hold[x]
       /\ \A m : m # s[2] => OnLedger(m)' = OnLedger(m)
       /\ \A m : m = s[2] => OnLedger(m)' = OnLedger(m) + (Remaining(h) - Remaining(hold[s]))
  BY <1>1, <1>5, <1>6, <1>7, <1>9, WriteEntry
<1>11. proc'[p] = f /\ \A x \in Passes \ {p} : proc'[x] = proc[x]
  BY <1>6 DEF Goto
<1>12. Alone(p)'
  BY <1>11 DEF PassInv, Alone, At
<1>13. f.entries = {<<x, hold'[x]>> : x \in {y \in Subs : y[2] = q.m /\ Remaining(hold'[y]) > 0}}
  <2>1. DueEntries(q.m) = {x \in Subs : x[2] = q.m /\ Remaining(hold[x]) > 0}
    BY DEF DueEntries
  <2>3. {x \in Subs : x[2] = q.m /\ Remaining(hold'[x]) > 0} = DueEntries(q.m) \ {s}
    BY <1>7, <1>10, <2>1
  <2>4. f.entries = {<<x, hold[x]>> : x \in DueEntries(q.m) \ {s}}
    BY <1>3, <1>4, <1>8
  <2>5. \A x \in DueEntries(q.m) \ {s} : hold'[x] = hold[x]
    BY <1>10 DEF DueEntries
  <2> QED
    BY <2>3, <2>4, <2>5
<1>14. PassOK(proc[p])'
  BY <1>1, <1>3, <1>8, <1>11, <1>13 DEF PassOK, TaskPCs, PayPCs, CreditPCs, ReleasePCs, DueEntries
<1>15. /\ \A m : (Booked(proc[p], m))' = Booked(q, m)
       /\ Rewards' = Rewards /\ (\A n : Chances(n)' = Chances(n))
  BY <1>1, <1>8, <1>11 DEF Booked, InHand, PayPCs, CreditPCs, Rewards, Chances
<1>16. Kept(proc[p])'
  BY <1>1, <1>15 DEF Kept, PassInv
<1>17. ASSUME crashes = 0
       PROVE  Exact(proc[p])'
  <2>0. Exact(q)
    BY <1>17 DEF PassInv
  <2>2. ASSUME NEW m \in Miners
        PROVE  /\ acct[m].total + acct[m].held = SumFunctionOnSet(Rewards, Booked(q, m))
               /\ OnLedger(m)' + (IF f.pc = "releaseHold" /\ f.m = m THEN f.gone ELSE 0)
                    = acct[m].held + 0
               /\ acct[m].settled = Cardinality(Booked(q, m))
               /\ acct[m].chances = Cardinality(Chances(m)) + 0
    <3>1. /\ acct[m].total + acct[m].held = SumFunctionOnSet(Rewards, Booked(q, m))
          /\ OnLedger(m) + (IF m = q.m THEN q.gone ELSE 0) = acct[m].held + 0
          /\ acct[m].settled = Cardinality(Booked(q, m))
          /\ acct[m].chances = Cardinality(Chances(m)) + 0
      BY <1>1, <2>0 DEF Exact, Counted
    <3>2. OnLedger(m) \in Nat /\ acct[m].held \in Nat
      BY RowTypes, LedgerSum
    <3>3. OnLedger(m)' + (IF f.pc = "releaseHold" /\ f.m = m THEN f.gone ELSE 0) = acct[m].held + 0
      BY <1>5, <1>7, <1>8, <1>10, <3>1, <3>2
    <3> QED
      BY <3>1, <3>3
  <2>3. \A x \in Subs : x \in Booked(q, x[2]) \/ Remaining(hold'[x]) = 0
    BY <1>1, <1>7, <1>10, <2>0 DEF Exact
  <2>4. /\ \A m : (IF f.pc = "payMiner" /\ f.m = m THEN f.held ELSE 0) = 0
        /\ \A m : (IF Counted(f, m) THEN 1 ELSE 0) = 0
    BY <1>8 DEF Counted
  <2> QED
    BY <1>1, <1>8, <1>11, <1>15, <2>2, <2>3, <2>4 DEF Exact
<1> QED
  BY <1>1, <1>10, <1>12, <1>14, <1>16, <1>17 DEF PassInv

------------------------------------------------------------------------------
(* The steps that write a miner's row.                                      *)

\* What a write of one account leaves alone.
LEMMA WriteAccount ==
  ASSUME TableTypes, NEW p \in Passes, proc \in [Passes -> Pass], PassInv(p), NEW f, Goto(p, f),
         NEW m \in Miners, NEW a \in Account, acct' = [acct EXCEPT ![m] = a],
         UNCHANGED <<due, task, sub, hold, mature, crashes>>
  PROVE  /\ TableTypes' /\ Alone(p)' /\ proc'[p] = f
         /\ acct'[m] = a /\ \A n \in Miners \ {m} : acct'[n] = acct[n]
         /\ Rewards' = Rewards /\ (\A n : Chances(n)' = Chances(n))
         /\ \A n : OnLedger(n)' = OnLedger(n)
<1>1. proc'[p] = f /\ \A x \in Passes \ {p} : proc'[x] = proc[x]
  BY DEF Goto
<1>2. Alone(p)'
  BY <1>1 DEF PassInv, Alone, At
<1>3. acct' \in [Miners -> Account] /\ acct'[m] = a /\ \A n \in Miners \ {m} : acct'[n] = acct[n]
  BY RowTypes
<1>4. TableTypes'
  BY <1>3 DEF TableTypes
<1>5. Rewards' = Rewards /\ (\A n : Chances(n)' = Chances(n)) /\ \A n : OnLedger(n)' = OnLedger(n)
  BY DEF Rewards, Chances, OnLedger
<1> QED
  BY <1>1, <1>2, <1>3, <1>4, <1>5

\* The credit of a submission books it.
LEMMA PayMinerStep ==
  ASSUME TableTypes, NEW p \in Passes, proc \in [Passes -> Pass], PassInv(p), PayMiner(p)
  PROVE  TableTypes' /\ PassInv(p)'
<1> DEFINE q == proc[p]
           b == acct[q.m]
           s == <<q.t, q.m>>
           a == [b EXCEPT !.total = b.total + (q.amount - q.held), !.held = b.held + q.held,
                          !.settled = b.settled + 1]
           f == [q EXCEPT !.pc = "pay", !.left = q.left \ {s}]
<1>0. q \in Pass /\ PassOK(q)
  BY DEF PassInv
<1>1. q.pc = "payMiner" /\ UNCHANGED <<due, task, sub, hold, mature, crashes>>
  BY DEF PayMiner, At
<1>2. q.left \subseteq SubsOf(q.t) /\ q.t \in q.todo /\ \A x \in q.todo : task[x] # "resolved"
  BY <1>0, <1>1 DEF PassOK, PayPCs, TaskPCs, CreditPCs
<1>3. /\ q.m \in Miners /\ s \in q.left /\ q.row = b /\ q.held <= q.amount
      /\ sub[s].reward = q.amount
  BY <1>0, <1>1 DEF PassOK, CreditPCs
<1>4. s \in Subs /\ s[1] = q.t /\ s[2] = q.m
  BY <1>2, <1>3 DEF SubsOf
<1>5. /\ b \in Account /\ q.amount \in Nat /\ q.held \in Nat
      /\ b.total \in Nat /\ b.held \in Nat /\ b.settled \in Nat /\ b.chances \in Nat
  BY <1>0, <1>3, RowTypes DEF Pass
<1>6. Goto(p, f) /\ acct' = [acct EXCEPT ![q.m] = a]
  <2>1. acct' = [acct EXCEPT ![q.m].total = q.row.total + (q.amount - q.held),
                             ![q.m].held = q.row.held + q.held,
                             ![q.m].settled = q.row.settled + 1]
    BY DEF PayMiner
  <2>2. Goto(p, f)
    BY <1>0 DEF PayMiner
  <2> QED
    BY <1>3, <2>1, <2>2, RowTypes
<1>7. /\ a \in Account /\ a.total = b.total + (q.amount - q.held) /\ a.held = b.held + q.held
      /\ a.settled = b.settled + 1 /\ a.chances = b.chances
  <2> b.total + (q.amount - q.held) \in Nat /\ b.held + q.held \in Nat /\ b.settled + 1 \in Nat
    BY <1>3, <1>5
  <2> HIDE DEF b
  <2> QED
    BY <1>5 DEF Account
<1>8. f \in Pass /\ f.pc = "pay" /\ f.t = q.t /\ f.left = q.left \ {s} /\ f.todo = q.todo
  <2>1. q.left \ {s} \in SUBSET Subs
    BY <1>2 DEF SubsOf
  <2> HIDE DEF s
  <2> QED
    BY <1>0, <2>1 DEF Pass, PCs, TaskPCs, PayPCs
<1>9. s \notin Booked(q, s[2])
  BY <1>1, <1>2, <1>3, <1>4 DEF Booked, InHand, PayPCs, CreditPCs
<1> HIDE DEF a, f
<1>10. /\ TableTypes' /\ Alone(p)' /\ proc'[p] = f
       /\ acct'[q.m] = a /\ \A n \in Miners \ {q.m} : acct'[n] = acct[n]
       /\ Rewards' = Rewards /\ (\A n : Chances(n)' = Chances(n))
       /\ \A n : OnLedger(n)' = OnLedger(n)
  BY <1>1, <1>3, <1>6, <1>7, WriteAccount
<1>11. PassOK(proc[p])'
  BY <1>1, <1>2, <1>8, <1>10 DEF PassOK, TaskPCs, PayPCs, CreditPCs, ReleasePCs, SubsOf
<1>12. \A x \in Subs : InHand(f, x) <=> InHand(q, x) \/ x = s
  BY <1>1, <1>4, <1>8 DEF InHand, PayPCs, CreditPCs
<1>13. \A m : (Booked(proc[p], m))' = IF m = q.m THEN Booked(q, m) \cup {s} ELSE Booked(q, m)
  <2>1. \A m : (Booked(proc[p], m))' = {x \in Subs : x[2] = m /\ (task[x[1]] = "resolved" \/ InHand(f, x))}
    BY <1>1, <1>10 DEF Booked, InHand
  <2> HIDE DEF s
  <2>2. \A m : {x \in Subs : x[2] = m /\ (task[x[1]] = "resolved" \/ InHand(f, x))}
                 = IF m = q.m THEN Booked(q, m) \cup {s} ELSE Booked(q, m)
    BY <1>4, <1>12 DEF Booked
  <2> QED
    BY <2>1, <2>2
<1> DEFINE B == Booked(q, q.m)  C == B \cup {s}
<1>14. IsFiniteSet(B) /\ B \subseteq Subs /\ s \notin B
  BY <1>4, <1>9, BookedFinite
<1>15. SumFunctionOnSet(Rewards, C) = q.amount + SumFunctionOnSet(Rewards, B)
  <2>1. \A x \in Subs : Rewards[x] \in Int
    BY RowTypes
  <2>2. \A x \in B \cup {s} : Rewards[x] \in Int
    BY <1>4, <1>14, <2>1
  <2>3. Rewards[s] = q.amount
    BY <1>3, <1>4, RowTypes
  <2> HIDE DEF B, s
  <2>4. SumFunctionOnSet(Rewards, B \cup {s}) = Rewards[s] + SumFunctionOnSet(Rewards, B)
    BY <1>14, <2>2, SumAdd
  <2> QED
    BY <2>3, <2>4
<1>16. SumFunctionOnSet(Rewards, B) \in Int
  <2>1. \A x \in B : Rewards[x] \in Int
    BY <1>14, RowTypes
  <2> QED
    BY <1>14, <2>1, SumIsInteger
<1>17. Cardinality(C) = Cardinality(B) + 1
  BY <1>14, FS_AddElement
<1>18. Kept(proc[p])'
  <2>1. \A m \in Miners : acct[m].total + acct[m].held >= SumFunctionOnSet(Rewards, Booked(q, m))
    BY DEF Kept, PassInv
  <2>2. b.total + b.held >= SumFunctionOnSet(Rewards, B)
    BY <1>3, <2>1
  <2>3. a.total + a.held >= SumFunctionOnSet(Rewards, C)
    BY <1>3, <1>5, <1>7, <1>15, <1>16, <2>2
  <2>4. \A m \in Miners : acct'[m].total + acct'[m].held
                            >= SumFunctionOnSet(Rewards', (Booked(proc[p], m))')
    <3> SUFFICES ASSUME NEW m \in Miners
                 PROVE  acct'[m].total + acct'[m].held
                            >= SumFunctionOnSet(Rewards', (Booked(proc[p], m))')
      OBVIOUS
    <3>1. CASE m = q.m
      BY <1>10, <1>13, <2>3, <3>1
    <3>2. CASE m # q.m
      BY <1>10, <1>13, <2>1, <3>2
    <3> QED
      BY <3>1, <3>2
  <2> QED
    BY <2>4 DEF Kept
<1>19. ASSUME crashes = 0
       PROVE  Exact(proc[p])'
  <2>0. Exact(q)
    BY <1>19 DEF PassInv
  <2>1. \A m \in Miners :
          /\ acct[m].total + acct[m].held = SumFunctionOnSet(Rewards, Booked(q, m))
          /\ OnLedger(m) + 0 = acct[m].held + (IF m = q.m THEN q.held ELSE 0)
          /\ acct[m].settled = Cardinality(Booked(q, m))
          /\ acct[m].chances = Cardinality(Chances(m)) + 0
    BY <1>1, <2>0 DEF Exact, Counted
  <2>2. ASSUME NEW m \in Miners
        PROVE  /\ acct'[m].total + acct'[m].held = SumFunctionOnSet(Rewards, (Booked(proc[p], m))')
               /\ OnLedger(m) + 0 = acct'[m].held + 0
               /\ acct'[m].settled = Cardinality((Booked(proc[p], m))')
               /\ acct'[m].chances = Cardinality(Chances(m)) + 0
    <3>1. CASE m = q.m
      <4>1. /\ b.total + b.held = SumFunctionOnSet(Rewards, B)
            /\ OnLedger(m) + 0 = b.held + q.held
            /\ b.settled = Cardinality(B)
            /\ b.chances = Cardinality(Chances(m)) + 0
        BY <1>3, <2>1, <3>1
      <4>2. (Booked(proc[p], m))' = C /\ acct'[m] = a
        BY <1>10, <1>13, <3>1
      <4>3. a.total + a.held = SumFunctionOnSet(Rewards, C)
        BY <1>3, <1>5, <1>7, <1>15, <1>16, <4>1
      <4>4. OnLedger(m) + 0 = a.held + 0
        BY <1>5, <1>7, <4>1
      <4> HIDE DEF B, C, b
      <4> QED
        BY <1>7, <1>17, <4>1, <4>2, <4>3, <4>4
    <3>2. CASE m # q.m
      <4>1. (Booked(proc[p], m))' = Booked(q, m) /\ acct'[m] = acct[m]
        BY <1>10, <1>13, <3>2
      <4> QED
        BY <2>1, <3>2, <4>1
    <3> QED
      BY <3>1, <3>2
  <2>3. \A x \in Subs : x \in (Booked(proc[p], x[2]))' \/ Remaining(hold[x]) = 0
    <3>1. \A x \in Subs : x \in Booked(q, x[2]) \/ x = s \/ Remaining(hold[x]) = 0
      BY <2>0 DEF Exact
    <3> QED
      BY <1>4, <1>13, <3>1
  <2>4. /\ \A m : (IF f.pc = "releaseHold" /\ f.m = m THEN f.gone ELSE 0) = 0
        /\ \A m : (IF f.pc = "payMiner" /\ f.m = m THEN f.held ELSE 0) = 0
        /\ \A m : (IF Counted(f, m) THEN 1 ELSE 0) = 0
    BY <1>8 DEF Counted
  <2> QED
    BY <1>1, <1>8, <1>10, <2>2, <2>3, <2>4 DEF Exact
<1> QED
  BY <1>1, <1>10, <1>11, <1>18, <1>19 DEF PassInv

\* A chance is counted for one miner.
LEMMA CountChanceStep ==
  ASSUME TableTypes, NEW p \in Passes, proc \in [Passes -> Pass], PassInv(p), CountChance(p)
  PROVE  TableTypes' /\ PassInv(p)'
<1> DEFINE q == proc[p]
<1>0. q \in Pass /\ PassOK(q)
  BY DEF PassInv
<1>1. q.pc = "participation" /\ UNCHANGED <<due, task, sub, hold, mature, crashes>>
  BY DEF CountChance, At
<1>2. PICK m \in q.left : /\ acct' = [acct EXCEPT ![m].chances = q.snap[m].chances + 1]
                          /\ Goto(p, [q EXCEPT !.left = @ \ {m}])
  BY DEF CountChance
<1> DEFINE b == acct[m]
           a == [b EXCEPT !.chances = b.chances + 1]
           f == [q EXCEPT !.left = q.left \ {m}]
<1>3. /\ q.left \subseteq Miners /\ (\A n \in q.left : q.snap[n] = acct[n]) /\ m \in Miners
      /\ q.t \in q.todo /\ (\A x \in q.todo : task[x] # "resolved") /\ q.left \subseteq Entrants(q.t)
  BY <1>0, <1>1 DEF PassOK, TaskPCs
<1>4. b \in Account /\ b.total \in Nat /\ b.held \in Nat /\ b.settled \in Nat /\ b.chances \in Nat
  BY <1>3, RowTypes
<1>5. Goto(p, f) /\ acct' = [acct EXCEPT ![m] = a]
  <2>1. Goto(p, f)
    BY <1>0, <1>2
  <2> QED
    BY <1>2, <1>3, <2>1, RowTypes
<1>6. /\ a \in Account /\ a.total = b.total /\ a.held = b.held
      /\ a.settled = b.settled /\ a.chances = b.chances + 1
  <2> HIDE DEF b
  <2> QED
    BY <1>4 DEF Account
<1>7. /\ f \in Pass /\ f.pc = "participation" /\ f.t = q.t /\ f.left = q.left \ {m}
      /\ f.todo = q.todo /\ f.snap = q.snap
  <2>1. q.left \ {m} \in SUBSET Miners
    BY <1>3
  <2> QED
    BY <1>0, <1>1, <2>1 DEF Pass
<1> HIDE DEF a, f, b
<1>8. /\ TableTypes' /\ Alone(p)' /\ proc'[p] = f
      /\ acct'[m] = a /\ \A n \in Miners \ {m} : acct'[n] = acct[n]
      /\ Rewards' = Rewards /\ (\A n : Chances(n)' = Chances(n))
      /\ \A n : OnLedger(n)' = OnLedger(n)
  BY <1>1, <1>3, <1>5, <1>6, WriteAccount
<1>9. PassOK(proc[p])'
  BY <1>1, <1>3, <1>7, <1>8 DEF PassOK, TaskPCs, PayPCs, CreditPCs, ReleasePCs
<1>10. \A n : (Booked(proc[p], n))' = Booked(q, n)
  BY <1>1, <1>7, <1>8 DEF Booked, InHand, PayPCs, CreditPCs
<1>11. \A n \in Miners : /\ acct'[n].total = acct[n].total /\ acct'[n].held = acct[n].held
                         /\ acct'[n].settled = acct[n].settled
                         /\ acct'[n].chances = acct[n].chances + (IF n = m THEN 1 ELSE 0)
  <2> \A n \in Miners : acct[n].chances + 0 = acct[n].chances
    BY RowTypes
  <2> QED
    BY <1>6, <1>8 DEF b
<1>12. Kept(proc[p])'
  BY <1>8, <1>10, <1>11 DEF Kept, PassInv
<1>13. ASSUME crashes = 0
       PROVE  Exact(proc[p])'
  <2>0. Exact(q)
    BY <1>13 DEF PassInv
  <2>1. \A n \in Miners :
          /\ acct[n].total + acct[n].held = SumFunctionOnSet(Rewards, Booked(q, n))
          /\ OnLedger(n) + 0 = acct[n].held + 0
          /\ acct[n].settled = Cardinality(Booked(q, n))
          /\ acct[n].chances = Cardinality(Chances(n)) + (IF Counted(q, n) THEN 1 ELSE 0)
    BY <1>1, <2>0 DEF Exact, Counted
  <2>2. \A n : Cardinality(Chances(n)) \in Nat
    BY ChancesFinite
  <2>3. \A n \in Miners :
          acct'[n].chances = Cardinality(Chances(n))
                               + (IF Counted(f, n) THEN 1 ELSE 0)
    BY <1>1, <1>2, <1>3, <1>7, <1>11, <2>1, <2>2 DEF Counted
  <2>4. \A x \in Subs : x \in Booked(q, x[2]) \/ Remaining(hold[x]) = 0
    BY <1>1, <2>0 DEF Exact
  <2>5. /\ \A n : (IF f.pc = "releaseHold" /\ f.m = n THEN f.gone ELSE 0) = 0
        /\ \A n : (IF f.pc = "payMiner" /\ f.m = n THEN f.held ELSE 0) = 0
    BY <1>7
  <2> QED
    BY <1>1, <1>7, <1>8, <1>10, <1>11, <2>1, <2>3, <2>4, <2>5 DEF Exact
<1> QED
  BY <1>1, <1>8, <1>9, <1>12, <1>13 DEF PassInv

\* The released entries, or what a crash left held, go to the total.
LEMMA ReleaseMinerStep ==
  ASSUME TableTypes, NEW p \in Passes, proc \in [Passes -> Pass], PassInv(p), ReleaseMiner(p)
  PROVE  TableTypes' /\ PassInv(p)'
<1> DEFINE q == proc[p]
           b == acct[q.m]
           a == Released(b, q.gone)
           f == [q EXCEPT !.pc = "release", !.left = q.left \ {q.m}, !.gone = 0]
<1>0. q \in Pass /\ PassOK(q)
  BY DEF PassInv
<1>1. q.pc = "releaseHold" /\ q.entries = {} /\ UNCHANGED <<due, task, sub, hold, mature, crashes>>
  BY DEF ReleaseMiner, At
<1>2. /\ q.left \subseteq Miners /\ (\A n \in q.left : q.snap[n] = acct[n]) /\ q.m \in q.left
      /\ q.entries = {<<x, hold[x]>> : x \in DueEntries(q.m)}
  BY <1>0, <1>1 DEF PassOK, ReleasePCs
<1>3. /\ b \in Account /\ b.total \in Nat /\ b.held \in Nat /\ b.settled \in Nat /\ b.chances \in Nat
      /\ q.gone \in Nat /\ q.snap[q.m] = b /\ q.m \in Miners
  BY <1>0, <1>2, RowTypes DEF Pass
<1>4. /\ a \in Account /\ a.settled = b.settled /\ a.chances = b.chances
      /\ a.total = b.total + (IF q.gone > 0 THEN q.gone ELSE b.held)
      /\ a.held = IF q.gone > 0 /\ b.held > q.gone THEN b.held - q.gone ELSE 0
  <2> DEFINE g == q.gone
  <2>1. g \in Nat /\ b \in Account
    BY <1>3
  <2> HIDE DEF b, g
  <2>2. Released(b, g) =
          IF g > 0 THEN [b EXCEPT !.total = b.total + g, !.held = IF b.held > g THEN b.held - g ELSE 0]
                   ELSE [b EXCEPT !.total = b.total + b.held, !.held = 0]
    BY <2>1 DEF Released, Account
  <2>3. b.total \in Nat /\ b.held \in Nat
    BY <1>3
  <2>4. CASE g > 0
    <3> DEFINE h == IF b.held > g THEN b.held - g ELSE 0
    <3>1. h \in Nat /\ b.total + g \in Nat
      BY <2>1, <2>3
    <3>2. Released(b, g) = [b EXCEPT !.total = b.total + g, !.held = h]
      BY <2>2, <2>4
    <3> HIDE DEF h
    <3>3. /\ Released(b, g) \in Account /\ Released(b, g).settled = b.settled
          /\ Released(b, g).chances = b.chances /\ Released(b, g).total = b.total + g
          /\ Released(b, g).held = h
      BY <2>1, <3>1, <3>2 DEF Account
    <3> QED
      BY <2>4, <3>3 DEF h, g
  <2>5. CASE ~(g > 0)
    <3> DEFINE t == b.total + b.held
               h == 0
    <3>1. t \in Nat /\ h \in Nat
      BY <2>3
    <3>2. Released(b, g) = [b EXCEPT !.total = t, !.held = h]
      BY <2>2, <2>5
    <3> HIDE DEF t, h
    <3>3. /\ Released(b, g) \in Account /\ Released(b, g).settled = b.settled
          /\ Released(b, g).chances = b.chances /\ Released(b, g).total = t
          /\ Released(b, g).held = h
      BY <2>1, <3>1, <3>2 DEF Account
    <3> QED
      BY <2>5, <3>3 DEF t, h, g
  <2> QED
    BY <2>4, <2>5
<1>5. Goto(p, f) /\ acct' = [acct EXCEPT ![q.m] = a]
  <2>1. Goto(p, f)
    BY <1>0 DEF ReleaseMiner
  <2>2. acct' = IF a = b THEN acct
                ELSE [acct EXCEPT ![q.m].total = a.total, ![q.m].held = a.held]
    BY <1>3 DEF ReleaseMiner
  <2>3. [b EXCEPT !.total = a.total, !.held = a.held] = a
    <3> HIDE DEF a, b
    <3> QED
      BY <1>3, <1>4 DEF Account
  <2>4. acct \in [Miners -> Account]
    BY RowTypes
  <2>5. CASE a = b
    BY <1>3, <2>1, <2>2, <2>4, <2>5
  <2>6. CASE a # b
    <3>1. acct' = [acct EXCEPT ![q.m] = [b EXCEPT !.total = a.total, !.held = a.held]]
      BY <1>3, <2>2, <2>4, <2>6
    <3> QED
      BY <2>1, <2>3, <3>1
  <2> QED
    BY <2>5, <2>6
<1>6. f \in Pass /\ f.pc = "release" /\ f.left = q.left \ {q.m} /\ f.snap = q.snap
  <2>1. q.left \ {q.m} \in SUBSET Miners
    BY <1>2
  <2> QED
    BY <1>0, <2>1 DEF Pass, PCs, ReleasePCs
<1> HIDE DEF a, f
<1>7. /\ TableTypes' /\ Alone(p)' /\ proc'[p] = f
      /\ acct'[q.m] = a /\ \A n \in Miners \ {q.m} : acct'[n] = acct[n]
      /\ Rewards' = Rewards /\ (\A n : Chances(n)' = Chances(n))
      /\ \A n : OnLedger(n)' = OnLedger(n)
  BY <1>1, <1>3, <1>4, <1>5, WriteAccount
<1>8. PassOK(proc[p])'
  BY <1>1, <1>2, <1>6, <1>7 DEF PassOK, TaskPCs, PayPCs, CreditPCs, ReleasePCs
<1>9. \A n : (Booked(proc[p], n))' = Booked(q, n)
  BY <1>1, <1>6, <1>7 DEF Booked, InHand, PayPCs, CreditPCs
<1>10. ASSUME NEW n
       PROVE  SumFunctionOnSet(Rewards, Booked(q, n)) \in Int
  <2>1. Booked(q, n) \subseteq Subs /\ IsFiniteSet(Booked(q, n))
    BY BookedFinite
  <2>2. \A x \in Booked(q, n) : Rewards[x] \in Int
    BY <2>1, RowTypes
  <2> QED
    BY <2>1, <2>2, SumIsInteger
<1>11. Kept(proc[p])'
  <2>1. \A n \in Miners : acct[n].total + acct[n].held >= SumFunctionOnSet(Rewards, Booked(q, n))
    BY DEF Kept, PassInv
  <2>2. a.total + a.held >= b.total + b.held
    <3> HIDE DEF b
    <3> QED
      BY <1>3, <1>4
  <2>3. a.total + a.held >= SumFunctionOnSet(Rewards, Booked(q, q.m))
    <3>1. b.total + b.held >= SumFunctionOnSet(Rewards, Booked(q, q.m))
      BY <1>3, <2>1
    <3>2. a.total \in Nat /\ a.held \in Nat
      BY <1>4 DEF Account
    <3>3. SumFunctionOnSet(Rewards, Booked(q, q.m)) \in Int
      BY <1>10
    <3> QED
      BY <1>3, <2>2, <3>1, <3>2, <3>3
  <2>4. ASSUME NEW n \in Miners
        PROVE  acct'[n].total + acct'[n].held >= SumFunctionOnSet(Rewards, Booked(q, n))
    <3>1. CASE n = q.m
      BY <1>7, <2>3, <3>1
    <3>2. CASE n # q.m
      BY <1>7, <2>1, <3>2
    <3> QED
      BY <3>1, <3>2
  <2> QED
    BY <1>7, <1>9, <2>4 DEF Kept
<1>12. ASSUME crashes = 0
       PROVE  Exact(proc[p])'
  <2>0. Exact(q)
    BY <1>12 DEF PassInv
  <2>1. \A n \in Miners :
          /\ acct[n].total + acct[n].held = SumFunctionOnSet(Rewards, Booked(q, n))
          /\ OnLedger(n) + (IF q.m = n THEN q.gone ELSE 0) = acct[n].held + 0
          /\ acct[n].settled = Cardinality(Booked(q, n))
          /\ acct[n].chances = Cardinality(Chances(n)) + 0
    BY <1>1, <2>0 DEF Exact, Counted
  <2>2. OnLedger(q.m) = 0
    <3>1. DueEntries(q.m) = {}
      BY <1>1, <1>2
    <3>2. /\ OnLedger(q.m) = SumFunctionOnSet(Entries, SubsBy(q.m))
          /\ SubsBy(q.m) \in SUBSET Subs /\ IsFiniteSet(SubsBy(q.m))
      BY LedgerSum
    <3>3. \A x \in SubsBy(q.m) : Entries[x] = 0
      BY <3>1, RowTypes DEF Entries, SubsBy, DueEntries
    <3>4. SumFunctionOnSet(Entries, SubsBy(q.m)) = 0
      BY <3>2, <3>3, SumIsZero
    <3> QED
      BY <3>2, <3>4
  <2>3. q.gone = b.held
    BY <1>3, <2>1, <2>2
  <2>4. a.total + a.held = b.total + b.held /\ a.held = 0
    <3> HIDE DEF b
    <3> QED
      BY <1>3, <1>4, <2>3
  <2>5. ASSUME NEW n \in Miners
        PROVE  /\ acct'[n].total + acct'[n].held = SumFunctionOnSet(Rewards, Booked(q, n))
               /\ OnLedger(n) + 0 = acct'[n].held + 0
               /\ acct'[n].settled = Cardinality(Booked(q, n))
               /\ acct'[n].chances = Cardinality(Chances(n)) + 0
    <3>1. CASE n = q.m
      <4>1. acct'[n] = a
        BY <1>7, <3>1
      <4>2. a.total + a.held = SumFunctionOnSet(Rewards, Booked(q, n))
        BY <1>3, <2>1, <2>4, <3>1
      <4>3. a.settled = Cardinality(Booked(q, n)) /\ a.chances = Cardinality(Chances(n)) + 0
        BY <1>3, <1>4, <2>1, <3>1
      <4> QED
        BY <2>2, <2>4, <3>1, <4>1, <4>2, <4>3
    <3>2. CASE n # q.m
      <4>1. acct'[n] = acct[n]
        BY <1>7, <3>2
      <4> QED
        BY <2>1, <3>2, <4>1
    <3> QED
      BY <3>1, <3>2
  <2>6. \A x \in Subs : x \in Booked(q, x[2]) \/ Remaining(hold[x]) = 0
    BY <1>1, <2>0 DEF Exact
  <2>7. /\ \A n : (IF f.pc = "releaseHold" /\ f.m = n THEN f.gone ELSE 0) = 0
        /\ \A n : (IF f.pc = "payMiner" /\ f.m = n THEN f.held ELSE 0) = 0
        /\ \A n : (IF Counted(f, n) THEN 1 ELSE 0) = 0
    BY <1>6 DEF Counted
  <2> QED
    BY <1>1, <1>6, <1>7, <1>9, <2>5, <2>6, <2>7 DEF Exact
<1> QED
  BY <1>1, <1>7, <1>8, <1>11, <1>12 DEF PassInv
------------------------------------------------------------------------------
(* The invariant, and what follows from it.                                 *)

\* A part of the submissions earned no more than the whole.
LEMMA PartOfRewards ==
  ASSUME TableTypes, NEW S \in SUBSET Subs, NEW A \in SUBSET S
  PROVE  /\ SumFunctionOnSet(Rewards, A) <= SumFunctionOnSet(Rewards, S)
         /\ SumFunctionOnSet(Rewards, A) \in Int /\ SumFunctionOnSet(Rewards, S) \in Int
<1> DEFINE g == [s \in S |-> IF s \in A THEN Rewards[s] ELSE 0]
<1>1. \A s \in S : Rewards[s] \in Nat
  BY RowTypes
<1>2. IsFiniteSet(S) /\ IsFiniteSet(A)
  BY SubmissionPairs, FS_Subset
<1>3. /\ \A s \in S : g[s] \in Int /\ Rewards[s] \in Int /\ g[s] <= Rewards[s]
      /\ \A s \in S \ A : g[s] = 0
      /\ \A s \in A : g[s] = Rewards[s] /\ Rewards[s] \in Int
  BY <1>1
<1> HIDE DEF g
<1>4. SumFunctionOnSet(g, S) <= SumFunctionOnSet(Rewards, S)
  BY <1>2, <1>3, SumMonotone
<1>5. SumFunctionOnSet(g, S) = SumFunctionOnSet(g, A)
  BY <1>2, <1>3, SumWithoutZeros
<1>6. SumFunctionOnSet(g, A) = SumFunctionOnSet(Rewards, A)
  BY <1>2, <1>3, SumSame
<1>7. SumFunctionOnSet(Rewards, A) \in Int /\ SumFunctionOnSet(Rewards, S) \in Int
  BY <1>2, <1>3, SumIsInteger
<1> QED
  BY <1>4, <1>5, <1>6, <1>7

\* A pass that is idle has booked the resolved tasks' submissions only.
LEMMA IdleBooks ==
  ASSUME NEW m
  PROVE  Booked(Idle, m) = SubsPaid(m)
BY IdleIsPass DEF Booked, SubsPaid, InHand, PayPCs, CreditPCs

\* Every step of the running pass keeps its part of the invariant.
LEMMA PassStep ==
  ASSUME TableTypes, NEW p \in Passes, proc \in [Passes -> Pass], PassInv(p),
         StartPass(p) \/ Step(p)
  PROVE  TableTypes' /\ PassInv(p)'
<1>1. CASE \/ StartPass(p)
           \/ \E t \in Tasks : PickUnresolved(p, t) \/ PickResolved(p, t)
           \/ PayRead(p) \/ ListParticipants(p) \/ ListMiners(p) \/ ReleaseRead(p) \/ EndPass(p)
  BY <1>1, ReadSteps
<1>2. CASE HangSubmission(p) \/ PaySubmission(p)
  BY <1>2, SubmissionSteps
<1>3. CASE HangTask(p) \/ ResolveTask(p)
  BY <1>3, TaskSteps
<1>4. CASE PayHold(p)
  BY <1>4, PayHoldStep
<1>5. CASE ReleaseHold(p)
  BY <1>5, ReleaseHoldStep
<1>6. CASE PayMiner(p)
  BY <1>6, PayMinerStep
<1>7. CASE CountChance(p)
  BY <1>7, CountChanceStep
<1>8. CASE ReleaseMiner(p)
  BY <1>8, ReleaseMinerStep
<1> QED
  BY <1>1, <1>2, <1>3, <1>4, <1>5, <1>6, <1>7, <1>8 DEF Step

\* A step of a pass moves that pass, and only a start leaves idle.
LEMMA StepMoves ==
  ASSUME NEW p \in Passes, proc \in [Passes -> Pass], StartPass(p) \/ Step(p)
  PROVE  /\ \E f : Goto(p, f)
         /\ At(p, "idle") => StartPass(p)
         /\ StartPass(p) => proc'[p].pc = "pick"
<1>1. \E f : Goto(p, f)
  BY DEF StartPass, Step, PickUnresolved, PickResolved, Pick, HangSubmission, HangTask, PayRead,
         PaySubmission, PayHold, PayMiner, ListParticipants, CountChance, ResolveTask, ListMiners,
         ReleaseRead, ReleaseHold, ReleaseMiner, EndPass
<1>2. At(p, "idle") => StartPass(p)
  BY DEF Step, PickUnresolved, PickResolved, Pick, HangSubmission, HangTask, PayRead,
         PaySubmission, PayHold, PayMiner, ListParticipants, CountChance, ResolveTask, ListMiners,
         ReleaseRead, ReleaseHold, ReleaseMiner, EndPass, At
<1>3. StartPass(p) => proc'[p].pc = "pick"
  BY IdleIsPass DEF StartPass, Goto, Pass
<1> QED
  BY <1>1, <1>2, <1>3

\* Whichever pass moves, it is the one the invariant speaks of.
LEMMA MovingPass ==
  ASSUME SettleInv, OneAtATime', NEW p \in Passes, StartPass(p) \/ Step(p)
  PROVE  PassInv(p)
<1>1. PICK r \in Passes : PassInv(r)
  BY DEF SettleInv
<1>2. CASE r = p
  BY <1>1, <1>2
<1>3. CASE r # p
  <2>1. At(p, "idle")
    BY <1>1, <1>3 DEF PassInv, Alone
  <2>2. /\ \E f : Goto(p, f)
        /\ proc'[p].pc = "pick"
    BY <2>1, StepMoves DEF SettleInv
  <2>3. proc'[r] = proc[r]
    BY <1>3, <2>2 DEF Goto, SettleInv
  <2>4. At(r, "idle")
    BY <1>3, <2>2, <2>3 DEF OneAtATime, At
  <2>5. proc[r] = Idle /\ proc[p] = Idle
    BY <2>1, <2>4 DEF SettleInv
  <2>6. Alone(p)
    BY <1>1, <2>4 DEF PassInv, Alone
  <2> QED
    BY <1>1, <2>5, <2>6 DEF PassInv
<1> QED
  BY <1>2, <1>3

\* A crash forgets what the pass had booked, and keeps what it had written.
LEMMA CrashStep ==
  ASSUME SettleInv, Crash
  PROVE  SettleInv'
<1>1. PICK p \in Passes : PassInv(p)
  BY DEF SettleInv
<1>2. /\ UNCHANGED <<due, task, sub, hold, acct, mature>> /\ crashes' = crashes + 1
      /\ proc' = [r \in Passes |-> Idle] /\ TableTypes
  BY DEF Crash, SettleInv
<1>3. TableTypes' /\ crashes' # 0
  BY <1>2 DEF TableTypes
<1>4. /\ proc' \in [Passes -> Pass] /\ Alone(p)' /\ proc'[p] = Idle
      /\ \A r \in Passes : proc'[r] = Idle
  BY <1>2, IdleIsPass DEF Alone, At
<1>5. PassOK(proc[p])'
  BY <1>4, IdleIsPass DEF PassOK, TaskPCs, PayPCs, CreditPCs, ReleasePCs
<1>6. Kept(proc[p])'
  <2>1. ASSUME NEW m \in Miners
        PROVE  acct[m].total + acct[m].held >= SumFunctionOnSet(Rewards, Booked(Idle, m))
    <3>1. acct[m].total + acct[m].held >= SumFunctionOnSet(Rewards, Booked(proc[p], m))
      BY <1>1 DEF PassInv, Kept
    <3>2. Booked(Idle, m) \in SUBSET Booked(proc[p], m)
      BY IdleBooks DEF Booked, SubsPaid
    <3>3. Booked(proc[p], m) \in SUBSET Subs
      BY BookedFinite
    <3>4. /\ SumFunctionOnSet(Rewards, Booked(Idle, m)) <= SumFunctionOnSet(Rewards, Booked(proc[p], m))
          /\ SumFunctionOnSet(Rewards, Booked(Idle, m)) \in Int
          /\ SumFunctionOnSet(Rewards, Booked(proc[p], m)) \in Int
      BY <1>2, <3>2, <3>3, PartOfRewards
    <3>5. acct[m].total \in Nat /\ acct[m].held \in Nat
      BY <1>2, RowTypes
    <3> QED
      BY <3>1, <3>4, <3>5
  <2>2. Rewards' = Rewards
    BY <1>2 DEF Rewards
  <2>3. \A m : (Booked(proc[p], m))' = Booked(Idle, m)
    BY <1>2, <1>4 DEF Booked, InHand
  <2> QED
    BY <1>2, <2>1, <2>2, <2>3 DEF Kept
<1> QED
  BY <1>3, <1>4, <1>5, <1>6 DEF SettleInv, PassInv

\* Time passes for tasks and miners; no row a pass relies on changes.
LEMMA TimeStep ==
  ASSUME SettleInv, UNCHANGED <<task, sub, hold, acct, proc, crashes>>,
         due' \in SUBSET Tasks, mature' \in SUBSET Miners
  PROVE  SettleInv'
<1>1. PICK p \in Passes : PassInv(p)
  BY DEF SettleInv
<1>2. TableTypes'
  BY DEF SettleInv, TableTypes
<1>3. /\ PassOK(proc[p])' /\ Alone(p)'
  BY <1>1 DEF PassInv, PassOK, Alone, At, DueEntries, SubsOf
<1>4. Rewards' = Rewards /\ (\A m : Chances(m)' = Chances(m)) /\ (\A m : OnLedger(m)' = OnLedger(m))
  BY DEF Rewards, Chances, OnLedger, Remaining
<1>5. \A m : (Booked(proc[p], m))' = Booked(proc[p], m)
  BY DEF Booked, InHand
<1>6. Kept(proc[p])'
  BY <1>1, <1>4, <1>5 DEF PassInv, Kept
<1>7. crashes' = 0 => Exact(proc[p])'
  BY <1>1, <1>4, <1>5 DEF PassInv, Exact
<1>8. proc' \in [Passes -> Pass] /\ \A r \in Passes : At(r, "idle")' => proc'[r] = Idle
  BY DEF SettleInv, At
<1> QED
  BY <1>2, <1>3, <1>6, <1>7, <1>8 DEF SettleInv, PassInv

\* The invariant holds of an empty service,
LEMMA SettleInit == Init => SettleInv
<1> SUFFICES ASSUME Init
             PROVE  SettleInv
  OBVIOUS
<1>1. PICK p \in Passes : TRUE
  BY SettlementAssumption
<1>2. /\ task = [t \in Tasks |-> "published"] /\ due = {} /\ mature = {} /\ crashes = 0
      /\ sub = [s \in Subs |-> [state |-> "revealed", reward |-> 0, held |-> 0]]
      /\ hold = [s \in Subs |-> NoHold]
      /\ acct = [m \in Miners |-> NewAccount]
      /\ proc = [r \in Passes |-> Idle]
  BY DEF Init
<1>3. TableTypes
  BY <1>2 DEF TableTypes, SubRow, HoldRow, Account, NoHold, NewAccount
<1>4. /\ proc \in [Passes -> Pass] /\ Alone(p) /\ proc[p] = Idle
      /\ \A r \in Passes : proc[r] = Idle
  BY <1>2, IdleIsPass DEF Alone, At
<1>5. PassOK(proc[p])
  BY <1>4, IdleIsPass DEF PassOK, TaskPCs, PayPCs, CreditPCs, ReleasePCs
<1>6. \A m : Booked(Idle, m) = {}
  BY <1>2, IdleBooks, SubmissionPairs DEF SubsPaid
<1>7. SumFunctionOnSet(Rewards, {}) = 0 /\ Cardinality({}) = 0
  BY SumEmpty, FS_EmptySet
<1>8. \A m \in Miners : /\ acct[m].total = 0 /\ acct[m].held = 0 /\ acct[m].settled = 0
                        /\ acct[m].chances = 0
  BY <1>2 DEF NewAccount
<1>9. Kept(proc[p])
  BY <1>4, <1>6, <1>7, <1>8 DEF Kept
<1>10. \A s \in Subs : Remaining(hold[s]) = 0
  BY <1>2 DEF Remaining, NoHold
<1>11. \A m \in Miners : OnLedger(m) = 0
  <2> TAKE m \in Miners
  <2>1. OnLedger(m) = SumFunctionOnSet(Entries, SubsBy(m)) /\ SubsBy(m) \in SUBSET Subs
        /\ IsFiniteSet(SubsBy(m))
    BY <1>3, LedgerSum
  <2>2. \A s \in SubsBy(m) : Entries[s] = 0
    BY <1>10, <2>1 DEF Entries
  <2> QED
    BY <2>1, <2>2, SumIsZero
<1>12. \A m : Chances(m) = {}
  BY <1>2 DEF Chances
<1>13. Exact(proc[p])
  <2>1. \A m \in Miners :
          /\ acct[m].total + acct[m].held = SumFunctionOnSet(Rewards, Booked(Idle, m))
          /\ OnLedger(m) + 0 = acct[m].held + 0
          /\ acct[m].settled = Cardinality(Booked(Idle, m))
          /\ acct[m].chances = Cardinality(Chances(m)) + 0
    BY <1>6, <1>7, <1>8, <1>11, <1>12
  <2> QED
    BY <1>4, <1>10, <2>1, IdleIsPass DEF Exact, Counted
<1> QED
  BY <1>3, <1>4, <1>5, <1>9, <1>13 DEF SettleInv, PassInv

\* is kept by every step while passes run one at a time,
LEMMA SettleStep == SettleInv /\ OneAtATime' /\ [Next]_vars => SettleInv'
<1> SUFFICES ASSUME SettleInv, OneAtATime', [Next]_vars
             PROVE  SettleInv'
  OBVIOUS
<1>1. ASSUME NEW p \in Passes, StartPass(p) \/ Step(p)
      PROVE  SettleInv'
  <2>1. PassInv(p)
    BY <1>1, MovingPass
  <2>2. TableTypes' /\ PassInv(p)'
    BY <1>1, <2>1, PassStep DEF SettleInv
  <2>3. PICK f : Goto(p, f)
    BY <1>1, StepMoves DEF SettleInv
  <2>4. /\ proc'[p] = f /\ \A r \in Passes \ {p} : proc'[r] = proc[r]
        /\ proc' = [proc EXCEPT ![p] = f]
    BY <2>3 DEF Goto, SettleInv
  <2>5. f \in Pass /\ (f.pc = "idle" => f = Idle)
    BY <2>2, <2>4 DEF PassInv, PassOK
  <2>6. proc' \in [Passes -> Pass]
    BY <2>4, <2>5 DEF SettleInv
  <2>7. \A r \in Passes : At(r, "idle")' => proc'[r] = Idle
    BY <2>4, <2>5 DEF SettleInv, At
  <2> QED
    BY <2>2, <2>6, <2>7 DEF SettleInv
<1>2. ASSUME NEW t \in Tasks, BecomeDue(t)
      PROVE  SettleInv'
  BY <1>2, TimeStep DEF BecomeDue, SettleInv, TableTypes
<1>3. ASSUME NEW m \in Miners, Graduate(m)
      PROVE  SettleInv'
  BY <1>3, TimeStep DEF Graduate, SettleInv, TableTypes
<1>4. CASE UNCHANGED vars
  BY <1>4, TimeStep DEF vars, SettleInv, TableTypes
<1> QED
  BY <1>1, <1>2, <1>3, <1>4, CrashStep DEF Next

\* and so always.
LEMMA SettleInvHolds == Spec /\ []OneAtATime => []SettleInv
BY SettleInit, SettleStep, PTL DEF Spec

\* While one pass runs at a time, no crash loses a reward: what reconcile() wrote
\* to a miner's row is never less than the resolved submissions of that miner earned
\* (_settle_due_tasks writes the row, forecast_engine.py:5005, before it marks the task, :5019).
THEOREM RewardsAreNotLost == Spec /\ []OneAtATime => []NoRewardLost
<1>1. SettleInv => NoRewardLost
  <2> SUFFICES ASSUME SettleInv, NEW m \in Miners
               PROVE  acct[m].total + acct[m].held >= Earned(m) /\ acct[m].held >= 0
    BY DEF NoRewardLost
  <2>1. PICK p \in Passes : PassInv(p)
    BY DEF SettleInv
  <2>2. TableTypes /\ acct[m].total \in Nat /\ acct[m].held \in Nat
    BY RowTypes DEF SettleInv
  <2>3. acct[m].total + acct[m].held >= SumFunctionOnSet(Rewards, Booked(proc[p], m))
    BY <2>1 DEF PassInv, Kept
  <2>4. SubsPaid(m) \in SUBSET Booked(proc[p], m) /\ Booked(proc[p], m) \in SUBSET Subs
    BY BookedFinite DEF Booked, SubsPaid
  <2>5. /\ SumFunctionOnSet(Rewards, SubsPaid(m)) <= SumFunctionOnSet(Rewards, Booked(proc[p], m))
        /\ SumFunctionOnSet(Rewards, SubsPaid(m)) \in Int
        /\ SumFunctionOnSet(Rewards, Booked(proc[p], m)) \in Int
    BY <2>2, <2>4, PartOfRewards
  <2> QED
    BY <2>2, <2>3, <2>5 DEF Earned
<1> QED
  BY <1>1, SettleInvHolds, PTL

\* While one pass runs at a time and the service has not crashed, a miner's row agrees
\* between two passes with the submissions, the hold entries and the resolved tasks
\* it was computed from (_settle_due_tasks and _release_matured_holds).
THEOREM BooksAlwaysMatch == Spec /\ []OneAtATime => []BooksMatchRows
<1>1. SettleInv => BooksMatchRows
  <2> SUFFICES ASSUME SettleInv, Quiet, crashes = 0, NEW m \in Miners
               PROVE  /\ acct[m].total + acct[m].held = Earned(m)
                      /\ acct[m].held = OnLedger(m)
                      /\ acct[m].settled = Cardinality(SubsPaid(m))
                      /\ acct[m].chances = Cardinality(Chances(m))
    BY DEF BooksMatchRows
  <2>1. PICK p \in Passes : PassInv(p)
    BY DEF SettleInv
  <2>2. proc[p] = Idle /\ TableTypes
    BY DEF SettleInv, Quiet
  <2>3. Exact(Idle)
    BY <2>1, <2>2 DEF PassInv
  <2>4. /\ acct[m].total + acct[m].held = SumFunctionOnSet(Rewards, Booked(Idle, m))
        /\ OnLedger(m) + 0 = acct[m].held + 0
        /\ acct[m].settled = Cardinality(Booked(Idle, m))
        /\ acct[m].chances = Cardinality(Chances(m)) + 0
    BY <2>3, IdleIsPass DEF Exact, Counted
  <2>5. OnLedger(m) \in Nat /\ acct[m].held \in Nat /\ Cardinality(Chances(m)) \in Nat
    BY <2>2, RowTypes, LedgerSum, ChancesFinite
  <2>6. /\ acct[m].held = OnLedger(m)
        /\ acct[m].chances = Cardinality(Chances(m))
    BY <2>4, <2>5
  <2> QED
    BY <2>4, <2>6, IdleBooks DEF Earned
<1> QED
  BY <1>1, SettleInvHolds, PTL
==============================================================================

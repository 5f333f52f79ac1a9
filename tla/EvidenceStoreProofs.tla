-------------------------- MODULE EvidenceStoreProofs --------------------------
(***************************************************************************)
(* Proofs about what is stored: which hands (PokerEvidence), and in which    *)
(* rows (Repositories).                                                     *)
(*                                                                          *)
(* PokerEvidence, for any hands, messages, versions, queues and consumers,   *)
(* and any number of crashes: an acknowledged hand message has left its      *)
(* trace, a stored hand only advances, and evidence that is not blocked      *)
(* accounts for what was acknowledged before it was built.  All three need   *)
(* that no two handlers work on one hand at the same time, since             *)
(* save_poker_mtt_hand_event decides from a row it reads in one transaction  *)
(* and writes in another.  Apart states it, and the theorems take it as      *)
(* their only hypothesis; a service with one consumer task satisfies it.     *)
(* The three are not inductive: between its read and its acknowledgement a   *)
(* handler carries its decision.  The invariant says what the decision is    *)
(* worth at each step, and what the builder has in hand after each read.     *)
(*                                                                          *)
(* Repositories, for any clients, ids, values and calls: the Fake and        *)
(* Postgres hold the same rows, with the exceptions FakeAgrees names.  A     *)
(* lemma goes through the tables once (TablesAlike); from there on a proof   *)
(* knows only that a method's two descriptions are alike, and argues by the  *)
(* way it writes.  The invariant says what a call that is between two        *)
(* statements knows whatever the others do, and what it knows when it is     *)
(* alone.                                                                   *)
(***************************************************************************)
EXTENDS PokerEvidence, Repositories, TLAPS

\* The handler works on its message's hand.
Busy(c) == proc[c].pc \notin {"idle", "raise"}

\* No two consumers handle messages of one hand at the same time.
Apart == \A a, b \in Consumers :
           a # b /\ Busy(a) /\ Busy(b) => proc[a].msg.hand # proc[b].msg.hand

States == {"inserted", "updated", "duplicate", "stale", "conflict", "dlq"}
HandlerPCs == {"idle", "raise", "write", "dlq", "checkpoint", "conflict"}
Handler == [pc : HandlerPCs, msg : Messages \cup {None}, lag : 0..1, state : States]

AfterHands == {"degradable", "checkpoints", "conflicts", "dlq"}
Builder == [pc : {"idle", "hands"} \cup AfterHands,
            hands : SUBSET [hand : Hands, row : HandRow], kinds : SUBSET REQUIRED_KINDS,
            lagging : BOOLEAN, conflict : BOOLEAN, acked : BOOLEAN]

\* What the invariant needs of the types.
EvidenceTypes ==
    /\ hands \in [Hands -> HandRow \cup {None}]
    /\ proc \in [Consumers -> Handler]
    /\ build \in Builder
    /\ watched \in Messages
    /\ acked \in BOOLEAN
    /\ degradable \subseteq REQUIRED_KINDS

\* The hand's row accounts for message m.
Stored(row, m) == row # None /\ Accounts(row, m)

\* What the handler p knows of its hand's row and of the dead letters.
HandlerInv(p, row, letters) ==
    /\ p.pc \notin {"idle", "raise"} => p.msg \in Messages /\ p.msg.hand # None
    /\ p.pc = "write" =>
         /\ p.msg.version # NoVersion
         /\ p.state \in {"inserted", "updated"}
         /\ p.state = "inserted" => row = None
         /\ p.state = "updated" => row # None /\ row.version < p.msg.version
    /\ p.pc = "checkpoint" =>
         /\ p.state \in {"inserted", "updated", "duplicate", "stale"} => Stored(row, p.msg)
         /\ p.state = "dlq" => p.msg.id \in letters

HandlersInv == \A c \in Consumers : HandlerInv(proc[c], hands[proc[c].msg.hand], dlq)

\* The builder has read a row that accounts for the watched message.
ReadStored == \E r \in build.hands : r.hand = watched.hand /\ Accounts(r.row, watched)

\* What the builder has in hand, if the watched message was acknowledged before.
BuilderInv ==
    /\ build.acked => acked
    /\ build.acked /\ watched.hand # None =>
         /\ build.pc \in {"degradable", "checkpoints", "conflicts"} =>
              watched.id \in dlq \/ watched.id \in conflicts \/ ReadStored
         /\ build.pc = "dlq" => watched.id \in dlq \/ build.conflict \/ ReadStored

\* The inductive invariant.
EvidenceInv == EvidenceTypes /\ HandlersInv /\ AckedIsAccounted /\ BuilderInv

------------------------------------------------------------------------------
(* The step of one handler.                                                 *)

\* Rows are only replaced by later versions, dead letters and conflicts stay.
Advances(old, new) == new = old \/ (new \in HandRow /\ (old = None \/ new.version > old.version))

\* A row that accounts for a message still does when it has advanced.
LEMMA AccountsAdvances ==
    ASSUME NEW old \in HandRow \cup {None}, NEW new, Advances(old, new),
           NEW m \in Messages, Stored(old, m)
    PROVE  Stored(new, m)
  <1>1. m.version \in Nat /\ old \in HandRow /\ None \notin HandRow
    BY EvidenceAssumption DEF MessageType, Stored
  <1>2. old.version \in Nat /\ new \in HandRow /\ new.version \in Nat
    BY <1>1 DEF HandRow, Advances
  <1>3. QED
    BY <1>1, <1>2 DEF Advances, Stored, Accounts

\* A handler that goes on to local state f, while the rows of its hand advance
\* and those of other hands stay, keeps the handlers' part.
LEMMA HandlerStep ==
    ASSUME EvidenceInv, Apart, NEW c \in Consumers, NEW f \in Handler,
           proc' = [proc EXCEPT ![c] = f],
           dlq \subseteq dlq',
           \A h \in Hands : hands'[h] # hands[h] => Busy(c) /\ h = proc[c].msg.hand,
           HandlerInv(f, hands'[f.msg.hand], dlq')
    PROVE  HandlersInv' /\ proc' \in [Consumers -> Handler]
  <1>1. proc' \in [Consumers -> Handler]
    BY DEF EvidenceInv, EvidenceTypes
  <1>2. ASSUME NEW b \in Consumers
        PROVE  HandlerInv(proc'[b], hands'[proc'[b].msg.hand], dlq')
    <2>1. CASE b = c
      <3>1. proc'[b] = f
        BY <2>1 DEF EvidenceInv, EvidenceTypes
      <3>2. QED BY <3>1
    <2>2. CASE b # c
      <3>1. proc'[b] = proc[b]
        BY <2>2 DEF EvidenceInv, EvidenceTypes
      <3>2. HandlerInv(proc[b], hands[proc[b].msg.hand], dlq)
        BY DEF EvidenceInv, HandlersInv
      <3>3. CASE ~Busy(b)
        BY <3>1, <3>3 DEF HandlerInv, Busy
      <3>4. CASE Busy(b)
        <4>1. proc[b].msg.hand \in Hands
          BY <3>2, <3>4, EvidenceAssumption DEF HandlerInv, Busy, MessageType
        <4>2. hands'[proc[b].msg.hand] = hands[proc[b].msg.hand]
          BY <4>1, <3>4, <2>2 DEF Apart
        <4>3. QED BY <3>1, <3>2, <4>2 DEF HandlerInv
      <3>5. QED BY <3>3, <3>4
    <2>3. QED BY <2>1, <2>2
  <1>3. QED BY <1>1, <1>2 DEF HandlersInv

\* What a step of ingestion leaves to the other parts: the builder stays, the
\* rows advance, and an acknowledgement comes with the trace it promises.
LEMMA IngestKeeps ==
    ASSUME EvidenceInv,
           UNCHANGED <<build, watched>>,
           hands' \in [Hands -> HandRow \cup {None}],
           \A h \in Hands : Advances(hands[h], hands'[h]),
           dlq \subseteq dlq', conflicts \subseteq conflicts',
           acked' \in BOOLEAN, acked => acked',
           acked' /\ ~acked /\ watched.hand # None =>
             \/ watched.id \in dlq'
             \/ watched.id \in conflicts'
             \/ Stored(hands'[watched.hand], watched)
    PROVE  AckedIsAccounted' /\ BuilderInv'
  <1>1. ASSUME acked, watched.hand # None, Stored(hands[watched.hand], watched)
        PROVE  Stored(hands'[watched.hand], watched)
    <2>1. watched \in Messages /\ watched.hand \in Hands
      BY <1>1, EvidenceAssumption DEF EvidenceInv, EvidenceTypes, MessageType
    <2>2. hands[watched.hand] \in HandRow \cup {None}
      BY <2>1 DEF EvidenceInv, EvidenceTypes
    <2>3. QED BY <1>1, <2>1, <2>2, AccountsAdvances
  <1>2. AckedIsAccounted'
    BY <1>1 DEF EvidenceInv, AckedIsAccounted, Stored
  <1>3. BuilderInv'
    BY DEF EvidenceInv, BuilderInv, ReadStored
  <1>4. QED BY <1>2, <1>3

\* The idle handler knows nothing.
LEMMA IdleHandler ==
    /\ Idle \in Handler
    /\ \A row, letters : HandlerInv(Idle, row, letters)
  BY DEF Idle, Handler, HandlerPCs, States, HandlerInv

\* A decision is right about the row it was made from.
LEMMA DecisionIsRight ==
    ASSUME NEW m \in Messages, NEW row \in HandRow \cup {None}
    PROVE  LET d == Decision(m, row) IN
             /\ d \in {"inserted", "updated", "duplicate", "stale", "conflict"}
             /\ d = "inserted" => row = None /\ m.version # NoVersion
             /\ d = "updated" => row # None /\ m.version # NoVersion /\ row.version < m.version
             /\ d \in {"duplicate", "stale"} => Stored(row, m)
  <1>1. m.version \in Nat /\ None \notin HandRow
    BY EvidenceAssumption DEF MessageType
  <1>2. row # None => row.version \in Nat /\ row.version # NoVersion
    BY DEF HandRow, NoVersion
  <1>3. CASE row = None
    BY <1>3 DEF Decision
  <1>4. CASE row # None /\ m.version # NoVersion /\ m.version # row.version
    BY <1>1, <1>2, <1>4 DEF Decision, Stored, Accounts
  <1>5. CASE row # None /\ ~(m.version # NoVersion /\ m.version # row.version)
    BY <1>1, <1>2, <1>5 DEF Decision, Stored, Accounts
  <1>6. QED BY <1>3, <1>4, <1>5

\* A delivery decides on the row it reads.
LEMMA DeliverInv ==
    ASSUME EvidenceInv, Apart, NEW c \in Consumers, NEW m \in Messages, Deliver(c, m)
    PROVE  EvidenceInv'
  <1>1. m.hand \in Hands /\ m.hand # None
    BY EvidenceAssumption DEF Deliver, MessageType
  <1>2. hands[m.hand] \in HandRow \cup {None}
    BY <1>1 DEF EvidenceInv, EvidenceTypes
  <1> DEFINE d == Decision(m, hands[m.hand])
             p(lag) == [Idle EXCEPT !.msg = m, !.lag = lag]
             f(lag) == IF ~ValidHandEvent(m) THEN [p(lag) EXCEPT !.pc = "dlq"]
                       ELSE IF d \in {"inserted", "updated"}
                              THEN [p(lag) EXCEPT !.pc = "write", !.state = d]
                       ELSE [p(lag) EXCEPT !.pc = "checkpoint", !.state = d]
  <1>3. PICK lag \in 0..1 : proc' = [proc EXCEPT ![c] = f(lag)]
    BY DEF Deliver
  <1>4. /\ d \in {"inserted", "updated", "duplicate", "stale", "conflict"}
        /\ d = "inserted" => hands[m.hand] = None /\ m.version # NoVersion
        /\ d = "updated" => /\ hands[m.hand] # None /\ m.version # NoVersion
                            /\ hands[m.hand].version < m.version
        /\ d \in {"duplicate", "stale"} => Stored(hands[m.hand], m)
    BY <1>2, DecisionIsRight
  <1> HIDE DEF d
  <1>5. UNCHANGED <<hands, conflicts, dlq, degradable, build, acked, watched>>
    BY DEF Deliver, rows
  <1>6. f(lag) \in Handler /\ f(lag).msg = m
    BY <1>4 DEF Idle, Handler, HandlerPCs, States
  <1>7. HandlerInv(f(lag), hands[m.hand], dlq)
    BY <1>1, <1>4 DEF HandlerInv, Idle
  <1> HIDE DEF f
  <1>8. HandlersInv' /\ proc' \in [Consumers -> Handler]
    BY <1>3, <1>5, <1>6, <1>7, HandlerStep
  <1>9. AckedIsAccounted' /\ BuilderInv'
    BY <1>5 DEF EvidenceInv, AckedIsAccounted, BuilderInv, ReadStored
  <1>10. QED BY <1>5, <1>8, <1>9 DEF EvidenceInv, EvidenceTypes

\* A message without a hand writes its checkpoint only.
LEMMA DeliverNonHandInv ==
    ASSUME EvidenceInv, NEW c \in Consumers, NEW m \in Messages, DeliverNonHand(c, m)
    PROVE  EvidenceInv'
  <1>1. UNCHANGED <<hands, conflicts, dlq, degradable, proc, build, watched>>
    BY DEF DeliverNonHand
  <1>2. acked' \in BOOLEAN /\ (acked => acked') /\ (acked' /\ ~acked => watched.hand = None)
    BY DEF DeliverNonHand, EvidenceInv, EvidenceTypes
  <1>3. AckedIsAccounted' /\ BuilderInv'
    BY <1>1, <1>2 DEF EvidenceInv, AckedIsAccounted, BuilderInv, ReadStored
  <1>4. QED BY <1>1, <1>2, <1>3 DEF EvidenceInv, EvidenceTypes, HandlersInv

\* A handler about to raise knows nothing.
LEMMA RaisingHandler ==
    ASSUME NEW m \in Messages
    PROVE  /\ [Idle EXCEPT !.pc = "raise", !.msg = m] \in Handler
           /\ [Idle EXCEPT !.pc = "raise", !.msg = m].pc = "raise"
  <1> DEFINE p == [Idle EXCEPT !.msg = m]
             g == [p EXCEPT !.pc = "raise"]
  <1>1. p \in Handler
    BY DEF Idle, Handler, HandlerPCs, States
  <1>a. "raise" \in HandlerPCs
    BY DEF HandlerPCs
  <1>b. g.pc = "raise"
    BY DEF Idle
  <1>2. g \in Handler
    BY <1>1, <1>a DEF Handler
  <1>3. g = [Idle EXCEPT !.pc = "raise", !.msg = m]
    BY DEF Idle
  <1>4. QED BY <1>2, <1>3, <1>b

\* A message that cannot be read changes nothing but the handler.
LEMMA UnreadableInv ==
    ASSUME EvidenceInv, Apart, NEW c \in Consumers, NEW m \in Messages,
           DeliverUnreadable(c, m) \/ Raise(c)
    PROVE  EvidenceInv'
  <1> DEFINE g == [Idle EXCEPT !.pc = "raise", !.msg = m]
  <1>1. UNCHANGED <<hands, conflicts, dlq, degradable, build, acked, watched>>
    BY DEF DeliverUnreadable, Raise, rows
  <1>2. PICK f \in {Idle, g} : proc' = [proc EXCEPT ![c] = f]
    BY DEF DeliverUnreadable, Raise
  <1>a. g \in Handler /\ g.pc = "raise"
    BY RaisingHandler
  <1> HIDE DEF g
  <1>b. \A row, letters : HandlerInv(g, row, letters)
    BY <1>a DEF HandlerInv
  <1>c. f \in Handler /\ \A row, letters : HandlerInv(f, row, letters)
    BY <1>a, <1>b, IdleHandler
  <1>3. HandlersInv' /\ proc' \in [Consumers -> Handler]
    BY <1>1, <1>2, <1>c, HandlerStep
  <1>4. AckedIsAccounted' /\ BuilderInv'
    BY <1>1 DEF EvidenceInv, AckedIsAccounted, BuilderInv, ReadStored
  <1>5. QED BY <1>1, <1>3, <1>4 DEF EvidenceInv, EvidenceTypes

\* The row of the handler's hand advances to the message's version.
LEMMA WriteHandInv ==
    ASSUME EvidenceInv, Apart, NEW c \in Consumers, WriteHand(c)
    PROVE  EvidenceInv' /\ \A h \in Hands : Advances(hands[h], hands'[h])
  <1> DEFINE p == proc[c]
             m == p.msg
             h == m.hand
  <1>1. p \in Handler /\ p.pc = "write" /\ HandlerInv(p, hands[h], dlq)
    BY DEF WriteHand, EvidenceInv, EvidenceTypes, HandlersInv
  <1>2. m \in Messages /\ h # None /\ h \in Hands
    BY <1>1, EvidenceAssumption DEF HandlerInv, MessageType
  <1>3. UNCHANGED <<conflicts, dlq, degradable, build, acked, watched>>
    BY DEF WriteHand
  <1>4. Busy(c)
    BY <1>1 DEF Busy
  <1>5. CASE p.state = "inserted" /\ hands[h] # None
    BY <1>1, <1>5 DEF HandlerInv
  <1>6. CASE ~(p.state = "inserted" /\ hands[h] # None)
    <2> DEFINE row == [version |-> m.version, checksum |-> m.checksum]
               f == [p EXCEPT !.pc = "checkpoint"]
    <2>1. hands' = [hands EXCEPT ![h] = row] /\ proc' = [proc EXCEPT ![c] = f]
      BY <1>6 DEF WriteHand
    <2>2. row \in HandRow
      BY <1>1, <1>2, EvidenceAssumption DEF HandlerInv, HandRow, MessageType, NoVersion
    <2>3. row # None /\ (hands[h] = None \/ row.version > hands[h].version)
      <3>1. CASE p.state = "inserted"
        BY <1>1, <2>2, <3>1, EvidenceAssumption DEF HandlerInv
      <3>2. CASE p.state = "updated"
        <4>1. hands[h] \in HandRow /\ m.version \in Nat
          BY <1>1, <1>2, <3>2, EvidenceAssumption
             DEF HandlerInv, EvidenceInv, EvidenceTypes, MessageType
        <4>2. hands[h].version < m.version /\ hands[h].version \in Nat
          BY <4>1, <1>1, <3>2 DEF HandlerInv, HandRow
        <4>3. QED BY <2>2, <4>1, <4>2, EvidenceAssumption
      <3>3. QED BY <1>1, <3>1, <3>2 DEF HandlerInv
    <2>4. Stored(row, m)
      BY <2>3 DEF Stored, Accounts
    <2>5. hands' \in [Hands -> HandRow \cup {None}] /\ hands'[h] = row
      BY <1>2, <2>1, <2>2 DEF EvidenceInv, EvidenceTypes
    <2>6. \A g \in Hands : hands'[g] # hands[g] => g = h
      BY <2>1 DEF EvidenceInv, EvidenceTypes
    <2>7. \A g \in Hands : Advances(hands[g], hands'[g])
      BY <2>2, <2>3, <2>5, <2>6 DEF Advances
    <2>8. f \in Handler /\ f.msg = m /\ f.state = p.state /\ f.pc = "checkpoint"
      BY <1>1 DEF Handler, HandlerPCs
    <2>9. HandlerInv(f, hands'[h], dlq')
      BY <1>1, <1>2, <2>4, <2>5, <2>8 DEF HandlerInv
    <2> HIDE DEF f, row
    <2>10. HandlersInv' /\ proc' \in [Consumers -> Handler]
      BY <1>3, <1>4, <2>1, <2>6, <2>8, <2>9, HandlerStep
    <2>11. AckedIsAccounted' /\ BuilderInv'
      <3>1. acked \in BOOLEAN
        BY DEF EvidenceInv, EvidenceTypes
      <3>2. QED BY <1>3, <2>5, <2>7, <3>1, IngestKeeps
    <2>12. QED
      BY <1>3, <2>5, <2>7, <2>10, <2>11 DEF EvidenceInv, EvidenceTypes
  <1>7. QED BY <1>5, <1>6

\* An invalid message is a dead letter before it is acknowledged.
LEMMA SaveDlqInv ==
    ASSUME EvidenceInv, Apart, NEW c \in Consumers, SaveDlq(c)
    PROVE  EvidenceInv'
  <1> DEFINE p == proc[c]
             f == [p EXCEPT !.pc = "checkpoint", !.state = "dlq"]
  <1>1. p \in Handler /\ p.pc = "dlq" /\ HandlerInv(p, hands[p.msg.hand], dlq)
    BY DEF SaveDlq, EvidenceInv, EvidenceTypes, HandlersInv
  <1>2. /\ UNCHANGED <<hands, conflicts, degradable, build, acked, watched>>
        /\ dlq' = dlq \cup {p.msg.id}
        /\ proc' = [proc EXCEPT ![c] = f]
    BY DEF SaveDlq
  <1>3. f \in Handler /\ f.msg = p.msg /\ HandlerInv(f, hands'[f.msg.hand], dlq')
    BY <1>1, <1>2 DEF Handler, HandlerPCs, States, HandlerInv
  <1> HIDE DEF f
  <1>4. HandlersInv' /\ proc' \in [Consumers -> Handler]
    BY <1>2, <1>3, HandlerStep
  <1>5. AckedIsAccounted' /\ BuilderInv'
    BY <1>2 DEF EvidenceInv, AckedIsAccounted, BuilderInv, ReadStored
  <1>6. QED BY <1>2, <1>4, <1>5 DEF EvidenceInv, EvidenceTypes

\* The checkpoint acknowledges what is already stored, or goes on to the
\* conflict.
LEMMA SaveCheckpointInv ==
    ASSUME EvidenceInv, Apart, NEW c \in Consumers, SaveCheckpoint(c)
    PROVE  EvidenceInv'
  <1> DEFINE p == proc[c]
  <1>1. p \in Handler /\ p.pc = "checkpoint" /\ HandlerInv(p, hands[p.msg.hand], dlq)
    BY DEF SaveCheckpoint, EvidenceInv, EvidenceTypes, HandlersInv
  <1>2. UNCHANGED <<hands, conflicts, dlq, degradable, build, watched>>
    BY DEF SaveCheckpoint
  <1>3. CASE p.state = "conflict"
    <2> DEFINE f == [p EXCEPT !.pc = "conflict"]
    <2>1. proc' = [proc EXCEPT ![c] = f] /\ acked' = acked
      BY <1>3 DEF SaveCheckpoint
    <2>2. f \in Handler /\ f.msg = p.msg /\ HandlerInv(f, hands'[f.msg.hand], dlq')
      BY <1>1, <1>2 DEF Handler, HandlerPCs, HandlerInv
    <2> HIDE DEF f
    <2>3. HandlersInv' /\ proc' \in [Consumers -> Handler]
      BY <1>2, <2>1, <2>2, HandlerStep
    <2>4. AckedIsAccounted' /\ BuilderInv'
      BY <1>2, <2>1 DEF EvidenceInv, AckedIsAccounted, BuilderInv, ReadStored
    <2>5. QED BY <1>2, <2>1, <2>3, <2>4 DEF EvidenceInv, EvidenceTypes
  <1>4. CASE p.state # "conflict"
    <2>1. proc' = [proc EXCEPT ![c] = Idle] /\ acked' = (acked \/ p.msg = watched)
      BY <1>4 DEF SaveCheckpoint
    <2>2. HandlersInv' /\ proc' \in [Consumers -> Handler]
      BY <1>2, <2>1, IdleHandler, HandlerStep
    <2>3. p.msg.id \in dlq \/ Stored(hands[p.msg.hand], p.msg)
      BY <1>1, <1>4 DEF HandlerInv, Handler, States
    <2>4. AckedIsAccounted'
      BY <1>2, <2>1, <2>3 DEF EvidenceInv, AckedIsAccounted, Stored
    <2>5. BuilderInv' /\ acked' \in BOOLEAN
      BY <1>2, <2>1 DEF EvidenceInv, EvidenceTypes, BuilderInv, ReadStored
    <2>6. QED BY <1>2, <2>2, <2>4, <2>5 DEF EvidenceInv, EvidenceTypes
  <1>5. QED BY <1>3, <1>4

\* A conflict is stored before the message is acknowledged.
LEMMA SaveConflictInv ==
    ASSUME EvidenceInv, Apart, NEW c \in Consumers, SaveConflict(c)
    PROVE  EvidenceInv'
  <1>1. /\ UNCHANGED <<hands, dlq, degradable, build, watched>>
        /\ conflicts' = conflicts \cup {proc[c].msg.id}
        /\ acked' = (acked \/ proc[c].msg = watched)
        /\ proc' = [proc EXCEPT ![c] = Idle]
    BY DEF SaveConflict
  <1>2. HandlersInv' /\ proc' \in [Consumers -> Handler]
    BY <1>1, IdleHandler, HandlerStep
  <1>3. AckedIsAccounted' /\ BuilderInv' /\ acked' \in BOOLEAN
    BY <1>1 DEF EvidenceInv, EvidenceTypes, AckedIsAccounted, BuilderInv, ReadStored
  <1>4. QED BY <1>1, <1>2, <1>3 DEF EvidenceInv, EvidenceTypes

------------------------------------------------------------------------------
(* The builder, the other rows and the restart.                             *)

\* What the builder's steps leave alone.
LEMMA BuildKeeps ==
    ASSUME EvidenceInv, UNCHANGED <<rows, proc, acked, crashes, watched>>,
           build' \in Builder, BuilderInv'
    PROVE  EvidenceInv'
  BY DEF EvidenceInv, EvidenceTypes, HandlersInv, AckedIsAccounted, rows

\* The reads of the builder, while ingestion goes on.
LEMMA BuildInv ==
    ASSUME EvidenceInv, Build
    PROVE  EvidenceInv' /\ UNCHANGED hands
  <1>1. build \in Builder /\ BuilderInv /\ acked \in BOOLEAN
    BY DEF EvidenceInv, EvidenceTypes
  <1>2. UNCHANGED <<rows, proc, acked, crashes, watched>> /\ UNCHANGED hands
    BY DEF Build, BuildStart, BuildReadHands, BuildReadDegradable, BuildReadCheckpoints,
           BuildReadConflicts, BuildPublish, BuildRead, rows
  <1>3. CASE BuildStart
    <2>1. build' \in Builder /\ build'.acked = acked /\ build'.pc = "hands"
      BY <1>1, <1>3 DEF BuildStart, NoBuild, Builder, REQUIRED_KINDS
    <2>2. BuilderInv'
      BY <1>2, <2>1 DEF BuilderInv, AfterHands
    <2>3. QED BY <1>2, <2>1, <2>2, BuildKeeps
  <1>4. CASE BuildReadHands
    <2> DEFINE seen == {[hand |-> h, row |-> hands[h]] : h \in Saved(hands)}
    <2>1. seen \subseteq [hand : Hands, row : HandRow]
      BY DEF EvidenceInv, EvidenceTypes, Saved
    <2>2. /\ build' \in Builder /\ build'.acked = build.acked
          /\ build'.pc = "degradable" /\ build'.hands = seen
      BY <1>1, <1>4, <2>1 DEF BuildReadHands, BuildRead, Builder, AfterHands, REQUIRED_KINDS
    <2>3. ASSUME watched.hand # None, Stored(hands[watched.hand], watched)
          PROVE  \E r \in seen : r.hand = watched.hand /\ Accounts(r.row, watched)
      <3>1. watched.hand \in Hands
        BY <2>3, EvidenceAssumption DEF EvidenceInv, EvidenceTypes, MessageType
      <3>2. watched.hand \in Saved(hands)
        BY <2>3, <3>1 DEF Saved, Stored, EvidenceInv, EvidenceTypes
      <3>3. [hand |-> watched.hand, row |-> hands[watched.hand]] \in seen
        BY <3>2
      <3>4. QED BY <2>3, <3>3 DEF Stored
    <2> HIDE DEF seen
    <2>4. BuilderInv'
      BY <1>1, <1>2, <2>2, <2>3
         DEF BuilderInv, ReadStored, EvidenceInv, AckedIsAccounted, Stored, rows
    <2>5. QED BY <1>2, <2>2, <2>4, BuildKeeps
  <1>5. CASE BuildReadDegradable
    <2>1. /\ build' \in Builder /\ build'.acked = build.acked
          /\ build.pc = "degradable" /\ build'.pc = "checkpoints"
          /\ build'.hands = build.hands
      BY <1>1, <1>5 DEF BuildReadDegradable, BuildRead, Builder, AfterHands,
                        EvidenceInv, EvidenceTypes
    <2>2. BuilderInv'
      BY <1>1, <1>2, <2>1 DEF BuilderInv, ReadStored, rows
    <2>3. QED BY <1>2, <2>1, <2>2, BuildKeeps
  <1>6. CASE BuildReadCheckpoints
    <2>1. /\ build' \in Builder /\ build'.acked = build.acked
          /\ build.pc = "checkpoints" /\ build'.pc = "conflicts"
          /\ build'.hands = build.hands
      BY <1>1, <1>6 DEF BuildReadCheckpoints, BuildRead, Builder, AfterHands, REQUIRED_KINDS
    <2>2. BuilderInv'
      BY <1>1, <1>2, <2>1 DEF BuilderInv, ReadStored, rows
    <2>3. QED BY <1>2, <2>1, <2>2, BuildKeeps
  <1>7. CASE BuildReadConflicts
    <2>1. /\ build' \in Builder /\ build'.acked = build.acked
          /\ build.pc = "conflicts" /\ build'.pc = "dlq"
          /\ build'.hands = build.hands /\ build'.conflict = (conflicts # {})
      BY <1>1, <1>7 DEF BuildReadConflicts, BuildRead, Builder, AfterHands
    <2>2. BuilderInv'
      BY <1>1, <1>2, <2>1 DEF BuilderInv, ReadStored, rows
    <2>3. QED BY <1>2, <2>1, <2>2, BuildKeeps
  <1>8. CASE BuildPublish
    <2>1. build' \in Builder /\ build'.acked = FALSE
      BY <1>8 DEF BuildPublish, NoBuild, Builder
    <2>2. BuilderInv'
      BY <2>1 DEF BuilderInv
    <2>3. QED BY <1>2, <2>1, <2>2, BuildKeeps
  <1>9. QED BY <1>2, <1>3, <1>4, <1>5, <1>6, <1>7, <1>8 DEF Build

\* The other kinds of evidence touch none of the tables.
LEMMA OtherRowsInv ==
    ASSUME EvidenceInv, SaveOtherRows
    PROVE  EvidenceInv'
  BY DEF EvidenceInv, EvidenceTypes, HandlersInv, AckedIsAccounted, BuilderInv, ReadStored,
         SaveOtherRows, SaveDegradable, REQUIRED_KINDS, DEGRADED_ALLOWLIST

\* A crash before the acknowledgement acknowledges nothing.
LEMMA CrashInv ==
    ASSUME EvidenceInv, Crash
    PROVE  EvidenceInv'
  <1>1. UNCHANGED <<hands, conflicts, dlq, degradable, acked, watched>>
    BY DEF Crash, rows
  <1>2. build' \in Builder /\ BuilderInv'
    BY DEF Crash, NoBuild, Builder, BuilderInv
  <1>3. proc' = [c \in Consumers |-> Idle]
    BY DEF Crash
  <1>4. proc' \in [Consumers -> Handler] /\ HandlersInv'
    BY <1>3, IdleHandler DEF HandlersInv
  <1>5. QED
    BY <1>1, <1>2, <1>4 DEF EvidenceInv, EvidenceTypes, AckedIsAccounted

\* The invariant holds of an empty service,
LEMMA InitInv == Init => EvidenceInv
  <1> SUFFICES ASSUME Init PROVE EvidenceInv
    OBVIOUS
  <1>1. proc \in [Consumers -> Handler] /\ HandlersInv
    BY IdleHandler DEF Init, HandlersInv
  <1>2. build \in Builder /\ BuilderInv
    BY DEF Init, NoBuild, Builder, BuilderInv
  <1>3. QED
    BY <1>1, <1>2 DEF Init, EvidenceInv, EvidenceTypes, AckedIsAccounted

\* Every step keeps the invariant, and no step takes a hand's row back.
LEMMA NextInv ==
    ASSUME EvidenceInv, Apart, [Next]_vars
    PROVE  EvidenceInv' /\ \A h \in Hands : Advances(hands[h], hands'[h])
  <1>1. CASE UNCHANGED vars
    BY <1>1 DEF vars, rows, EvidenceInv, EvidenceTypes, HandlersInv, AckedIsAccounted,
                BuilderInv, ReadStored, Advances
  <1>2. ASSUME NEW c \in Consumers, NEW m \in Messages, Deliver(c, m)
        PROVE  EvidenceInv' /\ hands' = hands
    BY <1>2, DeliverInv DEF Deliver, rows
  <1>3. ASSUME NEW c \in Consumers, NEW m \in Messages, DeliverNonHand(c, m)
        PROVE  EvidenceInv' /\ hands' = hands
    BY <1>3, DeliverNonHandInv DEF DeliverNonHand
  <1>a. ASSUME NEW c \in Consumers, NEW m \in Messages, DeliverUnreadable(c, m)
        PROVE  EvidenceInv' /\ hands' = hands
    BY <1>a, UnreadableInv DEF DeliverUnreadable, rows
  <1>b. ASSUME NEW c \in Consumers, Raise(c)
        PROVE  EvidenceInv' /\ hands' = hands
    <2>1. watched \in Messages
      BY DEF EvidenceInv, EvidenceTypes
    <2>2. QED BY <1>b, <2>1, UnreadableInv DEF Raise, rows
  <1>4. ASSUME NEW c \in Consumers, SaveDlq(c)
        PROVE  EvidenceInv' /\ hands' = hands
    BY <1>4, SaveDlqInv DEF SaveDlq
  <1>5. ASSUME NEW c \in Consumers, SaveCheckpoint(c)
        PROVE  EvidenceInv' /\ hands' = hands
    BY <1>5, SaveCheckpointInv DEF SaveCheckpoint
  <1>6. ASSUME NEW c \in Consumers, SaveConflict(c)
        PROVE  EvidenceInv' /\ hands' = hands
    BY <1>6, SaveConflictInv DEF SaveConflict
  <1>7. CASE SaveOtherRows
    BY <1>7, OtherRowsInv DEF SaveOtherRows, SaveDegradable, Advances
  <1>8. CASE Build
    BY <1>8, BuildInv DEF Advances
  <1>9. CASE Crash
    BY <1>9, CrashInv DEF Crash, rows, Advances
  <1>10. QED
    BY <1>1, <1>2, <1>3, <1>a, <1>b, <1>4, <1>5, <1>6, <1>7, <1>8, <1>9, WriteHandInv
       DEF Next, Consume, Advances

\* and always, while no two consumers are in one hand.
LEMMA InvAlways == Spec /\ []Apart => []EvidenceInv
  <1>1. Init => EvidenceInv
    BY InitInv
  <1>2. EvidenceInv /\ Apart /\ [Next]_vars => EvidenceInv'
    BY NextInv
  <1>3. QED BY <1>1, <1>2, PTL DEF Spec

------------------------------------------------------------------------------
(* The theorems.                                                            *)

\* Whatever is delivered, in which order and how often, and whenever the service
\* crashes: a hand message that ingest_poker_mtt_hand_event has acknowledged is
\* in the hand's row, superseded by it, in conflict or in the dead letters, if no
\* two handlers are in the same hand at once.
THEOREM AckedMessagesAreAccounted == Spec /\ []Apart => []AckedIsAccounted
  <1>1. EvidenceInv => AckedIsAccounted
    BY DEF EvidenceInv
  <1>2. QED BY <1>1, InvAlways, PTL

\* Under the same hypothesis, evidence that the builder does not block was built
\* from hand rows that account for every message acknowledged before the build.
THEOREM EvidenceIsSound == Spec /\ []Apart => []UsableEvidenceIsSound
  <1>1. EvidenceInv => UsableEvidenceIsSound
    <2> SUFFICES ASSUME EvidenceInv, build.pc = "dlq",
                        EvidenceState(build, dlq # {}) # "blocked",
                        build.acked, watched.hand # None
                 PROVE  ReadStored
      BY DEF UsableEvidenceIsSound, ReadStored
    <2>1. ~build.conflict /\ dlq = {}
      BY DEF EvidenceState
    <2>2. QED BY <2>1 DEF EvidenceInv, BuilderInv
  <1>2. QED BY <1>1, InvAlways, PTL

\* Under the same hypothesis, redelivery in any order never takes a stored hand
\* back to an older version, nor gives a version another payload.
THEOREM StoredHandsOnlyAdvance == Spec /\ []Apart => HandsOnlyAdvance
  <1> DEFINE Step == \A h \in Hands : hands[h] # None /\ hands'[h] # hands[h] =>
                        hands'[h] # None /\ hands'[h].version > hands[h].version
  <1>1. EvidenceInv /\ Apart /\ [Next]_vars => [Step]_vars
    <2> SUFFICES ASSUME EvidenceInv, Apart, [Next]_vars PROVE Step
      OBVIOUS
    <2>1. \A h \in Hands : Advances(hands[h], hands'[h])
      BY NextInv
    <2>2. QED BY <2>1, EvidenceAssumption DEF Advances
  <1>2. QED BY <1>1, InvAlways, PTL DEF Spec, HandsOnlyAdvance

\* The hypothesis is met by a service with one consumer task.
LEMMA OneConsumerIsApart == (\A a, b \in Consumers : a = b) => Apart
  BY DEF Apart

\* One consumer task is enough: none of the three needs anything else.
THEOREM OneConsumerIsSafe ==
    ASSUME \A a, b \in Consumers : a = b
    PROVE  Spec => []AckedIsAccounted /\ []UsableEvidenceIsSound /\ HandsOnlyAdvance
  <1>1. Apart
    BY OneConsumerIsApart
  <1>2. QED
    BY <1>1, AckedMessagesAreAccounted, EvidenceIsSound, StoredHandsOnlyAdvance, PTL

------------------------------------------------------------------------------
(* Repositories: the descriptions of the tables.                              *)

\* The ways to write that the two repositories may have for one method.
Pairs == {<<"register", "register">>, <<"update", "update">>, <<"upsert", "put">>,
          <<"readUpsert", "put">>, <<"keepCreated", "put">>, <<"merge", "put">>,
          <<"onConflict", "indexed">>, <<"unlessSame", "unlessSame">>,
          <<"versioned", "versioned">>}

\* Methods p of Postgres and f of the Fake, of a table with the columns cols, write alike.
Alike(t, p, f, cols) ==
    /\ <<p.how, f.how>> \in Pairs
    /\ "id" \notin f.cols
    /\ p.cols \subseteq f.cols /\ f.cols \subseteq p.cols \cup FakeOnly(t)
    /\ p.how = "merge" /\ p.cols # cols => t = "settlement_batches"
    /\ p.how = "keepCreated" => KeepsCreated(t) /\ "created_at" \in p.cols
    /\ p.how = "versioned" => t = "hand_events" /\ {"version", "created_at"} \subseteq p.cols
    /\ p.how = "unlessSame" => "content" \in p.cols
    /\ p.how = "onConflict" => "request" \in p.cols

\* What the two descriptions of a table have in common.
SameTable(t) ==
    LET p == P!Tables[t]  f == F!Tables[t] IN
    /\ DOMAIN p = DOMAIN f
    /\ \A m \in DOMAIN p : Alike(t, p[m], f[m], ColumnsOf(t))

\* The columns of a table are those of its method that writes all of them.
LEMMA ColumnsAre ==
  ASSUME NEW t, NEW p, NEW all, P!Tables[t] = p,
         NEW m \in DOMAIN p, p[m].cols = all,
         \A n \in DOMAIN p : p[n].cols \subseteq all
  PROVE  ColumnsOf(t) = all
BY DEF ColumnsOf

\* Descriptions that list the same methods, which write alike, are of the same table.
LEMMA SameTableIs ==
  ASSUME NEW t, NEW p, NEW f, NEW all,
         P!Tables[t] = p, F!Tables[t] = f, ColumnsOf(t) = all,
         DOMAIN p = DOMAIN f,
         \A m \in DOMAIN p : Alike(t, p[m], f[m], all)
  PROVE  SameTable(t)
BY DEF SameTable

\* Every table is described alike for the two repositories.
LEMMA TablesAlike == \A t \in DOMAIN P!Tables : SameTable(t)
<1> USE DEF P!Writes, P!Row, P!Times, F!Writes, F!Row, F!Times
<1>1. SameTable("miners")
  <2> DEFINE p == P!miners
             f == F!miners
             all == {"identity", "participation", "settlement", "ranking", "arena",
                     "poker", "created_at", "updated_at"}
  <2>1. P!Tables["miners"] = p /\ F!Tables["miners"] = f
    BY DEF P!Tables, F!Tables
  <2>2. "register_miner" \in DOMAIN p /\ p["register_miner"].cols = all
    BY DEF P!miners
  <2>3. \A n \in DOMAIN p : p[n].cols \subseteq all
    BY DEF P!miners
  <2>4. DOMAIN p = DOMAIN f
    BY DEF P!miners, F!miners
  <2>5. \A m \in DOMAIN p : Alike("miners", p[m], f[m], all)
    BY DEF P!miners, F!miners, Alike, Pairs, FakeOnly
  <2> HIDE DEF all, p, f
  <2>6. ColumnsOf("miners") = all
    BY ONLY <2>1, <2>2, <2>3, ColumnsAre
  <2> QED
    BY ONLY <2>1, <2>4, <2>5, <2>6, SameTableIs
<1>2. SameTable("tasks")
  <2>1. P!Tables["tasks"] = P!tasks /\ F!Tables["tasks"] = F!tasks
    BY DEF P!Tables, F!Tables
  <2>2. ColumnsOf("tasks") = {"row", "created_at", "updated_at"}
    BY <2>1 DEF ColumnsOf, P!tasks
  <2> QED
    BY <2>1, <2>2 DEF SameTable, P!tasks, F!tasks, Alike, Pairs, KeepsCreated, FakeOnly
<1>3. SameTable("submissions")
  <2>1. P!Tables["submissions"] = P!submissions /\ F!Tables["submissions"] = F!submissions
    BY DEF P!Tables, F!Tables
  <2>2. ColumnsOf("submissions") = {"request", "reveal_at", "created_at", "updated_at"}
    BY <2>1 DEF ColumnsOf, P!submissions
  <2> QED
    BY <2>1, <2>2 DEF SameTable, P!submissions, F!submissions, Alike, Pairs, KeepsCreated, FakeOnly
<1>4. SameTable("hold_entries")
  <2>1. P!Tables["hold_entries"] = P!hold_entries /\ F!Tables["hold_entries"] = F!hold_entries
    BY DEF P!Tables, F!Tables
  <2>2. ColumnsOf("hold_entries") = {"row", "created_at", "updated_at"}
    BY <2>1 DEF ColumnsOf, P!hold_entries
  <2> QED
    BY <2>1, <2>2 DEF SameTable, P!hold_entries, F!hold_entries, Alike, Pairs, KeepsCreated, FakeOnly
<1>5. SameTable("reward_windows")
  <2> DEFINE p == P!reward_windows
             f == F!reward_windows
             all == {"window_end_at", "batch", "created_at", "updated_at"}
  <2>1. P!Tables["reward_windows"] = p /\ F!Tables["reward_windows"] = f
    BY DEF P!Tables, F!Tables
  <2>2. "save_reward_window" \in DOMAIN p /\ p["save_reward_window"].cols = all
    BY DEF P!reward_windows
  <2>3. \A n \in DOMAIN p : p[n].cols \subseteq all
    BY DEF P!reward_windows
  <2>4. DOMAIN p = DOMAIN f
    BY DEF P!reward_windows, F!reward_windows
  <2>5. \A m \in DOMAIN p : Alike("reward_windows", p[m], f[m], all)
    BY DEF P!reward_windows, F!reward_windows, Alike, Pairs, FakeOnly
  <2> HIDE DEF all, p, f
  <2>6. ColumnsOf("reward_windows") = all
    BY ONLY <2>1, <2>2, <2>3, ColumnsAre
  <2> QED
    BY ONLY <2>1, <2>4, <2>5, <2>6, SameTableIs
<1>6. SameTable("budget_ledgers")
  <2>1. P!Tables["budget_ledgers"] = P!budget_ledgers /\ F!Tables["budget_ledgers"] = F!budget_ledgers
    BY DEF P!Tables, F!Tables
  <2>2. ColumnsOf("budget_ledgers") = {"row", "created_at", "updated_at"}
    BY <2>1 DEF ColumnsOf, P!budget_ledgers
  <2> QED
    BY <2>1, <2>2 DEF SameTable, P!budget_ledgers, F!budget_ledgers, Alike, Pairs, KeepsCreated, FakeOnly
<1>7. SameTable("settlement_batches")
  <2> DEFINE p == P!settlement_batches
             f == F!settlement_batches
             all == {"state", "window_end_at", "total", "policy", "root", "job",
                     "created_at", "updated_at"}
  <2>1. P!Tables["settlement_batches"] = p /\ F!Tables["settlement_batches"] = f
    BY DEF P!Tables, F!Tables
  <2>2. "save_settlement_batch" \in DOMAIN p /\ p["save_settlement_batch"].cols = all
    BY DEF P!settlement_batches
  <2>3. \A n \in DOMAIN p : p[n].cols \subseteq all
    BY DEF P!settlement_batches
  <2>4. DOMAIN p = DOMAIN f
    BY DEF P!settlement_batches, F!settlement_batches
  <2>5. \A m \in DOMAIN p : Alike("settlement_batches", p[m], f[m], all)
    BY DEF P!settlement_batches, F!settlement_batches, Alike, Pairs, FakeOnly
  <2> HIDE DEF all, p, f
  <2>6. ColumnsOf("settlement_batches") = all
    BY ONLY <2>1, <2>2, <2>3, ColumnsAre
  <2> QED
    BY ONLY <2>1, <2>4, <2>5, <2>6, SameTableIs
<1>8. SameTable("anchor_jobs")
  <2> DEFINE p == P!anchor_jobs
             f == F!anchor_jobs
             all == {"state", "broadcast", "confirmation", "outcome", "created_at",
                     "updated_at"}
  <2>1. P!Tables["anchor_jobs"] = p /\ F!Tables["anchor_jobs"] = f
    BY DEF P!Tables, F!Tables
  <2>2. "save_anchor_job" \in DOMAIN p /\ p["save_anchor_job"].cols = all
    BY DEF P!anchor_jobs
  <2>3. \A n \in DOMAIN p : p[n].cols \subseteq all
    BY DEF P!anchor_jobs
  <2>4. DOMAIN p = DOMAIN f
    BY DEF P!anchor_jobs, F!anchor_jobs
  <2>5. \A m \in DOMAIN p : Alike("anchor_jobs", p[m], f[m], all)
    BY DEF P!anchor_jobs, F!anchor_jobs, Alike, Pairs, FakeOnly
  <2> HIDE DEF all, p, f
  <2>6. ColumnsOf("anchor_jobs") = all
    BY ONLY <2>1, <2>2, <2>3, ColumnsAre
  <2> QED
    BY ONLY <2>1, <2>4, <2>5, <2>6, SameTableIs
<1>9. SameTable("artifacts")
  <2> DEFINE p == P!artifacts
             f == F!artifacts
             all == {"content", "created_at", "updated_at"}
  <2>1. P!Tables["artifacts"] = p /\ F!Tables["artifacts"] = f
    BY DEF P!Tables, F!Tables
  <2>2. "save_artifact" \in DOMAIN p /\ p["save_artifact"].cols = all
    BY DEF P!artifacts
  <2>3. \A n \in DOMAIN p : p[n].cols \subseteq all
    BY DEF P!artifacts
  <2>4. DOMAIN p = DOMAIN f
    BY DEF P!artifacts, F!artifacts
  <2>5. \A m \in DOMAIN p : Alike("artifacts", p[m], f[m], all)
    BY DEF P!artifacts, F!artifacts, Alike, Pairs, FakeOnly
  <2> HIDE DEF all, p, f
  <2>6. ColumnsOf("artifacts") = all
    BY ONLY <2>1, <2>2, <2>3, ColumnsAre
  <2> QED
    BY ONLY <2>1, <2>4, <2>5, <2>6, SameTableIs
<1>10. SameTable("risk_cases")
  <2>1. P!Tables["risk_cases"] = P!risk_cases /\ F!Tables["risk_cases"] = F!risk_cases
    BY DEF P!Tables, F!Tables
  <2>2. ColumnsOf("risk_cases") = {"row", "created_at", "updated_at"}
    BY <2>1 DEF ColumnsOf, P!risk_cases
  <2> QED
    BY <2>1, <2>2 DEF SameTable, P!risk_cases, F!risk_cases, Alike, Pairs, KeepsCreated, FakeOnly
<1>11. SameTable("arena_results")
  <2>1. P!Tables["arena_results"] = P!arena_results /\ F!Tables["arena_results"] = F!arena_results
    BY DEF P!Tables, F!Tables
  <2>2. ColumnsOf("arena_results") = {"row", "created_at", "updated_at"}
    BY <2>1 DEF ColumnsOf, P!arena_results
  <2> QED
    BY <2>1, <2>2 DEF SameTable, P!arena_results, F!arena_results, Alike, Pairs, KeepsCreated, FakeOnly
<1>12. SameTable("tournaments")
  <2>1. P!Tables["tournaments"] = P!tournaments /\ F!Tables["tournaments"] = F!tournaments
    BY DEF P!Tables, F!Tables
  <2>2. ColumnsOf("tournaments") = {"row", "created_at", "updated_at"}
    BY <2>1 DEF ColumnsOf, P!tournaments
  <2> QED
    BY <2>1, <2>2 DEF SameTable, P!tournaments, F!tournaments, Alike, Pairs, KeepsCreated, FakeOnly
<1>13. SameTable("hand_events")
  <2>1. P!Tables["hand_events"] = P!hand_events /\ F!Tables["hand_events"] = F!hand_events
    BY DEF P!Tables, F!Tables
  <2>2. ColumnsOf("hand_events") = {"version", "created_at", "updated_at"}
    BY <2>1 DEF ColumnsOf, P!hand_events
  <2> QED
    BY <2>1, <2>2 DEF SameTable, P!hand_events, F!hand_events, Alike, Pairs, KeepsCreated, FakeOnly
<1>14. SameTable("mq_checkpoints")
  <2>1. P!Tables["mq_checkpoints"] = P!mq_checkpoints /\ F!Tables["mq_checkpoints"] = F!mq_checkpoints
    BY DEF P!Tables, F!Tables
  <2>2. ColumnsOf("mq_checkpoints") = {"row", "created_at", "updated_at"}
    BY <2>1 DEF ColumnsOf, P!mq_checkpoints
  <2> QED
    BY <2>1, <2>2 DEF SameTable, P!mq_checkpoints, F!mq_checkpoints, Alike, Pairs, KeepsCreated, FakeOnly
<1>15. SameTable("mq_conflicts")
  <2>1. P!Tables["mq_conflicts"] = P!mq_conflicts /\ F!Tables["mq_conflicts"] = F!mq_conflicts
    BY DEF P!Tables, F!Tables
  <2>2. ColumnsOf("mq_conflicts") = {"row", "created_at", "updated_at"}
    BY <2>1 DEF ColumnsOf, P!mq_conflicts
  <2> QED
    BY <2>1, <2>2 DEF SameTable, P!mq_conflicts, F!mq_conflicts, Alike, Pairs, KeepsCreated, FakeOnly
<1>16. SameTable("mq_dlq")
  <2>1. P!Tables["mq_dlq"] = P!mq_dlq /\ F!Tables["mq_dlq"] = F!mq_dlq
    BY DEF P!Tables, F!Tables
  <2>2. ColumnsOf("mq_dlq") = {"row", "created_at", "updated_at"}
    BY <2>1 DEF ColumnsOf, P!mq_dlq
  <2> QED
    BY <2>1, <2>2 DEF SameTable, P!mq_dlq, F!mq_dlq, Alike, Pairs, KeepsCreated, FakeOnly
<1>17. SameTable("hud_snapshots")
  <2>1. P!Tables["hud_snapshots"] = P!hud_snapshots /\ F!Tables["hud_snapshots"] = F!hud_snapshots
    BY DEF P!Tables, F!Tables
  <2>2. ColumnsOf("hud_snapshots") = {"row", "created_at", "updated_at"}
    BY <2>1 DEF ColumnsOf, P!hud_snapshots
  <2> QED
    BY <2>1, <2>2 DEF SameTable, P!hud_snapshots, F!hud_snapshots, Alike, Pairs, KeepsCreated, FakeOnly
<1>18. SameTable("hidden_eval_entries")
  <2>1. /\ P!Tables["hidden_eval_entries"] = P!hidden_eval_entries
        /\ F!Tables["hidden_eval_entries"] = F!hidden_eval_entries
    BY DEF P!Tables, F!Tables
  <2>2. ColumnsOf("hidden_eval_entries") = {"row", "created_at", "updated_at"}
    BY <2>1 DEF ColumnsOf, P!hidden_eval_entries
  <2> QED
    BY <2>1, <2>2 DEF SameTable, P!hidden_eval_entries, F!hidden_eval_entries, Alike, Pairs, KeepsCreated, FakeOnly
<1>19. SameTable("rating_snapshots")
  <2>1. P!Tables["rating_snapshots"] = P!rating_snapshots /\ F!Tables["rating_snapshots"] = F!rating_snapshots
    BY DEF P!Tables, F!Tables
  <2>2. ColumnsOf("rating_snapshots") = {"row", "created_at", "updated_at"}
    BY <2>1 DEF ColumnsOf, P!rating_snapshots
  <2> QED
    BY <2>1, <2>2 DEF SameTable, P!rating_snapshots, F!rating_snapshots, Alike, Pairs, KeepsCreated, FakeOnly
<1>20. SameTable("multiplier_snapshots")
  <2>1. /\ P!Tables["multiplier_snapshots"] = P!multiplier_snapshots
        /\ F!Tables["multiplier_snapshots"] = F!multiplier_snapshots
    BY DEF P!Tables, F!Tables
  <2>2. ColumnsOf("multiplier_snapshots") = {"row", "created_at", "updated_at"}
    BY <2>1 DEF ColumnsOf, P!multiplier_snapshots
  <2> QED
    BY <2>1, <2>2 DEF SameTable, P!multiplier_snapshots, F!multiplier_snapshots, Alike, Pairs, KeepsCreated, FakeOnly
<1>21. SameTable("final_rankings")
  <2>1. P!Tables["final_rankings"] = P!final_rankings /\ F!Tables["final_rankings"] = F!final_rankings
    BY DEF P!Tables, F!Tables
  <2>2. ColumnsOf("final_rankings") = {"rank", "created_at", "updated_at"}
    BY <2>1 DEF ColumnsOf, P!final_rankings
  <2> QED
    BY <2>1, <2>2 DEF SameTable, P!final_rankings, F!final_rankings, Alike, Pairs, KeepsCreated, FakeOnly
<1>22. SameTable("results")
  <2>1. P!Tables["results"] = P!results /\ F!Tables["results"] = F!results
    BY DEF P!Tables, F!Tables
  <2>2. ColumnsOf("results") = {"row", "created_at", "updated_at"}
    BY <2>1 DEF ColumnsOf, P!results
  <2> QED
    BY <2>1, <2>2 DEF SameTable, P!results, F!results, Alike, Pairs, KeepsCreated, FakeOnly
<1>23. SameTable("corrections")
  <2>1. P!Tables["corrections"] = P!corrections /\ F!Tables["corrections"] = F!corrections
    BY DEF P!Tables, F!Tables
  <2>2. ColumnsOf("corrections") = {"row", "created_at", "updated_at"}
    BY <2>1 DEF ColumnsOf, P!corrections
  <2> QED
    BY <2>1, <2>2 DEF SameTable, P!corrections, F!corrections, Alike, Pairs, KeepsCreated, FakeOnly
<1>24. DOMAIN P!Tables = {"miners", "tasks", "submissions", "hold_entries", "reward_windows",
                          "budget_ledgers", "settlement_batches", "anchor_jobs", "artifacts",
                          "risk_cases", "arena_results", "tournaments", "hand_events",
                          "mq_checkpoints", "mq_conflicts", "mq_dlq", "hud_snapshots",
                          "hidden_eval_entries", "rating_snapshots", "multiplier_snapshots",
                          "final_rankings", "results", "corrections"}
  BY DEF P!Tables
<1> QED
  BY <1>1, <1>2, <1>3, <1>4, <1>5, <1>6, <1>7, <1>8, <1>9, <1>10, <1>11, <1>12, <1>13,
     <1>14, <1>15, <1>16, <1>17, <1>18, <1>19, <1>20, <1>21, <1>22, <1>23, <1>24

\* The rows of the Fake have the columns of Postgres and those that only it stores.
LEMMA FakeColumnsAre ==
  ASSUME NEW t \in DOMAIN P!Tables
  PROVE  /\ FakeColumnsOf(t) = ColumnsOf(t) \cup FakeOnly(t)
         /\ ColumnsOf(t) \cap FakeOnly(t) = {}
<1>1. SameTable(t)
  BY TablesAlike
<1>2. /\ ColumnsOf(t) \subseteq FakeColumnsOf(t)
      /\ FakeColumnsOf(t) \subseteq ColumnsOf(t) \cup FakeOnly(t)
  BY <1>1 DEF SameTable, Alike, ColumnsOf, FakeColumnsOf
<1>3. CASE t # "reward_windows"
  BY <1>2, <1>3 DEF FakeOnly
<1>4. CASE t = "reward_windows"
  <2>1. P!Tables[t] = P!reward_windows /\ F!Tables[t] = F!reward_windows
    BY <1>4 DEF P!Tables, F!Tables
  <2>2. "reward_rows" \in FakeColumnsOf(t)
    BY <2>1 DEF FakeColumnsOf, F!reward_windows, F!Writes, F!Row, F!Times
  <2>3. "reward_rows" \notin ColumnsOf(t)
    BY <2>1 DEF ColumnsOf, P!reward_windows, P!Writes, P!Row, P!Times
  <2> QED
    BY <1>2, <1>4, <2>2, <2>3 DEF FakeOnly
<1> QED
  BY <1>3, <1>4

------------------------------------------------------------------------------
(* The inductive invariant.                                                 *)

PgHow(t, m) == P!Tables[t][m].how
FakeHow(t, m) == F!Tables[t][m].how
ColsOf(t, m) == P!Tables[t][m].cols
FakeColsOf(t, m) == F!Tables[t][m].cols
Hows == {"register", "update", "upsert", "readUpsert", "keepCreated", "merge",
         "onConflict", "unlessSame", "versioned"}

RowsOf(t) == [ColumnsOf(t) \cup {"id"} -> Nat]
FakeRowsOf(t) == [FakeColumnsOf(t) \cup {"id"} -> Nat]

\* A table holds rows under their ids.
Holds(rowSet, db) ==
    /\ db \in [Ids -> rowSet \cup {NoRow}]
    /\ \A i \in Ids : db[i] # NoRow => db[i]["id"] = i
HoldsRows(t, db) == Holds(RowsOf(t), db)
FakeHoldsRows(t, db) == Holds(FakeRowsOf(t), db)

CallsOf(t, m) ==
    [m : {m}, id : Ids, pc : {"read", "select", "write"}, read : RowsOf(t) \cup {NoRow},
     kept : Nat \cup {NoRow}, vals : [ColsOf(t, m) \cup FakeColsOf(t, m) -> Nat]]

\* What a call knows at each place, whatever other calls do to the rows db.
CallInv(t, call, db) ==
    /\ call.m \in DOMAIN P!Tables[t]
    /\ call \in CallsOf(t, call.m)
    /\ call.read # NoRow => call.read["id"] = call.id /\ db[call.id] # NoRow
    /\ call.kept # NoRow => PgHow(t, call.m) \in {"keepCreated", "versioned"}
    /\ call.pc = "select" => PgHow(t, call.m) # "versioned"
    /\ call.pc = "write" /\ PgHow(t, call.m) = "register" => call.read = NoRow

\* What a call knows that no other call disturbs: the row it writes is as it read it.
FreshCall(t, call, db) ==
    call.pc = "write" =>
      /\ PgHow(t, call.m) = "merge" => call.read = db[call.id]
      /\ PgHow(t, call.m) = "versioned" =>
           Newer(db[call.id], call.vals) /\ call.kept = Created(db[call.id])

\* The rows r of Postgres and s of the Fake are the same, up to created_at where
\* only Postgres keeps the first one.
Agree(t, r, s) ==
    /\ r = NoRow <=> s = NoRow
    /\ r # NoRow => \A x \in ColumnsOf(t) \cup {"id"} :
                      (x = "created_at" => ~KeepsCreated(t)) => r[x] = s[x]

\* The exceptions of FakeAgrees.
Comparable == (table \in Racy => ~overlapped) /\ ~reused

StoreTypeOK ==
    /\ table \in DOMAIN P!Tables
    /\ HoldsRows(table, pg)
    /\ FakeHoldsRows(table, fake)
    /\ DOMAIN underway = Clients
    /\ overlapped \in BOOLEAN /\ reused \in BOOLEAN

CallsKnow == \A c \in Clients : underway[c] # NoRow => CallInv(table, underway[c], pg)

\* Until two calls have overlapped there is one at a time.
CallsAreFresh ==
    ~overlapped =>
      /\ \A c, d \in Clients : underway[c] # NoRow /\ underway[d] # NoRow => c = d
      /\ \A c \in Clients : underway[c] # NoRow => FreshCall(table, underway[c], pg)

RowsAgree == Comparable => \A i \in Ids : Agree(table, pg[i], fake[i])

StoreInv == StoreTypeOK /\ CallsKnow /\ CallsAreFresh /\ RowsAgree

------------------------------------------------------------------------------
(* Methods and rows.                                                        *)

\* What the tables say about a method.
LEMMA MethodIs ==
  ASSUME NEW t \in DOMAIN P!Tables, NEW m \in DOMAIN P!Tables[t]
  PROVE  /\ PgHow(t, m) \in Hows
         /\ PgHow(t, m) \in {"register", "update", "unlessSame", "versioned"} => FakeHow(t, m) = PgHow(t, m)
         /\ PgHow(t, m) \in {"upsert", "readUpsert", "keepCreated", "merge"} => FakeHow(t, m) = "put"
         /\ PgHow(t, m) = "onConflict" => FakeHow(t, m) = "indexed"
         /\ "id" \notin ColsOf(t, m) /\ ColsOf(t, m) \subseteq ColumnsOf(t)
         /\ "id" \notin FakeColsOf(t, m) /\ FakeColsOf(t, m) \subseteq FakeColumnsOf(t)
         /\ \A x \in ColumnsOf(t) : x \in FakeColsOf(t, m) <=> x \in ColsOf(t, m)
         /\ PgHow(t, m) = "merge" /\ ColsOf(t, m) # ColumnsOf(t) => t \in Racy
         /\ PgHow(t, m) = "keepCreated" => KeepsCreated(t) /\ "created_at" \in ColsOf(t, m)
         /\ PgHow(t, m) = "versioned" =>
              t \in Racy /\ ~KeepsCreated(t) /\ {"version", "created_at"} \subseteq ColsOf(t, m)
         /\ PgHow(t, m) = "unlessSame" => "content" \in ColsOf(t, m)
         /\ PgHow(t, m) = "onConflict" => "request" \in ColsOf(t, m)
<1>1. Alike(t, P!Tables[t][m], F!Tables[t][m], ColumnsOf(t))
  BY TablesAlike DEF SameTable
<1>2. ColsOf(t, m) \subseteq ColumnsOf(t)
  BY DEF ColsOf, ColumnsOf
<1>3. FakeColsOf(t, m) \subseteq FakeColumnsOf(t)
  BY TablesAlike DEF SameTable, FakeColsOf, FakeColumnsOf
<1>4. /\ ColsOf(t, m) \subseteq FakeColsOf(t, m) /\ "id" \notin FakeColsOf(t, m)
      /\ FakeColsOf(t, m) \subseteq ColsOf(t, m) \cup FakeOnly(t)
  BY <1>1 DEF Alike, ColsOf, FakeColsOf
<1>5. \A x \in ColumnsOf(t) : x \in FakeColsOf(t, m) <=> x \in ColsOf(t, m)
  BY <1>4, FakeColumnsAre
<1> QED
  BY <1>1, <1>2, <1>3, <1>4, <1>5 DEF Alike, Pairs, PgHow, FakeHow, ColsOf, Hows, Racy, KeepsCreated

\* A row is not the null value.
LEMMA RowIsNotNoRow ==
  ASSUME NEW t \in DOMAIN P!Tables
  PROVE  NoRow \notin RowsOf(t) /\ NoRow \notin FakeRowsOf(t)
BY NoRowAssumption DEF RowsOf, FakeRowsOf

\* What the two repositories take of the values of a call.
LEMMA ValsAre ==
  ASSUME NEW call, table \in DOMAIN P!Tables, CallInv(table, call, pg)
  PROVE  /\ PgVals(call) \in [ColsOf(table, call.m) -> Nat]
         /\ FakeVals(call) \in [FakeColsOf(table, call.m) -> Nat]
         /\ \A x \in ColsOf(table, call.m) :
              x \in FakeColsOf(table, call.m) /\ PgVals(call)[x] = call.vals[x]
              /\ FakeVals(call)[x] = call.vals[x]
<1>1. call.vals \in [ColsOf(table, call.m) \cup FakeColsOf(table, call.m) -> Nat]
  BY DEF CallInv, CallsOf
<1>2. PgVals(call) = [x \in ColsOf(table, call.m) |-> call.vals[x]]
  BY DEF PgVals, Given, PgMethod, ColsOf
<1>3. FakeVals(call) = [x \in FakeColsOf(table, call.m) |-> call.vals[x]]
  BY DEF FakeVals, Given, FakeMethod, FakeColsOf
<1>4. ColsOf(table, call.m) \subseteq FakeColsOf(table, call.m)
  BY MethodIs DEF CallInv
<1> QED
  BY <1>1, <1>2, <1>3, <1>4

\* A row that is new.
LEMMA NewRowIs ==
  ASSUME NEW id \in Ids, NEW C \in SUBSET Columns, NEW vals \in [C -> Nat]
  PROVE  /\ NewRow(Columns, id, vals) \in RowsOf(table)
         /\ NewRow(Columns, id, vals)["id"] = id
         /\ \A x \in Columns : x # "id" =>
              NewRow(Columns, id, vals)[x] = IF x \in C THEN vals[x] ELSE 0
<1>1. id \in Nat
  BY RepositoriesAssumption
<1> QED
  BY <1>1 DEF NewRow, RowsOf, Columns

LEMMA FakeNewRowIs ==
  ASSUME NEW id \in Ids, NEW C \in SUBSET FakeColumns, NEW vals \in [C -> Nat]
  PROVE  /\ NewRow(FakeColumns, id, vals) \in FakeRowsOf(table)
         /\ NewRow(FakeColumns, id, vals)["id"] = id
         /\ \A x \in FakeColumns : x # "id" =>
              NewRow(FakeColumns, id, vals)[x] = IF x \in C THEN vals[x] ELSE 0
<1>1. id \in Nat
  BY RepositoriesAssumption
<1> QED
  BY <1>1 DEF NewRow, FakeRowsOf, FakeColumns

\* A row with some columns written.
LEMMA WithIs ==
  ASSUME NEW row \in RowsOf(table), NEW C \in SUBSET Columns, "id" \notin C, NEW vals \in [C -> Nat]
  PROVE  /\ With(row, vals) \in RowsOf(table)
         /\ With(row, vals)["id"] = row["id"]
         /\ \A x \in Columns \cup {"id"} :
              With(row, vals)[x] = IF x \in C THEN vals[x] ELSE row[x]
BY DEF With, RowsOf, Columns

LEMMA FakeWithIs ==
  ASSUME NEW row \in FakeRowsOf(table), NEW C \in SUBSET FakeColumns, "id" \notin C,
         NEW vals \in [C -> Nat]
  PROVE  /\ With(row, vals) \in FakeRowsOf(table)
         /\ With(row, vals)["id"] = row["id"]
         /\ \A x \in FakeColumns \cup {"id"} :
              With(row, vals)[x] = IF x \in C THEN vals[x] ELSE row[x]
BY DEF With, FakeRowsOf, FakeColumns

\* What a method of Postgres writes, with the created_at it kept.
LEMMA StampedIs ==
  ASSUME NEW call, table \in DOMAIN P!Tables, CallInv(table, call, pg)
  PROVE  /\ Stamped(call) \in [ColsOf(table, call.m) -> Nat]
         /\ PgHow(table, call.m) \notin {"keepCreated", "versioned"} => Stamped(call) = PgVals(call)
         /\ \A x \in ColsOf(table, call.m) : x # "created_at" => Stamped(call)[x] = PgVals(call)[x]
         /\ PgHow(table, call.m) \in {"keepCreated", "versioned"} =>
              Stamped(call)["created_at"] = IF call.kept = NoRow THEN PgVals(call)["created_at"] ELSE call.kept
<1>1. PgVals(call) \in [ColsOf(table, call.m) -> Nat] /\ call.kept \in Nat \cup {NoRow}
  BY ValsAre DEF CallInv, CallsOf
<1>2. call.kept # NoRow => PgHow(table, call.m) \in {"keepCreated", "versioned"}
  BY DEF CallInv
<1>3. PgHow(table, call.m) \in {"keepCreated", "versioned"} => "created_at" \in ColsOf(table, call.m)
  BY MethodIs DEF CallInv
<1> QED
  BY <1>1, <1>2, <1>3 DEF Stamped

\* The Fake's row after dict.update.
LEMMA PutIs ==
  ASSUME FakeHoldsRows(table, fake), table \in DOMAIN P!Tables, NEW id \in Ids,
         NEW C \in SUBSET FakeColumns, "id" \notin C, NEW vals \in [C -> Nat]
  PROVE  /\ FakeHoldsRows(table, Put(id, vals))
         /\ Put(id, vals)[id] = IF fake[id] = NoRow THEN NewRow(FakeColumns, id, vals) ELSE With(fake[id], vals)
         /\ \A i \in Ids : i # id => Put(id, vals)[i] = fake[i]
<1>1. Put(id, vals)[id] = IF fake[id] = NoRow THEN NewRow(FakeColumns, id, vals) ELSE With(fake[id], vals)
  BY DEF FakeHoldsRows, Holds, Put
<1>2. \A i \in Ids : i # id => Put(id, vals)[i] = fake[i]
  BY DEF FakeHoldsRows, Holds, Put
<1>3. fake[id] # NoRow => fake[id] \in FakeRowsOf(table) /\ fake[id]["id"] = id
  BY DEF FakeHoldsRows, Holds
<1>4. Put(id, vals)[id] \in FakeRowsOf(table) /\ Put(id, vals)[id]["id"] = id
  BY <1>1, <1>3, FakeNewRowIs, FakeWithIs
<1>5. Put(id, vals) \in [Ids -> FakeRowsOf(table) \cup {NoRow}]
  BY <1>1, <1>4 DEF FakeHoldsRows, Holds, Put
<1> QED
  BY <1>1, <1>2, <1>4, <1>5 DEF FakeHoldsRows, Holds

\* What the Fake does, by the way it writes.
LEMMA FakeApplyIs ==
  ASSUME NEW call
  PROVE  /\ FakeHow(table, call.m) = "register" =>
              FakeApply(call) = IF fake[call.id] = NoRow THEN Put(call.id, FakeVals(call)) ELSE fake
         /\ FakeHow(table, call.m) = "update" =>
              FakeApply(call) = IF fake[call.id] = NoRow THEN fake ELSE Put(call.id, FakeVals(call))
         /\ FakeHow(table, call.m) = "put" => FakeApply(call) = Put(call.id, FakeVals(call))
         /\ FakeHow(table, call.m) = "indexed" =>
              FakeApply(call) = IF index[FakeVals(call)["request"]] \in {NoRow, call.id}
                                  THEN Put(call.id, FakeVals(call)) ELSE fake
         /\ FakeHow(table, call.m) = "unlessSame" =>
              FakeApply(call) = IF fake[call.id] # NoRow /\ fake[call.id]["content"] = FakeVals(call)["content"]
                                  THEN fake ELSE Put(call.id, FakeVals(call))
         /\ FakeHow(table, call.m) = "versioned" =>
              FakeApply(call) = IF ~Newer(fake[call.id], FakeVals(call)) THEN fake
                                ELSE IF fake[call.id] = NoRow THEN Put(call.id, FakeVals(call))
                                ELSE Put(call.id, Without(FakeVals(call), "created_at"))
BY DEF FakeApply, FakeMethod, FakeHow

\* The Fake writes a row, and no other.
LEMMA FakeKeepsRows ==
  ASSUME NEW call, table \in DOMAIN P!Tables, FakeHoldsRows(table, fake), CallInv(table, call, pg)
  PROVE  /\ FakeHoldsRows(table, FakeApply(call))
         /\ \A i \in Ids : i # call.id => FakeApply(call)[i] = fake[i]
<1> DEFINE C == FakeColsOf(table, call.m)
           vals == FakeVals(call)
<1>1. call.id \in Ids /\ vals \in [C -> Nat]
  BY ValsAre DEF CallInv, CallsOf
<1>2. C \in SUBSET FakeColumns /\ "id" \notin C
  BY MethodIs DEF CallInv, FakeColumns
<1> HIDE DEF C, vals
<1>3. /\ FakeHoldsRows(table, Put(call.id, vals))
      /\ \A i \in Ids : i # call.id => Put(call.id, vals)[i] = fake[i]
  BY <1>1, <1>2, PutIs
<1>4. /\ FakeHoldsRows(table, Put(call.id, Without(vals, "created_at")))
      /\ \A i \in Ids : i # call.id => Put(call.id, Without(vals, "created_at"))[i] = fake[i]
  <2> DEFINE D == C \ {"created_at"}
  <2>1. Without(vals, "created_at") \in [D -> Nat]
    BY <1>1 DEF Without
  <2>2. D \in SUBSET FakeColumns /\ "id" \notin D
    BY <1>2
  <2> HIDE DEF D
  <2> QED
    BY <1>1, <2>1, <2>2, PutIs
<1>5. FakeApply(call) \in {fake, Put(call.id, vals), Put(call.id, Without(vals, "created_at"))}
  <2>1. FakeHow(table, call.m) \in {"register", "update", "put", "indexed", "unlessSame", "versioned"}
    BY MethodIs DEF CallInv, Hows
  <2> QED
    BY <2>1, FakeApplyIs DEF vals
<1> QED
  BY <1>3, <1>4, <1>5

------------------------------------------------------------------------------
(* A write of the two repositories.                                         *)

\* Written to rows that agree, values that agree leave rows that agree.
LEMMA WritesAgree ==
  ASSUME table \in DOMAIN P!Tables, HoldsRows(table, pg), FakeHoldsRows(table, fake), NEW id \in Ids,
         Agree(table, pg[id], fake[id]),
         NEW C \in SUBSET Columns, "id" \notin C, NEW D \in SUBSET FakeColumns, "id" \notin D,
         \A x \in Columns : x \in D <=> x \in C,
         NEW v \in [C -> Nat], NEW w \in [D -> Nat],
         \A x \in C : (x = "created_at" => ~KeepsCreated(table)) => v[x] = w[x],
         NEW row, row = IF pg[id] = NoRow THEN NewRow(Columns, id, v) ELSE With(pg[id], v)
  PROVE  Agree(table, row, Put(id, w)[id])
<1> DEFINE frow == Put(id, w)[id]
<1>1. frow = IF fake[id] = NoRow THEN NewRow(FakeColumns, id, w) ELSE With(fake[id], w)
  BY PutIs
<1>2. pg[id] = NoRow <=> fake[id] = NoRow
  BY DEF Agree
<1>a. Columns \subseteq FakeColumns
  BY FakeColumnsAre DEF Columns, FakeColumns
<1>3. CASE pg[id] = NoRow
  <2>1. row = NewRow(Columns, id, v) /\ frow = NewRow(FakeColumns, id, w)
    BY <1>1, <1>2, <1>3
  <2>2. row \in RowsOf(table) /\ frow \in FakeRowsOf(table)
    BY <2>1, NewRowIs, FakeNewRowIs
  <2>3. \A x \in Columns \cup {"id"} : (x = "created_at" => ~KeepsCreated(table)) => row[x] = frow[x]
    <3>1. row["id"] = id /\ frow["id"] = id
      BY <2>1, NewRowIs, FakeNewRowIs
    <3>2. \A x \in Columns : x # "id" => row[x] = IF x \in C THEN v[x] ELSE 0
      BY <2>1, NewRowIs
    <3>3. \A x \in Columns : x # "id" => frow[x] = IF x \in D THEN w[x] ELSE 0
      BY <1>a, <2>1, FakeNewRowIs
    <3> QED
      BY <3>1, <3>2, <3>3
  <2> QED
    BY <2>2, <2>3, RowIsNotNoRow DEF Agree, Columns
<1>4. CASE pg[id] # NoRow
  <2>1. row = With(pg[id], v) /\ frow = With(fake[id], w)
    BY <1>1, <1>2, <1>4
  <2>2. pg[id] \in RowsOf(table) /\ fake[id] \in FakeRowsOf(table)
    BY <1>2, <1>4 DEF HoldsRows, FakeHoldsRows, Holds
  <2>3. row \in RowsOf(table) /\ frow \in FakeRowsOf(table)
    BY <2>1, <2>2, WithIs, FakeWithIs
  <2>4. \A x \in Columns \cup {"id"} : (x = "created_at" => ~KeepsCreated(table)) => row[x] = frow[x]
    <3> SUFFICES ASSUME NEW x \in Columns \cup {"id"}, x = "created_at" => ~KeepsCreated(table)
                 PROVE  row[x] = frow[x]
      OBVIOUS
    <3>1. pg[id][x] = fake[id][x]
      BY <1>4 DEF Agree, Columns
    <3>2. row[x] = IF x \in C THEN v[x] ELSE pg[id][x]
      BY <2>1, <2>2, WithIs
    <3>3. frow[x] = IF x \in D THEN w[x] ELSE fake[id][x]
      BY <1>a, <2>1, <2>2, FakeWithIs
    <3> QED
      BY <3>1, <3>2, <3>3
  <2> QED
    BY <2>3, <2>4, RowIsNotNoRow DEF Agree, Columns
<1> QED
  BY <1>3, <1>4

\* The row a method of Postgres leaves.
LEMMA WrittenIsRow ==
  ASSUME NEW call, table \in DOMAIN P!Tables, HoldsRows(table, pg), CallInv(table, call, pg), ~Fails(call)
  PROVE  Written(call) \in RowsOf(table) /\ Written(call)["id"] = call.id
<1> DEFINE C == ColsOf(table, call.m)
           row == pg[call.id]
<1>1. call.id \in Ids /\ PgVals(call) \in [C -> Nat] /\ call.read \in RowsOf(table) \cup {NoRow}
  BY ValsAre DEF CallInv, CallsOf
<1>2. C \in SUBSET Columns /\ "id" \notin C
  BY MethodIs DEF CallInv, Columns
<1>3. Stamped(call) \in [C -> Nat]
  BY StampedIs
<1>4. CASE row = NoRow
  <2>1. Written(call) = NewRow(Columns, call.id, Stamped(call))
    BY <1>4 DEF Written
  <2> QED
    BY <1>1, <1>2, <1>3, <2>1, NewRowIs
<1>5. CASE row # NoRow
  <2>1. row \in RowsOf(table) /\ row["id"] = call.id
    BY <1>1, <1>5 DEF HoldsRows, Holds
  <2>2. PgHow(table, call.m) = "merge" => call.read \in RowsOf(table) /\ call.read["id"] = call.id
    <3>1. PgHow(table, call.m) = "merge" => call.read # NoRow
      BY <1>5 DEF Fails, PgHow, PgMethod
    <3> QED
      BY <1>1, <3>1 DEF CallInv
  <2>3. Written(call) = IF PgHow(table, call.m) = "merge" THEN With(call.read, PgVals(call))
                        ELSE IF PgHow(table, call.m) = "unlessSame" /\ row["content"] = call.vals["content"] THEN row
                        ELSE With(row, Stamped(call))
    BY <1>5 DEF Written, PgHow, PgMethod
  <2>4. With(row, Stamped(call)) \in RowsOf(table) /\ With(row, Stamped(call))["id"] = row["id"]
    BY <1>2, <1>3, <2>1, WithIs
  <2>5. PgHow(table, call.m) = "merge" =>
          With(call.read, PgVals(call)) \in RowsOf(table) /\ With(call.read, PgVals(call))["id"] = call.read["id"]
    BY <1>1, <1>2, <2>2, WithIs
  <2> QED
    BY <2>1, <2>2, <2>3, <2>4, <2>5
<1> QED
  BY <1>4, <1>5

\* A merge that gives every column writes what an update would; another one does
\* as long as the row is as it was read.
LEMMA MergeIsUpdate ==
  ASSUME NEW call, table \in DOMAIN P!Tables, HoldsRows(table, pg), CallInv(table, call, pg), ~Fails(call),
         PgHow(table, call.m) = "merge", pg[call.id] # NoRow,
         ColsOf(table, call.m) # ColumnsOf(table) => call.read = pg[call.id]
  PROVE  Written(call) = With(pg[call.id], PgVals(call))
<1> DEFINE C == ColsOf(table, call.m)
           row == pg[call.id]
<1>1. call.id \in Ids /\ PgVals(call) \in [C -> Nat] /\ call.read \in RowsOf(table) \cup {NoRow}
  BY ValsAre DEF CallInv, CallsOf
<1>2. C \in SUBSET Columns /\ "id" \notin C
  BY MethodIs DEF CallInv, Columns
<1>3. row \in RowsOf(table) /\ row["id"] = call.id
  BY <1>1 DEF HoldsRows, Holds
<1>4. call.read \in RowsOf(table) /\ call.read["id"] = call.id
  <2>1. call.read # NoRow
    BY DEF Fails, PgHow, PgMethod
  <2> QED
    BY <1>1, <2>1 DEF CallInv
<1>5. Written(call) = With(call.read, PgVals(call))
  BY DEF Written, PgHow, PgMethod
<1>6. CASE call.read = row
  BY <1>5, <1>6
<1>7. CASE C = Columns
  <2> DEFINE a == With(call.read, PgVals(call))
             b == With(row, PgVals(call))
  <2>1. a \in RowsOf(table) /\ b \in RowsOf(table)
    BY <1>1, <1>2, <1>3, <1>4, WithIs
  <2>2. \A x \in Columns \cup {"id"} : a[x] = b[x]
    <3>1. \A x \in Columns : a[x] = PgVals(call)[x] /\ b[x] = PgVals(call)[x]
      BY <1>1, <1>2, <1>3, <1>4, <1>7, WithIs
    <3>2. a["id"] = b["id"]
      BY <1>1, <1>2, <1>3, <1>4, WithIs
    <3> QED
      BY <3>1, <3>2
  <2> HIDE DEF a, b
  <2>3. a = b
    BY <2>1, <2>2 DEF RowsOf, Columns
  <2> QED
    BY <1>5, <2>3 DEF a, b
<1> QED
  BY <1>6, <1>7 DEF Columns

\* A hand event: both repositories write the hand that is newer, with the created_at
\* of the hand they had.
LEMMA HandsAgree ==
  ASSUME NEW call, table \in DOMAIN P!Tables, HoldsRows(table, pg), FakeHoldsRows(table, fake),
         CallInv(table, call, pg), ~Fails(call), FreshCall(table, call, pg), call.pc = "write",
         PgHow(table, call.m) = "versioned", Agree(table, pg[call.id], fake[call.id])
  PROVE  Agree(table, Written(call), FakeApply(call)[call.id])
<1> DEFINE C == ColsOf(table, call.m)
           D == FakeColsOf(table, call.m)
           vals == PgVals(call)
           fvals == FakeVals(call)
           row == pg[call.id]
           frow == fake[call.id]
<1>1. /\ call.id \in Ids /\ vals \in [C -> Nat] /\ fvals \in [D -> Nat]
      /\ \A x \in C : x \in D /\ vals[x] = call.vals[x] /\ fvals[x] = call.vals[x]
  BY ValsAre DEF CallInv, CallsOf
<1>2. /\ C \in SUBSET Columns /\ "id" \notin C /\ {"version", "created_at"} \subseteq C /\ ~KeepsCreated(table)
      /\ D \in SUBSET FakeColumns /\ "id" \notin D /\ \A x \in Columns : x \in D <=> x \in C
  BY MethodIs DEF CallInv, Columns, FakeColumns
<1>3. Newer(row, call.vals) /\ call.kept = Created(row)
  BY DEF FreshCall
<1>4. row = NoRow <=> frow = NoRow
  BY DEF Agree
<1>5. row # NoRow => row \in RowsOf(table) /\ frow \in FakeRowsOf(table)
  BY <1>1, <1>4 DEF HoldsRows, FakeHoldsRows, Holds
<1>6. row # NoRow => \A x \in Columns \cup {"id"} : row[x] = frow[x]
  BY <1>2 DEF Agree, Columns
<1>7. Newer(frow, fvals)
  BY <1>1, <1>2, <1>3, <1>4, <1>6 DEF Newer
<1>8. FakeHow(table, call.m) = "versioned"
  BY MethodIs DEF CallInv
<1>a. Columns \subseteq FakeColumns
  BY FakeColumnsAre DEF Columns, FakeColumns
<1>b. FakeApply(call) = IF frow = NoRow THEN Put(call.id, fvals) ELSE Put(call.id, Without(fvals, "created_at"))
  BY <1>7, <1>8, FakeApplyIs
<1>9. CASE row = NoRow
  <2>1. call.kept = NoRow /\ Stamped(call) = vals
    BY <1>3, <1>9 DEF Created, Stamped
  <2>2. Written(call) = NewRow(Columns, call.id, vals)
    BY <1>9, <2>1 DEF Written
  <2>3. FakeApply(call) = Put(call.id, fvals)
    BY <1>4, <1>9, <1>b
  <2> HIDE DEF C, D, vals, fvals
  <2>4. \A x \in C : vals[x] = fvals[x]
    BY <1>1
  <2> QED
    BY <1>1, <1>2, <1>9, <2>2, <2>3, <2>4, WritesAgree
<1>10. CASE row # NoRow
  <2> DEFINE E == D \ {"created_at"}
             kept == Without(fvals, "created_at")
             new == FakeApply(call)[call.id]
  <2>1. kept \in [E -> Nat] /\ \A x \in E : kept[x] = fvals[x]
    BY <1>1 DEF Without
  <2>2. E \in SUBSET FakeColumns /\ "id" \notin E
    BY <1>2
  <2>3. call.kept = row["created_at"] /\ call.kept # NoRow
    <3>1. row["created_at"] \in Nat
      BY <1>2, <1>5, <1>10 DEF RowsOf, Columns
    <3> QED
      BY <1>3, <1>10, <3>1, NoRowAssumption DEF Created
  <2>4. Written(call) = With(row, Stamped(call))
    BY <1>10 DEF Written, PgHow, PgMethod
  <2>5. FakeApply(call) = Put(call.id, kept)
    BY <1>4, <1>10, <1>b
  <2>6. new = With(frow, kept)
    <3> HIDE DEF E, kept
    <3> QED
      BY <1>1, <1>4, <1>10, <2>1, <2>2, <2>5, PutIs
  <2>7. Stamped(call) \in [C -> Nat] /\ Stamped(call)["created_at"] = row["created_at"]
        /\ \A x \in C : x # "created_at" => Stamped(call)[x] = vals[x]
    BY <2>3, StampedIs
  <2> HIDE DEF C, D, E, kept, vals, fvals
  <2>8. Written(call) \in RowsOf(table) /\ \A x \in Columns \cup {"id"} :
          Written(call)[x] = IF x \in C THEN Stamped(call)[x] ELSE row[x]
    BY <1>2, <1>5, <1>10, <2>4, <2>7, WithIs
  <2>9. new \in FakeRowsOf(table) /\ \A x \in FakeColumns \cup {"id"} :
          new[x] = IF x \in E THEN kept[x] ELSE frow[x]
    BY <1>4, <1>5, <1>10, <2>1, <2>2, <2>6, FakeWithIs
  <2>10. \A x \in Columns \cup {"id"} : Written(call)[x] = new[x]
    <3> SUFFICES ASSUME NEW x \in Columns \cup {"id"}
                 PROVE  Written(call)[x] = new[x]
      OBVIOUS
    <3>1. CASE x = "created_at"
      <4>1. x \in C /\ x \notin E
        BY <1>2, <3>1 DEF E
      <4> QED
        BY <1>6, <1>10, <1>a, <2>7, <2>8, <2>9, <3>1, <4>1
    <3>2. CASE x # "created_at"
      <4>1. x \in C <=> x \in E
        BY <1>2, <3>2 DEF E
      <4> QED
        BY <1>1, <1>6, <1>10, <1>a, <2>1, <2>7, <2>8, <2>9, <3>2, <4>1
    <3> QED
      BY <3>1, <3>2
  <2>11. Written(call) # NoRow /\ new # NoRow
    BY <2>8, <2>9, RowIsNotNoRow
  <2> QED
    BY <2>10, <2>11 DEF Agree, Columns
<1> QED
  BY <1>9, <1>10

\* When Postgres commits a call, the Fake's row is the same, unless its request id
\* belongs to another row.
LEMMA CommitsAgree ==
  ASSUME NEW call, table \in DOMAIN P!Tables, HoldsRows(table, pg), FakeHoldsRows(table, fake),
         CallInv(table, call, pg), ~Fails(call), call.pc = "write",
         table \in Racy => FreshCall(table, call, pg),
         FakeHow(table, call.m) = "indexed" => index[call.vals["request"]] \in {NoRow, call.id},
         Agree(table, pg[call.id], fake[call.id])
  PROVE  Agree(table, Written(call), FakeApply(call)[call.id])
<1> DEFINE C == ColsOf(table, call.m)
           D == FakeColsOf(table, call.m)
           row == pg[call.id]
           how == PgHow(table, call.m)
<1>1. /\ call.id \in Ids /\ PgVals(call) \in [C -> Nat] /\ FakeVals(call) \in [D -> Nat]
      /\ \A x \in C : x \in D /\ PgVals(call)[x] = call.vals[x] /\ FakeVals(call)[x] = call.vals[x]
  BY ValsAre DEF CallInv, CallsOf
<1>2. /\ C \in SUBSET Columns /\ "id" \notin C
      /\ D \in SUBSET FakeColumns /\ "id" \notin D /\ \A x \in Columns : x \in D <=> x \in C
  BY MethodIs DEF CallInv, Columns, FakeColumns
<1>a. /\ how = "onConflict" => FakeVals(call)["request"] = call.vals["request"]
      /\ how = "unlessSame" => FakeVals(call)["content"] = call.vals["content"]
  <2>1. how = "onConflict" => "request" \in C
    BY MethodIs DEF CallInv
  <2>2. how = "unlessSame" => "content" \in C
    BY MethodIs DEF CallInv
  <2> QED
    BY <1>1, <2>1, <2>2
<1>3. Stamped(call) \in [C -> Nat]
  BY StampedIs
<1>4. row = NoRow <=> fake[call.id] = NoRow
  BY DEF Agree
<1>5. how \in Hows
  BY MethodIs DEF CallInv
<1>6. CASE how = "versioned"
  <2>1. table \in Racy
    BY <1>6, MethodIs DEF CallInv
  <2> QED
    BY <1>6, <2>1, HandsAgree
<1>7. CASE how = "unlessSame" /\ row # NoRow /\ row["content"] = call.vals["content"]
  <2>1. Written(call) = row
    BY <1>7 DEF Written, PgHow, PgMethod
  <2>2. fake[call.id]["content"] = row["content"]
    BY <1>2, <1>7, MethodIs DEF Agree, CallInv, Columns
  <2>3. FakeApply(call) = fake
    BY <1>4, <1>7, <1>a, <2>2, MethodIs, FakeApplyIs DEF CallInv
  <2> QED
    BY <2>1, <2>3
<1>8. CASE how # "versioned" /\ ~(how = "unlessSame" /\ row # NoRow /\ row["content"] = call.vals["content"])
  <2>1. FakeApply(call) = Put(call.id, FakeVals(call))
    <3>1. CASE how = "register"
      <4>1. row = NoRow
        BY <3>1 DEF Fails, CallInv, PgHow, PgMethod
      <4> QED
        BY <1>4, <3>1, <4>1, MethodIs, FakeApplyIs DEF CallInv
    <3>2. CASE how = "update"
      <4>1. row # NoRow
        BY <3>2 DEF Fails, PgHow, PgMethod
      <4> QED
        BY <1>4, <3>2, <4>1, MethodIs, FakeApplyIs DEF CallInv
    <3>3. CASE how \in {"upsert", "readUpsert", "keepCreated", "merge"}
      BY <3>3, MethodIs, FakeApplyIs DEF CallInv
    <3>4. CASE how = "onConflict"
      BY <1>a, <3>4, MethodIs, FakeApplyIs DEF CallInv
    <3>5. CASE how = "unlessSame"
      <4>1. row # NoRow => fake[call.id]["content"] = row["content"]
        BY <1>2, <3>5, MethodIs DEF Agree, CallInv, Columns
      <4> QED
        BY <1>4, <1>8, <1>a, <3>5, <4>1, MethodIs, FakeApplyIs DEF CallInv
    <3> QED
      BY <1>5, <1>8, <3>1, <3>2, <3>3, <3>4, <3>5 DEF Hows
  <2>2. Written(call) = IF row = NoRow THEN NewRow(Columns, call.id, Stamped(call)) ELSE With(row, Stamped(call))
    <3>1. CASE row # NoRow /\ how = "merge"
      <4>1. ColsOf(table, call.m) # ColumnsOf(table) => call.read = row
        BY <3>1, MethodIs DEF CallInv, FreshCall
      <4>2. Stamped(call) = PgVals(call)
        BY <3>1, StampedIs
      <4> QED
        BY <3>1, <4>1, <4>2, MergeIsUpdate
    <3>2. CASE row = NoRow \/ how # "merge"
      BY <1>8, <3>2 DEF Written, PgHow, PgMethod
    <3> QED
      BY <3>1, <3>2
  <2>3. \A x \in C : (x = "created_at" => ~KeepsCreated(table)) => Stamped(call)[x] = FakeVals(call)[x]
    <3>1. how = "keepCreated" => KeepsCreated(table)
      BY MethodIs DEF CallInv
    <3> QED
      BY <1>1, <1>8, <3>1, StampedIs
  <2> HIDE DEF C, D
  <2> QED
    BY <1>1, <1>2, <1>3, <2>1, <2>2, <2>3, WritesAgree
<1> QED
  BY <1>6, <1>7, <1>8

------------------------------------------------------------------------------
(* The steps.                                                               *)

\* The tables are empty.
LEMMA InitStore ==
  ASSUME StoreInit
  PROVE  StoreInv
<1>1. StoreTypeOK
  BY DEF StoreInit, StoreTypeOK, HoldsRows, FakeHoldsRows, Holds
<1>2. CallsKnow /\ CallsAreFresh
  BY DEF StoreInit, CallsKnow, CallsAreFresh
<1>3. RowsAgree
  BY DEF StoreInit, RowsAgree, Agree
<1> QED
  BY <1>1, <1>2, <1>3 DEF StoreInv

\* A method is called: it has read nothing yet.
LEMMA BeginKeepsStore ==
  ASSUME StoreInv, NEW c \in Clients, NEW m \in DOMAIN P!Tables[table], NEW id \in Ids,
         NEW val \in Vals, NEW at \in Vals, NEW created \in Vals,
         Begin(c, m, id, val, at, created)
  PROVE  StoreInv'
<1> DEFINE call == [m |-> m, id |-> id, pc |-> FirstStep[PgMethod(m).how], read |-> NoRow, kept |-> NoRow,
                    vals |-> [x \in PgMethod(m).cols \cup FakeMethod(m).cols |->
                                CASE x = "created_at" -> created
                                  [] x = "updated_at" -> at
                                  [] OTHER -> val]]
<1>1. /\ underway' = [underway EXCEPT ![c] = call]
      /\ overlapped' = (overlapped \/ \E d \in Clients : underway[d] # NoRow)
      /\ UNCHANGED <<table, pg, fake, index, reused>>
  BY DEF Begin
<1>2. StoreTypeOK /\ CallsKnow /\ CallsAreFresh /\ RowsAgree
  BY DEF StoreInv
<1>3. /\ PgMethod(m).how = PgHow(table, m) /\ PgMethod(m).cols = ColsOf(table, m)
      /\ FakeMethod(m).cols = FakeColsOf(table, m)
  BY DEF PgMethod, PgHow, ColsOf, FakeMethod, FakeColsOf
<1>4. PgHow(table, m) \in Hows
  BY <1>2, MethodIs DEF StoreTypeOK
<1>5. /\ call.pc \in {"read", "select", "write"}
      /\ call.pc = "select" => PgHow(table, m) # "versioned"
      /\ call.pc = "write" => PgHow(table, m) \in {"update", "onConflict", "unlessSame"}
  BY <1>3, <1>4 DEF FirstStep, Hows
<1>6. call.vals \in [ColsOf(table, m) \cup FakeColsOf(table, m) -> Nat]
  <2>1. val \in Nat /\ at \in Nat /\ created \in Nat
    BY RepositoriesAssumption
  <2> QED
    BY <1>3, <2>1
<1>7. call.m = m /\ call.id = id /\ call.read = NoRow /\ call.kept = NoRow
  OBVIOUS
<1>8. call \in CallsOf(table, m)
  BY <1>5, <1>6 DEF CallsOf
<1> HIDE DEF call
<1>9. CallInv(table, call, pg)
  BY <1>5, <1>7, <1>8 DEF CallInv
<1>10. FreshCall(table, call, pg)
  BY <1>5, <1>7 DEF FreshCall
<1>11. StoreTypeOK'
  BY <1>1, <1>2 DEF StoreTypeOK
<1>12. CallsKnow'
  BY <1>1, <1>2, <1>9 DEF CallsKnow, StoreTypeOK
<1>13. CallsAreFresh'
  BY <1>1, <1>2, <1>10 DEF CallsAreFresh, StoreTypeOK
<1>14. RowsAgree'
  BY <1>1, <1>2 DEF RowsAgree, Comparable, StoreTypeOK
<1> QED
  BY <1>11, <1>12, <1>13, <1>14 DEF StoreInv

\* A call that goes on without writing.
LEMMA CallGoesOnInStore ==
  ASSUME StoreInv, NEW c \in Clients, underway[c] # NoRow, NEW call,
         underway' = [underway EXCEPT ![c] = call],
         CallInv(table, call, pg), FreshCall(table, call, pg),
         UNCHANGED <<table, pg, fake, overlapped, reused>>
  PROVE  StoreInv'
<1>1. StoreTypeOK /\ CallsKnow /\ CallsAreFresh /\ RowsAgree
  BY DEF StoreInv
<1>2. StoreTypeOK'
  BY <1>1 DEF StoreTypeOK
<1>3. CallsKnow'
  BY <1>1 DEF CallsKnow, StoreTypeOK
<1>4. CallsAreFresh'
  BY <1>1 DEF CallsAreFresh, StoreTypeOK
<1>5. RowsAgree'
  BY <1>1 DEF RowsAgree, Comparable
<1> QED
  BY <1>2, <1>3, <1>4, <1>5 DEF StoreInv

\* A call that ends: the row of Postgres was written or not, the Fake did the call or
\* not, and the two rows agree if they did before and a request id was not reused.
LEMMA CallEndsInStore ==
  ASSUME StoreInv, NEW c \in Clients, underway[c] # NoRow,
         underway' = [underway EXCEPT ![c] = NoRow],
         UNCHANGED <<table, overlapped>>, reused' \in BOOLEAN, reused => reused',
         HoldsRows(table, pg'), FakeHoldsRows(table, fake'),
         \A i \in Ids : pg[i] # NoRow => pg'[i] # NoRow,
         \A i \in Ids : i # underway[c].id => pg'[i] = pg[i] /\ fake'[i] = fake[i],
         Comparable' /\ Agree(table, pg[underway[c].id], fake[underway[c].id]) =>
           Agree(table, pg'[underway[c].id], fake'[underway[c].id])
  PROVE  StoreInv'
<1>1. StoreTypeOK /\ CallsKnow /\ CallsAreFresh /\ RowsAgree
  BY DEF StoreInv
<1>2. StoreTypeOK'
  BY <1>1 DEF StoreTypeOK
<1>3. CallsKnow'
  <2> SUFFICES ASSUME NEW d \in Clients, underway'[d] # NoRow
               PROVE  CallInv(table, underway'[d], pg')
    BY DEF CallsKnow
  <2>1. d # c /\ underway'[d] = underway[d]
    BY <1>1 DEF StoreTypeOK
  <2>2. CallInv(table, underway[d], pg)
    BY <1>1, <2>1 DEF CallsKnow
  <2>3. underway[d].id \in Ids
    BY <2>2 DEF CallInv, CallsOf
  <2> QED
    BY <2>1, <2>2, <2>3 DEF CallInv
<1>4. CallsAreFresh'
  <2> SUFFICES ASSUME ~overlapped
               PROVE  \A d \in Clients : underway'[d] = NoRow
    BY DEF CallsAreFresh
  <2> QED
    BY <1>1 DEF CallsAreFresh, StoreTypeOK
<1>5. RowsAgree'
  <2> SUFFICES ASSUME Comparable', NEW i \in Ids
               PROVE  Agree(table, pg'[i], fake'[i])
    BY DEF RowsAgree
  <2>1. Comparable
    BY <1>1 DEF Comparable, StoreTypeOK
  <2>2. Agree(table, pg[i], fake[i])
    BY <1>1, <2>1 DEF RowsAgree
  <2> QED
    BY <2>2
<1> QED
  BY <1>2, <1>3, <1>4, <1>5 DEF StoreInv

\* What the Fake's index says of a call.
LEMMA AppliedIs ==
  ASSUME NEW call, Applied(call), reused \in BOOLEAN
  PROVE  /\ fake' = FakeApply(call)
         /\ reused' \in BOOLEAN /\ (reused => reused')
         /\ FakeHow(table, call.m) = "indexed" /\ ~reused' =>
              index[call.vals["request"]] \in {NoRow, call.id}
BY DEF Applied, FakeHow, FakeMethod

\* A call that Postgres ends without writing, as does the Fake.
LEMMA CallEndsUnwritten ==
  ASSUME StoreInv, NEW c \in Clients, underway[c] # NoRow, Done(c), Applied(underway[c]),
         UNCHANGED <<table, pg, overlapped>>,
         Agree(table, pg[underway[c].id], fake[underway[c].id]) => FakeApply(underway[c]) = fake
  PROVE  StoreInv'
<1>1. StoreTypeOK /\ CallsKnow
  BY DEF StoreInv
<1>2. CallInv(table, underway[c], pg)
  BY <1>1 DEF CallsKnow
<1>3. fake' = FakeApply(underway[c]) /\ reused' \in BOOLEAN /\ (reused => reused')
  BY <1>1, AppliedIs DEF StoreTypeOK
<1>4. FakeHoldsRows(table, fake') /\ \A i \in Ids : i # underway[c].id => fake'[i] = fake[i]
  BY <1>1, <1>2, <1>3, FakeKeepsRows DEF StoreTypeOK
<1> QED
  BY <1>1, <1>3, <1>4, CallEndsInStore DEF Done, StoreTypeOK

\* The read before the transaction, with the decision on a hand's version.
LEMMA ReadKeepsStore ==
  ASSUME StoreInv, NEW c \in Clients, Read(c)
  PROVE  StoreInv'
<1> DEFINE call == underway[c]
           row == pg[call.id]
<1>1. StoreTypeOK /\ CallsKnow
  BY DEF StoreInv
<1>2. call # NoRow /\ call.pc = "read" /\ UNCHANGED <<table, pg, overlapped>>
  BY DEF Read
<1>3. CallInv(table, call, pg)
  BY <1>1, <1>2 DEF CallsKnow
<1>4. call.m \in DOMAIN P!Tables[table] /\ call \in CallsOf(table, call.m) /\ call.id \in Ids
  BY <1>3 DEF CallInv, CallsOf
<1>5. row # NoRow => row \in RowsOf(table) /\ row["id"] = call.id
  BY <1>1, <1>4 DEF StoreTypeOK, HoldsRows, Holds
<1>6. PgMethod(call.m).how = PgHow(table, call.m)
  BY DEF PgMethod, PgHow
<1>7. PgHow(table, call.m) \in {"keepCreated", "versioned"} => Created(row) \in Nat \cup {NoRow}
  <2>1. PgHow(table, call.m) \in {"keepCreated", "versioned"} => "created_at" \in ColumnsOf(table)
    BY <1>1, <1>4, MethodIs DEF StoreTypeOK
  <2> QED
    BY <1>5, <2>1 DEF Created, RowsOf
<1>8. CASE PgHow(table, call.m) = "keepCreated" /\ UNCHANGED <<fake, index, reused>>
           /\ underway' = [underway EXCEPT ![c].pc = "select", ![c].kept = Created(row)]
  <2> DEFINE next == [call EXCEPT !.pc = "select", !.kept = Created(row)]
  <2>1. underway' = [underway EXCEPT ![c] = next]
    BY <1>1, <1>8 DEF StoreTypeOK
  <2>2. next.m = call.m /\ next.id = call.id /\ next.pc = "select" /\ next.read = call.read
        /\ next \in CallsOf(table, call.m)
    BY <1>4, <1>7, <1>8 DEF CallsOf
  <2> HIDE DEF next
  <2>3. CallInv(table, next, pg)
    BY <1>3, <1>4, <1>8, <2>2 DEF CallInv
  <2>4. FreshCall(table, next, pg)
    BY <2>2 DEF FreshCall
  <2> QED
    BY <1>2, <1>8, <2>1, <2>3, <2>4, CallGoesOnInStore
<1>9. CASE PgHow(table, call.m) = "versioned" /\ Newer(row, call.vals) /\ UNCHANGED <<fake, index, reused>>
           /\ underway' = [underway EXCEPT ![c].pc = "write", ![c].read = row, ![c].kept = Created(row)]
  <2> DEFINE next == [call EXCEPT !.pc = "write", !.read = row, !.kept = Created(row)]
  <2>1. underway' = [underway EXCEPT ![c] = next]
    BY <1>1, <1>9 DEF StoreTypeOK
  <2>2. next.m = call.m /\ next.id = call.id /\ next.pc = "write" /\ next.read = row
        /\ next.kept = Created(row) /\ next.vals = call.vals /\ next \in CallsOf(table, call.m)
    BY <1>4, <1>5, <1>7, <1>9 DEF CallsOf
  <2> HIDE DEF next
  <2>3. CallInv(table, next, pg)
    BY <1>4, <1>5, <1>9, <2>2 DEF CallInv
  <2>4. FreshCall(table, next, pg)
    BY <1>9, <2>2 DEF FreshCall
  <2> QED
    BY <1>2, <1>9, <2>1, <2>3, <2>4, CallGoesOnInStore
<1>10. CASE PgHow(table, call.m) = "versioned" /\ ~Newer(row, call.vals) /\ Done(c) /\ Applied(call)
  <2>1. ASSUME Agree(table, row, fake[call.id])
        PROVE  FakeApply(call) = fake
    <3>1. /\ "version" \in ColumnsOf(table) /\ "version" \in ColsOf(table, call.m)
          /\ ~KeepsCreated(table) /\ FakeHow(table, call.m) = "versioned"
      BY <1>1, <1>4, <1>10, MethodIs DEF StoreTypeOK
    <3>2. row # NoRow /\ fake[call.id] # NoRow /\ row["version"] = fake[call.id]["version"]
      BY <1>10, <2>1, <3>1 DEF Agree, Newer
    <3>3. ~Newer(fake[call.id], FakeVals(call))
      BY <1>1, <1>3, <1>10, <3>1, <3>2, ValsAre DEF Newer, StoreTypeOK
    <3> QED
      BY <3>1, <3>3, FakeApplyIs
  <2> QED
    BY <1>2, <1>10, <2>1, CallEndsUnwritten
<1> QED
  BY <1>6, <1>8, <1>9, <1>10 DEF Read

\* The SELECT; a miner that is there is not registered again.
LEMMA SelectKeepsStore ==
  ASSUME StoreInv, NEW c \in Clients, Select(c)
  PROVE  StoreInv'
<1> DEFINE call == underway[c]
           row == pg[call.id]
<1>1. StoreTypeOK /\ CallsKnow
  BY DEF StoreInv
<1>2. call # NoRow /\ call.pc = "select" /\ UNCHANGED <<table, pg, overlapped>>
  BY DEF Select
<1>3. CallInv(table, call, pg)
  BY <1>1, <1>2 DEF CallsKnow
<1>4. call.m \in DOMAIN P!Tables[table] /\ call \in CallsOf(table, call.m) /\ call.id \in Ids
  BY <1>3 DEF CallInv, CallsOf
<1>5. row # NoRow => row \in RowsOf(table) /\ row["id"] = call.id
  BY <1>1, <1>4 DEF StoreTypeOK, HoldsRows, Holds
<1>6. PgMethod(call.m).how = PgHow(table, call.m)
  BY DEF PgMethod, PgHow
<1>7. CASE PgHow(table, call.m) = "register" /\ row # NoRow /\ Done(c) /\ Applied(call)
  <2>1. ASSUME Agree(table, row, fake[call.id])
        PROVE  FakeApply(call) = fake
    <3>1. FakeHow(table, call.m) = "register"
      BY <1>1, <1>4, <1>7, MethodIs DEF StoreTypeOK
    <3>2. fake[call.id] # NoRow
      BY <1>7, <2>1 DEF Agree
    <3> QED
      BY <3>1, <3>2, FakeApplyIs
  <2> QED
    BY <1>2, <1>7, <2>1, CallEndsUnwritten
<1>8. CASE (PgHow(table, call.m) = "register" => row = NoRow) /\ UNCHANGED <<fake, index, reused>>
           /\ underway' = [underway EXCEPT ![c].pc = "write", ![c].read = row]
  <2> DEFINE next == [call EXCEPT !.pc = "write", !.read = row]
  <2>1. underway' = [underway EXCEPT ![c] = next]
    BY <1>1, <1>8 DEF StoreTypeOK
  <2>2. next.m = call.m /\ next.id = call.id /\ next.pc = "write" /\ next.read = row
        /\ next.kept = call.kept /\ next \in CallsOf(table, call.m)
    BY <1>4, <1>5, <1>8 DEF CallsOf
  <2> HIDE DEF next
  <2>3. CallInv(table, next, pg)
    BY <1>3, <1>4, <1>5, <1>8, <2>2 DEF CallInv
  <2>4. FreshCall(table, next, pg)
    BY <1>2, <1>3, <2>2 DEF CallInv, FreshCall
  <2> QED
    BY <1>2, <1>8, <2>1, <2>3, <2>4, CallGoesOnInStore
<1> QED
  BY <1>6, <1>7, <1>8 DEF Select

\* The INSERT or UPDATE, which fails or is done by both repositories.
LEMMA WriteKeepsStore ==
  ASSUME StoreInv, NEW c \in Clients, Write(c)
  PROVE  StoreInv'
<1> DEFINE call == underway[c]
           id == call.id
<1>1. StoreTypeOK /\ CallsKnow /\ CallsAreFresh
  BY DEF StoreInv
<1>2. call # NoRow /\ call.pc = "write" /\ Done(c) /\ UNCHANGED <<table, overlapped>>
  BY DEF Write
<1>3. CallInv(table, call, pg)
  BY <1>1, <1>2 DEF CallsKnow
<1>4. id \in Ids
  BY <1>3 DEF CallInv, CallsOf
<1>5. CASE Fails(call)
  <2>1. UNCHANGED <<pg, fake, reused>>
    BY <1>5 DEF Write
  <2> QED
    BY <1>1, <1>2, <2>1, CallEndsInStore DEF Done, StoreTypeOK
<1>6. CASE ~Fails(call)
  <2>1. pg' = [pg EXCEPT ![id] = Written(call)] /\ Applied(call)
    BY <1>6 DEF Write
  <2>2. Written(call) \in RowsOf(table) /\ Written(call)["id"] = id /\ Written(call) # NoRow
    BY <1>1, <1>3, <1>6, WrittenIsRow, RowIsNotNoRow DEF StoreTypeOK
  <2>3. pg'[id] = Written(call) /\ \A i \in Ids : i # id => pg'[i] = pg[i]
    BY <1>1, <1>4, <2>1 DEF StoreTypeOK, HoldsRows, Holds
  <2>4. HoldsRows(table, pg')
    <3>1. pg' \in [Ids -> RowsOf(table) \cup {NoRow}]
      BY <1>1, <1>4, <2>1, <2>2 DEF StoreTypeOK, HoldsRows, Holds
    <3> QED
      BY <1>1, <2>2, <2>3, <3>1 DEF StoreTypeOK, HoldsRows, Holds
  <2>5. \A i \in Ids : pg[i] # NoRow => pg'[i] # NoRow
    BY <2>2, <2>3
  <2>6. fake' = FakeApply(call) /\ reused' \in BOOLEAN /\ (reused => reused')
    BY <1>1, <2>1, AppliedIs DEF StoreTypeOK
  <2>7. FakeHoldsRows(table, fake') /\ \A i \in Ids : i # id => fake'[i] = fake[i]
    BY <1>1, <1>3, <2>6, FakeKeepsRows DEF StoreTypeOK
  <2>8. ASSUME Comparable', Agree(table, pg[id], fake[id])
        PROVE  Agree(table, pg'[id], fake'[id])
    <3>1. ~reused' /\ (table \in Racy => ~overlapped)
      BY <1>2, <2>8 DEF Comparable
    <3>2. table \in Racy => FreshCall(table, call, pg)
      BY <1>1, <1>2, <3>1 DEF CallsAreFresh
    <3>3. FakeHow(table, call.m) = "indexed" => index[call.vals["request"]] \in {NoRow, id}
      BY <1>1, <2>1, <3>1, AppliedIs DEF StoreTypeOK
    <3> QED
      BY <1>1, <1>2, <1>3, <1>6, <2>3, <2>6, <2>8, <3>2, <3>3, CommitsAgree DEF StoreTypeOK
  <2> QED
    BY <1>2, <2>3, <2>4, <2>5, <2>6, <2>7, <2>8, CallEndsInStore DEF Done
<1> QED
  BY <1>5, <1>6

\* Every step keeps the invariant.
LEMMA StepKeepsStore ==
  ASSUME StoreInv, [StoreNext]_storeVars
  PROVE  StoreInv'
<1>1. CASE UNCHANGED storeVars
  BY <1>1 DEF storeVars, StoreInv, StoreTypeOK, CallsKnow, CallsAreFresh, RowsAgree, Comparable
<1>2. CASE StoreNext
  BY <1>2, BeginKeepsStore, ReadKeepsStore, SelectKeepsStore, WriteKeepsStore DEF StoreNext
<1> QED
  BY <1>1, <1>2

\* The invariant holds in every behaviour.
LEMMA StoreInvHolds == StoreSpec => []StoreInv
BY InitStore, StepKeepsStore, PTL DEF StoreSpec

\* For any number of clients, calls, ids and timestamps in any order, whatever method of
\* whatever table is called, the Fake holds the rows that Postgres holds, column by
\* column, with the exceptions FakeAgrees names.
THEOREM FakeIsPostgres == StoreSpec => []FakeAgrees
<1>1. StoreInv => FakeAgrees
  <2> SUFFICES ASSUME StoreInv, Comparable, NEW i \in Ids
               PROVE  /\ (pg[i] = NoRow) = (fake[i] = NoRow)
                      /\ pg[i] # NoRow =>
                           /\ DOMAIN fake[i] = DOMAIN pg[i] \cup FakeOnly(table)
                           /\ \A x \in DOMAIN pg[i] :
                                (x = "created_at" => ~KeepsCreated(table)) => pg[i][x] = fake[i][x]
    BY DEF FakeAgrees, Comparable
  <2>1. Agree(table, pg[i], fake[i])
    BY DEF StoreInv, RowsAgree
  <2>2. /\ pg[i] # NoRow => DOMAIN pg[i] = ColumnsOf(table) \cup {"id"}
        /\ fake[i] # NoRow => DOMAIN fake[i] = FakeColumnsOf(table) \cup {"id"}
    BY DEF StoreInv, StoreTypeOK, HoldsRows, FakeHoldsRows, Holds, RowsOf, FakeRowsOf
  <2>3. FakeColumnsOf(table) = ColumnsOf(table) \cup FakeOnly(table)
    BY FakeColumnsAre DEF StoreInv, StoreTypeOK
  <2> QED
    BY <2>1, <2>2, <2>3 DEF Agree
<1> QED
  BY <1>1, StoreInvHolds, PTL
=============================================================================

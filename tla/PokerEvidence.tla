----------------------------- MODULE PokerEvidence -----------------------------
(***************************************************************************)
(* How the evidence of one poker tournament is collected: completed hands   *)
(* arrive as messages of a queue that delivers at least once and in any     *)
(* order, and a builder turns the rows into manifests and says whether the  *)
(* evidence may be used for rewards.                                        *)
(*                                                                          *)
(* Ingestion and building are asyncio tasks of one service.                 *)
(* Each repository call is a transaction of its own, so each is a step.  A  *)
(* consumer acknowledges a message when the ingest handler returns; one     *)
(* that is not acknowledged, because the handler raised or the service      *)
(* crashed, is delivered again, and so may be one that is.                  *)
(*                                                                          *)
(* Data.  A checksum stands for the payload it hashes.  A message without a *)
(* version has version NoVersion.  Row ids that hash their content make the *)
(* conflict and dead-letter tables sets.  A manifest's root is the rows it  *)
(* was built from; artifacts, which are stored under their root, are left   *)
(* out.  Of a checkpoint only the lag is ever read again; its offset, root  *)
(* and times are left out.                                                  *)
(***************************************************************************)
EXTENDS Naturals, FiniteSets

CONSTANTS Hands,       \* hand ids
          Checksums,   \* payload hashes
          MaxVersion,  \* bound on the version of a hand
          Queues,      \* (topic, consumer group, queue) triples
          Messages,    \* what the donor ever sends: a set of MessageType
          Consumers,   \* tasks that deliver messages
          HudWindows,  \* "short_term" and "long_term"
          MaxCrashes,  \* bound on the crashes of the service
          None

NoVersion == 0

\* A completed hand (hand # None) or a stand-up message (hand = None).
\* readable says whether the projector can make an event of it: its topic is
\* known, its record is JSON and has a sequence number or a version.  valid says
\* whether the event has its schema, type, checksum and identity.
MessageType == [id : Nat, hand : Hands \cup {None}, version : 0..MaxVersion,
                checksum : Checksums, readable : BOOLEAN, valid : BOOLEAN,
                queue : Queues]

HandRow == [version : 1..MaxVersion, checksum : Checksums]

ASSUME EvidenceAssumption ==
    /\ MaxVersion \in Nat \ {0}
    /\ MaxCrashes \in Nat
    /\ Messages \subseteq MessageType
    /\ IsFiniteSet(Messages)
    /\ None \notin HandRow \cup Hands \cup Checksums

VARIABLES
    hands,       \* poker_mtt_hand_events: hand -> row, or None
    checkpoints, \* poker_mtt_mq_checkpoints: queue -> lag_messages, or None
    conflicts,   \* poker_mtt_mq_conflicts, all in state "manual_review"
    dlq,         \* poker_mtt_mq_dlq, all in state "open"
    degradable,  \* kinds of degradable evidence (HUD, hidden eval) with rows
    proc,        \* consumer -> the ingest handler it runs
    build,       \* the manifest builder and what it has read
    watched,     \* the message whose fate is followed: any, chosen at the start
    acked,       \* a handler of the watched message has returned
    crashes

rows == <<hands, checkpoints, conflicts, dlq, degradable>>
vars == <<rows, proc, build, watched, acked, crashes>>

Idle == [pc |-> "idle", msg |-> None, lag |-> 0, state |-> "inserted"]
NoBuild == [pc |-> "idle", hands |-> {}, kinds |-> {}, lagging |-> FALSE,
            conflict |-> FALSE, acked |-> FALSE]

Init ==
    /\ hands = [h \in Hands |-> None]
    /\ checkpoints = [q \in Queues |-> None]
    /\ conflicts = {} /\ dlq = {}
    /\ degradable = {}
    /\ proc = [c \in Consumers |-> Idle]
    /\ build = NoBuild
    /\ watched \in Messages
    /\ acked = FALSE
    /\ crashes = 0

------------------------------------------------------------------------------
(* Ingestion.                                                               *)

\* _validate_hand_completed_event
ValidHandEvent(m) == m.valid

\* Mutant: the version order of an older message is not looked at.
DecisionWithoutStale(m, existing) ==
    CASE existing = None -> IF m.version = NoVersion THEN "conflict" ELSE "inserted"
      [] existing # None /\ m.version \notin {NoVersion, existing.version} -> "updated"
      [] OTHER -> IF m.checksum = existing.checksum THEN "duplicate" ELSE "conflict"

\* What save_poker_mtt_hand_event decides about message m, given the row it has
\* read for the hand.
Decision(m, existing) ==
    CASE existing = None -> IF m.version = NoVersion THEN "conflict" ELSE "inserted"
      [] existing # None /\ m.version # NoVersion /\ m.version # existing.version ->
           IF m.version < existing.version THEN "stale" ELSE "updated"
      [] OTHER -> IF m.checksum = existing.checksum THEN "duplicate" ELSE "conflict"

\* A consumer hands a message to ingest_poker_mtt_hand_event, which validates
\* it; save_poker_mtt_hand_event then reads the hand and decides.  The lag is
\* what the broker reported with this delivery.
Deliver(c, m) ==
    /\ proc[c].pc = "idle"
    /\ m.readable /\ m.hand # None
    /\ \E lag \in 0..1 :
         LET d == Decision(m, hands[m.hand])
             p == [Idle EXCEPT !.msg = m, !.lag = lag]
         IN proc' = [proc EXCEPT ![c] =
                       IF ~ValidHandEvent(m) THEN [p EXCEPT !.pc = "dlq"]
                       ELSE IF d \in {"inserted", "updated"}
                              THEN [p EXCEPT !.pc = "write", !.state = d]
                       ELSE [p EXCEPT !.pc = "checkpoint", !.state = d]]
    /\ UNCHANGED <<rows, build, acked, crashes, watched>>

\* A stand-up message only moves the checkpoint of its queue.
DeliverNonHand(c, m) ==
    /\ proc[c].pc = "idle"
    /\ m.readable /\ m.hand = None
    /\ checkpoints' = [checkpoints EXCEPT ![m.queue] = 0]
    /\ acked' = (acked \/ m = watched)
    /\ UNCHANGED <<hands, conflicts, dlq, degradable, proc, build,
                   crashes, watched>>

\* Of a message the projector cannot read no event is made.
DeliverUnreadable(c, m) ==
    /\ proc[c].pc = "idle"
    /\ ~m.readable
    /\ proc' = [proc EXCEPT ![c] = [Idle EXCEPT !.pc = "raise", !.msg = m]]
    /\ UNCHANGED <<rows, build, acked, crashes, watched>>

\* It raises, which nobody catches: the message is not acknowledged, and no
\* dead letter is saved.
Raise(c) ==
    /\ proc[c].pc = "raise"
    /\ proc' = [proc EXCEPT ![c] = Idle]
    /\ UNCHANGED <<rows, build, acked, crashes, watched>>

\* An insert of a hand that another task has inserted meanwhile violates the
\* table's key: the handler raises and the message is not acknowledged.  An
\* update writes whatever the row holds by now.
WriteHand(c) ==
    /\ proc[c].pc = "write"
    /\ LET m == proc[c].msg IN
         IF proc[c].state = "inserted" /\ hands[m.hand] # None
           THEN /\ proc' = [proc EXCEPT ![c] = Idle]
                /\ UNCHANGED hands
           ELSE /\ hands' = [hands EXCEPT ![m.hand] =
                               [version |-> m.version, checksum |-> m.checksum]]
                /\ proc' = [proc EXCEPT ![c].pc = "checkpoint"]
    /\ UNCHANGED <<checkpoints, conflicts, dlq, degradable, build,
                   acked, crashes, watched>>

\* The dead letter of an event that does not validate is saved first.
SaveDlq(c) ==
    /\ proc[c].pc = "dlq"
    /\ dlq' = dlq \cup {proc[c].msg.id}
    /\ proc' = [proc EXCEPT ![c].pc = "checkpoint", ![c].state = "dlq"]
    /\ UNCHANGED <<hands, checkpoints, conflicts, degradable, build,
                   acked, crashes, watched>>

\* The checkpoint step of a handler that forgets to record conflicts.
SaveCheckpointDropsConflict(c) ==
    /\ proc[c].pc = "checkpoint"
    /\ LET p == proc[c] IN
         /\ checkpoints' = [checkpoints EXCEPT ![p.msg.queue] = p.lag]
         /\ proc' = [proc EXCEPT ![c] = Idle]
         /\ acked' = (acked \/ p.msg = watched)
    /\ UNCHANGED <<hands, conflicts, dlq, degradable, build,
                   crashes, watched>>

\* After the dead letter, as after every other outcome, the checkpoint of the queue
\* is saved, whatever it
\* held.  The handler returns here unless there is a conflict to record.
SaveCheckpoint(c) ==
    /\ proc[c].pc = "checkpoint"
    /\ LET p == proc[c] IN
         /\ checkpoints' = [checkpoints EXCEPT ![p.msg.queue] = p.lag]
         /\ IF p.state = "conflict"
              THEN /\ proc' = [proc EXCEPT ![c].pc = "conflict"]
                   /\ UNCHANGED acked
              ELSE /\ proc' = [proc EXCEPT ![c] = Idle]
                   /\ acked' = (acked \/ p.msg = watched)
    /\ UNCHANGED <<hands, conflicts, dlq, degradable, build,
                   crashes, watched>>

\* Recording a conflict, with a repository that raises.
SaveConflictRaises(c) ==
    /\ proc[c].pc = "conflict"
    /\ proc' = [proc EXCEPT ![c] = Idle]
    /\ UNCHANGED <<rows, build, acked, crashes, watched>>

\* The conflict row names the message that could not be stored.
SaveConflict(c) ==
    /\ proc[c].pc = "conflict"
    /\ LET p == proc[c] IN
         /\ conflicts' = conflicts \cup {p.msg.id}
         /\ acked' = (acked \/ p.msg = watched)
         /\ proc' = [proc EXCEPT ![c] = Idle]
    /\ UNCHANGED <<hands, checkpoints, dlq, degradable, build,
                   crashes, watched>>

Consume(c) == \/ \E m \in Messages : \/ Deliver(c, m) \/ DeliverNonHand(c, m)
                                       \/ DeliverUnreadable(c, m)
              \/ Raise(c) \/ WriteHand(c) \/ SaveDlq(c) \/ SaveCheckpoint(c)
              \/ SaveConflict(c)

------------------------------------------------------------------------------
(* The other rows the evidence is built from.                               *)

REQUIRED_KINDS == {"final_ranking", "hand_history", "hidden_eval", "consumer_checkpoint"}
                    \cup HudWindows
DEGRADED_ALLOWLIST == {"hidden_eval"} \cup HudWindows

\* HUD snapshots (one table per window) and hidden evaluation entries.
SaveDegradable(k) ==
    /\ k \notin degradable
    /\ degradable' = degradable \cup {k}
    /\ UNCHANGED <<hands, checkpoints, conflicts, dlq, proc, build, acked,
                   crashes, watched>>

SaveOtherRows == \E k \in DEGRADED_ALLOWLIST : SaveDegradable(k)

------------------------------------------------------------------------------
(* build_poker_mtt_evidence_manifests.                                      *)

Saved(f) == {x \in DOMAIN f : f[x] # None}

\* It raises, and changes nothing, until the tournament has final rankings; the
\* model starts when it has.  build.acked is a
\* history variable: the watched message had been acknowledged by then.
BuildStart ==
    /\ build.pc = "idle"
    /\ build' = [NoBuild EXCEPT !.pc = "hands", !.kinds = {"final_ranking"}, !.acked = acked]
    /\ UNCHANGED <<rows, proc, acked, crashes, watched>>

\* A manifest per kind with rows: what was read, and where the handler goes on.
BuildRead(pc, kinds, next) ==
    /\ build.pc = pc
    /\ build' = [next EXCEPT !.kinds = @ \cup kinds]
    /\ UNCHANGED <<rows, proc, acked, crashes, watched>>

BuildReadHands ==
    BuildRead("hands", IF Saved(hands) = {} THEN {} ELSE {"hand_history"},
              [build EXCEPT !.pc = "degradable",
                            !.hands = {[hand |-> h, row |-> hands[h]] : h \in Saved(hands)}])

BuildReadDegradable ==
    BuildRead("degradable", degradable, [build EXCEPT !.pc = "checkpoints"])

BuildReadCheckpoints ==
    BuildRead("checkpoints",
              IF Saved(checkpoints) = {} THEN {} ELSE {"consumer_checkpoint"},
              [build EXCEPT !.pc = "conflicts",
                            !.lagging = \E q \in Saved(checkpoints) : checkpoints[q] > 0])

BuildReadConflicts ==
    BuildRead("conflicts", {}, [build EXCEPT !.pc = "dlq", !.conflict = conflicts # {}])

\* The state of the evidence, with the conflicts forgotten.
EvidenceStateWithoutConflicts(b, open) ==
    IF ~(REQUIRED_KINDS \subseteq b.kinds \cup DEGRADED_ALLOWLIST) \/ open \/ b.lagging
      THEN "blocked"
    ELSE IF DEGRADED_ALLOWLIST \ b.kinds # {} THEN "accepted_degraded"
    ELSE "complete"

\* The state of the evidence, from what was read and the open dead letters.
EvidenceState(b, open) ==
    IF \/ ~(REQUIRED_KINDS \subseteq b.kinds \cup DEGRADED_ALLOWLIST)
       \/ b.conflict \/ open \/ b.lagging
      THEN "blocked"
    ELSE IF DEGRADED_ALLOWLIST \ b.kinds # {} THEN "accepted_degraded"
    ELSE "complete"

\* The dead letters are read last, and the manifests are stored.
BuildPublish ==
    /\ build.pc = "dlq"
    /\ build' = NoBuild
    /\ UNCHANGED <<rows, proc, acked, crashes, watched>>

Build == BuildStart \/ BuildReadHands \/ BuildReadDegradable
           \/ BuildReadCheckpoints \/ BuildReadConflicts \/ BuildPublish

\* The service restarts: the handlers are gone, the rows stay.
Crash ==
    /\ crashes < MaxCrashes
    /\ crashes' = crashes + 1
    /\ proc' = [c \in Consumers |-> Idle]
    /\ build' = NoBuild
    /\ UNCHANGED <<rows, acked, watched>>

Next == (\E c \in Consumers : Consume(c)) \/ SaveOtherRows \/ Build \/ Crash

Spec == Init /\ [][Next]_vars

\* A handler that runs goes on, and the broker delivers again what was not
\* acknowledged.
Fairness ==
    /\ \A c \in Consumers :
         WF_vars(Raise(c) \/ WriteHand(c) \/ SaveDlq(c) \/ SaveCheckpoint(c)
                   \/ SaveConflict(c))
    /\ SF_vars(~acked /\ \E c \in Consumers : \/ Deliver(c, watched)
                                              \/ DeliverNonHand(c, watched)
                                              \/ DeliverUnreadable(c, watched))

FairSpec == Spec /\ Fairness

------------------------------------------------------------------------------
(* Properties.                                                              *)

\* The row h of message m's hand does not contradict the message.
Accounts(row, m) == m.version = NoVersion \/ row.version > m.version
                      \/ (row.version = m.version /\ row.checksum = m.checksum)

\* A hand message that was acknowledged has left its trace, whatever the order, the
\* repetition and the crashes: a hand row that holds it or a later version, a
\* conflict row, or a dead letter (ingest_poker_mtt_hand_event).
AckedIsAccounted ==
    acked /\ watched.hand # None =>
      \/ watched.id \in dlq
      \/ watched.id \in conflicts
      \/ hands[watched.hand] # None /\ Accounts(hands[watched.hand], watched)

\* Evidence that is not blocked is evidence nothing contradicts: it was built
\* from hand rows that account for every message acknowledged before the build
\* began, although ingestion goes on between the build's reads.
UsableEvidenceIsSound ==
    build.pc = "dlq" /\ EvidenceState(build, dlq # {}) # "blocked" =>
      (build.acked /\ watched.hand # None =>
         \E r \in build.hands : r.hand = watched.hand /\ Accounts(r.row, watched))

\* A stored hand is only ever replaced by a later version: redelivery in the
\* wrong order does not bring an old hand back, and the payload of a version
\* never changes ("higher version supersedes lower version; stale lower version
\* is ignored").
HandsOnlyAdvance ==
    [][\A h \in Hands : hands[h] # None /\ hands'[h] # hands[h] =>
         hands'[h] # None /\ hands'[h].version > hands[h].version]_vars

\* Every message the projector can read is acknowledged in the end, although the
\* service may crash between any two of its writes and the others come again and
\* again.  One it cannot read is the exception, and the only one: its handler
\* raises at every delivery (mq_projector.py:29-30, 75-76 and 193).
EventuallyAcked == watched.readable => <>acked
=============================================================================

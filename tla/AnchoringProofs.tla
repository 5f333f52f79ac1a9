---------------------------- MODULE AnchoringProofs ----------------------------
(***************************************************************************)
(* Proofs about anchoring, on the chain and in the service.                 *)
(*                                                                          *)
(* SettlementChain: for any sets of batches, jobs, accounts and roots, and  *)
(* with the reputation ledger beside it, for any miners, controllers, delta *)
(* ids, amounts and bounds that satisfy NoneAssumption and                  *)
(* ReputationAssumption.                                                    *)
(*                                                                          *)
(* AnchorPipeline: for any number of workers, handlers, jobs, task runs,    *)
(* transactions and crashes: the type invariant, that a job row             *)
(* says anchored only of the job the chain stores, that a budget ledger is  *)
(* paid only for a batch the chain stores, and that the pipeline implements *)
(* AnchorPromise.                                                           *)
(* While one handler at a time is in progress (OneRequest), also that the   *)
(* root is written once, and that batch and chain agree.                    *)
(*                                                                          *)
(* AnchoredJobIsOnChain is not inductive: a worker between the answer of    *)
(* the chain and the write of the job row carries the answer in its local   *)
(* state, over the reconcile() in between.  The invariant says what each    *)
(* worker's local state is worth at each of its steps.                      *)
(***************************************************************************)
EXTENDS AnchorPipeline, ReputationLedger, SequenceTheorems, TLAPS

-----------------------------------------------------------------------------
(* x/settlement. *)

\* Every anchor is filed under its own batch id: without this an export and
\* import of the store could move an anchor to another batch.
FiledUnderItself ==
    \A b \in Batches : anchors[b] # None => anchors[b].batch = b

\* An accepted message passed ValidateBasic, so it is an anchor and not None.
AcceptedWellFormed == accepted \subseteq Anchor

\* The inductive invariant of the chain module.
ChainInv ==
    /\ ChainTypeOK
    /\ AcceptedWellFormed
    /\ FiledUnderItself
    /\ AcceptedIsStored
    /\ AnchoredByAuthorized

\* It holds of an empty store.
LEMMA ChainInitInv == ChainInit => ChainInv
  BY DEF ChainInit, ChainInv, ChainTypeOK, FiledUnderItself, AcceptedIsStored,
         AcceptedWellFormed,
         AnchoredByAuthorized

\* A well-formed message is an anchor.
LEMMA ValidMsgIsAnchor ==
    ASSUME NEW m \in Msg, ValidateBasic(m)
    PROVE  /\ m \in Anchor
           /\ m # None
  BY NoneAssumption DEF Msg, Anchor, ValidateBasic

\* Exporting the store and importing it again changes nothing.
LEMMA ExportImportIsIdentity ==
    ASSUME ChainInv, RestartFromGenesis
    PROVE  anchors' = anchors /\ submitters' = submitters
  <1> DEFINE gs == ExportGenesis
  <1>1. \A a \in gs.anchors : a \in Anchor /\ anchors[a.batch] = a
    BY DEF ChainInv, ChainTypeOK, FiledUnderItself, ExportGenesis
  <1>2. \A b \in Batches : anchors[b] # None => anchors[b] \in gs.anchors /\ anchors[b].batch = b
    BY DEF ChainInv, FiledUnderItself, ExportGenesis
  <1> HIDE DEF gs
  <1>3. anchors' = [b \in Batches |->
                     IF \E a \in gs.anchors : a.batch = b
                       THEN CHOOSE a \in gs.anchors : a.batch = b
                       ELSE None]
    BY DEF RestartFromGenesis, InitGenesis, gs
  <1>4. ASSUME NEW b \in Batches PROVE anchors'[b] = anchors[b]
    <2>1. CASE anchors[b] = None
      <3>1. ~ \E a \in gs.anchors : a.batch = b
        BY <1>1, <2>1, NoneAssumption
      <3>2. QED BY <1>3, <2>1, <3>1
    <2>2. CASE anchors[b] # None
      <3>1. \E a \in gs.anchors : a.batch = b
        BY <1>2, <2>2
      <3>2. \A a \in gs.anchors : a.batch = b => a = anchors[b]
        BY <1>1
      <3>3. QED BY <1>3, <3>1, <3>2
    <2>3. QED BY <2>1, <2>2
  <1>5. anchors \in [Batches -> Anchor \cup {None}]
    BY DEF ChainInv, ChainTypeOK
  <1>6. submitters' = submitters
    BY DEF RestartFromGenesis, InitGenesis, ExportGenesis
  <1>7. QED BY <1>3, <1>4, <1>5, <1>6

\* One message keeps the invariant, and an anchor once stored is never touched.
LEMMA AnchorSettlementBatchKeeps ==
    ASSUME ChainInv, NEW m \in Msg, AnchorSettlementBatch(m)
    PROVE  /\ ChainInv'
           /\ \A b \in Batches : anchors[b] # None => anchors'[b] = anchors[b]
  <1> USE DEF ChainInv
  <1>1. m.batch \in Batches
    BY DEF Msg
  <1>2. CASE ~Accepts(m)
    BY <1>2 DEF AnchorSettlementBatch, ChainTypeOK, FiledUnderItself,
                AcceptedWellFormed,
                AcceptedIsStored, AnchoredByAuthorized
  <1>3. CASE Accepts(m) /\ anchors[m.batch] # None
    <2>1. anchors[m.batch] \in Anchor
      BY <1>1, <1>3 DEF ChainTypeOK
    <2>2. anchors[m.batch] = m
      BY <1>3, <2>1 DEF Accepts, settlementAnchorMatchesMsg, Anchor, Msg
    <2>3. anchors' = anchors /\ accepted' = accepted \cup {m}
              /\ submitters' = submitters
      BY <1>3 DEF AnchorSettlementBatch
    <2>4. QED BY <1>1, <2>1, <2>2, <2>3 DEF ChainTypeOK, AcceptedWellFormed, FiledUnderItself,
                AcceptedIsStored, AnchoredByAuthorized, NewSettlementAnchor
  <1>4. CASE Accepts(m) /\ anchors[m.batch] = None
    <2>1. m \in Anchor /\ m # None /\ m.submitter \in submitters
      BY <1>4, ValidMsgIsAnchor DEF Accepts, IsAuthorizedAnchorSubmitter
    <2>2. anchors' = [anchors EXCEPT ![m.batch] = m]
      BY <1>4 DEF AnchorSettlementBatch, NewSettlementAnchor
    <2>3. accepted' = accepted \cup {m} /\ submitters' = submitters
      BY <1>4 DEF AnchorSettlementBatch
    <2>4. ChainTypeOK'
      BY <1>1, <2>1, <2>2, <2>3 DEF ChainTypeOK
    <2>5. FiledUnderItself' /\ AnchoredByAuthorized'
      BY <1>1, <2>1, <2>2, <2>3 DEF ChainTypeOK, FiledUnderItself, AnchoredByAuthorized
    <2>6. AcceptedIsStored'
      <3>1. \A n \in accepted : n.batch # m.batch
        <4> SUFFICES ASSUME NEW n \in accepted, n.batch = m.batch PROVE FALSE
          OBVIOUS
        <4>1. n = None
          BY <1>4 DEF AcceptedIsStored, NewSettlementAnchor
        <4>2. n \in Anchor
          BY DEF AcceptedWellFormed
        <4>3. QED BY <4>1, <4>2, NoneAssumption
      <3>2. QED BY <1>1, <2>1, <2>2, <2>3, <3>1
                DEF AcceptedIsStored, NewSettlementAnchor, ChainTypeOK, Msg
    <2>7. AcceptedWellFormed'
      BY <2>1, <2>3 DEF AcceptedWellFormed
    <2>8. QED BY <1>4, <2>2, <2>4, <2>5, <2>6, <2>7 DEF ChainTypeOK
  <1>5. QED BY <1>2, <1>3, <1>4

\* Every message and every restart keeps the invariant.
LEMMA ChainStepInv == ChainInv /\ [ChainNext]_chainVars => ChainInv'
  <1> SUFFICES ASSUME ChainInv, [ChainNext]_chainVars PROVE ChainInv'
    OBVIOUS
  <1>1. CASE \E m \in Msg : AnchorSettlementBatch(m)
    BY <1>1, AnchorSettlementBatchKeeps
  <1>2. CASE RestartFromGenesis
    <2>1. anchors' = anchors /\ submitters' = submitters
      BY <1>2, ExportImportIsIdentity
    <2>2. accepted' = accepted
      BY <1>2 DEF RestartFromGenesis
    <2>3. QED BY <2>1, <2>2 DEF ChainInv, ChainTypeOK, FiledUnderItself,
                AcceptedWellFormed, AcceptedIsStored, AnchoredByAuthorized
  <1>3. CASE UNCHANGED chainVars
    BY <1>3 DEF chainVars, ChainInv, ChainTypeOK, FiledUnderItself,
                AcceptedWellFormed, AcceptedIsStored, AnchoredByAuthorized
  <1>4. QED BY <1>1, <1>2, <1>3 DEF ChainNext

\* The invariant holds in every state of the chain.
LEMMA ChainInvariant == ChainSpec => []ChainInv
  BY ChainInitInv, ChainStepInv, PTL DEF ChainSpec

\* x/settlement's AnchorSettlementBatch, InitGenesis and ExportGenesis: what the
\* chain accepted is what it stores, for good, for any number of batches, jobs,
\* submitters and restarts.
THEOREM AcceptedStaysStored == ChainSpec => []AcceptedIsStored
  <1>1. ChainInv => AcceptedIsStored
    BY DEF ChainInv
  <1>2. QED BY <1>1, ChainInvariant, PTL

\* Only an authorized account's anchor is ever in the store of x/settlement.
THEOREM OnlyAuthorizedAnchors == ChainSpec => []AnchoredByAuthorized
  <1>1. ChainInv => AnchoredByAuthorized
    BY DEF ChainInv
  <1>2. QED BY <1>1, ChainInvariant, PTL

\* A message that was accepted is what the store holds for its batch, so that
\* the handler answers a repetition without an error.
LEMMA AcceptedIsAcceptedAgain ==
    ASSUME ChainInv, NEW m \in accepted
    PROVE  Accepts(m)
  <1>1. m \in Anchor /\ m \in Msg
    BY DEF ChainInv, ChainTypeOK, AcceptedWellFormed
  <1>2. m.batch \in Batches /\ m.root # None
    BY <1>1, NoneAssumption DEF Anchor
  <1>3. anchors[m.batch] = m
    BY DEF ChainInv, AcceptedIsStored, NewSettlementAnchor
  <1>4. m.submitter \in submitters
    BY <1>1, <1>2, <1>3, NoneAssumption DEF ChainInv, AnchoredByAuthorized
  <1>5. QED BY <1>2, <1>3, <1>4 DEF Accepts, ValidateBasic,
               IsAuthorizedAnchorSubmitter, settlementAnchorMatchesMsg

\* x/settlement's idempotent branch: whoever resends a message the chain has
\* accepted is not refused, whatever other messages and restarts came since.
THEOREM ResendIsSafe == ChainSpec => []ResendNeverRefused
  <1>1. ChainInv => ResendNeverRefused
    BY AcceptedIsAcceptedAgain DEF ResendNeverRefused
  <1>2. QED BY <1>1, ChainInvariant, PTL

-----------------------------------------------------------------------------
(* x/settlement with x/reputation. *)

\* The inductive invariant: every conjunct is a property of the runs.
LedgerInv ==
    /\ ChainInv
    /\ LedgerTypeOK
    /\ AppliedOnce
    /\ ReceiptsAreAnchored
    /\ DeltaKeepsDirection

\* The ledger's steps are steps of x/settlement, or leave it alone.
LEMMA LedgerStepIsChainStep ==
    ASSUME [LedgerNext]_ledgerVars
    PROVE  [ChainNext]_chainVars
  BY DEF LedgerNext, ledgerVars, ChainNext, ApplyReputationDelta, RestartLedger

\* x/settlement keeps all its properties beside x/reputation: what it does is
\* what it does alone.
THEOREM LedgerImplementsChain == LedgerSpec => ChainSpec
  <1>1. LedgerInit => ChainInit
    BY DEF LedgerInit
  <1>2. [LedgerNext]_ledgerVars => [ChainNext]_chainVars
    BY LedgerStepIsChainStep
  <1>3. QED BY <1>1, <1>2, PTL DEF LedgerSpec, ChainSpec

\* The int32 sum of a score and a capped delta wraps only above, where it
\* becomes negative; the clamp keeps it in range and, without the wrap, on the
\* right side of the old score.
LEMMA UpdateScoreInRange ==
    ASSUME LedgerTypeOK, NEW m \in Miners, NEW amount \in Amounts, NEW cap \in Caps,
           cap > 0, -cap <= amount, amount <= cap
    PROVE  /\ GetScore(m) \in 0..MaxScore
           /\ UpdateScore(m, amount) \in 0..MaxScore
           /\ amount \in Int
           /\ amount < 0 => UpdateScore(m, amount) <= GetScore(m)
           /\ amount > 0 => IF GetScore(m) + amount < HalfWord
                              THEN UpdateScore(m, amount) >= GetScore(m)
                              ELSE UpdateScore(m, amount) = 0
  <1> DEFINE s == GetScore(m)
  <1>1. s \in 0..MaxScore
    BY ReputationAssumption DEF LedgerTypeOK, GetScore
  <1>2. amount \in Int /\ cap \in Int /\ MaxScore \in Nat /\ HalfWord \in Nat
        /\ MaxScore < HalfWord /\ cap < HalfWord
    BY ReputationAssumption
  <1> HIDE DEF s
  <1>3. UpdateScore(m, amount) = Clamp(Wrap(s + amount))
    BY DEF UpdateScore, s
  <1>4. CASE s + amount < HalfWord
    <2>1. /\ 0 <= s + amount + HalfWord
          /\ s + amount + HalfWord < 2 * HalfWord
      BY <1>1, <1>2, <1>4
    <2>2. (s + amount + HalfWord) % (2 * HalfWord) = s + amount + HalfWord
      BY <1>1, <1>2, <2>1
    <2>3. Wrap(s + amount) = s + amount
      BY <1>1, <1>2, <2>2 DEF Wrap
    <2>4. QED BY <1>1, <1>2, <1>3, <1>4, <2>3 DEF Clamp, s
  <1>5. CASE ~(s + amount < HalfWord)
    <2>1. /\ 0 <= s + amount - HalfWord
          /\ s + amount - HalfWord < HalfWord
          /\ amount > 0
      BY <1>1, <1>2, <1>5
    <2>2. (s + amount + HalfWord) % (2 * HalfWord) = s + amount - HalfWord
      <3> DEFINE q == s + amount - HalfWord
      <3>1. q \in 0..(2 * HalfWord - 1) /\ s + amount + HalfWord = q + 2 * HalfWord
        BY <1>1, <1>2, <2>1
      <3> HIDE DEF q
      <3>2. (q + 2 * HalfWord) % (2 * HalfWord) = q
        BY <1>2, <3>1
      <3>3. QED BY <3>1, <3>2 DEF q
    <2>3. Wrap(s + amount) = s + amount - 2 * HalfWord
      BY <1>1, <1>2, <2>2 DEF Wrap
    <2>4. Wrap(s + amount) \in Int /\ Wrap(s + amount) < 0
      BY <1>1, <1>2, <2>1, <2>3
    <2>5. Clamp(Wrap(s + amount)) = 0
      BY <1>2, <2>4 DEF Clamp
    <2>6. QED BY <1>1, <1>2, <1>3, <1>5, <2>1, <2>5 DEF s
  <1>6. QED BY <1>4, <1>5

\* A stored anchor is never removed.
LEMMA AnchorsStay ==
    ASSUME ChainInv, [ChainNext]_chainVars, NEW b \in Batches, anchors[b] # None
    PROVE  anchors'[b] # None
  <1>1. CASE \E m \in Msg : AnchorSettlementBatch(m)
    BY <1>1, AnchorSettlementBatchKeeps
  <1>2. CASE RestartFromGenesis
    BY <1>2, ExportImportIsIdentity
  <1>3. CASE UNCHANGED chainVars
    BY <1>3 DEF chainVars
  <1>4. QED BY <1>1, <1>2, <1>3 DEF ChainNext

\* Exporting the ledger and importing it again changes nothing.
LEMMA LedgerExportImport ==
    ASSUME LedgerInv, RestartLedger
    PROVE  UNCHANGED repVars
  <1> DEFINE gs == ReputationGenesis
  <1>1. score' = score
    <2>1. \A s \in gs.scores : s.miner \in Miners /\ score[s.miner] = s.score /\ s.score # None
      BY DEF ReputationGenesis, Known, LedgerInv, LedgerTypeOK
    <2>2. ASSUME NEW m \in Miners, score[m] # None
          PROVE  \E s \in gs.scores : s.miner = m
      <3>1. m \in Known(score)
        BY <2>2 DEF Known, LedgerInv, LedgerTypeOK
      <3>2. [miner |-> m, score |-> score[m]] \in gs.scores
        BY <3>1 DEF ReputationGenesis
      <3>3. QED BY <3>2
    <2> HIDE DEF gs
    <2>3. score' = [m \in Miners |->
                   IF \E s \in gs.scores : s.miner = m
                     THEN (CHOOSE s \in gs.scores : s.miner = m).score ELSE None]
      BY DEF RestartLedger, InitReputationGenesis, gs
    <2>4. ASSUME NEW m \in Miners PROVE score'[m] = score[m]
      <3>1. CASE \E s \in gs.scores : s.miner = m
        <4> DEFINE t == CHOOSE s \in gs.scores : s.miner = m
        <4>1. t \in gs.scores /\ t.miner = m
          BY <3>1
        <4>2. score'[m] = t.score
          BY <2>3, <3>1
        <4>3. QED BY <2>1, <4>1, <4>2
      <3>2. CASE ~ \E s \in gs.scores : s.miner = m
        BY <2>2, <2>3, <3>2
      <3>3. QED BY <3>1, <3>2
    <2>5. QED BY <2>3, <2>4 DEF LedgerInv, LedgerTypeOK
  <1>2. receipts' = receipts
    <2>1. \A r \in gs.receipts : r.delta.id \in DeltaIds /\ receipts[r.delta.id] = r /\ r # None
      BY DEF ReputationGenesis, Known, LedgerInv, LedgerTypeOK, ReceiptsAreAnchored
    <2>2. \A i \in DeltaIds : receipts[i] # None =>
              receipts[i] \in gs.receipts /\ receipts[i].delta.id = i
      BY DEF ReputationGenesis, Known, LedgerInv, LedgerTypeOK, ReceiptsAreAnchored
    <2> HIDE DEF gs
    <2>3. receipts' = [i \in DeltaIds |->
                      IF \E r \in gs.receipts : r.delta.id = i
                        THEN CHOOSE r \in gs.receipts : r.delta.id = i ELSE None]
      BY DEF RestartLedger, InitReputationGenesis, gs
    <2>4. ASSUME NEW i \in DeltaIds PROVE receipts'[i] = receipts[i]
      BY <2>1, <2>2, <2>3
    <2>5. QED BY <2>3, <2>4 DEF LedgerInv, LedgerTypeOK
  <1>3. controllers' = controllers /\ updates' = updates
    BY DEF RestartLedger, InitReputationGenesis, ReputationGenesis
  <1>4. QED BY <1>1, <1>2, <1>3 DEF repVars

\* A new delta keeps the invariant of the ledger.
LEMMA ApplyKeeps ==
    ASSUME LedgerInv, NEW c \in Controllers, NEW d \in Delta, ApplyReputationDelta(c, d)
    PROVE  LedgerInv'
  <1>0. ChainInv'
    BY DEF LedgerInv, ApplyReputationDelta, chainVars, ChainInv, ChainTypeOK,
           FiledUnderItself, AcceptedWellFormed, AcceptedIsStored, AnchoredByAuthorized
  <1>1. CASE ~Applies(c, d)
    BY <1>0, <1>1 DEF ApplyReputationDelta, LedgerInv, LedgerTypeOK, AppliedOnce,
           ReceiptsAreAnchored, DeltaKeepsDirection, HasSettlementAnchor, chainVars
  <1>2. CASE Applies(c, d)
    <2> DEFINE r == [delta |-> d, controller |-> c, old |-> GetScore(d.miner),
                     new |-> UpdateScore(d.miner, d.amount)]
    <2>1. d.id \in DeltaIds /\ d.miner \in Miners /\ d.batch \in Batches
          /\ d.amount \in Amounts /\ d.cap \in Caps
      BY DEF Delta
    <2>2. /\ score' = [score EXCEPT ![d.miner] = UpdateScore(d.miner, d.amount)]
          /\ receipts' = [receipts EXCEPT ![d.id] = r]
          /\ updates' = [updates EXCEPT ![d.id] = @ + 1]
          /\ controllers' = controllers
          /\ anchors' = anchors
      BY <1>2 DEF ApplyReputationDelta, chainVars
    <2>3. /\ GetScore(d.miner) \in 0..MaxScore
          /\ UpdateScore(d.miner, d.amount) \in 0..MaxScore
          /\ d.amount < 0 => UpdateScore(d.miner, d.amount) <= GetScore(d.miner)
          /\ d.amount > 0 => IF GetScore(d.miner) + d.amount < HalfWord
                               THEN UpdateScore(d.miner, d.amount) >= GetScore(d.miner)
                               ELSE UpdateScore(d.miner, d.amount) = 0
      BY <1>2, <2>1, UpdateScoreInRange DEF Applies, Validate, LedgerInv
    <2>4. r \in Receipt /\ r # None
      BY <2>3, ReputationAssumption DEF Receipt
    <2>5. r.delta = d /\ r.old = GetScore(d.miner) /\ r.new = UpdateScore(d.miner, d.amount)
      OBVIOUS
    <2> HIDE DEF r
    <2>6. LedgerTypeOK'
      BY <2>1, <2>2, <2>3, <2>4 DEF LedgerInv, LedgerTypeOK
    <2>7. AppliedOnce'
      BY <1>2, <2>1, <2>2, <2>4 DEF LedgerInv, LedgerTypeOK, AppliedOnce, Applies
    <2>8. ReceiptsAreAnchored'
      BY <1>2, <2>1, <2>2, <2>5
         DEF LedgerInv, LedgerTypeOK, ReceiptsAreAnchored, HasSettlementAnchor, Applies
    <2>9. DeltaKeepsDirection'
      BY <2>1, <2>2, <2>3, <2>5 DEF LedgerInv, LedgerTypeOK, DeltaKeepsDirection
    <2>10. QED BY <1>0, <2>6, <2>7, <2>8, <2>9 DEF LedgerInv
  <1>3. QED BY <1>1, <1>2

\* Every step of the chain with its ledger keeps the invariant.
LEMMA LedgerStepInv == LedgerInv /\ [LedgerNext]_ledgerVars => LedgerInv'
  <1> SUFFICES ASSUME LedgerInv, [LedgerNext]_ledgerVars PROVE LedgerInv'
    OBVIOUS
  <1>1. [ChainNext]_chainVars
    BY LedgerStepIsChainStep
  <1>2. ChainInv'
    BY <1>1, ChainStepInv DEF LedgerInv
  <1>3. CASE UNCHANGED repVars
    <2>1. ReceiptsAreAnchored'
      <3> SUFFICES ASSUME NEW i \in DeltaIds, receipts[i] # None
                   PROVE  receipts[i].delta.id = i /\ anchors'[receipts[i].delta.batch] # None
        BY <1>3 DEF repVars, ReceiptsAreAnchored, HasSettlementAnchor
      <3>1. receipts[i].delta.batch \in Batches
        BY DEF LedgerInv, LedgerTypeOK, Receipt, Delta
      <3>2. QED BY <1>1, <3>1, AnchorsStay
                DEF LedgerInv, ReceiptsAreAnchored, HasSettlementAnchor
    <2>2. QED BY <1>2, <1>3, <2>1
              DEF repVars, LedgerInv, LedgerTypeOK, AppliedOnce, DeltaKeepsDirection
  <1>4. CASE \E c \in Controllers, d \in Delta : ApplyReputationDelta(c, d)
    BY <1>4, ApplyKeeps
  <1>5. CASE RestartLedger
    BY <1>3, <1>5, LedgerExportImport
  <1>6. QED BY <1>3, <1>4, <1>5 DEF LedgerNext, ledgerVars

\* The invariant holds in every state of the chain with its ledger.
LEMMA LedgerInvariant == LedgerSpec => []LedgerInv
  <1>1. LedgerInit => LedgerInv
    BY ChainInitInv, ReputationAssumption
       DEF LedgerInit, LedgerInv, LedgerTypeOK, AppliedOnce, ReceiptsAreAnchored,
           DeltaKeepsDirection
  <1>2. QED BY <1>1, LedgerStepInv, PTL DEF LedgerSpec

\* x/reputation's ApplyReputationDelta: a delta changes a score at most once, for
\* any number of retries, conflicting payloads and restarts from genesis.
THEOREM DeltasAppliedOnce == LedgerSpec => []AppliedOnce
  <1>1. LedgerInv => AppliedOnce
    BY DEF LedgerInv
  <1>2. QED BY <1>1, LedgerInvariant, PTL

\* Every applied delta comes from a batch x/settlement has anchored.
THEOREM DeltasAreAnchored == LedgerSpec => []ReceiptsAreAnchored
  <1>1. LedgerInv => ReceiptsAreAnchored
    BY DEF LedgerInv
  <1>2. QED BY <1>1, LedgerInvariant, PTL

\* UpdateScore's int32 arithmetic, for every delta Validate lets through: no
\* penalty raises a score, and a reward lowers one only where the sum overflows,
\* and then to zero.
THEOREM DeltasKeepDirection == LedgerSpec => []DeltaKeepsDirection
  <1>1. LedgerInv => DeltaKeepsDirection
    BY DEF LedgerInv
  <1>2. QED BY <1>1, LedgerInvariant, PTL

------------------------------------------------------------------------------
(* The service.  *)

\* The steps at which a worker works on a job that has a row.
JobPCs == {"submitBatch", "plan", "broadcast", "broadcastWrite", "confirmRead",
           "confirmBatch", "confirmQuery", "confirmWrite", "anchorJob", "anchorCheck",
           "anchorBatch", "pay", "failJob", "failCheck", "failBatch",
           "rebroadcastRead"}
JobNexts == {"confirmRead", "failJob", "anchorJob", "rebroadcastRead"}
ReconcilePCs == {"link", "linkTask", "sync", "syncWrite"}
HasJob(p) == p.pc \in JobPCs \/ (p.pc \in ReconcilePCs /\ p.next \in JobNexts)

\* The steps at which a worker knows that the chain stores its job's anchor.
Confirmed(p) ==
    \/ p.pc \in {"anchorJob", "anchorCheck", "anchorBatch", "pay"}
    \/ p.pc \in ReconcilePCs /\ p.next = "anchorJob"
    \/ p.pc = "confirmWrite" /\ p.status = "confirmed"

\* A worker's local state, given the jobs that have rows and the anchor that
\* the chain stores for the batch.
ProcInv(p, known, anchor) ==
    /\ p \in Proc
    /\ p.todo \subseteq known
    /\ HasJob(p) => p.job \in known
    /\ p.pc = "submitJob" => p.job \in Jobs
    /\ p.pc \in {"retryWindow", "syncWrite"} => p.seen \in BatchRow
    /\ p.pc \in {"retryWrite", "broadcast"} => p.root \in Roots
    /\ p.pc \in {"plan", "broadcast"} => p.kind # "none"
    /\ p.op = "rebroadcast" => p.kind # "none"
    /\ Confirmed(p) => (anchor # None /\ anchor.job = p.job)

RowsOK ==
    /\ linked \subseteq TaskRuns
    /\ window \subseteq TaskRuns
    /\ batch \in BatchRow
    /\ jobs \in [Jobs -> JobRow \cup {None}]
    /\ paid \in BOOLEAN
    /\ crashes \in 0..MaxCrashes

TxsOK == txs \in Seq(Tx) /\ Len(txs) <= MaxTxs

ProcsOK ==
    /\ proc \in [Workers -> Proc]
    /\ \A w \in Workers : ProcInv(proc[w], KnownJobs, anchors[Batch])

\* The inductive invariant of the pipeline.
PipelineInv ==
    /\ ChainInv
    /\ RowsOK
    /\ TxsOK
    /\ ProcsOK
    /\ AnchoredJobIsOnChain
    /\ PaidOnlyIfOnChain

\* A step of one worker to the local state f keeps ProcsOK, if job rows are
\* only added and the anchor, once there, stays.
LEMMA ProcStep ==
    ASSUME ProcsOK, NEW w \in Workers, NEW f, Goto(w, f),
           KnownJobs \subseteq KnownJobs',
           anchors[Batch] # None => anchors'[Batch] = anchors[Batch],
           ProcInv(f, KnownJobs', anchors'[Batch])
    PROVE  ProcsOK'
  <1>1. f \in Proc
    BY DEF ProcInv
  <1>2. proc' = [proc EXCEPT ![w] = f] /\ proc' \in [Workers -> Proc]
    BY <1>1 DEF Goto, ProcsOK
  <1>3. ASSUME NEW v \in Workers PROVE ProcInv(proc'[v], KnownJobs', anchors'[Batch])
    <2>1. CASE v = w
      BY <1>2, <2>1 DEF ProcsOK
    <2>2. CASE v # w
      <3>1. proc'[v] = proc[v]
        BY <1>2, <2>2 DEF ProcsOK
      <3>2. ProcInv(proc[v], KnownJobs, anchors[Batch])
        BY DEF ProcsOK
      <3>3. QED BY <3>1, <3>2 DEF ProcInv
    <2>3. QED BY <2>1, <2>2
  <1>4. QED BY <1>2, <1>3 DEF ProcsOK

\* The idle state and the start of a reconcile() are fine local states.
LEMMA IdleInv ==
    ASSUME NEW known, NEW anchor
    PROVE  ProcInv(Idle, known, anchor)
  <1>1. 0 \in 0..MaxTxs
    BY PipelineAssumption
  <1>2. Idle \in Proc
    BY <1>1 DEF Idle, Proc, PCs, Nexts, Ops, Confirmations
  <1>3. QED BY <1>2 DEF Idle, ProcInv, HasJob, Confirmed, JobPCs, ReconcilePCs

\* The invariant holds of an empty service.
LEMMA InitInv == Init => PipelineInv
  <1> SUFFICES ASSUME Init PROVE PipelineInv
    OBVIOUS
  <1>1. ChainInv
    BY ChainInitInv DEF Init
  <1>2. RowsOK
    <2>1. batch \in BatchRow
      BY DEF Init, BatchRow, BatchStates
    <2>2. crashes \in 0..MaxCrashes
      BY PipelineAssumption DEF Init
    <2>3. QED BY <2>1, <2>2 DEF Init, RowsOK
  <1>3. TxsOK
    BY PipelineAssumption DEF Init, TxsOK
  <1>4. ProcsOK
    <2>1. Idle \in Proc /\ ProcInv(Idle, KnownJobs, anchors[Batch])
      BY IdleInv DEF ProcInv
    <2>2. QED BY <2>1 DEF Init, ProcsOK
  <1>5. AnchoredJobIsOnChain /\ PaidOnlyIfOnChain
    BY DEF Init, AnchoredJobIsOnChain, PaidOnlyIfOnChain
  <1>6. QED BY <1>1, <1>2, <1>3, <1>4, <1>5 DEF PipelineInv

\* What every step of a worker leaves alone.
LEMMA ChainUntouched ==
    ASSUME PipelineInv, UNCHANGED chainVars
    PROVE  ChainInv' /\ anchors' = anchors
  BY DEF PipelineInv, ChainInv, chainVars, ChainTypeOK, FiledUnderItself,
         AcceptedWellFormed, AcceptedIsStored, AnchoredByAuthorized

\* A step that only changes the worker's local state.
LEMMA LocalStep ==
    ASSUME PipelineInv, NEW w \in Workers, NEW f, Goto(w, f),
           UNCHANGED <<chainVars, serviceRows, txs, crashes>>,
           ProcInv(f, KnownJobs, anchors[Batch])
    PROVE  PipelineInv'
  <1>1. ChainInv' /\ anchors' = anchors
    BY ChainUntouched
  <1>2. jobs' = jobs /\ KnownJobs' = KnownJobs
    BY DEF serviceRows, KnownJobs
  <1>3. ProcsOK'
    BY <1>1, <1>2, ProcStep DEF PipelineInv
  <1>4. RowsOK' /\ TxsOK' /\ AnchoredJobIsOnChain' /\ PaidOnlyIfOnChain'
    BY <1>1 DEF PipelineInv, RowsOK, TxsOK, AnchoredJobIsOnChain,
                PaidOnlyIfOnChain, serviceRows
  <1>5. QED BY <1>1, <1>3, <1>4 DEF PipelineInv

\* A step that writes the window or the batch.
LEMMA RowStep ==
    ASSUME PipelineInv, NEW w \in Workers, NEW f, Goto(w, f),
           UNCHANGED <<chainVars, jobs, paid, txs, crashes>>,
           linked' \subseteq TaskRuns, window' \subseteq TaskRuns,
           batch' \in BatchRow,
           ProcInv(f, KnownJobs, anchors[Batch])
    PROVE  PipelineInv'
  <1>1. ChainInv' /\ anchors' = anchors
    BY ChainUntouched
  <1>2. jobs' = jobs /\ KnownJobs' = KnownJobs
    BY DEF KnownJobs
  <1>3. ProcsOK'
    BY <1>1, <1>2, ProcStep DEF PipelineInv
  <1>4. RowsOK' /\ TxsOK' /\ AnchoredJobIsOnChain' /\ PaidOnlyIfOnChain'
    BY <1>1 DEF PipelineInv, RowsOK, TxsOK, AnchoredJobIsOnChain, PaidOnlyIfOnChain
  <1>5. QED BY <1>1, <1>3, <1>4 DEF PipelineInv

\* A step that writes the row of job j.
LEMMA JobStep ==
    ASSUME PipelineInv, NEW w \in Workers, NEW f, Goto(w, f),
           UNCHANGED <<chainVars, linked, window, batch, paid, txs, crashes>>,
           NEW j \in Jobs, NEW row \in JobRow,
           jobs' = [jobs EXCEPT ![j] = row],
           row.state = "anchored" => (anchors[Batch] # None /\ anchors[Batch].job = j),
           ProcInv(f, KnownJobs \cup {j}, anchors[Batch])
    PROVE  PipelineInv'
  <1>1. ChainInv' /\ anchors' = anchors
    BY ChainUntouched
  <1>2. jobs \in [Jobs -> JobRow \cup {None}]
    BY DEF PipelineInv, RowsOK
  <1>3. KnownJobs' = KnownJobs \cup {j}
    BY <1>2, PipelineAssumption DEF KnownJobs
  <1>4. ProcsOK'
    BY <1>1, <1>3, ProcStep DEF PipelineInv
  <1>5. RowsOK' /\ TxsOK' /\ PaidOnlyIfOnChain'
    BY <1>1, <1>2 DEF PipelineInv, RowsOK, TxsOK, PaidOnlyIfOnChain
  <1>6. AnchoredJobIsOnChain'
    BY <1>1, <1>2 DEF PipelineInv, AnchoredJobIsOnChain
  <1>7. QED BY <1>1, <1>4, <1>5, <1>6 DEF PipelineInv

\* The same for a job that has a row.
LEMMA KnownJobStep ==
    ASSUME PipelineInv, NEW w \in Workers, NEW f, Goto(w, f),
           UNCHANGED <<chainVars, linked, window, batch, paid, txs, crashes>>,
           NEW j \in KnownJobs, NEW row \in JobRow,
           jobs' = [jobs EXCEPT ![j] = row],
           row.state = "anchored" => (anchors[Batch] # None /\ anchors[Batch].job = j),
           ProcInv(f, KnownJobs, anchors[Batch])
    PROVE  PipelineInv'
  <1>1. KnownJobs \cup {j} = KnownJobs
    OBVIOUS
  <1>2. ProcInv(f, KnownJobs \cup {j}, anchors[Batch])
    BY <1>1
  <1>3. j \in Jobs
    BY DEF KnownJobs
  <1>4. QED BY <1>2, <1>3, JobStep

------------------------------------------------------------------------------
(* The local states that handlers share *)

\* reconcile() carries what its caller knows.
LEMMA ReconcileInv ==
    ASSUME NEW known, NEW anchor, NEW p, NEW next \in Nexts,
           ProcInv(p, known, anchor),
           next \in JobNexts => p.job \in known,
           next = "anchorJob" => (anchor # None /\ anchor.job = p.job)
    PROVE  ProcInv(Reconcile(p, next), known, anchor)
  <1> DEFINE q == Reconcile(p, next)
  <1>1. q \in Proc
    BY DEF ProcInv, Reconcile, Proc, PCs
  <1>2. q.pc = "link" /\ q.next = next /\ q.job = p.job /\ q.op = p.op
            /\ q.kind = p.kind /\ q.todo = p.todo
    BY DEF ProcInv, Reconcile, Proc
  <1> SUFFICES ProcInv(q, known, anchor)
    OBVIOUS
  <1> HIDE DEF q
  <1>3. QED BY <1>1, <1>2 DEF ProcInv, HasJob, Confirmed, JobPCs, JobNexts,
               ReconcilePCs

\* A handler that starts with a job of a row.
LEMMA OnJobInv ==
    ASSUME NEW known, NEW anchor, NEW j \in known, j \in Jobs
    PROVE  /\ ProcInv(OnJob(j), known, anchor)
           /\ OnJob(j).job = j
           /\ ProcInv(MarkFailed(j), known, anchor)
           /\ ProcInv(Reconcile(OnJob(j), "confirmRead"), known, anchor)
           /\ (anchor # None /\ anchor.job = j)
                => ProcInv(Reconcile(OnJob(j), "anchorJob"), known, anchor)
  <1>1. ProcInv(Idle, known, anchor)
    BY IdleInv
  <1>2. ProcInv(OnJob(j), known, anchor) /\ OnJob(j).job = j
    BY <1>1 DEF OnJob, Idle, ProcInv, Proc, HasJob, Confirmed, JobPCs, ReconcilePCs
  <1>3. QED BY <1>2, ReconcileInv DEF MarkFailed, Nexts, JobNexts

\* A pass of the confirmation loop knows the jobs it has still to do, and
\* nothing else when it goes on to the next.
LEMMA PassInv ==
    ASSUME NEW known, NEW anchor, NEW p, ProcInv(p, known, anchor)
    PROVE  /\ ProcInv(Return(p), known, anchor)
           /\ \A q : ProcInv(q, known, anchor) => ProcInv(WithinPass(p, q), known, anchor)
  <1>1. p.todo \subseteq known /\ p.todo \subseteq Jobs
    BY DEF ProcInv, Proc
  <1>2. ASSUME NEW q, ProcInv(q, known, anchor)
        PROVE  ProcInv(WithinPass(p, q), known, anchor)
    <2> DEFINE r == WithinPass(p, q)
    <2>1. q \in Proc
      BY <1>2 DEF ProcInv
    <2>2. r \in Proc
      BY <1>1, <2>1 DEF WithinPass, Proc
    <2>3. /\ r.pc = q.pc /\ r.next = q.next /\ r.job = q.job /\ r.op = q.op /\ r.kind = q.kind
          /\ r.seen = q.seen /\ r.root = q.root /\ r.status = q.status /\ r.todo = p.todo
      BY <2>1 DEF WithinPass, Proc
    <2> HIDE DEF r
    <2>4. ProcInv(r, known, anchor)
      BY <1>1, <1>2, <2>2, <2>3 DEF ProcInv, HasJob, Confirmed
    <2>5. QED BY <2>4 DEF r
  <1>3. ProcInv([Idle EXCEPT !.pc = "sweepNext"], known, anchor)
    <2>1. ProcInv(Idle, known, anchor)
      BY IdleInv
    <2>2. QED BY <2>1 DEF Idle, ProcInv, Proc, PCs, HasJob, Confirmed, JobPCs, ReconcilePCs
  <1>4. QED BY <1>2, <1>3, IdleInv DEF Return

\* What the caller knew holds when reconcile() is through.
LEMMA AfterReconcileInv ==
    ASSUME NEW known, NEW anchor, NEW p, ProcInv(p, known, anchor),
           p.pc \in ReconcilePCs
    PROVE  ProcInv(AfterReconcile(p), known, anchor)
  <1>1. CASE p.next = "done"
    BY <1>1, IdleInv DEF AfterReconcile
  <1>2. CASE p.next # "done"
    BY <1>2 DEF AfterReconcile, ProcInv, Proc, PCs, Nexts, HasJob, Confirmed,
                JobPCs, JobNexts, ReconcilePCs
  <1>3. QED BY <1>1, <1>2

------------------------------------------------------------------------------
(* The steps of a worker *)

\* The steps of reconcile().
LEMMA ReconcileSteps ==
    ASSUME PipelineInv, NEW w \in Workers,
           \/ LinkRead(w) \/ NothingToLink(w) \/ LinkTask(w) \/ SaveRewardWindow(w)
           \/ SyncRead(w) \/ SyncOpenSettlementBatch(w)
    PROVE  PipelineInv'
  <1> DEFINE p == proc[w]
  <1>1. ProcInv(p, KnownJobs, anchors[Batch])
    BY DEF PipelineInv, ProcsOK
  <1>2. linked \subseteq TaskRuns /\ window \subseteq TaskRuns /\ batch \in BatchRow
    BY DEF PipelineInv, RowsOK
  <1>3. p.tasks \subseteq TaskRuns
    BY <1>1 DEF ProcInv, Proc
  <1>4. CASE LinkRead(w)
    <2>1. ASSUME NEW found \in SUBSET (TaskRuns \ linked)
          PROVE  ProcInv([p EXCEPT !.pc = "linkTask", !.tasks = window \cup found],
                         KnownJobs, anchors[Batch])
      BY <1>1, <1>2, <1>4 DEF LinkRead, At, ProcInv, Proc, PCs, HasJob,
         Confirmed, JobPCs, ReconcilePCs
    <2>2. QED BY <1>4, <2>1, LocalStep DEF LinkRead
  <1>5. CASE NothingToLink(w)
    <2>1. ProcInv([p EXCEPT !.pc = "sync"], KnownJobs, anchors[Batch])
      BY <1>1, <1>5 DEF NothingToLink, At, ProcInv, Proc, PCs, HasJob,
         Confirmed, JobPCs, ReconcilePCs
    <2>2. QED BY <1>5, <2>1, LocalStep DEF NothingToLink
  <1>6. CASE SaveRewardWindow(w)
    <2>1. ProcInv([p EXCEPT !.pc = "sync", !.tasks = {}], KnownJobs, anchors[Batch])
      BY <1>1, <1>6 DEF SaveRewardWindow, At, ProcInv, Proc, PCs, HasJob,
         Confirmed, JobPCs, ReconcilePCs
    <2>2. QED BY <1>2, <1>3, <1>6, <2>1, RowStep DEF SaveRewardWindow
  <1>7. CASE SyncRead(w)
    <2>1. ProcInv([p EXCEPT !.pc = "syncWrite", !.tasks = window, !.seen = batch],
                  KnownJobs, anchors[Batch])
      BY <1>1, <1>2, <1>7 DEF SyncRead, At, ProcInv, Proc, PCs, HasJob,
         Confirmed, JobPCs, ReconcilePCs
    <2>2. ProcInv(AfterReconcile(p), KnownJobs, anchors[Batch])
      BY <1>1, <1>7, AfterReconcileInv DEF SyncRead, At, ReconcilePCs
    <2>3. QED BY <1>7, <2>1, <2>2, LocalStep DEF SyncRead
  <1>8. CASE SyncOpenSettlementBatch(w)
    <2> DEFINE q == [p EXCEPT !.tasks = {}, !.seen = None]
    <2>1. /\ q \in Proc /\ q.pc = "syncWrite" /\ q.todo = p.todo /\ q.next = p.next
          /\ q.job = p.job /\ q.op = p.op /\ q.kind = p.kind
      BY <1>1, <1>8 DEF SyncOpenSettlementBatch, At, ProcInv, Proc
    <2>2. ProcInv(AfterReconcile(q), KnownJobs, anchors[Batch])
      <3> HIDE DEF q
      <3>1. CASE q.next = "done"
        BY <3>1, IdleInv DEF AfterReconcile
      <3>2. CASE q.next # "done"
        <4> DEFINE r == [q EXCEPT !.pc = q.next]
        <4>1. /\ r \in Proc /\ r.pc = q.next /\ r.todo = p.todo
              /\ r.job = p.job /\ r.op = p.op /\ r.kind = p.kind
          BY <2>1, <3>2 DEF Proc, PCs, Nexts
        <4>2. AfterReconcile(q) = r /\ q.next \in Nexts
          BY <2>1, <3>2 DEF AfterReconcile, Proc
        <4> HIDE DEF r
        <4>3. ProcInv(r, KnownJobs, anchors[Batch])
          BY <1>1, <1>8, <2>1, <4>1, <4>2 DEF SyncOpenSettlementBatch, At, ProcInv, Nexts, HasJob,
             Confirmed, JobPCs, JobNexts, ReconcilePCs
        <4>4. QED BY <4>2, <4>3
      <3>3. QED BY <3>1, <3>2
    <2>3. batch' \in BatchRow
      BY <1>2, <1>3, <1>8 DEF SyncOpenSettlementBatch, BatchRow, BatchStates
    <2>4. QED BY <1>2, <1>8, <2>2, <2>3, RowStep DEF SyncOpenSettlementBatch
  <1>9. CASE LinkTask(w)
    <2>1. linked' \subseteq TaskRuns
      BY <1>2, <1>3, <1>9 DEF LinkTask
    <2>2. p \in Proc /\ proc \in [Workers -> Proc]
      BY DEF PipelineInv, ProcsOK
    <2>3. Goto(w, p)
      BY <1>9, <2>2 DEF LinkTask, Goto
    <2>4. QED BY <1>1, <1>2, <1>9, <2>1, <2>3, RowStep DEF LinkTask
  <1>10. QED BY <1>4, <1>5, <1>6, <1>7, <1>8, <1>9

\* rebuild_reward_window and retry_anchor_settlement_batch.
LEMMA RebuildAndRetrySteps ==
    ASSUME PipelineInv, NEW w \in Workers,
           \/ RebuildRead(w) \/ RebuildWrite(w)
           \/ RetryRead(w) \/ RetryWindow(w) \/ RetryWrite(w)
    PROVE  PipelineInv'
  <1> DEFINE p == proc[w]
  <1>1. ProcInv(p, KnownJobs, anchors[Batch])
    BY DEF PipelineInv, ProcsOK
  <1>2. linked \subseteq TaskRuns /\ window \subseteq TaskRuns /\ batch \in BatchRow
    BY DEF PipelineInv, RowsOK
  <1>3. p.tasks \subseteq TaskRuns
    BY <1>1 DEF ProcInv, Proc
  <1>4. ProcInv(Idle, KnownJobs, anchors[Batch])
    BY IdleInv
  <1>5. ASSUME p.pc \in {"retryWindow", "retryWrite"}
        PROVE  ProcInv(AfterRetry(w), KnownJobs, anchors[Batch])
    <2> DEFINE q == [p EXCEPT !.seen = None, !.root = None]
    <2>1. q \in Proc /\ q.pc = p.pc /\ q.op = p.op /\ q.kind = p.kind /\ q.todo = p.todo
      BY <1>1 DEF ProcInv, Proc
    <2>2. [q EXCEPT !.pc = "link"] \in Proc
      BY <2>1 DEF Proc, PCs
    <2>3. Reconcile(q, "submitRead") \in Proc
      BY <2>1 DEF Reconcile, Proc, PCs, Nexts
    <2>4. LET r == Reconcile(q, "submitRead")
          IN  /\ r.pc = "link" /\ r.next = "submitRead" /\ r.op = p.op /\ r.kind = p.kind
              /\ r.todo = p.todo
      BY <2>1 DEF Reconcile, Proc
    <2>5. ProcInv(Reconcile(q, "submitRead"), KnownJobs, anchors[Batch])
      BY <1>1, <2>3, <2>4 DEF ProcInv, HasJob, Confirmed, JobPCs, JobNexts, ReconcilePCs
    <2>6. QED BY <1>4, <2>5 DEF AfterRetry
  <1>6. CASE RebuildRead(w)
    <2>1. ProcInv([p EXCEPT !.pc = "rebuildWrite", !.tasks = linked], KnownJobs, anchors[Batch])
      BY <1>1, <1>2, <1>6 DEF RebuildRead, At, ProcInv, Proc, PCs, HasJob,
         Confirmed, JobPCs, ReconcilePCs
    <2>2. QED BY <1>4, <1>6, <2>1, LocalStep DEF RebuildRead
  <1>7. CASE RebuildWrite(w)
    BY <1>2, <1>3, <1>4, <1>7, RowStep DEF RebuildWrite, Done
  <1>8. CASE RetryRead(w)
    <2>1. ProcInv([p EXCEPT !.pc = "retryWindow", !.seen = batch], KnownJobs, anchors[Batch])
      BY <1>1, <1>2, <1>8 DEF RetryRead, At, ProcInv, Proc, PCs, HasJob,
         Confirmed, JobPCs, ReconcilePCs
    <2>2. QED BY <1>4, <1>8, <2>1, LocalStep DEF RetryRead
  <1>9. CASE RetryWindow(w)
    <2> DEFINE root == RootOf(window, p.seen.tasks)
               f == [p EXCEPT !.pc = "retryWrite", !.root = root]
    <2>1. p.seen \in BatchRow
      BY <1>1, <1>9 DEF RetryWindow, At, ProcInv
    <2>2. p.seen.tasks \subseteq TaskRuns
      BY <2>1 DEF BatchRow
    <2>3. root \in Roots
      BY <1>2, <2>2, PipelineAssumption
    <2> HIDE DEF root
    <2>4. ProcInv(f, KnownJobs, anchors[Batch])
      BY <1>1, <1>9, <2>3 DEF RetryWindow, At, ProcInv, Proc, PCs, HasJob,
         Confirmed, JobPCs, ReconcilePCs
    <2>5. ProcInv(AfterRetry(w), KnownJobs, anchors[Batch])
      BY <1>5, <1>9 DEF RetryWindow, At
    <2>6. Goto(w, Idle) \/ Goto(w, AfterRetry(w)) \/ Goto(w, f)
      BY <1>9 DEF RetryWindow, root
    <2>7. QED BY <1>4, <1>9, <2>4, <2>5, <2>6, LocalStep DEF RetryWindow
  <1>10. CASE RetryWrite(w)
    <2>1. p.root \in Roots
      BY <1>1, <1>10 DEF RetryWrite, At, ProcInv
    <2>2. batch' \in BatchRow
      BY <1>2, <1>10, <2>1 DEF RetryWrite, BatchRow, BatchStates
    <2>3. ProcInv(AfterRetry(w), KnownJobs, anchors[Batch])
      BY <1>5, <1>10 DEF RetryWrite, At
    <2>4. QED BY <1>2, <1>10, <2>2, <2>3, RowStep DEF RetryWrite
  <1>11. QED BY <1>6, <1>7, <1>8, <1>9, <1>10

\* submit_anchor_job.
LEMMA SubmitSteps ==
    ASSUME PipelineInv, NEW w \in Workers,
           SubmitRead(w) \/ SubmitJob(w) \/ SubmitBatch(w)
    PROVE  PipelineInv'
  <1> DEFINE p == proc[w]
  <1>1. ProcInv(p, KnownJobs, anchors[Batch])
    BY DEF PipelineInv, ProcsOK
  <1>2. linked \subseteq TaskRuns /\ window \subseteq TaskRuns /\ batch \in BatchRow
    BY DEF PipelineInv, RowsOK
  <1>3. ProcInv(Idle, KnownJobs, anchors[Batch])
    BY IdleInv
  <1>4. CASE SubmitRead(w)
    <2>1. ASSUME NEW j \in Jobs
          PROVE  ProcInv([p EXCEPT !.pc = "submitJob", !.job = j], KnownJobs, anchors[Batch])
      BY <1>1, <1>4 DEF SubmitRead, At, ProcInv, Proc, PCs, HasJob, Confirmed,
         JobPCs, ReconcilePCs
    <2>2. Goto(w, Idle)
            \/ \E j \in Jobs : Goto(w, [p EXCEPT !.pc = "submitJob", !.job = j])
      BY <1>4 DEF SubmitRead, Done
    <2>3. QED BY <1>3, <1>4, <2>1, <2>2, LocalStep DEF SubmitRead
  <1>5. CASE SubmitJob(w)
    <2> DEFINE row == [state |-> "anchor_submitted", tx |-> 0, confirmation |-> None]
               f == [p EXCEPT !.pc = "submitBatch"]
    <2>1. p.job \in Jobs
      BY <1>1, <1>5 DEF SubmitJob, At, ProcInv
    <2>2. row \in JobRow
      BY PipelineAssumption DEF JobRow, JobStates
    <2>3. ProcInv(f, KnownJobs \cup {p.job}, anchors[Batch])
      BY <1>1, <1>5 DEF SubmitJob, At, ProcInv, Proc, PCs, HasJob, Confirmed,
         JobPCs, ReconcilePCs
    <2>4. QED BY <1>5, <2>1, <2>2, <2>3, JobStep DEF SubmitJob
  <1>6. CASE SubmitBatch(w)
    <2>1. p.job \in KnownJobs
      BY <1>1, <1>6 DEF SubmitBatch, At, ProcInv, HasJob, JobPCs
    <2>2. batch' \in BatchRow
      BY <1>2, <1>6, <2>1 DEF SubmitBatch, BatchRow, BatchStates, JobStates, KnownJobs
    <2>3. ASSUME p.op = "rebroadcast"
          PROVE  ProcInv([p EXCEPT !.pc = "plan"], KnownJobs, anchors[Batch])
      BY <1>1, <1>6, <2>1, <2>3 DEF SubmitBatch, At, ProcInv, Proc, PCs, HasJob,
         Confirmed, JobPCs, ReconcilePCs
    <2>4. QED BY <1>2, <1>3, <1>6, <2>2, <2>3, RowStep DEF SubmitBatch
  <1>7. QED BY <1>4, <1>5, <1>6

\* The broadcasts.
LEMMA BroadcastSteps ==
    ASSUME PipelineInv, NEW w \in Workers,
           \/ BuildChainTxPlan(w) \/ BroadcastAnswered(w) \/ BroadcastError(w)
           \/ BroadcastWrite(w)
    PROVE  PipelineInv'
  <1> DEFINE p == proc[w]
  <1>1. ProcInv(p, KnownJobs, anchors[Batch])
    BY DEF PipelineInv, ProcsOK
  <1>2. batch \in BatchRow /\ jobs \in [Jobs -> JobRow \cup {None}]
    BY DEF PipelineInv, RowsOK
  <1>3. ProcInv(Idle, KnownJobs, anchors[Batch])
    BY IdleInv
  <1>4. txs \in Seq(Tx) /\ Len(txs) \in Nat /\ Len(txs) <= MaxTxs /\ MaxTxs \in Nat
    BY PipelineAssumption DEF PipelineInv, TxsOK
  <1>5. CASE BuildChainTxPlan(w)
    <2>1. ASSUME batch.root # None
          PROVE  ProcInv([p EXCEPT !.pc = "broadcast", !.root = batch.root],
                         KnownJobs, anchors[Batch])
      <3>1. batch.root \in Roots
        BY <1>2, <2>1 DEF BatchRow
      <3>2. QED BY <1>1, <1>5, <3>1 DEF BuildChainTxPlan, At, ProcInv, Proc,
                   PCs, HasJob, Confirmed, JobPCs, ReconcilePCs
    <2>2. QED BY <1>3, <1>5, <2>1, LocalStep DEF BuildChainTxPlan
  <1>6. ASSUME At(w, "broadcast"), Enqueue(w)
        PROVE  TxsOK'
    <2> DEFINE t == [kind |-> p.kind, job |-> p.job, root |-> p.root, status |-> "mempool"]
    <2>1. p.job \in Jobs /\ p.root \in Roots /\ p.kind \in {"typed", "fallback"}
      BY <1>1, <1>6 DEF At, ProcInv, Proc, HasJob, JobPCs, KnownJobs
    <2>2. t \in Tx
      BY <2>1 DEF Tx
    <2>3. txs' = Append(txs, t) /\ Len(txs) < MaxTxs
      BY <1>6 DEF Enqueue
    <2> HIDE DEF t
    <2>4. QED BY <1>4, <2>2, <2>3 DEF TxsOK
  <1>7. ASSUME NEW f, Goto(w, f), UNCHANGED <<chainVars, serviceRows, crashes>>,
               TxsOK', ProcInv(f, KnownJobs, anchors[Batch])
        PROVE  PipelineInv'
    <2>1. ChainInv' /\ anchors' = anchors
      BY <1>7, ChainUntouched
    <2>2. jobs' = jobs /\ KnownJobs' = KnownJobs
      BY <1>7 DEF serviceRows, KnownJobs
    <2>3. ProcsOK'
      BY <1>7, <2>1, <2>2, ProcStep DEF PipelineInv
    <2>4. RowsOK' /\ AnchoredJobIsOnChain' /\ PaidOnlyIfOnChain'
      BY <1>7, <2>1 DEF PipelineInv, RowsOK, AnchoredJobIsOnChain,
                        PaidOnlyIfOnChain, serviceRows
    <2>5. QED BY <1>7, <2>1, <2>3, <2>4 DEF PipelineInv
  <1>8. CASE BroadcastAnswered(w)
    <2>1. Len(txs) + 1 \in 0..MaxTxs
      BY <1>4, <1>8 DEF BroadcastAnswered, Enqueue
    <2>2. ProcInv([p EXCEPT !.pc = "broadcastWrite", !.tx = Len(txs) + 1],
                  KnownJobs, anchors[Batch])
      BY <1>1, <1>8, <2>1 DEF BroadcastAnswered, At, ProcInv, Proc, PCs, HasJob,
         Confirmed, JobPCs, ReconcilePCs
    <2>3. TxsOK'
      BY <1>6, <1>8 DEF BroadcastAnswered
    <2>4. QED BY <1>7, <1>8, <2>2, <2>3 DEF BroadcastAnswered
  <1>9. CASE BroadcastError(w)
    <2>1. p.job \in KnownJobs
      BY <1>1, <1>9 DEF BroadcastError, At, ProcInv, HasJob, JobPCs
    <2>2. ProcInv(MarkFailed(p.job), KnownJobs, anchors[Batch])
      BY <2>1, OnJobInv DEF KnownJobs
    <2>3. TxsOK'
      <3>1. CASE Enqueue(w)
        BY <1>6, <1>9, <3>1 DEF BroadcastError
      <3>2. CASE UNCHANGED txs
        BY <3>2 DEF PipelineInv, TxsOK
      <3>3. QED BY <1>9, <3>1, <3>2 DEF BroadcastError
    <2>4. QED BY <1>7, <1>9, <2>2, <2>3 DEF BroadcastError
  <1>10. CASE BroadcastWrite(w)
    <2>1. p.job \in KnownJobs /\ p.job \in Jobs /\ jobs[p.job] \in JobRow
      BY <1>1, <1>2, <1>10 DEF BroadcastWrite, At, ProcInv, HasJob, JobPCs, KnownJobs
    <2>2. p.tx \in 0..MaxTxs
      BY <1>1 DEF ProcInv, Proc
    <2> DEFINE row == [jobs[p.job] EXCEPT !.state = "anchor_submitted", !.tx = p.tx]
    <2>3. row \in JobRow /\ row.state = "anchor_submitted"
      BY <2>1, <2>2 DEF JobRow, JobStates
    <2>4. jobs' = [jobs EXCEPT ![p.job] = row]
      BY <1>2, <1>10, <2>1 DEF BroadcastWrite, JobRow
    <2> HIDE DEF row
    <2>5. Goto(w, Idle) /\ UNCHANGED <<chainVars, linked, window, batch, paid, txs, crashes>>
      BY <1>10 DEF BroadcastWrite, Done
    <2>6. row.state = "anchored" => (anchors[Batch] # None /\ anchors[Batch].job = p.job)
      BY <2>3
    <2>7. QED BY <1>3, <2>1, <2>3, <2>4, <2>5, <2>6, KnownJobStep
  <1>11. QED BY <1>5, <1>8, <1>9, <1>10

\* confirm_anchor_job_on_chain: the status it carries is the truth about the
\* anchor.
LEMMA ConfirmSteps ==
    ASSUME PipelineInv, NEW w \in Workers,
           \/ ConfirmRead(w) \/ ConfirmBatchRead(w) \/ QueryAnswered(w)
           \/ QueryError(w) \/ ConfirmWrite(w)
    PROVE  PipelineInv'
  <1> DEFINE p == proc[w]
  <1>1. ProcInv(p, KnownJobs, anchors[Batch])
    BY DEF PipelineInv, ProcsOK
  <1>2. batch \in BatchRow /\ jobs \in [Jobs -> JobRow \cup {None}]
    BY DEF PipelineInv, RowsOK
  <1>3. ProcInv(Idle, KnownJobs, anchors[Batch])
    BY IdleInv
  <1>4. CASE ConfirmRead(w)
    <2>1. p.job \in KnownJobs /\ jobs[p.job] \in JobRow
      BY <1>1, <1>2, <1>4 DEF ConfirmRead, At, ProcInv, HasJob, JobPCs, KnownJobs
    <2>2. jobs[p.job].tx \in 0..MaxTxs
      BY <2>1 DEF JobRow
    <2>3. ProcInv([p EXCEPT !.pc = "confirmBatch", !.tx = jobs[p.job].tx],
                  KnownJobs, anchors[Batch])
      BY <1>1, <1>4, <2>2 DEF ConfirmRead, At, ProcInv, Proc, PCs, HasJob,
         Confirmed, JobPCs, ReconcilePCs
    <2>4. QED BY <1>1, <1>3, <1>4, <2>3, LocalStep, PassInv DEF ConfirmRead
  <1>5. CASE ConfirmBatchRead(w)
    <2>1. batch.root \in Roots \cup {None}
      BY <1>2 DEF BatchRow
    <2>2. ProcInv([p EXCEPT !.pc = "confirmQuery", !.root = batch.root],
                  KnownJobs, anchors[Batch])
      BY <1>1, <1>5, <2>1 DEF ConfirmBatchRead, At, ProcInv, Proc, PCs, HasJob,
         Confirmed, JobPCs, ReconcilePCs
    <2>3. QED BY <1>5, <2>2, LocalStep DEF ConfirmBatchRead
  <1>6. CASE QueryAnswered(w)
    <2> DEFINE status == ConfirmationStatus(txs[p.tx], p.job, p.root)
               f == [p EXCEPT !.pc = "confirmWrite", !.status = status]
    <2>1. status \in Confirmations
      BY DEF ConfirmationStatus, Confirmations
    <2>2. status = "confirmed" => (anchors[Batch] # None /\ anchors[Batch].job = p.job)
      BY DEF ConfirmationStatus
    <2> HIDE DEF status
    <2>3. f \in Proc /\ f.pc = "confirmWrite" /\ f.status = status /\ f.job = p.job
              /\ f.op = p.op /\ f.kind = p.kind /\ f.todo = p.todo
      BY <1>1, <2>1 DEF ProcInv, Proc, PCs
    <2>4. p.job \in KnownJobs
      BY <1>1, <1>6 DEF QueryAnswered, At, ProcInv, HasJob, JobPCs
    <2>5. Goto(w, f)
      BY <1>6 DEF QueryAnswered, status
    <2> HIDE DEF f
    <2>6. ProcInv(f, KnownJobs, anchors[Batch])
      BY <1>1, <2>2, <2>3, <2>4 DEF ProcInv, HasJob, Confirmed, ReconcilePCs
    <2>7. QED BY <1>6, <2>5, <2>6, LocalStep DEF QueryAnswered
  <1>7. CASE QueryError(w)
    BY <1>3, <1>7, LocalStep DEF QueryError, Done
  <1>8. CASE ConfirmWrite(w)
    <2>1. p.job \in KnownJobs /\ p.job \in Jobs /\ jobs[p.job] \in JobRow
      BY <1>1, <1>2, <1>8 DEF ConfirmWrite, At, ProcInv, HasJob, JobPCs, KnownJobs
    <2>2. p.status \in Confirmations
      BY <1>1 DEF ProcInv, Proc
    <2>3. p.status = "confirmed" => (anchors[Batch] # None /\ anchors[Batch].job = p.job)
      BY <1>1, <1>8 DEF ConfirmWrite, At, ProcInv, Confirmed
    <2> DEFINE row == [jobs[p.job] EXCEPT !.confirmation = p.status]
    <2>4. row \in JobRow /\ row.state = jobs[p.job].state
      BY <2>1, <2>2 DEF JobRow
    <2>5. jobs' = [jobs EXCEPT ![p.job] = row]
      BY <1>2, <1>8, <2>1 DEF ConfirmWrite, JobRow
    <2>6. row.state = "anchored" => (anchors[Batch] # None /\ anchors[Batch].job = p.job)
      BY <2>1, <2>4 DEF PipelineInv, AnchoredJobIsOnChain, KnownJobs
    <2>7. p.status = "confirmed"
            => ProcInv(WithinPass(p, Reconcile(OnJob(p.job), "anchorJob")),
                       KnownJobs, anchors[Batch])
      BY <1>1, <2>1, <2>3, OnJobInv, PassInv
    <2>8. /\ ProcInv(WithinPass(p, MarkFailed(p.job)), KnownJobs, anchors[Batch])
          /\ ProcInv(Return(p), KnownJobs, anchors[Batch])
      BY <1>1, <2>1, OnJobInv, PassInv
    <2>9. \/ Goto(w, Return(p))
          \/ p.status = "confirmed"
                /\ Goto(w, WithinPass(p, Reconcile(OnJob(p.job), "anchorJob")))
          \/ Goto(w, WithinPass(p, MarkFailed(p.job)))
      BY <1>8 DEF ConfirmWrite
    <2> HIDE DEF row
    <2>10. UNCHANGED <<chainVars, linked, window, batch, paid, txs, crashes>>
      BY <1>8 DEF ConfirmWrite
    <2>11. ASSUME NEW f, Goto(w, f), ProcInv(f, KnownJobs, anchors[Batch])
           PROVE  PipelineInv'
      BY <2>1, <2>4, <2>5, <2>6, <2>10, <2>11, KnownJobStep
    <2>12. QED BY <2>7, <2>8, <2>9, <2>11
  <1>9. QED BY <1>4, <1>6, <1>7, <1>8, <1>5

\* mark_anchor_job_anchored.
LEMMA AnchorSteps ==
    ASSUME PipelineInv, NEW w \in Workers,
           AnchorJob(w) \/ AnchorCheck(w) \/ AnchorBatch(w) \/ PayBudgetLedgers(w)
    PROVE  PipelineInv'
  <1> DEFINE p == proc[w]
  <1>1. ProcInv(p, KnownJobs, anchors[Batch])
    BY DEF PipelineInv, ProcsOK
  <1>2. /\ linked \subseteq TaskRuns /\ window \subseteq TaskRuns
        /\ batch \in BatchRow /\ jobs \in [Jobs -> JobRow \cup {None}]
    BY DEF PipelineInv, RowsOK
  <1>3. ProcInv(Idle, KnownJobs, anchors[Batch])
    BY IdleInv
  <1>4. CASE AnchorJob(w)
    <2>1. p.job \in KnownJobs /\ p.job \in Jobs /\ jobs[p.job] \in JobRow
      BY <1>1, <1>2, <1>4 DEF AnchorJob, At, ProcInv, HasJob, JobPCs, KnownJobs
    <2>2. anchors[Batch] # None /\ anchors[Batch].job = p.job
      BY <1>1, <1>4 DEF AnchorJob, At, ProcInv, Confirmed
    <2> DEFINE row == [jobs[p.job] EXCEPT !.state = "anchored", !.confirmation = "confirmed"]
               f == [p EXCEPT !.pc = "anchorCheck"]
    <2>3. row \in JobRow
      BY <2>1 DEF JobRow, JobStates, Confirmations
    <2>4. jobs' = [jobs EXCEPT ![p.job] = row]
      BY <1>2, <1>4, <2>1 DEF AnchorJob, JobRow
    <2>5. ProcInv(f, KnownJobs, anchors[Batch])
      BY <1>1, <1>4, <2>1, <2>2 DEF AnchorJob, At, ProcInv, Proc, PCs, HasJob,
         Confirmed, JobPCs, ReconcilePCs
    <2>6. Goto(w, f) /\ UNCHANGED <<chainVars, linked, window, batch, paid, txs, crashes>>
      BY <1>4 DEF AnchorJob
    <2> HIDE DEF row, f
    <2>7. QED BY <2>1, <2>2, <2>3, <2>4, <2>5, <2>6, KnownJobStep
  <1>5. CASE AnchorCheck(w)
    <2>1. ProcInv([p EXCEPT !.pc = "anchorBatch"], KnownJobs, anchors[Batch])
      BY <1>1, <1>5 DEF AnchorCheck, At, ProcInv, Proc, PCs, HasJob,
         Confirmed, JobPCs, ReconcilePCs
    <2>2. QED BY <1>1, <1>5, <2>1, LocalStep, PassInv DEF AnchorCheck
  <1>6. CASE AnchorBatch(w)
    <2>1. ProcInv([p EXCEPT !.pc = "pay"], KnownJobs, anchors[Batch])
      BY <1>1, <1>6 DEF AnchorBatch, At, ProcInv, Proc, PCs, HasJob,
         Confirmed, JobPCs, ReconcilePCs
    <2>2. batch' \in BatchRow
      BY <1>2, <1>6 DEF AnchorBatch, BatchRow, BatchStates, JobStates
    <2>3. QED BY <1>2, <1>6, <2>1, <2>2, RowStep DEF AnchorBatch
  <1>7. CASE PayBudgetLedgers(w)
    <2>1. anchors[Batch] # None
      BY <1>1, <1>7 DEF PayBudgetLedgers, At, ProcInv, Confirmed
    <2>2. ChainInv' /\ anchors' = anchors
      BY <1>7, ChainUntouched DEF PayBudgetLedgers
    <2>3. jobs' = jobs /\ KnownJobs' = KnownJobs
      BY <1>7 DEF PayBudgetLedgers, KnownJobs
    <2>4. ProcsOK'
      BY <1>1, <1>7, <2>2, <2>3, ProcStep, PassInv DEF PipelineInv, PayBudgetLedgers
    <2>5. RowsOK' /\ TxsOK' /\ AnchoredJobIsOnChain' /\ PaidOnlyIfOnChain'
      BY <1>7, <2>1, <2>2 DEF PayBudgetLedgers, PipelineInv, RowsOK, TxsOK,
         AnchoredJobIsOnChain, PaidOnlyIfOnChain
    <2>6. QED BY <2>2, <2>4, <2>5 DEF PipelineInv
  <1>8. QED BY <1>4, <1>5, <1>6, <1>7

\* mark_anchor_job_failed, and the rebroadcast of a failed job.
LEMMA FailSteps ==
    ASSUME PipelineInv, NEW w \in Workers,
           FailJob(w) \/ FailCheck(w) \/ FailBatch(w) \/ RebroadcastRead(w)
    PROVE  PipelineInv'
  <1> DEFINE p == proc[w]
  <1>1. ProcInv(p, KnownJobs, anchors[Batch])
    BY DEF PipelineInv, ProcsOK
  <1>2. /\ linked \subseteq TaskRuns /\ window \subseteq TaskRuns
        /\ batch \in BatchRow /\ jobs \in [Jobs -> JobRow \cup {None}]
    BY DEF PipelineInv, RowsOK
  <1>3. ProcInv(Idle, KnownJobs, anchors[Batch])
    BY IdleInv
  <1>4. CASE FailJob(w)
    <2>1. p.job \in KnownJobs /\ p.job \in Jobs /\ jobs[p.job] \in JobRow
      BY <1>1, <1>2, <1>4 DEF FailJob, At, ProcInv, HasJob, JobPCs, KnownJobs
    <2> DEFINE row == [jobs[p.job] EXCEPT !.state = "anchor_failed"]
               f == [p EXCEPT !.pc = "failCheck"]
    <2>2. row \in JobRow /\ row.state # "anchored"
      BY <2>1 DEF JobRow, JobStates
    <2>3. jobs' = [jobs EXCEPT ![p.job] = row]
      BY <1>2, <1>4, <2>1 DEF FailJob, JobRow
    <2>4. ProcInv(f, KnownJobs, anchors[Batch])
      BY <1>1, <1>4, <2>1 DEF FailJob, At, ProcInv, Proc, PCs, HasJob,
         Confirmed, JobPCs, ReconcilePCs
    <2>5. Goto(w, f) /\ UNCHANGED <<chainVars, linked, window, batch, paid, txs, crashes>>
      BY <1>4 DEF FailJob
    <2>6. row.state = "anchored" => (anchors[Batch] # None /\ anchors[Batch].job = p.job)
      BY <2>2
    <2> HIDE DEF row, f
    <2>7. QED BY <2>1, <2>2, <2>3, <2>4, <2>5, <2>6, KnownJobStep
  <1>5. CASE FailCheck(w)
    <2>1. ProcInv([p EXCEPT !.pc = "failBatch"], KnownJobs, anchors[Batch])
      BY <1>1, <1>5 DEF FailCheck, At, ProcInv, Proc, PCs, HasJob,
         Confirmed, JobPCs, ReconcilePCs
    <2>2. QED BY <1>1, <1>5, <2>1, LocalStep, PassInv DEF FailCheck
  <1>6. CASE FailBatch(w)
    <2>1. batch' \in BatchRow
      BY <1>2, <1>6 DEF FailBatch, BatchRow, BatchStates, JobStates
    <2>2. QED BY <1>1, <1>2, <1>6, <2>1, RowStep, PassInv DEF FailBatch
  <1>7. CASE RebroadcastRead(w)
    <2> DEFINE q == [p EXCEPT !.job = None]
    <2>1. q \in Proc /\ q.pc = "rebroadcastRead" /\ q.op = p.op /\ q.kind = p.kind
          /\ q.todo = p.todo
      BY <1>1, <1>7 DEF RebroadcastRead, At, ProcInv, Proc
    <2> HIDE DEF q
    <2>2. ProcInv([q EXCEPT !.pc = "link", !.next = "retryRead"], KnownJobs, anchors[Batch])
      <3> DEFINE r == [q EXCEPT !.pc = "link", !.next = "retryRead"]
      <3>1. r \in Proc /\ r.pc = "link" /\ r.next = "retryRead" /\ r.op = p.op
              /\ r.kind = p.kind /\ r.todo = p.todo
        BY <2>1 DEF Proc, PCs, Nexts
      <3> HIDE DEF r
      <3>2. ProcInv(r, KnownJobs, anchors[Batch])
        BY <1>1, <3>1 DEF ProcInv, HasJob, Confirmed, JobPCs, JobNexts, ReconcilePCs
      <3>3. QED BY <3>2 DEF r
    <2>3. QED BY <1>3, <1>7, <2>2, LocalStep DEF RebroadcastRead, Reconcile, q
  <1>8. QED BY <1>4, <1>5, <1>6, <1>7

\* A pass of the confirmation loop lists jobs that have rows, and takes them
\* from that list.
LEMMA SweepSteps ==
    ASSUME PipelineInv, NEW w \in Workers, SweepList(w) \/ SweepNext(w)
    PROVE  PipelineInv'
  <1> DEFINE p == proc[w]
  <1>1. ProcInv(p, KnownJobs, anchors[Batch])
    BY DEF PipelineInv, ProcsOK
  <1>2. CASE SweepList(w)
    <2> DEFINE todo == {j \in KnownJobs : jobs[j].state = "anchor_submitted" /\ jobs[j].tx # 0}
    <2>1. todo \subseteq KnownJobs /\ todo \subseteq Jobs
      BY DEF KnownJobs
    <2>2. Goto(w, Return([Idle EXCEPT !.todo = todo]))
          /\ UNCHANGED <<chainVars, serviceRows, txs, crashes>>
      BY <1>2 DEF SweepList
    <2> HIDE DEF todo
    <2>3. ProcInv(Idle, KnownJobs, anchors[Batch])
      BY IdleInv
    <2>4. ProcInv([Idle EXCEPT !.todo = todo], KnownJobs, anchors[Batch])
      BY <2>1, <2>3 DEF Idle, ProcInv, Proc, HasJob, Confirmed, JobPCs, ReconcilePCs
    <2>5. ProcInv(Return([Idle EXCEPT !.todo = todo]), KnownJobs, anchors[Batch])
      BY <2>4, PassInv
    <2>6. QED BY <2>2, <2>5, LocalStep
  <1>3. CASE SweepNext(w)
    <2> PICK j \in p.todo :
          Goto(w, [Reconcile(OnJob(j), "confirmRead") EXCEPT !.todo = p.todo \ {j}])
      BY <1>3 DEF SweepNext
    <2> DEFINE q == Reconcile(OnJob(j), "confirmRead")
               f == [q EXCEPT !.todo = p.todo \ {j}]
    <2>1. j \in KnownJobs /\ j \in Jobs /\ p.todo \ {j} \subseteq KnownJobs
          /\ p.todo \ {j} \subseteq Jobs
      BY <1>1 DEF ProcInv, KnownJobs
    <2>2. ProcInv(q, KnownJobs, anchors[Batch])
      BY <2>1, OnJobInv
    <2> HIDE DEF q
    <2>3. q \in Proc
      BY <2>2 DEF ProcInv
    <2>4. /\ f \in Proc /\ f.pc = q.pc /\ f.next = q.next /\ f.job = q.job /\ f.op = q.op
          /\ f.kind = q.kind /\ f.seen = q.seen /\ f.root = q.root /\ f.status = q.status
          /\ f.todo = p.todo \ {j}
      BY <2>1, <2>3 DEF Proc
    <2>5. Goto(w, f) /\ UNCHANGED <<chainVars, serviceRows, txs, crashes>>
      BY <1>3 DEF SweepNext, q
    <2> HIDE DEF f
    <2>6. ProcInv(f, KnownJobs, anchors[Batch])
      BY <2>1, <2>2, <2>4 DEF ProcInv, HasJob, Confirmed
    <2>7. QED BY <2>5, <2>6, LocalStep
  <1>4. QED BY <1>2, <1>3

------------------------------------------------------------------------------
(* Requests, crashes and the chain *)

\* A request starts a handler and writes nothing.
LEMMA StartStep ==
    ASSUME PipelineInv, NEW w \in Workers, NEW handler, NEW p,
           ProcInv(p, KnownJobs, anchors[Batch]), Start(w, handler, p)
    PROVE  PipelineInv'
  BY LocalStep DEF Start

\* Every request starts a handler that knows what it needs.
LEMMA RequestStep ==
    ASSUME PipelineInv, NEW w \in Workers, Request(w)
    PROVE  PipelineInv'
  <1> DEFINE Ok(p) == ProcInv(p, KnownJobs, anchors[Batch])
  <1>1. Ok(Idle)
    BY IdleInv
  <1>2. Ok(Reconcile(Idle, "done")) /\ Ok(Reconcile(Idle, "rebuildRead"))
            /\ Ok(Reconcile(Idle, "retryRead")) /\ Ok(Reconcile(Idle, "submitRead"))
            /\ Ok(Reconcile(Idle, "sweepList"))
    BY <1>1, ReconcileInv DEF Nexts, JobNexts
  <1>3. CASE StartReconcile(w) \/ StartRebuild(w) \/ StartRetryAnchor(w) \/ StartSubmit(w)
             \/ StartSweep(w)
    BY <1>2, <1>3, StartStep DEF StartReconcile, StartRebuild, StartRetryAnchor,
       StartSubmit, StartSweep
  <1>5. ASSUME NEW j \in KnownJobs
        PROVE  Ok(MarkFailed(j)) /\ Ok(Reconcile(OnJob(j), "confirmRead"))
    BY OnJobInv DEF KnownJobs
  <1>6. CASE StartMarkFailed(w) \/ StartConfirm(w)
    BY <1>5, <1>6, StartStep DEF StartMarkFailed, StartConfirm
  <1>7. ASSUME NEW j \in KnownJobs, NEW k \in {"typed", "fallback"}
        PROVE  Ok([OnJob(j) EXCEPT !.kind = k]) /\ Ok([OnJob(j) EXCEPT !.kind = k, !.pc = "plan"])
    BY <1>1 DEF OnJob, Idle, ProcInv, Proc, PCs, HasJob, Confirmed, JobPCs,
       ReconcilePCs, KnownJobs
  <1>8. CASE StartBroadcast(w)
    BY <1>7, <1>8, StartStep DEF StartBroadcast
  <1>9. CASE StartRebroadcast(w)
    <2> PICK j \in KnownJobs, k \in {"typed", "fallback"} :
          Start(w, RebroadcastEndpoint[k],
                Reconcile([OnJob(j) EXCEPT !.kind = k, !.op = "rebroadcast"],
                          "rebroadcastRead"))
      BY <1>9 DEF StartRebroadcast
    <2> DEFINE p == [OnJob(j) EXCEPT !.kind = k, !.op = "rebroadcast"]
    <2>1. p.job = j
      BY DEF OnJob, Idle
    <2>2. Ok(p)
      BY <1>1 DEF OnJob, Idle, ProcInv, Proc, PCs, Ops, HasJob, Confirmed, JobPCs,
         ReconcilePCs, KnownJobs
    <2> HIDE DEF p
    <2>3. Ok(Reconcile(p, "rebroadcastRead"))
      BY <2>1, <2>2, ReconcileInv DEF Nexts, JobNexts
    <2>4. QED BY <2>3, StartStep DEF p
  <1>10. QED BY <1>3, <1>6, <1>8, <1>9 DEF Request

\* A crash forgets what the handlers knew and keeps the rows.
LEMMA CrashStep ==
    ASSUME PipelineInv, Crash
    PROVE  PipelineInv'
  <1>1. ChainInv' /\ anchors' = anchors
    BY ChainUntouched DEF Crash
  <1>2. jobs' = jobs /\ KnownJobs' = KnownJobs
    BY DEF Crash, serviceRows, KnownJobs
  <1>3. ProcsOK'
    <2>1. Idle \in Proc /\ ProcInv(Idle, KnownJobs', anchors'[Batch])
      BY IdleInv DEF ProcInv
    <2>2. proc' = [w \in Workers |-> Idle]
      BY DEF Crash
    <2>3. QED BY <2>1, <2>2 DEF ProcsOK
  <1>4. crashes' \in 0..MaxCrashes
    BY PipelineAssumption DEF PipelineInv, RowsOK, Crash
  <1>5. RowsOK' /\ TxsOK' /\ AnchoredJobIsOnChain' /\ PaidOnlyIfOnChain'
    BY <1>1, <1>4 DEF Crash, PipelineInv, RowsOK, TxsOK, AnchoredJobIsOnChain,
                PaidOnlyIfOnChain, serviceRows
  <1>6. QED BY <1>1, <1>3, <1>5 DEF PipelineInv

\* A new status of a transaction keeps the mempool well-formed.
LEMMA TxStatus ==
    ASSUME TxsOK, NEW i \in 1..Len(txs),
           NEW s \in {"mempool", "ok", "failed", "dropped"},
           txs' = [txs EXCEPT ![i].status = s]
    PROVE  TxsOK'
  <1>1. txs \in Seq(Tx) /\ txs[i] \in Tx
    BY ElementOfSeq DEF TxsOK
  <1> DEFINE t == [txs[i] EXCEPT !.status = s]
  <1>2. t \in Tx
    BY <1>1 DEF Tx
  <1>3. txs' = [txs EXCEPT ![i] = t]
    BY <1>1
  <1> HIDE DEF t
  <1>4. txs' \in Seq(Tx) /\ Len(txs') = Len(txs)
    BY <1>1, <1>2, <1>3, ExceptSeq
  <1>5. QED BY <1>4 DEF TxsOK

\* A step outside the service: an anchor once stored stays.
LEMMA OutsideStep ==
    ASSUME PipelineInv, ChainInv', TxsOK',
           anchors[Batch] # None => anchors'[Batch] = anchors[Batch],
           UNCHANGED <<serviceRows, proc, crashes>>
    PROVE  PipelineInv'
  <1>1. proc' = proc /\ KnownJobs' = KnownJobs
    BY DEF serviceRows, KnownJobs
  <1>2. ProcsOK'
    <2>1. ASSUME NEW w \in Workers PROVE ProcInv(proc'[w], KnownJobs', anchors'[Batch])
      <3>1. ProcInv(proc[w], KnownJobs, anchors[Batch])
        BY DEF PipelineInv, ProcsOK
      <3>2. QED BY <1>1, <3>1 DEF ProcInv
    <2>2. QED BY <1>1, <2>1 DEF PipelineInv, ProcsOK
  <1>3. RowsOK'
    BY DEF PipelineInv, RowsOK, serviceRows
  <1>4. AnchoredJobIsOnChain' /\ PaidOnlyIfOnChain'
    BY DEF PipelineInv, AnchoredJobIsOnChain, PaidOnlyIfOnChain, serviceRows
  <1>5. QED BY <1>2, <1>3, <1>4 DEF PipelineInv

\* What the chain does to the batch's anchor when it runs a transaction.
LEMMA DeliverKeeps ==
    ASSUME PipelineInv, DeliverTx
    PROVE  /\ ChainInv' /\ TxsOK'
           /\ anchors[Batch] # None => anchors'[Batch] = anchors[Batch]
  <1> PICK i \in InMempool : DeliverTx!(i)
    BY DEF DeliverTx
  <1> DEFINE m == [batch |-> Batch, job |-> txs[i].job,
                   submitter |-> Submitter, root |-> txs[i].root]
  <1>1. i \in 1..Len(txs) /\ TxsOK /\ ChainInv
    BY DEF InMempool, PipelineInv
  <1>2. txs[i] \in Tx
    BY <1>1, ElementOfSeq DEF TxsOK
  <1>3. m \in Msg /\ Batch \in Batches
    BY <1>2, PipelineAssumption DEF Tx, Msg
  <1>4. CASE txs[i].kind = "typed"
    <2>1. AnchorSettlementBatch(m)
      BY <1>4
    <2>2. \E s \in {"ok", "failed"} : txs' = [txs EXCEPT ![i].status = s]
      BY <1>4
    <2> HIDE DEF m
    <2>3. ChainInv' /\ (anchors[Batch] # None => anchors'[Batch] = anchors[Batch])
      BY <1>1, <1>3, <2>1, AnchorSettlementBatchKeeps
    <2>4. TxsOK'
      BY <1>1, <2>2, TxStatus
    <2>5. QED BY <2>3, <2>4
  <1>5. CASE txs[i].kind # "typed"
    <2>1. UNCHANGED chainVars /\ txs' = [txs EXCEPT ![i].status = "ok"]
      BY <1>5
    <2>2. TxsOK'
      BY <1>1, <2>1, TxStatus
    <2>3. ChainInv' /\ anchors' = anchors
      BY <2>1, ChainUntouched
    <2>4. QED BY <2>2, <2>3
  <1>6. QED BY <1>4, <1>5

\* The node runs or drops a transaction.
LEMMA OutsideSteps ==
    ASSUME PipelineInv, DeliverTx \/ DropTx
    PROVE  PipelineInv'
  <1>1. CASE DeliverTx
    <2>1. UNCHANGED <<serviceRows, proc, crashes>>
      BY <1>1 DEF DeliverTx
    <2>2. QED BY <1>1, <2>1, DeliverKeeps, OutsideStep
  <1>2. CASE DropTx
    <2>1. TxsOK'
      BY <1>2, TxStatus DEF DropTx, InMempool, PipelineInv
    <2>2. ChainInv' /\ anchors' = anchors
      BY <1>2, ChainUntouched DEF DropTx
    <2>3. QED BY <1>2, <2>1, <2>2, OutsideStep DEF DropTx
  <1>3. QED BY <1>1, <1>2

\* Every step keeps the invariant.
LEMMA NextInv == PipelineInv /\ [Next]_vars => PipelineInv'
  <1> SUFFICES ASSUME PipelineInv, [Next]_vars PROVE PipelineInv'
    OBVIOUS
  <1>1. ASSUME NEW w \in Workers, Step(w) PROVE PipelineInv'
    BY <1>1, ReconcileSteps, RebuildAndRetrySteps, SubmitSteps, BroadcastSteps,
       ConfirmSteps, AnchorSteps, FailSteps, SweepSteps DEF Step
  <1>2. ASSUME NEW w \in Workers, Request(w) PROVE PipelineInv'
    BY <1>2, RequestStep
  <1>3. CASE UNCHANGED vars
    <2>1. ChainInv' /\ anchors' = anchors
      BY <1>3, ChainUntouched DEF vars
    <2>2. TxsOK'
      BY <1>3 DEF PipelineInv, TxsOK, vars
    <2>3. QED BY <1>3, <2>1, <2>2, OutsideStep DEF vars, serviceRows
  <1>4. QED BY <1>1, <1>2, <1>3, CrashStep, OutsideSteps DEF Next

\* The invariant holds always.
LEMMA PipelineInvariant == Spec => []PipelineInv
  BY InitInv, NextInv, PTL DEF Spec

------------------------------------------------------------------------------
(* The theorems *)

\* Every row, transaction and local value of the pipeline has its type.
THEOREM PipelineTypeCorrect == Spec => []TypeOK
  <1>1. PipelineInv => TypeOK
    BY DEF PipelineInv, TypeOK, ChainInv, RowsOK, TxsOK, ProcsOK
  <1>2. QED BY <1>1, PipelineInvariant, PTL

\* confirm_anchor_job_on_chain and mark_anchor_job_anchored: a job row says
\* anchored only of the job whose message the chain stores, for any number of
\* concurrent handlers, crashes and lost transactions.
THEOREM AnchoredMeansConfirmed == Spec => []AnchoredJobIsOnChain
  <1>1. PipelineInv => AnchoredJobIsOnChain
    BY DEF PipelineInv
  <1>2. QED BY <1>1, PipelineInvariant, PTL

\* The budget ledgers are marked paid only after the chain stored an anchor.
THEOREM NeverPaidOffChain == Spec => []PaidOnlyIfOnChain
  <1>1. PipelineInv => PaidOnlyIfOnChain
    BY DEF PipelineInv
  <1>2. QED BY <1>1, PipelineInvariant, PTL

------------------------------------------------------------------------------
(* The pipeline implements AnchorPromise *)

\* A write of a job row is a report, a withdrawal or nothing.
LEMMA JobWriteIsPromised ==
    ASSUME PipelineInv, NEW j \in Jobs, NEW row \in JobRow,
           jobs' = [jobs EXCEPT ![j] = row], anchors' = anchors,
           row.state = "anchored" => (anchors[Batch] # None /\ anchors[Batch].job = j)
    PROVE  [Promise!PromiseNext]_(Promise!promiseVars)
  <1>1. jobs \in [Jobs -> JobRow \cup {None}] /\ row # None
    BY PipelineAssumption DEF PipelineInv, RowsOK
  <1>2. anchors[Batch] # None => anchors[Batch] \in Anchor
    BY PipelineAssumption DEF PipelineInv, ChainInv, ChainTypeOK
  <1>3. CASE row.state = "anchored"
    <2>1. reportedJobs' = reportedJobs \cup {j}
      BY <1>1, <1>3 DEF reportedJobs
    <2>2. Promise!Report(anchors[Batch])
      BY <1>3, <2>1 DEF Promise!Report
    <2>3. QED BY <1>2, <1>3, <2>2 DEF Promise!PromiseNext
  <1>4. CASE row.state # "anchored"
    <2>1. reportedJobs' = reportedJobs \ {j}
      BY <1>1, <1>4 DEF reportedJobs
    <2>2. CASE j \in reportedJobs
      BY <2>1, <2>2 DEF Promise!Withdraw, Promise!PromiseNext
    <2>3. CASE j \notin reportedJobs
      BY <2>1, <2>3 DEF Promise!promiseVars
    <2>4. QED BY <2>2, <2>3
  <1>5. QED BY <1>3, <1>4

\* The five steps of a worker that write a job row.
LEMMA JobWritesArePromised ==
    ASSUME PipelineInv, NEW w \in Workers,
           \/ SubmitJob(w) \/ BroadcastWrite(w) \/ ConfirmWrite(w)
           \/ AnchorJob(w) \/ FailJob(w)
    PROVE  [Promise!PromiseNext]_(Promise!promiseVars)
  <1> DEFINE p == proc[w]
             j == proc[w].job
             old == jobs[proc[w].job]
  <1>1. ProcInv(p, KnownJobs, anchors[Batch]) /\ p \in Proc
    BY DEF PipelineInv, ProcsOK, ProcInv
  <1>2. jobs \in [Jobs -> JobRow \cup {None}]
    BY DEF PipelineInv, RowsOK
  <1>3. anchors' = anchors
    BY DEF SubmitJob, BroadcastWrite, ConfirmWrite, AnchorJob, FailJob, chainVars
  <1>4. CASE SubmitJob(w)
    <2> DEFINE row == [state |-> "anchor_submitted", tx |-> 0, confirmation |-> None]
    <2>1. row \in JobRow /\ row.state # "anchored"
      BY PipelineAssumption DEF JobRow, JobStates
    <2>2. j \in Jobs /\ jobs' = [jobs EXCEPT ![j] = row]
      BY <1>1, <1>4 DEF SubmitJob, At, ProcInv
    <2> HIDE DEF row, j
    <2>3. QED BY <1>3, <2>1, <2>2, JobWriteIsPromised
  <1>5. ASSUME ~SubmitJob(w)
        PROVE  j \in Jobs /\ old \in JobRow
    BY <1>1, <1>2, <1>5 DEF BroadcastWrite, ConfirmWrite, AnchorJob, FailJob, At,
       ProcInv, HasJob, JobPCs, KnownJobs
  <1>6. CASE BroadcastWrite(w) /\ ~SubmitJob(w)
    <2> DEFINE row == [old EXCEPT !.state = "anchor_submitted", !.tx = p.tx]
    <2>1. row \in JobRow /\ row.state # "anchored"
      BY <1>1, <1>5, <1>6 DEF JobRow, JobStates, Proc
    <2>2. jobs' = [jobs EXCEPT ![j] = row]
      BY <1>2, <1>5, <1>6 DEF BroadcastWrite, JobRow
    <2> HIDE DEF row, j
    <2>3. QED BY <1>3, <1>5, <1>6, <2>1, <2>2, JobWriteIsPromised
  <1>7. CASE ConfirmWrite(w) /\ ~SubmitJob(w)
    <2> DEFINE row == [old EXCEPT !.confirmation = p.status]
    <2>1. row \in JobRow /\ row.state = old.state
      BY <1>1, <1>5, <1>7 DEF JobRow, Proc
    <2>2. jobs' = [jobs EXCEPT ![j] = row]
      BY <1>2, <1>5, <1>7 DEF ConfirmWrite, JobRow
    <2>3. old # None
      BY <1>5, <1>7, PipelineAssumption
    <2>4. row.state = "anchored" => (anchors[Batch] # None /\ anchors[Batch].job = j)
      BY <1>5, <1>7, <2>1, <2>3 DEF PipelineInv, AnchoredJobIsOnChain
    <2> HIDE DEF row, j
    <2>5. QED BY <1>3, <1>5, <1>7, <2>1, <2>2, <2>4, JobWriteIsPromised
  <1>8. CASE AnchorJob(w) /\ ~SubmitJob(w)
    <2> DEFINE row == [old EXCEPT !.state = "anchored", !.confirmation = "confirmed"]
    <2>1. row \in JobRow
      BY <1>5, <1>8 DEF JobRow, JobStates, Confirmations
    <2>2. jobs' = [jobs EXCEPT ![j] = row]
      BY <1>2, <1>5, <1>8 DEF AnchorJob, JobRow
    <2>3. anchors[Batch] # None /\ anchors[Batch].job = j
      BY <1>1, <1>8 DEF AnchorJob, At, ProcInv, Confirmed
    <2> HIDE DEF row, j
    <2>4. QED BY <1>3, <1>5, <1>8, <2>1, <2>2, <2>3, JobWriteIsPromised
  <1>9. CASE FailJob(w) /\ ~SubmitJob(w)
    <2> DEFINE row == [old EXCEPT !.state = "anchor_failed"]
    <2>1. row \in JobRow /\ row.state # "anchored"
      BY <1>5, <1>9 DEF JobRow, JobStates
    <2>2. jobs' = [jobs EXCEPT ![j] = row]
      BY <1>2, <1>5, <1>9 DEF FailJob, JobRow
    <2> HIDE DEF row, j
    <2>3. QED BY <1>3, <1>5, <1>9, <2>1, <2>2, JobWriteIsPromised
  <1>10. QED BY <1>4, <1>6, <1>7, <1>8, <1>9

\* Every step of the pipeline is a step of the promise or changes nothing of it.
LEMMA StepIsPromised ==
    PipelineInv /\ [Next]_vars => [Promise!PromiseNext]_(Promise!promiseVars)
  <1> SUFFICES ASSUME PipelineInv, [Next]_vars
               PROVE  [Promise!PromiseNext]_(Promise!promiseVars)
    OBVIOUS
  <1>1. ASSUME anchors' = anchors, jobs' = jobs
        PROVE  [Promise!PromiseNext]_(Promise!promiseVars)
    BY <1>1 DEF Promise!promiseVars, reportedJobs
  <1>2. ASSUME NEW w \in Workers, Request(w) PROVE anchors' = anchors /\ jobs' = jobs
    BY <1>2 DEF Request, StartReconcile, StartRebuild, StartRetryAnchor, StartSubmit,
       StartMarkFailed, StartConfirm, StartBroadcast, StartRebroadcast, StartSweep, Start,
       chainVars, serviceRows
  <1>3. ASSUME NEW w \in Workers, Step(w)
        PROVE  \/ anchors' = anchors /\ jobs' = jobs
               \/ SubmitJob(w) \/ BroadcastWrite(w) \/ ConfirmWrite(w)
               \/ AnchorJob(w) \/ FailJob(w)
    BY <1>3 DEF Step, LinkRead, LinkTask, NothingToLink, SaveRewardWindow, SyncRead,
       SyncOpenSettlementBatch, RebuildRead, RebuildWrite, RetryRead, RetryWindow,
       RetryWrite, SubmitRead, SubmitBatch, BuildChainTxPlan, BroadcastAnswered,
       BroadcastError, ConfirmRead, ConfirmBatchRead, QueryAnswered, QueryError, AnchorCheck,
       AnchorBatch, PayBudgetLedgers, FailCheck, FailBatch, RebroadcastRead, SweepList,
       SweepNext, chainVars, serviceRows
  <1>4. CASE DeliverTx
    <2>1. jobs' = jobs /\ reportedJobs' = reportedJobs
      BY <1>4 DEF DeliverTx, serviceRows, reportedJobs
    <2>2. ChainInv' /\ (anchors[Batch] # None => anchors'[Batch] = anchors[Batch])
      BY <1>4, DeliverKeeps
    <2>3. anchors'[Batch] \in Anchor \cup {None}
      BY <2>2, PipelineAssumption DEF ChainInv, ChainTypeOK
    <2>4. CASE anchors'[Batch] = anchors[Batch]
      BY <2>1, <2>4 DEF Promise!promiseVars
    <2>5. CASE anchors'[Batch] # anchors[Batch]
      <3>1. anchors[Batch] = None /\ anchors'[Batch] \in Anchor
        BY <2>2, <2>3, <2>5
      <3>2. Promise!Record(anchors'[Batch])
        BY <2>1, <3>1 DEF Promise!Record
      <3>3. QED BY <3>1, <3>2 DEF Promise!PromiseNext
    <2>6. QED BY <2>4, <2>5
  <1>5. CASE Crash \/ DropTx \/ UNCHANGED vars
    BY <1>1, <1>5 DEF Crash, DropTx, vars, chainVars, serviceRows
  <1>6. QED BY <1>1, <1>2, <1>3, <1>4, <1>5, JobWritesArePromised DEF Next

\* The pipeline implements AnchorPromise: however its handlers interleave, the
\* chain's entry for the batch is written once, and a job is reported anchored
\* only by a step that finds its own anchor there.
THEOREM PipelineKeepsPromise == Spec => KeepsPromise
  <1>1. Init => Promise!PromiseInit
    BY PipelineAssumption DEF Init, ChainInit, Promise!PromiseInit, reportedJobs
  <1>2. QED BY <1>1, StepIsPromised, PipelineInvariant, PTL
        DEF Spec, KeepsPromise, Promise!PromiseSpec

------------------------------------------------------------------------------
(* One request at a time.  What a handler read from the batch is then what  *)
(* the batch still says, and every transaction carries the batch's root.    *)

\* No two handlers run at the same time.
OneRequest == \A v, w \in Workers : ~At(v, "idle") /\ ~At(w, "idle") => v = w

\* What a handler has read, given the batch row.
ReadOK(p, row) ==
    /\ p.pc \in {"syncWrite", "retryWindow", "retryWrite"} => p.seen = row
    /\ p.pc = "retryWrite" => row.root \in {None, p.root}
    /\ p.pc = "broadcast" => p.root = row.root
    /\ p.pc = "anchorBatch" => p.job = row.job

\* Every transaction, and the chain's anchor, carry the batch's root.
RootsAgree == /\ \A i \in 1..Len(txs) : txs[i].root = batch.root
              /\ ChainAgreesWithBatch
              /\ AnchoredBatchIsOnChain
              /\ batch.state = "none" => batch.root = None

\* The inductive invariant, and the part that PipelineInv does not give.
SerialGoal == RootsAgree /\ \A w \in Workers : ReadOK(proc[w], batch)
SerialInv == PipelineInv /\ SerialGoal

\* The steps of a handler that rely on nothing they read from the batch.
Plain(p) ==
    p.pc \notin {"syncWrite", "retryWindow", "retryWrite", "broadcast", "anchorBatch"}

\* A handler that starts, or goes on after reconcile(), relies on nothing yet.
LEMMA PlainSteps ==
    /\ \A p : Plain(p) => \A row : ReadOK(p, row)
    /\ Plain(Idle)
    /\ \A p \in Proc : Plain(AfterReconcile(p))
    /\ \A p \in Proc, n \in Nexts : Plain(Reconcile(p, n)) /\ Reconcile(p, n) \in Proc
    /\ \A j \in Jobs : OnJob(j) \in Proc /\ Plain(OnJob(j)) /\ Plain(MarkFailed(j))
                         /\ MarkFailed(j) \in Proc
    /\ \A p : Plain(Return(p)) /\ \A q \in Proc : Plain(q) => Plain(WithinPass(p, q))
  <1>1. \A p : Plain(p) => \A row : ReadOK(p, row)
    BY DEF Plain, ReadOK
  <1>2. Plain(Idle) /\ Idle \in Proc
    BY IdleInv DEF Plain, Idle, ProcInv
  <1>3. \A p \in Proc : Plain(AfterReconcile(p))
    BY <1>2 DEF AfterReconcile, Plain, Proc, Nexts
  <1>4. \A p \in Proc, n \in Nexts : Plain(Reconcile(p, n)) /\ Reconcile(p, n) \in Proc
    <2> TAKE p \in Proc, n \in Nexts
    <2>1. Reconcile(p, n) \in Proc
      BY DEF Reconcile, Proc, PCs
    <2>2. Reconcile(p, n).pc = "link"
      BY DEF Reconcile, Proc
    <2>3. QED BY <2>1, <2>2 DEF Plain
  <1>5. \A j \in Jobs : OnJob(j) \in Proc /\ Plain(OnJob(j))
    BY <1>2 DEF OnJob, Plain, Proc, Idle
  <1>6. \A p : \A q \in Proc : Plain(q) => Plain(WithinPass(p, q))
    BY DEF WithinPass, Plain, Proc
  <1>7. \A p : Plain(Return(p))
    <2>1. [Idle EXCEPT !.pc = "sweepNext"] \in Proc /\ Plain([Idle EXCEPT !.pc = "sweepNext"])
      BY <1>2 DEF Proc, PCs, Plain
    <2>2. QED BY <1>2, <1>6, <2>1 DEF Return
  <1>8. QED BY <1>1, <1>2, <1>3, <1>4, <1>5, <1>6, <1>7 DEF MarkFailed, Nexts

\* A step of one handler that leaves the batch and the transactions alone.
LEMMA SerialLocalStep ==
    ASSUME SerialInv, NEW w \in Workers, NEW f, Goto(w, f), ReadOK(f, batch),
           batch' = batch, txs' = txs, anchors' = anchors
    PROVE  SerialGoal'
  <1>1. proc \in [Workers -> Proc]
    BY DEF SerialInv, SerialGoal, PipelineInv, ProcsOK
  <1>2. \A v \in Workers : proc'[v] = IF v = w THEN f ELSE proc[v]
    BY <1>1 DEF Goto
  <1>3. \A v \in Workers : ReadOK(proc'[v], batch')
    BY <1>2 DEF SerialInv, SerialGoal
  <1>4. RootsAgree'
    BY DEF SerialInv, SerialGoal, RootsAgree, ChainAgreesWithBatch, AnchoredBatchIsOnChain
  <1>5. QED BY <1>3, <1>4 DEF SerialGoal

\* A step of one handler that writes the batch: no other handler has read it.
LEMMA SerialBatchStep ==
    ASSUME SerialInv, OneRequest, NEW w \in Workers, ~At(w, "idle"), NEW f, Goto(w, f), Plain(f),
           txs' = txs, anchors' = anchors,
           batch.root # None => batch'.root = batch.root, batch'.state # "none",
           batch'.state = "anchored" =>
             (anchors[Batch] # None /\ anchors[Batch].job = batch'.job)
    PROVE  SerialGoal'
  <1>1. proc \in [Workers -> Proc]
    BY DEF SerialInv, SerialGoal, PipelineInv, ProcsOK
  <1>2. \A v \in Workers : proc'[v] = IF v = w THEN f ELSE proc[v]
    BY <1>1 DEF Goto
  <1>3. \A v \in Workers : Plain(proc'[v])
    BY <1>2 DEF OneRequest, At, Plain
  <1>4. \A v \in Workers : ReadOK(proc'[v], batch')
    BY <1>3, PlainSteps
  <1>5. \A i \in 1..Len(txs) : txs[i].root \in Roots /\ txs[i].root = batch.root
    <2>1. \A i \in 1..Len(txs) : txs[i] \in Tx
      BY ElementOfSeq DEF SerialInv, SerialGoal, PipelineInv, TxsOK
    <2>2. QED BY <2>1 DEF SerialInv, SerialGoal, RootsAgree, Tx
  <1>6. anchors[Batch] # None => anchors[Batch].root \in Roots /\ anchors[Batch].root = batch.root
    BY PipelineAssumption DEF SerialInv, SerialGoal, RootsAgree, ChainAgreesWithBatch, PipelineInv, ChainInv,
       ChainTypeOK, Anchor
  <1>7. RootsAgree'
    BY <1>5, <1>6, NoneAssumption DEF RootsAgree, ChainAgreesWithBatch, AnchoredBatchIsOnChain
  <1>8. QED BY <1>4, <1>7 DEF SerialGoal

\* The handlers' steps that leave the batch alone.
LEMMA SerialReads ==
    ASSUME SerialInv, NEW w \in Workers,
           \/ LinkRead(w) \/ NothingToLink(w) \/ LinkTask(w) \/ SaveRewardWindow(w) \/ SyncRead(w)
           \/ RebuildRead(w) \/ RebuildWrite(w) \/ RetryRead(w) \/ RetryWindow(w)
           \/ SubmitRead(w) \/ SubmitJob(w) \/ BuildChainTxPlan(w) \/ BroadcastWrite(w)
    PROVE  SerialGoal'
  <1> DEFINE p == proc[w]
  <1>1. p \in Proc /\ ProcInv(p, KnownJobs, anchors[Batch]) /\ proc \in [Workers -> Proc]
    BY DEF SerialInv, SerialGoal, PipelineInv, ProcsOK
  <1>2. ReadOK(p, batch)
    BY DEF SerialInv, SerialGoal
  <1>3. batch' = batch /\ txs' = txs /\ anchors' = anchors
    BY DEF LinkRead, NothingToLink, LinkTask, SaveRewardWindow, SyncRead, RebuildRead, RebuildWrite,
       RetryRead, RetryWindow, SubmitRead, SubmitJob, BuildChainTxPlan, BroadcastWrite, chainVars,
       serviceRows
  <1>4. SUFFICES \E f : Goto(w, f) /\ ReadOK(f, batch)
    BY <1>3, SerialLocalStep
  <1>5. CASE LinkRead(w) \/ NothingToLink(w) \/ SaveRewardWindow(w) \/ SyncRead(w)
    <2>1. \A s : /\ Plain([p EXCEPT !.pc = "linkTask", !.tasks = s])
                 /\ Plain([p EXCEPT !.pc = "sync"])
                 /\ Plain([p EXCEPT !.pc = "sync", !.tasks = s])
                 /\ ReadOK([p EXCEPT !.pc = "syncWrite", !.tasks = s, !.seen = batch], batch)
      BY <1>1 DEF Proc, Plain, ReadOK
    <2>2. QED BY <1>1, <1>5, <2>1, PlainSteps
              DEF LinkRead, NothingToLink, SaveRewardWindow, SyncRead
  <1>6. CASE LinkTask(w)
    BY <1>1, <1>2, <1>6 DEF LinkTask, Goto
  <1>7. CASE RebuildRead(w) \/ RebuildWrite(w) \/ BroadcastWrite(w)
    <2>1. Plain([p EXCEPT !.pc = "rebuildWrite", !.tasks = linked])
      BY <1>1 DEF Proc, Plain
    <2>2. QED BY <1>7, <2>1, PlainSteps DEF RebuildRead, RebuildWrite, BroadcastWrite, Done
  <1>8. CASE RetryRead(w)
    <2>1. ReadOK([p EXCEPT !.pc = "retryWindow", !.seen = batch], batch)
      BY <1>1 DEF Proc, ReadOK
    <2>2. QED BY <1>8, <2>1, PlainSteps DEF RetryRead
  <1>9. CASE RetryWindow(w)
    <2> DEFINE root == RootOf(window, p.seen.tasks)
               f == [p EXCEPT !.pc = "retryWrite", !.root = root]
    <2>1. p.seen = batch /\ p.pc = "retryWindow"
      BY <1>2, <1>9 DEF RetryWindow, At, ReadOK
    <2>2. Plain(AfterRetry(w))
      <3> DEFINE q == [p EXCEPT !.seen = None, !.root = None]
      <3>1. q \in Proc
        BY <1>1 DEF Proc
      <3>2. Plain(Reconcile(q, "submitRead"))
        BY <3>1, PlainSteps DEF Nexts
      <3>3. QED BY <3>2, PlainSteps DEF AfterRetry
    <2>3. f.pc = "retryWrite" /\ f.seen = batch /\ f.root = root
      BY <1>1, <2>1 DEF Proc
    <2>4. batch.root \in {None, root} => ReadOK(f, batch)
      BY <2>3 DEF ReadOK
    <2>5. \/ Goto(w, Idle) \/ Goto(w, AfterRetry(w))
          \/ Goto(w, f) /\ batch.root \in {None, root}
      <3> DEFINE prepared == p.seen.root # None
                 settled == p.seen.state \in {"anchor_ready", "anchor_submitted", "anchored"}
      <3>1. Goto(w, CASE prepared /\ p.seen.root # root -> Idle
                      [] prepared /\ p.seen.root = root /\ settled -> AfterRetry(w)
                      [] OTHER -> f)
        BY <1>9 DEF RetryWindow
      <3> HIDE DEF f, root, settled
      <3>2. CASE prepared /\ p.seen.root # root
        BY <3>1, <3>2
      <3>3. CASE prepared /\ p.seen.root = root /\ settled
        BY <3>1, <3>3
      <3>4. CASE prepared /\ p.seen.root = root /\ ~settled
        BY <2>1, <3>1, <3>4
      <3>5. CASE ~prepared
        BY <2>1, <3>1, <3>5
      <3>6. QED BY <3>2, <3>3, <3>4, <3>5
    <2>6. QED BY <2>2, <2>4, <2>5, PlainSteps
  <1>10. CASE SubmitRead(w) \/ SubmitJob(w)
    <2>1. /\ \A j : Plain([p EXCEPT !.pc = "submitJob", !.job = j])
          /\ Plain([p EXCEPT !.pc = "submitBatch"])
      BY <1>1 DEF Proc, Plain
    <2>2. QED BY <1>10, <2>1, PlainSteps DEF SubmitRead, SubmitJob, Done
  <1>11. CASE BuildChainTxPlan(w)
    <2>1. ReadOK([p EXCEPT !.pc = "broadcast", !.root = batch.root], batch)
      BY <1>1 DEF Proc, ReadOK
    <2>2. QED BY <1>11, <2>1, PlainSteps DEF BuildChainTxPlan
  <1>12. QED BY <1>5, <1>6, <1>7, <1>8, <1>9, <1>10, <1>11

\* The same for the steps of a confirmation and what follows it.
LEMMA SerialConfirms ==
    ASSUME SerialInv, NEW w \in Workers,
           \/ ConfirmRead(w) \/ ConfirmBatchRead(w) \/ QueryAnswered(w) \/ QueryError(w)
           \/ ConfirmWrite(w) \/ AnchorJob(w) \/ AnchorCheck(w) \/ PayBudgetLedgers(w)
           \/ FailJob(w) \/ FailCheck(w) \/ RebroadcastRead(w) \/ SweepList(w) \/ SweepNext(w)
    PROVE  SerialGoal'
  <1> DEFINE p == proc[w]
  <1>1. p \in Proc /\ ProcInv(p, KnownJobs, anchors[Batch])
    BY DEF SerialInv, SerialGoal, PipelineInv, ProcsOK
  <1>2. batch' = batch /\ txs' = txs /\ anchors' = anchors
    BY DEF ConfirmRead, ConfirmBatchRead, QueryAnswered, QueryError, ConfirmWrite, AnchorJob,
       AnchorCheck, PayBudgetLedgers, FailJob, FailCheck, RebroadcastRead, SweepList, SweepNext,
       chainVars, serviceRows
  <1>3. SUFFICES \E f : Goto(w, f) /\ ReadOK(f, batch)
    BY <1>2, SerialLocalStep
  <1>4. CASE ConfirmRead(w) \/ ConfirmBatchRead(w) \/ QueryAnswered(w) \/ QueryError(w)
    <2>1. \A x : /\ Plain([p EXCEPT !.pc = "confirmBatch", !.tx = x])
                 /\ Plain([p EXCEPT !.pc = "confirmQuery", !.root = x])
                 /\ Plain([p EXCEPT !.pc = "confirmWrite", !.status = x])
      BY <1>1 DEF Proc, Plain
    <2>2. QED BY <1>4, <2>1, PlainSteps
              DEF ConfirmRead, ConfirmBatchRead, QueryAnswered, QueryError, Done
  <1>5. CASE ConfirmWrite(w)
    <2>1. p.job \in Jobs
      BY <1>1, <1>5 DEF ConfirmWrite, At, ProcInv, HasJob, JobPCs, KnownJobs
    <2>2. /\ Plain(WithinPass(p, Reconcile(OnJob(p.job), "anchorJob")))
          /\ Plain(WithinPass(p, MarkFailed(p.job)))
      BY <2>1, PlainSteps DEF Nexts
    <2>3. QED BY <1>5, <2>2, PlainSteps DEF ConfirmWrite
  <1>6. CASE AnchorJob(w) \/ PayBudgetLedgers(w) \/ FailJob(w) \/ FailCheck(w)
    <2>1. /\ Plain([p EXCEPT !.pc = "anchorCheck"])
          /\ Plain([p EXCEPT !.pc = "failCheck"])
          /\ Plain([p EXCEPT !.pc = "failBatch"])
      BY <1>1 DEF Proc, Plain
    <2>2. QED BY <1>6, <2>1, PlainSteps DEF AnchorJob, PayBudgetLedgers, FailJob, FailCheck, Done
  <1>7. CASE AnchorCheck(w)
    <2>1. batch.job = p.job => ReadOK([p EXCEPT !.pc = "anchorBatch"], batch)
      BY <1>1 DEF Proc, ReadOK
    <2>2. QED BY <1>7, <2>1, PlainSteps DEF AnchorCheck
  <1>8. CASE RebroadcastRead(w)
    <2>1. [p EXCEPT !.job = None] \in Proc
      BY <1>1 DEF Proc
    <2>2. Plain(Reconcile([p EXCEPT !.job = None], "retryRead"))
      BY <2>1, PlainSteps DEF Nexts
    <2>3. QED BY <1>8, <2>2, PlainSteps DEF RebroadcastRead
  <1>9. CASE SweepList(w)
    BY <1>9, PlainSteps DEF SweepList
  <1>10. CASE SweepNext(w)
    <2>1. \A j \in Jobs : \A s : Plain([Reconcile(OnJob(j), "confirmRead") EXCEPT !.todo = s])
      <3>1. \A q \in Proc : \A s : Plain(q) => Plain([q EXCEPT !.todo = s])
        BY DEF Proc, Plain
      <3>2. QED BY <3>1, PlainSteps DEF Nexts
    <2>2. p.todo \subseteq Jobs
      BY <1>1 DEF Proc
    <2>3. QED BY <1>10, <2>1, <2>2, PlainSteps DEF SweepNext
  <1>11. QED BY <1>4, <1>5, <1>6, <1>7, <1>8, <1>9, <1>10

\* The steps that write the batch.
LEMMA SerialWrites ==
    ASSUME SerialInv, OneRequest, NEW w \in Workers,
           \/ SyncOpenSettlementBatch(w) \/ RetryWrite(w) \/ SubmitBatch(w)
           \/ AnchorBatch(w) \/ FailBatch(w)
    PROVE  SerialGoal' /\ (batch.root # None => batch'.root = batch.root)
  <1> DEFINE p == proc[w]
  <1>1. p \in Proc /\ ProcInv(p, KnownJobs, anchors[Batch]) /\ batch \in BatchRow
    BY DEF SerialInv, SerialGoal, PipelineInv, ProcsOK, RowsOK
  <1>2. ReadOK(p, batch)
    BY DEF SerialInv, SerialGoal
  <1>3. ~At(w, "idle") /\ txs' = txs /\ anchors' = anchors
    BY DEF SyncOpenSettlementBatch, RetryWrite, SubmitBatch, AnchorBatch, FailBatch, At, chainVars
  <1>4. SUFFICES /\ \E f : Goto(w, f) /\ Plain(f)
                 /\ batch.root # None => batch'.root = batch.root
                 /\ batch'.state # "none"
                 /\ batch'.state = "anchored" =>
                      (anchors[Batch] # None /\ anchors[Batch].job = batch'.job)
    BY <1>3, SerialBatchStep
  <1>5. CASE SyncOpenSettlementBatch(w)
    <2>1. p.seen = batch /\ (batch.state = "none" => batch.root = None)
      BY <1>2, <1>5 DEF SyncOpenSettlementBatch, At, ReadOK, SerialInv, SerialGoal, RootsAgree
    <2>2. batch'.root = batch.root /\ batch'.state = "open"
      BY <1>1, <1>5, <2>1 DEF SyncOpenSettlementBatch, BatchRow
    <2>3. [p EXCEPT !.tasks = {}, !.seen = None] \in Proc
      BY <1>1 DEF Proc
    <2>4. QED BY <1>5, <2>2, <2>3, PlainSteps DEF SyncOpenSettlementBatch
  <1>6. CASE RetryWrite(w)
    <2>1. batch'.root = p.root /\ batch'.state = "anchor_ready"
      BY <1>1, <1>6 DEF RetryWrite, BatchRow
    <2>2. batch.root \in {None, p.root}
      BY <1>2, <1>6 DEF RetryWrite, At, ReadOK
    <2>3. [p EXCEPT !.seen = None, !.root = None] \in Proc
      BY <1>1 DEF Proc
    <2>4. Plain(AfterRetry(w))
      BY <2>3, PlainSteps DEF AfterRetry, Nexts
    <2>5. QED BY <1>6, <2>1, <2>2, <2>4 DEF RetryWrite
  <1>7. CASE SubmitBatch(w)
    <2>1. batch'.root = batch.root /\ batch'.state = "anchor_submitted"
      BY <1>1, <1>7 DEF SubmitBatch, BatchRow
    <2>2. Plain([p EXCEPT !.pc = "plan"])
      BY <1>1 DEF Proc, Plain
    <2>3. QED BY <1>7, <2>1, <2>2, PlainSteps DEF SubmitBatch
  <1>8. CASE AnchorBatch(w)
    <2>1. batch'.root = batch.root /\ batch'.job = batch.job /\ batch'.state = "anchored"
      BY <1>1, <1>8 DEF AnchorBatch, BatchRow
    <2>2. p.job = batch.job /\ anchors[Batch] # None /\ anchors[Batch].job = p.job
      BY <1>1, <1>2, <1>8 DEF AnchorBatch, At, ReadOK, ProcInv, Confirmed
    <2>3. Plain([p EXCEPT !.pc = "pay"])
      BY <1>1 DEF Proc, Plain
    <2>4. QED BY <1>8, <2>1, <2>2, <2>3 DEF AnchorBatch
  <1>9. CASE FailBatch(w)
    <2>1. batch'.root = batch.root /\ batch'.state = "anchor_failed"
      BY <1>1, <1>9 DEF FailBatch, BatchRow
    <2>2. QED BY <1>9, <2>1, PlainSteps DEF FailBatch
  <1>10. QED BY <1>5, <1>6, <1>7, <1>8, <1>9

\* A broadcast sends the root of the batch.
LEMMA SerialBroadcasts ==
    ASSUME SerialInv, NEW w \in Workers, BroadcastAnswered(w) \/ BroadcastError(w)
    PROVE  SerialGoal' /\ batch' = batch
  <1> DEFINE p == proc[w]
             t == [kind |-> p.kind, job |-> p.job, root |-> p.root, status |-> "mempool"]
  <1>1. p \in Proc /\ ProcInv(p, KnownJobs, anchors[Batch]) /\ proc \in [Workers -> Proc]
    BY DEF SerialInv, SerialGoal, PipelineInv, ProcsOK
  <1>2. p.root = batch.root /\ p.job \in Jobs
    BY <1>1 DEF SerialInv, SerialGoal, ReadOK, BroadcastAnswered, BroadcastError, At, ProcInv, HasJob, JobPCs,
       KnownJobs
  <1>3. batch' = batch /\ anchors' = anchors
    BY DEF BroadcastAnswered, BroadcastError, chainVars, serviceRows
  <1>4. \E f : Goto(w, f) /\ Plain(f)
    <2>1. Plain([p EXCEPT !.pc = "broadcastWrite", !.tx = Len(txs) + 1])
      BY <1>1 DEF Proc, Plain
    <2>2. Plain(MarkFailed(p.job))
      BY <1>2, PlainSteps
    <2>3. QED BY <2>1, <2>2 DEF BroadcastAnswered, BroadcastError
  <1>5. \A v \in Workers : ReadOK(proc'[v], batch')
    <2>1. PICK f : Goto(w, f) /\ Plain(f)
      BY <1>4
    <2>2. \A v \in Workers : proc'[v] = IF v = w THEN f ELSE proc[v]
      BY <1>1, <2>1 DEF Goto
    <2>3. QED BY <1>3, <2>1, <2>2, PlainSteps DEF SerialInv, SerialGoal
  <1>6. \A i \in 1..Len(txs') : txs'[i].root = batch.root
    <2>1. txs' = txs \/ txs' = Append(txs, t)
      BY DEF BroadcastAnswered, BroadcastError, Enqueue
    <2>2. txs \in Seq(Tx) /\ \A i \in 1..Len(txs) : txs[i].root = batch.root
      BY DEF SerialInv, SerialGoal, PipelineInv, TxsOK, RootsAgree
    <2>3. CASE txs' = txs
      BY <2>2, <2>3
    <2>4. CASE txs' = Append(txs, t)
      <3>1. t.root = batch.root
        BY <1>2
      <3> HIDE DEF t
      <3>2. Len(txs') = Len(txs) + 1 /\ Len(txs) \in Nat /\ txs'[Len(txs) + 1] = t
            /\ \A i \in 1..Len(txs) : txs'[i] = txs[i]
        BY <2>2, <2>4
      <3>3. QED BY <2>2, <3>1, <3>2
    <2>5. QED BY <2>1, <2>3, <2>4
  <1>7. RootsAgree'
    BY <1>3, <1>6 DEF SerialInv, SerialGoal, RootsAgree, ChainAgreesWithBatch, AnchoredBatchIsOnChain
  <1>8. QED BY <1>3, <1>5, <1>7 DEF SerialGoal

\* The node runs or drops a transaction: what it stores is the batch's root.
LEMMA SerialOutside ==
    ASSUME SerialInv, DeliverTx \/ DropTx
    PROVE  SerialGoal' /\ batch' = batch
  <1>1. batch' = batch /\ proc' = proc
    BY DEF DeliverTx, DropTx, serviceRows
  <1>2. txs \in Seq(Tx) /\ (\A i \in 1..Len(txs) : txs[i] \in Tx /\ txs[i].root = batch.root)
        /\ anchors \in [Batches -> Anchor \cup {None}] /\ Batch \in Batches
    BY ElementOfSeq, PipelineAssumption
       DEF SerialInv, SerialGoal, PipelineInv, TxsOK, RootsAgree, ChainInv, ChainTypeOK
  <1>3. ASSUME NEW i \in 1..Len(txs), NEW s, txs' = [txs EXCEPT ![i].status = s]
        PROVE  \A k \in 1..Len(txs') : txs'[k].root = batch.root
    <2> DEFINE t == [txs[i] EXCEPT !.status = s]
    <2>1. txs' = [txs EXCEPT ![i] = t] /\ t.root = batch.root
      BY <1>2, <1>3 DEF Tx
    <2> HIDE DEF t
    <2>2. Len(txs') = Len(txs) /\ \A k \in 1..Len(txs) : txs'[k] = IF k = i THEN t ELSE txs[k]
      BY <1>2, <2>1
    <2>3. QED BY <1>2, <2>1, <2>2
  <1>4. CASE DropTx
    <2>1. \A k \in 1..Len(txs') : txs'[k].root = batch.root
      BY <1>3, <1>4 DEF DropTx, InMempool
    <2>2. anchors' = anchors
      BY <1>4 DEF DropTx, chainVars
    <2>3. RootsAgree'
      BY <1>1, <2>1, <2>2 DEF SerialInv, SerialGoal, RootsAgree, ChainAgreesWithBatch, AnchoredBatchIsOnChain
    <2>4. QED BY <1>1, <2>3 DEF SerialInv, SerialGoal
  <1>5. CASE DeliverTx
    <2>1. PICK i \in InMempool : DeliverTx!(i)
      BY <1>5 DEF DeliverTx
    <2> DEFINE m == [batch |-> Batch, job |-> txs[i].job,
                     submitter |-> Submitter, root |-> txs[i].root]
    <2>2. i \in 1..Len(txs)
      BY DEF InMempool
    <2>3. \E s : txs' = [txs EXCEPT ![i].status = s]
      BY <2>1
    <2>4. \A k \in 1..Len(txs') : txs'[k].root = batch.root
      BY <1>3, <2>2, <2>3
    <2>5. anchors'[Batch] = anchors[Batch] \/ (anchors[Batch] = None /\ anchors'[Batch] = m)
      <3>1. CASE txs[i].kind = "typed"
        <4>1. AnchorSettlementBatch(m) /\ m.batch = Batch
          BY <2>1, <3>1
        <4> HIDE DEF m
        <4>2. QED BY <1>2, <4>1 DEF AnchorSettlementBatch, NewSettlementAnchor
      <3>2. CASE txs[i].kind # "typed"
        BY <2>1, <3>2 DEF chainVars
      <3>3. QED BY <3>1, <3>2
    <2>6. m.root = batch.root
      BY <1>2, <2>2
    <2> HIDE DEF m
    <2>7. RootsAgree'
      BY <1>1, <2>4, <2>5, <2>6
         DEF SerialInv, SerialGoal, RootsAgree, ChainAgreesWithBatch, AnchoredBatchIsOnChain
    <2>8. QED BY <1>1, <2>7 DEF SerialInv, SerialGoal
  <1>6. QED BY <1>4, <1>5

\* A request starts a handler that has read nothing.
LEMMA SerialRequests ==
    ASSUME SerialInv, NEW w \in Workers, Request(w)
    PROVE  SerialGoal' /\ batch' = batch
  <1>1. batch' = batch /\ txs' = txs /\ anchors' = anchors
    BY DEF Request, StartReconcile, StartRebuild, StartRetryAnchor, StartSubmit, StartMarkFailed,
       StartConfirm, StartBroadcast, StartRebroadcast, StartSweep, Start, chainVars, serviceRows
  <1>2. ASSUME NEW j \in KnownJobs, NEW k \in {"typed", "fallback"}
        PROVE  /\ Plain([OnJob(j) EXCEPT !.kind = k, !.pc = "plan"])
               /\ Plain(Reconcile([OnJob(j) EXCEPT !.kind = k, !.op = "rebroadcast"],
                                  "rebroadcastRead"))
               /\ Plain(Reconcile(OnJob(j), "confirmRead")) /\ Plain(MarkFailed(j))
    <2>1. j \in Jobs
      BY DEF KnownJobs
    <2>2. OnJob(j) \in Proc
      BY <2>1, PlainSteps
    <2>3. /\ Plain([OnJob(j) EXCEPT !.kind = k, !.pc = "plan"])
          /\ [OnJob(j) EXCEPT !.kind = k, !.op = "rebroadcast"] \in Proc
      BY <2>2 DEF Plain, Proc, Ops
    <2>4. QED BY <2>1, <2>2, <2>3, PlainSteps DEF Nexts
  <1>3. \A n \in Nexts : Plain(Reconcile(Idle, n))
    BY IdleInv, PlainSteps DEF ProcInv
  <1>4. \E f : Goto(w, f) /\ Plain(f)
    BY <1>2, <1>3 DEF Request, StartReconcile, StartRebuild, StartRetryAnchor, StartSubmit,
       StartMarkFailed, StartConfirm, StartBroadcast, StartRebroadcast, StartSweep, Start, Nexts
  <1>5. QED BY <1>1, <1>4, PlainSteps, SerialLocalStep

\* Every step keeps the invariant, and no step replaces the batch's root.
LEMMA SerialStep ==
    SerialInv /\ OneRequest /\ [Next]_vars
        => SerialInv' /\ (batch.root # None => batch'.root = batch.root)
  <1> SUFFICES ASSUME SerialInv, OneRequest, [Next]_vars
               PROVE  SerialInv' /\ (batch.root # None => batch'.root = batch.root)
    OBVIOUS
  <1>0. PipelineInv'
    BY NextInv DEF SerialInv, SerialGoal
  <1> SUFFICES SerialGoal' /\ (batch.root # None => batch'.root = batch.root)
    BY <1>0 DEF SerialInv, SerialGoal
  <1>1. ASSUME NEW w \in Workers, Step(w)
        PROVE  SerialGoal' /\ (batch.root # None => batch'.root = batch.root)
    <2>1. CASE \/ LinkRead(w) \/ NothingToLink(w) \/ LinkTask(w) \/ SaveRewardWindow(w)
               \/ SyncRead(w) \/ RebuildRead(w) \/ RebuildWrite(w) \/ RetryRead(w)
               \/ RetryWindow(w) \/ SubmitRead(w) \/ SubmitJob(w) \/ BuildChainTxPlan(w)
               \/ BroadcastWrite(w)
      <3>1. batch' = batch
        BY <2>1 DEF LinkRead, NothingToLink, LinkTask, SaveRewardWindow, SyncRead, RebuildRead,
           RebuildWrite, RetryRead, RetryWindow, SubmitRead, SubmitJob, BuildChainTxPlan,
           BroadcastWrite, serviceRows
      <3>2. QED BY <2>1, <3>1, SerialReads
    <2>2. CASE \/ ConfirmRead(w) \/ ConfirmBatchRead(w) \/ QueryAnswered(w) \/ QueryError(w)
               \/ ConfirmWrite(w) \/ AnchorJob(w) \/ AnchorCheck(w) \/ PayBudgetLedgers(w)
               \/ FailJob(w) \/ FailCheck(w) \/ RebroadcastRead(w) \/ SweepList(w)
               \/ SweepNext(w)
      <3>1. batch' = batch
        BY <2>2 DEF ConfirmRead, ConfirmBatchRead, QueryAnswered, QueryError, ConfirmWrite,
           AnchorJob, AnchorCheck, PayBudgetLedgers, FailJob, FailCheck, RebroadcastRead,
           SweepList, SweepNext, serviceRows
      <3>2. QED BY <2>2, <3>1, SerialConfirms
    <2>3. CASE \/ SyncOpenSettlementBatch(w) \/ RetryWrite(w) \/ SubmitBatch(w)
               \/ AnchorBatch(w) \/ FailBatch(w)
      BY <2>3, SerialWrites
    <2>4. CASE BroadcastAnswered(w) \/ BroadcastError(w)
      BY <2>4, SerialBroadcasts
    <2>5. QED BY <1>1, <2>1, <2>2, <2>3, <2>4 DEF Step
  <1>2. CASE Crash
    <2>1. /\ batch' = batch /\ txs' = txs /\ anchors' = anchors
          /\ \A w \in Workers : proc'[w] = Idle
      BY <1>2 DEF Crash, chainVars, serviceRows
    <2>2. QED BY <2>1, PlainSteps DEF SerialInv, SerialGoal, RootsAgree, ChainAgreesWithBatch,
                 AnchoredBatchIsOnChain
  <1>3. CASE UNCHANGED vars
    BY <1>3 DEF vars, chainVars, SerialInv, SerialGoal, RootsAgree, ChainAgreesWithBatch,
       AnchoredBatchIsOnChain
  <1>4. QED BY <1>1, <1>2, <1>3, SerialRequests, SerialOutside DEF Next

\* The invariant holds of an empty service,
LEMMA SerialInit == Init => SerialInv
  <1> SUFFICES ASSUME Init PROVE SerialInv
    OBVIOUS
  <1>1. RootsAgree
    BY PipelineAssumption DEF Init, ChainInit, RootsAgree, ChainAgreesWithBatch,
       AnchoredBatchIsOnChain
  <1>2. \A w \in Workers : ReadOK(proc[w], batch)
    BY PlainSteps DEF Init
  <1>3. QED BY <1>1, <1>2, InitInv DEF SerialInv, SerialGoal

\* and always, while handlers run one at a time.
LEMMA SerialInvariant == Spec /\ []OneRequest => []SerialInv
  BY SerialInit, SerialStep, PTL DEF Spec

\* Handlers one at a time, crashes and lost transactions included: the canonical root
\* of a batch is never replaced (the conflict check of retry_anchor_settlement_batch).
THEOREM RootIsWrittenOnce == Spec /\ []OneRequest => RootNeverMutates
  BY SerialInvariant, SerialStep, PTL DEF Spec, RootNeverMutates

\* Handlers one at a time: the anchor on the chain has the root of the batch row,
\* whichever job and whichever broadcast brought it there.
THEOREM ChainAndBatchAgree == Spec /\ []OneRequest => []ChainAgreesWithBatch
  <1>1. SerialInv => ChainAgreesWithBatch
    BY DEF SerialInv, SerialGoal, RootsAgree
  <1>2. QED BY <1>1, SerialInvariant, PTL

\* Handlers one at a time: a batch that mark_anchor_job_anchored marked anchored is
\* stored on the chain under the job and the root of its row.
THEOREM AnchoredBatchIsConfirmed == Spec /\ []OneRequest => []AnchoredBatchIsOnChain
  <1>1. SerialInv => AnchoredBatchIsOnChain
    BY DEF SerialInv, SerialGoal, RootsAgree
  <1>2. QED BY <1>1, SerialInvariant, PTL
=============================================================================

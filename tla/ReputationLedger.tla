-------------------------- MODULE ReputationLedger --------------------------
(***************************************************************************)
(* The x/reputation module beside x/settlement: the miners' scores, the    *)
(* controllers that may change them, and the receipts of the window-level  *)
(* deltas applied so far.  A delta names the settlement batch it comes     *)
(* from, and the keeper asks x/settlement whether that batch is anchored.  *)
(*                                                                         *)
(* A delta's id, miner, batch, amount and cap are kept; its other fields   *)
(* only enter the payload hash, which is here the delta itself.  Levels,   *)
(* events and streaks are left out: no decision reads them.                *)
(***************************************************************************)
EXTENDS SettlementChain, Integers

CONSTANTS Miners, Controllers, DeltaIds,
          Amounts,       \* the amounts a controller may send
          Caps,          \* the caps a controller may put into its delta
          MaxScore, InitialScore,
          HalfWord       \* 2^31: scores and deltas are int32

Delta == [id : DeltaIds, miner : Miners, batch : Batches, amount : Amounts, cap : Caps]
Receipt == [delta : Delta, controller : Controllers, old : 0..MaxScore, new : 0..MaxScore]

\* Amounts and caps are any int32: the cap is the sender's own and Validate does
\* not bound it from above.
ASSUME ReputationAssumption ==
    /\ {MaxScore, HalfWord} \subseteq Nat
    /\ MaxScore < HalfWord
    /\ InitialScore \in 0..MaxScore
    /\ Amounts \cup Caps \subseteq -HalfWord..(HalfWord - 1)
    /\ None \notin Receipt
    /\ None \notin Int

VARIABLES
    score,        \* miner -> score, None where no key is set
    controllers,  \* the authorized delta controllers
    receipts,     \* delta id -> receipt, None where no key is set
    updates       \* history: how often each delta id has changed a score

repVars == <<score, controllers, receipts, updates>>
ledgerVars == <<chainVars, repVars>>

------------------------------------------------------------------------------

IsAuthorizedDeltaController(c) == c \in controllers

HasSettlementAnchor(b) == anchors[b] # None

Validate(d) ==
    /\ d.amount # 0 /\ d.cap > 0
    /\ -d.cap <= d.amount /\ d.amount <= d.cap

\* int32 addition.
Wrap(x) == ((x + HalfWord) % (2 * HalfWord)) - HalfWord

Clamp(x) == IF x > MaxScore THEN MaxScore ELSE IF x < 0 THEN 0 ELSE x

\* A miner without a score starts with the initial one (InitMiner).
GetScore(m) == IF score[m] = None THEN InitialScore ELSE score[m]

\* Mutant: the delta is added before a new miner has its initial score.
UpdateUninitialised(m, amount) ==
    Clamp(Wrap((IF score[m] = None THEN 0 ELSE score[m]) + amount))

UpdateScore(m, amount) == Clamp(Wrap(GetScore(m) + amount))

\* Mutant: the batch may still be unanchored.
AppliesUnanchored(c, d) ==
    /\ IsAuthorizedDeltaController(c)
    /\ Validate(d)
    /\ receipts[d.id] = None

\* Without an error, and with an effect: the delta is new.  A known id is
\* answered with its receipt or with a conflict, and changes nothing.
Applies(c, d) ==
    /\ IsAuthorizedDeltaController(c)
    /\ Validate(d)
    /\ HasSettlementAnchor(d.batch)
    /\ receipts[d.id] = None

ApplyReputationDelta(c, d) ==
    /\ IF Applies(c, d)
         THEN /\ score' = [score EXCEPT ![d.miner] = UpdateScore(d.miner, d.amount)]
              /\ receipts' = [receipts EXCEPT ![d.id] =
                    [delta |-> d, controller |-> c,
                     old |-> GetScore(d.miner),
                     new |-> UpdateScore(d.miner, d.amount)]]
              /\ updates' = [updates EXCEPT ![d.id] = @ + 1]
         ELSE UNCHANGED <<score, receipts, updates>>
    /\ UNCHANGED <<controllers, chainVars>>

Known(f) == {x \in DOMAIN f : f[x] # None}

\* Mutant: the receipts are not part of the exported state.
ReputationGenesisNoReceipts ==
    [scores |-> {[miner |-> m, score |-> score[m]] : m \in Known(score)},
     controllers |-> controllers,
     receipts |-> {}]

\* ExportGenesis lists scores, controllers and receipts.
ReputationGenesis ==
    [scores |-> {[miner |-> m, score |-> score[m]] : m \in Known(score)},
     controllers |-> controllers,
     receipts |-> {receipts[i] : i \in Known(receipts)}]

\* InitGenesis files each listed score and receipt under its own key.
InitReputationGenesis(gs) ==
    /\ score' = [m \in Miners |->
                   IF \E s \in gs.scores : s.miner = m
                     THEN (CHOOSE s \in gs.scores : s.miner = m).score ELSE None]
    /\ receipts' = [i \in DeltaIds |->
                      IF \E r \in gs.receipts : r.delta.id = i
                        THEN CHOOSE r \in gs.receipts : r.delta.id = i ELSE None]
    /\ controllers' = gs.controllers

RestartLedger ==
    /\ RestartFromGenesis
    /\ InitReputationGenesis(ReputationGenesis)
    /\ UNCHANGED updates

LedgerInit ==
    /\ ChainInit
    /\ score = [m \in Miners |-> None]
    /\ controllers \in SUBSET Controllers
    /\ receipts = [i \in DeltaIds |-> None]
    /\ updates = [i \in DeltaIds |-> 0]

LedgerNext ==
    \/ \E m \in Msg : AnchorSettlementBatch(m) /\ UNCHANGED repVars
    \/ \E c \in Controllers, d \in Delta : ApplyReputationDelta(c, d)
    \/ RestartLedger

LedgerSpec == LedgerInit /\ [][LedgerNext]_ledgerVars

------------------------------------------------------------------------------
(* Properties *)

\* Scores stay in their range, whatever the amounts (the clamp in UpdateScore).
LedgerTypeOK ==
    /\ score \in [Miners -> 0..MaxScore \cup {None}]
    /\ controllers \subseteq Controllers
    /\ receipts \in [DeltaIds -> Receipt \cup {None}]
    /\ updates \in [DeltaIds -> Nat]

\* A delta id changes a score at most once, through retries, conflicting
\* payloads and restarts from genesis, and exactly if its receipt is stored
\* (the lookup in ApplyReputationDelta).
AppliedOnce ==
    \A i \in DeltaIds : updates[i] = IF receipts[i] = None THEN 0 ELSE 1

\* A receipt is filed under its delta's id, and the settlement batch it names
\* is anchored, now and after every restart (settlementAnchorReader).
ReceiptsAreAnchored ==
    \A i \in DeltaIds :
        receipts[i] # None =>
            receipts[i].delta.id = i /\ HasSettlementAnchor(receipts[i].delta.batch)

\* A penalty never raises a score, and a reward never lowers one unless it
\* overflows: UpdateScore clamps the int32 sum after the addition, so a reward
\* that takes the sum past 2^31 - 1 leaves the miner with a score of zero.
DeltaKeepsDirection ==
    \A i \in DeltaIds :
        receipts[i] # None =>
            LET old == receipts[i].old
                new == receipts[i].new
                amount == receipts[i].delta.amount
            IN  /\ amount < 0 => new <= old
                /\ amount > 0 => IF old + amount < HalfWord THEN new >= old ELSE new = 0
==============================================================================

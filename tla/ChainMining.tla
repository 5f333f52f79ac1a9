---------------------------- MODULE ChainMining ----------------------------
(***************************************************************************)
(* Mining on one chain node: the REST handlers of x/challenge, which write *)
(* the node's committed store directly from their HTTP goroutines, and the *)
(* blocks, which generate challenges at the start of an epoch and pay the  *)
(* pending rewards at their end.  A block runs on a cached copy of the     *)
(* store: what it wrote reaches the store afterwards, over whatever a      *)
(* handler has written in between, and the height moves when it commits.   *)
(*                                                                         *)
(* An answer stands for its normalised form, a commit hash for the answer  *)
(* it binds.  Public challenges have no assignees.  The message servers of *)
(* x/challenge and x/poa are registered nowhere (RegisterMsgServer is a    *)
(* placeholder), so that these handlers are the only way in.               *)
(***************************************************************************)
EXTENDS Integers, FiniteSets, FiniteSetsExt, Functions, Sequences

CONSTANTS
    Miners, Answers,
    Opinion,            \* bound: the answers each miner may send
    Committers,         \* bound: the miners that also use commit and reveal
    MaxRequests,        \* bound: on the number of requests
    Handlers,           \* HTTP goroutines
    Joined,             \* the miners registered before the run, in their order
    Endowment,          \* the bank balance each miner starts with
    Dev,                \* CLAWCHAIN_DEV = "1"
    MinStake,           \* minStakeUclaw
    RewardPool,         \* what InitGenesis mints for the module account
    InitialMinerPool,   \* GetBlockReward: the reward of an epoch before halving
    HalvingEpochs, EpochBlocks,
    EarlyBirdLimits,    \* the last registration index of the 3x, 2x, 1.5x tiers
    ColdStart,          \* challenges until the full reward
    Window,             \* blocks until a challenge expires
    MaxHeight,          \* bound: the height stays here
    None

ASSUME MiningAssumption ==
    /\ IsFiniteSet(Miners)
    /\ Joined \in Seq(Miners)
    /\ Endowment \in [Miners -> Nat]
    /\ Opinion \in [Miners -> SUBSET Answers]
    /\ Committers \subseteq Miners
    /\ Dev \in BOOLEAN
    /\ {MinStake, RewardPool, ColdStart, Window, MaxHeight, MaxRequests}
           \subseteq Nat
    /\ {InitialMinerPool, HalvingEpochs, EpochBlocks} \subseteq Nat \ {0}
    /\ EarlyBirdLimits \in [1..3 -> Nat]
    /\ None \notin Miners \cup Answers

VARIABLES
    height,     \* LatestVersion of the store
    miner,      \* "miner:" rows, None where not registered
    regCount,   \* "global:miner_count"
    challenge,  \* "challenge:" rows by epoch
    pending,    \* "pending_reward:" records
    pool,       \* bank balance of the module account
    balance,    \* bank balances of the miners
    block,      \* what the running block writes, None between blocks
    proc,       \* the handlers' local variables
    requests,   \* the number of requests so far
    submitted   \* history: <<epoch, miner, answer>> of every answer taken in

store == <<miner, regCount, challenge, pending>>
vars == <<height, store, pool, balance, block, proc, requests, submitted>>

Epochs == 0 .. MaxHeight \div EpochBlocks

Idle == [pc |-> "idle", epoch |-> None, row |-> None, miner |-> None, mrow |-> None,
         height |-> 0, winners |-> {}, losers |-> {}]

Nobody == [m \in Miners |-> None]
NewChallenge(h, n) ==
    [status |-> "pending", created |-> h, siblings |-> n,
     commits |-> Nobody, reveals |-> Nobody]
Written == [number |-> 0, paid |-> {}, rows |-> Nobody]
NewMiner(i) == [completed |-> 0, rewards |-> 0, index |-> i]

\* challenges_completed only matters below ColdStart and is counted up to there.
Completed(row, n) == [row EXCEPT !.completed = Min({@ + n, ColdStart})]

-----------------------------------------------------------------------------
(* Rewards *)

GetBlockReward(h) ==
    LET halved[k \in Nat] ==
            IF k = 0 THEN InitialMinerPool ELSE Max({1, halved[k - 1] \div 2})
    IN  halved[(h \div EpochBlocks) \div HalvingEpochs]

EarlyBird(index) ==
    IF index > 0 /\ index <= EarlyBirdLimits[1] THEN 300
    ELSE IF index <= EarlyBirdLimits[2] THEN 200
    ELSE IF index <= EarlyBirdLimits[3] THEN 150 ELSE 100

\* The streak multiplier is 100: no handler ever writes consecutive_days.
applyBonusMultipliers(row, base) ==
    LET full == (base * EarlyBird(row.index) * 100) \div 10000
    IN  Max({1, IF row.completed < ColdStart THEN full \div 2 ELSE full})

\* GeneratePublicChallenge makes this many challenges; the model keeps one of an
\* epoch's, and with it the number of them all (getEpochChallengeCount).
CalcNumChallenges(active) == Min({10, Max({1, active \div 3})})

RewardPerMiner(h, row, n) ==
    LET perChallengePool == Max({1, GetBlockReward(h) \div row.siblings})
    IN  Max({1, perChallengePool \div n})

-----------------------------------------------------------------------------
(* The vote *)

Revealed(row) == {m \in Miners : row.reveals[m] # None}
VotersFor(row, a) == {m \in Miners : row.reveals[m] = a}
requiredSubmissions == IF Dev THEN 1 ELSE 3
\* Mutant: one vote is a majority.
minMajorityOne == 1
minMajority == IF Dev THEN 1 ELSE 2

\* The answers a map iteration may find first with the greatest number of votes.
MajorityAnswers(row) ==
    {a \in Answers : \A b \in Answers :
        Cardinality(VotersFor(row, a)) >= Cardinality(VotersFor(row, b))}

\* The handler goes on with the row it read and the new answer in it.
Evaluate(p, row) ==
    IF Cardinality(Revealed(row)) < requiredSubmissions
    THEN {[p EXCEPT !.pc = "store", !.row = row]}
    ELSE {LET winners == VotersFor(row, a)
          IN  IF Cardinality(winners) < minMajority
              THEN [p EXCEPT !.pc = "store", !.row = row]
              ELSE [p EXCEPT !.pc = "credit", !.winners = winners,
                             !.losers = Revealed(row) \ winners,
                             !.row = [row EXCEPT !.status = "complete"]]
          : a \in MajorityAnswers(row)}

Answered(row, m, a) == [row EXCEPT !.reveals[m] = a, !.status = "reveal"]

-----------------------------------------------------------------------------
(* Handlers: each write to the store is a step of its own, and so are the reads before it. *)

Goto(h, p) == proc' = [proc EXCEPT ![h] = p]
At(h, pc) == proc[h].pc = pc
Start(h, p) ==
    /\ proc[h] = Idle /\ requests < MaxRequests
    /\ requests' = requests + 1
    /\ Goto(h, p)
Request(e) == [Idle EXCEPT !.epoch = e, !.height = height]

\* The row's expiry is found, and written back, only when an answer comes in.
SubmitAnswer(h, e, m, a) ==
    /\ miner[m] # None /\ challenge[e] # None
    /\ IF ~Dev /\ height - challenge[e].created > Window
       THEN /\ Start(h, [Request(e) EXCEPT !.pc = "store",
                           !.row = [challenge[e] EXCEPT !.status = "expired"]])
            /\ UNCHANGED submitted
       ELSE /\ challenge[e].reveals[m] = None
            /\ \E p \in Evaluate(Request(e), Answered(challenge[e], m, a)) : Start(h, p)
            /\ submitted' = submitted \cup {<<e, m, a>>}
    /\ UNCHANGED <<height, store, pool, balance, block>>

SubmitCommitREST(h, e, m, a) ==
    /\ miner[m] # None /\ challenge[e] # None
    /\ challenge[e].status \in {"pending", "commit"}
    /\ challenge[e].commits[m] = None
    /\ Start(h, [Request(e) EXCEPT !.pc = "store",
                   !.row = [challenge[e] EXCEPT !.commits[m] = a, !.status = "commit"]])
    /\ UNCHANGED <<height, store, pool, balance, block, submitted>>

SubmitRevealREST(h, e, m, a) ==
    /\ miner[m] # None /\ challenge[e] # None
    /\ challenge[e].commits[m] = a
    /\ challenge[e].reveals[m] = None
    /\ \E p \in Evaluate(Request(e), Answered(challenge[e], m, a)) : Start(h, p)
    /\ submitted' = submitted \cup {<<e, m, a>>}
    /\ UNCHANGED <<height, store, pool, balance, block>>

SameKey(p, q) == p.height = q.height /\ p.epoch = q.epoch /\ p.miner = q.miner

\* A winner's record is written, then its row is read again...
CreditPending(h, m) ==
    /\ At(h, "credit") /\ m \in proc[h].winners
    /\ LET won == Cardinality(VotersFor(proc[h].row, proc[h].row.reveals[m]))
           record == [height |-> proc[h].height, epoch |-> proc[h].epoch, miner |-> m,
                      amount |-> applyBonusMultipliers(miner[m], RewardPerMiner(proc[h].height, proc[h].row, won))]
       IN  pending' = {p \in pending : ~SameKey(p, record)} \cup {record}
    /\ Goto(h, [proc[h] EXCEPT !.pc = "creditRow", !.miner = m, !.mrow = miner[m]])
    /\ UNCHANGED <<height, miner, regCount, challenge, pool, balance, block, requests, submitted>>

\* ... and written back with one more completed challenge.
CreditRow(h) ==
    /\ At(h, "creditRow")
    /\ miner' = [miner EXCEPT ![proc[h].miner] = Completed(proc[h].mrow, 1)]
    /\ Goto(h, [proc[h] EXCEPT !.pc = "credit", !.winners = @ \ {proc[h].miner},
                          !.miner = None, !.mrow = None])
    /\ UNCHANGED <<height, regCount, challenge, pending, pool, balance, block, requests, submitted>>

\* A loser's row is read and written back.  challenges_failed, which nothing reads,
\* is left out; that the whole row is written back is not.
PenalizeRead(h, m) ==
    /\ At(h, "credit") /\ proc[h].winners = {} /\ m \in proc[h].losers
    /\ Goto(h, [proc[h] EXCEPT !.pc = "penalizeRow", !.miner = m, !.mrow = miner[m]])
    /\ UNCHANGED <<height, store, pool, balance, block, requests, submitted>>

PenalizeRow(h) ==
    /\ At(h, "penalizeRow")
    /\ miner' = [miner EXCEPT ![proc[h].miner] = proc[h].mrow]
    /\ Goto(h, [proc[h] EXCEPT !.pc = "credit", !.losers = @ \ {proc[h].miner},
                          !.miner = None, !.mrow = None])
    /\ UNCHANGED <<height, regCount, challenge, pending, pool, balance, block, requests, submitted>>

StoreChallenge(h) ==
    /\ At(h, "store") \/ (At(h, "credit") /\ proc[h].winners \cup proc[h].losers = {})
    /\ challenge' = [challenge EXCEPT ![proc[h].epoch] = proc[h].row]
    /\ Goto(h, Idle)
    /\ UNCHANGED <<height, miner, regCount, pending, pool, balance, block, requests, submitted>>

RegisterMiner(h, m) ==
    /\ miner[m] = None
    /\ Dev \/ balance[m] >= MinStake
    /\ Start(h, [Idle EXCEPT !.pc = "count", !.miner = m, !.mrow = NewMiner(regCount + 1)])
    /\ UNCHANGED <<height, store, pool, balance, block, submitted>>

RegisterCount(h) ==
    /\ At(h, "count")
    /\ regCount' = proc[h].mrow.index
    /\ Goto(h, [proc[h] EXCEPT !.pc = "register"])
    /\ UNCHANGED <<height, miner, challenge, pending, pool, balance, block, requests, submitted>>

RegisterStore(h) ==
    /\ At(h, "register")
    /\ miner' = [miner EXCEPT ![proc[h].miner] = proc[h].mrow]
    /\ Goto(h, Idle)
    /\ UNCHANGED <<height, regCount, challenge, pending, pool, balance, block, requests, submitted>>

-----------------------------------------------------------------------------
(* Blocks *)

Total(S) == SumFunctionOnSet([p \in S |-> p.amount], S)

\* Mutants: the first failed transfer ends the loop; its error is ignored.
PayableStops(paid) ==
    /\ Total(paid) <= pool
    /\ paid # pending => \E p \in pending \ paid : p.amount > pool - Total(paid)

\* Transfers are made in the order of the keys; one that the pool cannot cover
\* is skipped and kept.  Whatever the order, a record is left out only if the
\* pool is too small for it after all the others.
Payable(paid) ==
    /\ Total(paid) <= pool
    /\ \A p \in pending \ paid : p.amount > pool - Total(paid)

\* The block's writes: it counts what it paid into the rows and deletes the records.
\* Mutant: a reward is counted although its transfer failed.
ProcessPendingRewardsUnpaid(paid) ==
    LET to(m) == {p \in pending : p.miner = m}
    IN  [number |-> CalcNumChallenges(Cardinality({m \in Miners : miner[m] # None})),
         paid |-> paid,
         rows |-> [m \in Miners |->
                     IF to(m) = {} \/ miner[m] = None THEN None
                     ELSE [Completed(miner[m], Cardinality(to(m)))
                             EXCEPT !.rewards = @ + Total(to(m))]]]

ProcessPendingRewards(paid) ==
    LET to(m) == {p \in paid : p.miner = m}
    IN  [number |-> CalcNumChallenges(Cardinality({m \in Miners : miner[m] # None})),
         paid |-> paid,
         rows |-> [m \in Miners |->
                     IF to(m) = {} \/ miner[m] = None THEN None
                     ELSE [Completed(miner[m], Cardinality(to(m)))
                             EXCEPT !.rewards = @ + Total(to(m))]]]

\* BeginBlock and EndBlock of the next block, on the cached store.
FinalizeBlock ==
    /\ block = None
    /\ \E paid \in SUBSET pending :
        /\ Payable(paid)
        /\ block' = ProcessPendingRewards(paid)
    /\ UNCHANGED <<height, store, pool, balance, proc, requests, submitted>>

\* The cache is written over the store, key by key (baseapp, for its app hash).
WriteBlock ==
    /\ block # None /\ block # Written
    /\ challenge' = IF height < MaxHeight /\ (height + 1) % EpochBlocks = 0
                    THEN [challenge EXCEPT ![(height + 1) \div EpochBlocks] =
                             NewChallenge(height + 1, block.number)]
                    ELSE challenge
    /\ pending' = {p \in pending : \A q \in block.paid : ~SameKey(p, q)}
    /\ miner' = [m \in Miners |-> IF block.rows[m] = None THEN miner[m] ELSE block.rows[m]]
    /\ pool' = pool - Total(block.paid)
    /\ balance' = [m \in Miners |-> balance[m] + Total({p \in block.paid : p.miner = m})]
    /\ block' = Written
    /\ UNCHANGED <<height, regCount, proc, requests, submitted>>

\* The store's version moves on.
Commit ==
    /\ block = Written
    /\ height' = IF height < MaxHeight THEN height + 1 ELSE height
    /\ block' = None
    /\ UNCHANGED <<store, pool, balance, proc, requests, submitted>>

Init ==
    /\ height = 0
    /\ miner = [m \in Miners |->
                  IF \E i \in 1..Len(Joined) : Joined[i] = m
                  THEN NewMiner(CHOOSE i \in 1..Len(Joined) : Joined[i] = m) ELSE None]
    /\ regCount = Len(Joined)
    /\ challenge = [e \in Epochs |-> None]
    /\ pending = {}
    /\ pool = RewardPool
    /\ balance = Endowment
    /\ block = None
    /\ proc = [h \in Handlers |-> Idle]
    /\ requests = 0
    /\ submitted = {}

Handler(h) ==
    \/ \E e \in Epochs, m \in Miners : \E a \in Opinion[m] :
        \/ SubmitAnswer(h, e, m, a)
        \/ m \in Committers /\ SubmitCommitREST(h, e, m, a)
        \/ m \in Committers /\ SubmitRevealREST(h, e, m, a)
    \/ \E m \in Miners :
        RegisterMiner(h, m) \/ CreditPending(h, m) \/ PenalizeRead(h, m)
    \/ CreditRow(h) \/ PenalizeRow(h) \/ StoreChallenge(h)
    \/ RegisterCount(h) \/ RegisterStore(h)

Next == (\E h \in Handlers : Handler(h)) \/ FinalizeBlock \/ WriteBlock \/ Commit

Spec == Init /\ [][Next]_vars

\* Consensus makes block after block.
FairSpec == Spec /\ WF_vars(FinalizeBlock) /\ WF_vars(WriteBlock) /\ WF_vars(Commit)

-----------------------------------------------------------------------------
(* Properties *)

\* A reward record belongs to a miner whose answer was taken in, and outside dev
\* mode to one that at least one other miner agreed with, although handlers
\* overwrite each other's rows (SubmitAnswer and SubmitRevealREST count the votes
\* of a row they read earlier).
RewardHasMajority ==
    \A p \in pending :
        \E a \in Answers :
            /\ <<p.epoch, p.miner, a>> \in submitted
            /\ Dev \/ \E m \in Miners \ {p.miner} : <<p.epoch, m, a>> \in submitted

\* A miner's row never claims more rewards than the bank paid out, however the
\* rows written by handlers and by blocks overwrite each other
\* (ProcessPendingRewards counts a reward only after its transfer).
StatsNeverExceedPayments ==
    \A m \in Miners :
        miner[m] # None => miner[m].rewards <= balance[m] - Endowment[m]

\* A reward the pool can cover does not wait for ever behind one it cannot: as
\* blocks go on, nothing is left that the pool could pay (ProcessPendingRewards
\* goes on after a transfer that fails).
AffordableIsPaid ==
    (\E p \in pending : p.amount <= pool) ~> (\A p \in pending : p.amount > pool)
=============================================================================

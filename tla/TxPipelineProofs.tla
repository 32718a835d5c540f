-------------------------- MODULE TxPipelineProofs --------------------------
(***************************************************************************)
(* Theorems about TxPipeline for every chain, set of users, prefetch       *)
(* window and number of failures, crashes and tasks.                       *)
(***************************************************************************)
EXTENDS TxPipeline, FiniteSetTheorems, TLAPS

\* Whoever has a row of Users still to find or to write has an address.
PartyKnown ==
    \A w \in TxWorker :
        job[w].user["to"] # "done" => RecipientOf(w, job[w].tx) \in Address

HandlerInv == JobTypeOK /\ PartyKnown
TypeInv == TypeOK /\ PartyKnown

LEMMA TxFacts ==
  /\ Tx \subseteq Nat /\ 1 \in Tx /\ Tx \subseteq 0 .. MaxTx /\ 0 \in 0 .. MaxTx
  /\ \A t \in Tx : t # 0
  BY TxBoundAssumption DEF Tx

LEMMA RecipientType ==
  ASSUME NEW w, NEW t \in Tx
  PROVE  /\ RecipientOf(w, t) \in Address \cup {NoAddress}
         /\ RecipientOf(w, t) # NoAddress => RecipientOf(w, t) \in Address
  BY TxAssumption DEF RecipientOf

LEMMA IdleType == Idle \in TxJob /\ Idle.stage = "idle" /\ Idle.user["to"] = "done"
  BY TxFacts DEF Idle, TxJob, Role

LEMMA RestingType ==
  /\ Resting \in [stage : {"idle", "find", "cache", "update", "create", "fill"},
                  tx : Tx, timeStamp : Time, amount : Amount, before : Amount]
  /\ NoRow \in [timeStamp : Time, amount : Amount]
  /\ NoField \in [timeStamp : Time, amount : Amount, added : Amount]
  BY TxFacts DEF Resting, NoRow, NoField, Time, Amount

LEMMA InitTypeInv == Init => TypeInv
  <1> SUFFICES ASSUME Init PROVE TypeInv
    OBVIOUS
  <1>1. TxStoreTypeOK
    BY TxFacts, TxBoundAssumption DEF Init, TxStoreInit, TxStoreTypeOK
  <1>2. RewardTypeOK
    BY RestingType DEF Init, RewardInit, RewardTypeOK
  <1>3. JobTypeOK /\ PartyKnown
    BY IdleType DEF Init, JobInit, JobTypeOK, PartyKnown
  <1>4. committed \in 0 .. MaxTx /\ up \in BOOLEAN /\ crashes \in Nat
    BY TxFacts DEF Init
  <1> QED
    BY <1>1, <1>2, <1>3, <1>4 DEF TypeInv, TypeOK

LEMMA PublishType ==
  ASSUME queued \in [TxQueue -> [Tx -> Nat]], NEW q \in TxQueue, NEW t \in Tx,
         Publish(q, t)
  PROVE  queued' \in [TxQueue -> [Tx -> Nat]]
  BY DEF Publish

LEMMA TakeType ==
  ASSUME queued \in [TxQueue -> [Tx -> Nat]], NEW q \in TxQueue, NEW t \in Tx,
         Take(q, t)
  PROVE  queued' \in [TxQueue -> [Tx -> Nat]]
  BY DEF Take

LEMMA FaultForType ==
  ASSUME TxStoreTypeOK, NEW t \in Tx, FaultFor(t)
  PROVE  failed' \in [Tx -> Nat] /\ faultsLeft' \in Nat
  BY DEF FaultFor, TxStoreTypeOK

-----------------------------------------------------------------------------
(* The handlers of TxConsumers *)

LEMMA ToInv ==
  ASSUME HandlerInv, UNCHANGED early, NEW w \in TxWorker, To(w, "time") \/ To(w, "save")
                                    \/ To(w, "follow")
  PROVE  HandlerInv'
  <1>1. PICK s \in {"time", "save", "follow"} : To(w, s)
    OBVIOUS
  <1>2. job' \in [TxWorker -> TxJob]
    BY <1>1 DEF To, HandlerInv, JobTypeOK, TxJob
  <1>3. \A v \in TxWorker : job'[v].user = job[v].user /\ job'[v].tx = job[v].tx
    BY <1>1 DEF To, HandlerInv, JobTypeOK, TxJob
  <1> QED
    BY <1>2, <1>3 DEF HandlerInv, JobTypeOK, PartyKnown, RecipientOf

LEMMA EndInv ==
  ASSUME HandlerInv, UNCHANGED early, NEW w \in TxWorker, End(w)
  PROVE  HandlerInv'
  BY IdleType DEF End, HandlerInv, JobTypeOK, PartyKnown, RecipientOf

LEMMA AfterSaveInv ==
  ASSUME HandlerInv, UNCHANGED early, NEW w \in TxWorker, AfterSave(w)
  PROVE  HandlerInv'
  BY ToInv, EndInv DEF AfterSave

LEMMA RetryInv ==
  ASSUME HandlerInv, TxStoreTypeOK, UNCHANGED early, NEW w \in TxWorker, Retry(w)
  PROVE  HandlerInv' /\ queued' \in [TxQueue -> [Tx -> Nat]]
  <1>1. job[w].tx \in Tx
    BY DEF HandlerInv, JobTypeOK, TxJob
  <1>2. RetryQueue(w) \in TxQueue
    BY DEF RetryQueue, TxQueue
  <1> QED
    BY <1>1, <1>2, EndInv, PublishType DEF Retry, TxStoreTypeOK

LEMMA DeliverInv ==
  ASSUME HandlerInv, TxStoreTypeOK, NEW w \in TxWorker, NEW t \in Tx, Deliver(w, t)
  PROVE  HandlerInv' /\ TxStoreTypeOK'
  <1>1. QueueOf(w) \in TxQueue
    BY DEF QueueOf, TxQueue
  <1>2. TxStoreTypeOK'
    BY <1>1, TakeType DEF Deliver, TxStoreTypeOK, tables, faults
  <1> DEFINE j == [Idle EXCEPT !.stage = IF w \in DowntimeTxWorker THEN "tx" ELSE "time",
                               !.tx = t]
  <1>3. j \in TxJob /\ j.user["to"] = "done"
    BY DEF Idle, TxJob, Role
  <1>4. job' = [job EXCEPT ![w] = j]
    BY DEF Deliver
  <1>5. early' \in SUBSET Tx
    BY DEF Deliver, HandlerInv, JobTypeOK
  <1> HIDE DEF j
  <1>6. HandlerInv'
    BY <1>3, <1>4, <1>5 DEF HandlerInv, JobTypeOK, PartyKnown, RecipientOf
  <1> QED
    BY <1>2, <1>6

LEMMA FetchInv ==
  ASSUME HandlerInv, TxStoreTypeOK, NEW w \in TxWorker,
         \/ FetchTx(w) \/ FetchTime(w)
         \/ FetchTxFails(w) \/ FetchTimeFails(w) \/ FetchTimeUnusable(w)
  PROVE  HandlerInv' /\ TxStoreTypeOK'
  <1>1. job[w].tx \in Tx
    BY DEF HandlerInv, JobTypeOK, TxJob
  <1>2. CASE FetchTx(w) \/ FetchTime(w)
    BY <1>2, ToInv DEF FetchTx, FetchTime, TxStoreTypeOK, tables, faults
  <1>3. CASE FetchTxFails(w) \/ FetchTimeUnusable(w)
    BY <1>1, <1>3, RetryInv, FaultForType
    DEF FetchTxFails, FetchTimeUnusable, TxStoreTypeOK, tables
  <1>4. CASE FetchTimeFails(w)
    BY <1>1, <1>4, RetryInv, EndInv, ToInv, FaultForType
    DEF FetchTimeFails, TxStoreTypeOK, tables
  <1> QED
    BY <1>2, <1>3, <1>4

LEMMA SaveTxInv ==
  ASSUME HandlerInv, TxStoreTypeOK, NEW w \in TxWorker, SaveTx(w) \/ SaveTxFails(w)
  PROVE  HandlerInv' /\ TxStoreTypeOK'
  <1> DEFINE t == job[w].tx
             to == RecipientOf(w, t)
             j == [job[w] EXCEPT !.stage = "users",
                      !.user = [r \in Role |-> IF r = "to" /\ to = NoAddress
                                               THEN "done" ELSE "find"]]
  <1>1. t \in Tx
    BY DEF HandlerInv, JobTypeOK, TxJob
  <1>2. CASE SaveTxFails(w)
    BY <1>1, <1>2, RetryInv, AfterSaveInv, FaultForType
    DEF SaveTxFails, TxStoreTypeOK, tables
  <1>3. CASE SaveTx(w) /\ ~Stored(t)
    <2>1. to \in Address \cup {NoAddress} /\ (to # NoAddress => to \in Address)
      BY <1>1, RecipientType
    <2>2. [txhash |-> t, toAddress |-> to] \in TxRow
      BY <1>1, <2>1 DEF TxRow
    <2>3. TxStoreTypeOK'
      BY <1>3, <2>2 DEF SaveTx, TxStoreTypeOK, restVars, faults
    <2>4. /\ j \in TxJob /\ j.tx = t
          /\ j.user["to"] # "done" => to # NoAddress
      BY DEF HandlerInv, JobTypeOK, TxJob, Role
    <2>5. job' = [job EXCEPT ![w] = j] /\ UNCHANGED early
      BY <1>3 DEF SaveTx, restVars
    <2> HIDE DEF j
    <2>6. HandlerInv'
      BY <2>1, <2>4, <2>5 DEF HandlerInv, JobTypeOK, PartyKnown, RecipientOf
    <2> QED
      BY <2>3, <2>6
  <1>4. CASE SaveTx(w) /\ Stored(t)
    BY <1>4, AfterSaveInv DEF SaveTx, TxStoreTypeOK, restVars, faults
  <1> QED
    BY <1>2, <1>3, <1>4

LEMMA PartyType ==
  ASSUME HandlerInv, NEW w \in TxWorker, NEW r \in Role, job[w].user[r] # "done"
  PROVE  Party(w, r) \in Address
  <1>1. job[w].tx \in Tx
    BY DEF HandlerInv, JobTypeOK, TxJob
  <1> QED
    BY <1>1, TxAssumption DEF HandlerInv, PartyKnown, Party, Role

LEMMA UserToInv ==
  ASSUME HandlerInv, UNCHANGED early, NEW w \in TxWorker, NEW r \in Role,
         NEW s \in {"find", "write", "done"}, NEW n \in Nat,
         s # "done" => job[w].user[r] # "done", UserTo(w, r, s, n)
  PROVE  HandlerInv'
  <1> DEFINE j == [job[w] EXCEPT !.user[r] = s, !.count[r] = n]
  <1>1. /\ j \in TxJob /\ j.tx = job[w].tx
        /\ j.user["to"] # "done" => job[w].user["to"] # "done"
    BY DEF HandlerInv, JobTypeOK, TxJob, Role
  <1>2. job' = [job EXCEPT ![w] = j]
    BY DEF UserTo
  <1> HIDE DEF j
  <1> QED
    BY <1>1, <1>2 DEF HandlerInv, JobTypeOK, PartyKnown, RecipientOf

LEMMA UsersInv ==
  ASSUME HandlerInv, TxStoreTypeOK, NEW w \in TxWorker, NEW r \in Role,
         FindUser(w, r) \/ WriteUser(w, r) \/ UserFails(w, r)
  PROVE  HandlerInv' /\ TxStoreTypeOK'
  <1>1. Party(w, r) \in Address
    BY PartyType DEF FindUser, WriteUser, UserFails
  <1>2. CASE FindUser(w, r)
    <2>1. users[Party(w, r)] \in Nat
      BY <1>1 DEF TxStoreTypeOK
    <2> QED
      BY <1>2, <2>1, UserToInv
      DEF FindUser, TxStoreTypeOK, txStoreVars, tables, faults
  <1>3. CASE WriteUser(w, r)
    <2>1. job[w].count[r] \in Nat
      BY DEF HandlerInv, JobTypeOK, TxJob
    <2>2. users' \in [Address -> Nat]
      BY <1>1, <1>3, <2>1 DEF WriteUser, TxStoreTypeOK
    <2>3. HandlerInv'
      BY <1>3, UserToInv DEF WriteUser, restVars
    <2> QED
      BY <1>3, <2>2, <2>3 DEF WriteUser, TxStoreTypeOK, restVars, faults
  <1>4. CASE UserFails(w, r)
    BY <1>4, UserToInv DEF UserFails, Fault, TxStoreTypeOK, tables
  <1> QED
    BY <1>2, <1>3, <1>4

LEMMA FollowTypes ==
  ASSUME HandlerInv, TxStoreTypeOK, NEW w \in TxWorker,
         EndUsers(w) \/ SaveVoter(w) \/ SaveContract(w) \/ SaveLog(w) \/ FollowFails(w)
  PROVE  HandlerInv' /\ TxStoreTypeOK'
  <1>1. job[w].tx \in Tx
    BY DEF HandlerInv, JobTypeOK, TxJob
  <1>2. CASE EndUsers(w)
    BY <1>2, AfterSaveInv DEF EndUsers, TxStoreTypeOK, txStoreVars, tables, faults
  <1>3. CASE SaveVoter(w)
    <2>1. Sender[job[w].tx] \in Address /\ job[w].tx \in 0 .. MaxTx
      BY <1>1, TxAssumption, TxFacts
    <2> QED
      BY <1>3, <2>1, EndInv DEF SaveVoter, TxStoreTypeOK, faults
  <1>4. CASE SaveContract(w) \/ SaveLog(w)
    BY <1>1, <1>4, EndInv DEF SaveContract, SaveLog, TxStoreTypeOK, faults
  <1>5. CASE FollowFails(w)
    BY <1>1, <1>5, EndInv, FaultForType DEF FollowFails, TxStoreTypeOK, tables
  <1> QED
    BY <1>2, <1>3, <1>4, <1>5

LEMMA HandleInv ==
  ASSUME HandlerInv, TxStoreTypeOK, NEW w \in TxWorker, TxStep(w) \/ TxFails(w)
  PROVE  HandlerInv' /\ TxStoreTypeOK'
  BY FetchInv, SaveTxInv, UsersInv, FollowTypes DEF TxStep, TxFails

-----------------------------------------------------------------------------
(* The tasks of DelegatorRewards *)

LEMMA LaunchType ==
  ASSUME RewardTypeOK, NEW t \in Tx, NEW way \in {"ws", "downtime"}, Launch(t, way)
  PROVE  RewardTypeOK'
  <1>1. CASE UNCHANGED rewardVars
    BY <1>1 DEF RewardTypeOK, rewardVars
  <1>2. CASE PaysReward(t, way)
    <2> DEFINE free == {k \in Task : task[k].stage = "idle"}
               k == CHOOSE i \in free : TRUE
               new == [stage |-> "find", tx |-> t, timeStamp |-> TimeOf(t, way),
                       amount |-> AmountOf(t, way), before |-> 0]
    <2>1. free # {} /\ task' = [task EXCEPT ![k] = new] /\ UNCHANGED <<rewards, rewardsHash>>
      BY <1>2 DEF Launch
    <2>2. k \in Task
      BY <2>1
    <2>3. TimeOf(t, way) \in Time /\ AmountOf(t, way) \in Amount /\ 0 \in Amount
      <3>1. Second[t] \in Nat
        BY RewardAssumption
      <3> QED
        BY <3>1, TxFacts DEF TimeOf, AmountOf, Time, Amount
    <2>4. overlapped' \in SUBSET Address
      BY <1>2, TxAssumption DEF Launch, RewardTypeOK
    <2> HIDE DEF k
    <2> QED
      BY <2>1, <2>2, <2>3, <2>4 DEF RewardTypeOK
  <1> QED
    BY <1>1, <1>2 DEF Launch

\* A task only changes its own record, within its type.
LEMMA TaskMoves ==
  ASSUME RewardTypeOK, NEW k \in Task, NEW s \in {"create", "update", "fill"},
         GoOn(k, s) \/ Ends(k)
  PROVE  task' \in [Task -> [stage : {"idle", "find", "cache", "update", "create", "fill"},
                             tx : Tx, timeStamp : Time, amount : Amount, before : Amount]]
  BY RestingType DEF GoOn, Ends, RewardTypeOK

LEMMA RewardStepType ==
  ASSUME RewardTypeOK, NEW k \in Task, RewardStep(k) \/ RewardFails(k)
  PROVE  RewardTypeOK'
  <1> DEFINE a == Sender[task[k].tx]
  <1>1. /\ task[k].tx \in Tx /\ a \in Address
        /\ task[k].timeStamp \in Time /\ task[k].amount \in Amount
        /\ task[k].before \in Amount
    BY TxAssumption DEF RewardTypeOK
  <1>2. rewards[a].amount \in Amount
    BY <1>1 DEF RewardTypeOK
  <1>3. CASE FindReward(k)
    <2>1. CASE GoOn(k, "create") \/ Ends(k)
      BY <1>3, <2>1, TaskMoves DEF FindReward, RewardTypeOK
    <2>2. CASE task' = [task EXCEPT ![k] =
                           [@ EXCEPT !.stage = "cache", !.before = rewards[a].amount]]
      BY <1>2, <1>3, <2>2 DEF FindReward, RewardTypeOK
    <2> QED
      BY <1>3, <2>1, <2>2 DEF FindReward
  <1>4. ASSUME SetHash(k)
        PROVE  rewardsHash' \in [Address -> [timeStamp : Time, amount : Amount, added : Amount]]
    BY <1>1, <1>4 DEF SetHash, RewardTypeOK
  <1>5. ASSUME SetRow(k)
        PROVE  rewards' \in [Address -> [timeStamp : Time, amount : Amount]]
    BY <1>1, <1>5 DEF SetRow, RewardTypeOK
  <1>6. CASE CacheReward(k) \/ FillReward(k)
    BY <1>4, <1>6, TaskMoves DEF CacheReward, FillReward, RewardTypeOK
  <1>7. CASE UpdateReward(k) \/ CreateReward(k)
    BY <1>5, <1>7, TaskMoves DEF UpdateReward, CreateReward, RewardTypeOK
  <1>8. CASE RewardFails(k)
    BY <1>8, TaskMoves DEF RewardFails, RewardTypeOK
  <1> QED
    BY <1>3, <1>6, <1>7, <1>8 DEF RewardStep

-----------------------------------------------------------------------------
(* All steps *)

LEMMA HandlerTypeInv ==
  ASSUME TypeInv, NEW w \in TxWorker, Handle(w) \/ HandleFails(w)
  PROVE  TypeInv'
  <1>1. HandlerInv' /\ TxStoreTypeOK'
    BY HandleInv DEF TypeInv, TypeOK, HandlerInv, Handle, HandleFails
  <1>2. RewardTypeOK'
    <2>1. CASE FetchTime(w)
      <3>1. job[w].tx \in Tx /\ Way(w) \in {"ws", "downtime"}
        BY DEF TypeInv, TypeOK, JobTypeOK, TxJob, Way
      <3> QED
        BY <2>1, <3>1, LaunchType DEF FetchTime, TypeInv, TypeOK
    <2>2. CASE UNCHANGED rewardVars
      BY <2>2 DEF rewardVars, RewardTypeOK, TypeInv, TypeOK
    <2>3. FetchTime(w) \/ UNCHANGED rewardVars
      BY DEF Handle, HandleFails, TxStep, TxFails, FetchTx, SaveTx, FindUser, WriteUser,
             EndUsers, SaveVoter, SaveContract, SaveLog, FetchTxFails, FetchTimeFails,
             FetchTimeUnusable, SaveTxFails, UserFails, FollowFails
    <2> QED
      BY <2>1, <2>2, <2>3
  <1> QED
    BY <1>1, <1>2 DEF Handle, HandleFails, worldVars, HandlerInv, TypeInv, TypeOK

\* A crash puts back as many messages as there are deliveries.
LEMMA CrashTypeInv ==
  ASSUME TypeInv, Crash
  PROVE  TypeInv'
  <1> DEFINE held(q, t) == {w \in TxWorker : QueueOf(w) = q /\ Holds(w, t)}
  <1> USE DEF TypeInv, TypeOK
  <1>1. \A q \in TxQueue, t \in Tx : Cardinality(held(q, t)) \in Nat
    <2> SUFFICES ASSUME NEW q \in TxQueue, NEW t \in Tx
                 PROVE  Cardinality(held(q, t)) \in Nat
      OBVIOUS
    <2>1. IsFiniteSet(held(q, t))
      BY FS_Subset, TxWorkerAssumption
    <2> QED
      BY <2>1, FS_CardinalityType
  <1>2. queued' = [q \in TxQueue |-> [t \in Tx |-> queued[q][t] + Cardinality(held(q, t))]]
    BY DEF Crash, Requeue
  <1> HIDE DEF held
  <1>3. \A q \in TxQueue, t \in Tx : queued[q][t] + Cardinality(held(q, t)) \in Nat
    BY <1>1 DEF TxStoreTypeOK
  <1>4. TxStoreTypeOK'
    BY <1>2, <1>3 DEF Crash, TxStoreTypeOK, tables, faults
  <1>5. JobTypeOK' /\ PartyKnown'
    BY IdleType DEF Crash, Requeue, JobTypeOK, PartyKnown
  <1>6. RewardTypeOK'
    BY RestingType DEF Crash, RewardTypeOK
  <1>7. committed' = committed /\ crashes' = crashes + 1 /\ up' \in BOOLEAN
    BY Zenon DEF Crash
  <1> QED
    BY <1>4, <1>5, <1>6, <1>7

LEMMA WorldTypeInv ==
  ASSUME TypeInv, CommitTx \/ FetchByHeight \/ Boot \/ Consume
  PROVE  TypeInv'
  <1> USE DEF TypeInv, TypeOK
  <1>b. ASSUME NEW q \in TxQueue, NEW t \in Tx, NEW way \in {"ws", "downtime"},
               Bring(q, t, way)
        PROVE  /\ queued' \in [TxQueue -> [Tx -> Nat]]
               /\ seen' \in [Tx -> SUBSET {"ws", "downtime"}]
    BY <1>b, PublishType DEF Bring, TxStoreTypeOK
  <1>k. ASSUME UNCHANGED jobVars PROVE JobTypeOK' /\ PartyKnown'
    BY <1>k DEF jobVars, JobTypeOK, PartyKnown, RecipientOf
  <1>r. ASSUME UNCHANGED rewardVars PROVE RewardTypeOK'
    BY <1>r DEF rewardVars, RewardTypeOK
  <1>1. CASE CommitTx
    <2>1. committed + 1 \in Tx /\ committed' \in 0 .. MaxTx
      BY <1>1, TxBoundAssumption DEF CommitTx, Tx
    <2>2. /\ queued' \in [TxQueue -> [Tx -> Nat]]
          /\ seen' \in [Tx -> SUBSET {"ws", "downtime"}]
      BY <1>1, <2>1, <1>b DEF CommitTx, TxStoreTypeOK, TxQueue
    <2>3. TxStoreTypeOK'
      BY <1>1, <2>2 DEF CommitTx, TxStoreTypeOK, tables, faults
    <2> QED
      BY <1>1, <2>1, <2>3, <1>k, <1>r DEF CommitTx
  <1>2. CASE FetchByHeight
    <2>1. /\ queued' \in [TxQueue -> [Tx -> Nat]]
          /\ seen' \in [Tx -> SUBSET {"ws", "downtime"}]
      BY <1>2, <1>b, RefetchedAssumption DEF FetchByHeight, TxQueue
    <2>2. TxStoreTypeOK'
      BY <1>2, <2>1 DEF FetchByHeight, TxStoreTypeOK, tables, faults
    <2> QED
      BY <1>2, <2>2, <1>k, <1>r DEF FetchByHeight, worldVars
  <1>3. CASE Boot
    <2>1. TxStoreTypeOK'
      BY <1>3 DEF Boot, txStoreVars, tables, faults, TxStoreTypeOK
    <2> QED
      BY <1>3, <2>1, <1>k, <1>r DEF Boot
  <1>4. CASE Consume
    <2>1. TxStoreTypeOK' /\ HandlerInv'
      BY <1>4, DeliverInv DEF Consume, HandlerInv
    <2> QED
      BY <1>4, <2>1, <1>r DEF Consume, Deliver, worldVars, HandlerInv
  <1> QED
    BY <1>1, <1>2, <1>3, <1>4

LEMMA TaskTypeInv ==
  ASSUME TypeInv, Expire \/ \E k \in Task : Reward(k) \/ RewardFault(k)
  PROVE  TypeInv'
  <1> USE DEF TypeInv, TypeOK
  <1>1. RewardTypeOK'
    <2>1. CASE Expire
      BY <2>1, RestingType DEF Expire, ExpireRewards, RewardTypeOK
    <2> QED
      BY <2>1, RewardStepType DEF Reward, RewardFault
  <1>2. UNCHANGED faults \/ \E t \in Tx : FaultFor(t)
    BY DEF Expire, ExpireRewards, Reward, RewardStep, FindReward, CacheReward, UpdateReward,
           CreateReward, FillReward, RewardFault, RewardFails, RewardTypeOK
  <1>3. failed' \in [Tx -> Nat] /\ faultsLeft' \in Nat
    BY <1>2, FaultForType DEF faults, TxStoreTypeOK
  <1>4. UNCHANGED <<queued, tables, seen, jobVars, worldVars>>
    BY DEF Expire, Reward, RewardFault
  <1>5. TxStoreTypeOK'
    BY <1>3, <1>4 DEF TxStoreTypeOK, tables
  <1>6. JobTypeOK' /\ PartyKnown'
    BY <1>4 DEF jobVars, JobTypeOK, PartyKnown, RecipientOf
  <1> QED
    BY <1>1, <1>4, <1>5, <1>6 DEF worldVars

LEMMA NextTypeInv == TypeInv /\ [Next]_vars => TypeInv'
  <1> SUFFICES ASSUME TypeInv, [Next]_vars PROVE TypeInv'
    OBVIOUS
  <1>1. CASE UNCHANGED vars
    BY <1>1
    DEF vars, txStoreVars, tables, faults, rewardVars, jobVars, worldVars, TypeInv, TypeOK,
        TxStoreTypeOK, RewardTypeOK, JobTypeOK, PartyKnown, RecipientOf
  <1> QED
    BY <1>1, HandlerTypeInv, CrashTypeInv, WorldTypeInv, TaskTypeInv DEF Next

LEMMA TypeInvariant == Spec => []TypeInv
  BY InitTypeInv, NextTypeInv, PTL DEF Spec

\* Every queue, table, Redis field, handler and task keeps its type: no queue
\* falls below empty, and userSave never counts a transaction for the empty
\* address.
THEOREM TypeCorrect == Spec => []TypeOK
  <1>1. TypeInv => TypeOK
    BY DEF TypeInv
  <1> QED
    BY <1>1, TypeInvariant, PTL

-----------------------------------------------------------------------------
(* No transaction disappears *)

\* Nothing more is owed to t on this way.
Resolved(t, way) == Stored(t) \/ (way = "ws" /\ failed[t] > 0)

QueuesOf(way) == IF way = "downtime" THEN {"DOWNTIME_TXS"} ELSE {"LATEST_TXS", "MISSED_TXS"}

Open(t, way) ==
    \/ \E q \in QueuesOf(way) : queued[q][t] > 0
    \/ \E w \in TxWorker : Way(w) = way /\ Holds(w, t)

\* Each way keeps a transaction by itself, whatever becomes of it on the other.
Kept == \A t \in Tx : \A way \in seen[t] : Resolved(t, way) \/ Open(t, way)

\* A handler gets past its save only with a row, or on the WebSocket's way with
\* a failure.
PastSave ==
    \A w \in TxWorker :
        job[w].stage \in {"users", "follow"} => Resolved(job[w].tx, Way(w))

KeptInv == Kept /\ PastSave

LEMMA KeptAccounts == TypeInv /\ KeptInv => TxAccounted
  <1> SUFFICES ASSUME TypeInv, KeptInv, NEW t \in Tx, seen[t] # {}
               PROVE  \/ Stored(t) \/ Pending(t)
                      \/ seen[t] = {"ws"} /\ failed[t] > 0
    BY DEF TxAccounted
  <1>1. ASSUME NEW way \in {"ws", "downtime"}, Open(t, way) PROVE Pending(t)
    BY <1>1 DEF Open, Pending, QueuesOf, TxQueue
  <1>2. CASE "downtime" \in seen[t]
    BY <1>1, <1>2 DEF KeptInv, Kept, Resolved
  <1>3. CASE "downtime" \notin seen[t]
    <2>1. seen[t] = {"ws"}
      BY <1>3 DEF TypeInv, TypeOK, TxStoreTypeOK
    <2>2. "ws" \in seen[t]
      BY <2>1
    <2>3. Resolved(t, "ws") \/ Open(t, "ws")
      BY <2>2 DEF KeptInv, Kept
    <2> QED
      BY <1>1, <2>1, <2>3 DEF Resolved
  <1> QED
    BY <1>2, <1>3

\* What every step but a delivery and a crash has in common: rows, failures and
\* messages only become more, and at most the delivery w moves, and lets go of
\* its message only when that is resolved or published again.
StoreGrows ==
    \A t \in Tx : /\ Stored(t) => Stored(t)'
                  /\ failed[t] > 0 => failed'[t] > 0
QueuesGrow ==
    \A q \in TxQueue : \A t \in Tx : queued[q][t] > 0 => queued'[q][t] > 0
SeenQueued ==
    \A t \in Tx : \A way \in seen'[t] :
        way \in seen[t] \/ \E q \in QueuesOf(way) : queued'[q][t] > 0
OnlyMoves(w) ==
    /\ \A v \in TxWorker : v # w => job'[v] = job[v]
    /\ \A t \in Tx : Holds(w, t) =>
           \/ Holds(w, t)' \/ Resolved(t, Way(w))'
           \/ \E q \in QueuesOf(Way(w)) : queued'[q][t] > 0
    /\ job'[w].stage \in {"users", "follow"} =>
           \E t \in Tx : t = job'[w].tx /\ Resolved(t, Way(w))'

Progresses(w) == StoreGrows /\ QueuesGrow /\ SeenQueued /\ OnlyMoves(w)

LEMMA ResolvedGrows ==
  ASSUME StoreGrows, NEW t \in Tx, NEW way, Resolved(t, way)
  PROVE  Resolved(t, way)'
  BY DEF StoreGrows, Resolved

LEMMA ProgressKeeps ==
  ASSUME TypeInv, KeptInv, NEW w \in TxWorker, Progresses(w)
  PROVE  KeptInv'
  <1> USE DEF KeptInv, Progresses
  <1>q. \A way : QueuesOf(way) \subseteq TxQueue
    BY DEF QueuesOf, TxQueue
  <1>1. PastSave'
    <2> SUFFICES ASSUME NEW v \in TxWorker, job'[v].stage \in {"users", "follow"}
                 PROVE  Resolved(job[v].tx, Way(v))'
      BY DEF PastSave
    <2>1. PICK t \in Tx : t = job'[v].tx /\ Resolved(t, Way(v))'
      <3>1. CASE v = w
        BY <3>1 DEF OnlyMoves
      <3>2. CASE v # w
        <4>1. job'[v] = job[v] /\ job[v].tx \in Tx
          BY <3>2 DEF OnlyMoves, TypeInv, TypeOK, JobTypeOK, TxJob
        <4>2. Resolved(job[v].tx, Way(v))
          BY <4>1 DEF PastSave
        <4> QED
          BY <4>1, <4>2, ResolvedGrows
      <3> QED
        BY <3>1, <3>2
    <2> QED
      BY <2>1 DEF Resolved, Stored
  <1>2. ASSUME NEW t \in Tx, NEW way \in seen'[t]
        PROVE  Resolved(t, way)' \/ Open(t, way)'
    <2>1. CASE \E q \in QueuesOf(way) : queued'[q][t] > 0
      BY <2>1 DEF Open
    <2>2. CASE way \in seen[t]
      <3>1. CASE Resolved(t, way)
        BY <3>1, ResolvedGrows
      <3>2. CASE \E q \in QueuesOf(way) : queued[q][t] > 0
        BY <1>q, <3>2 DEF QueuesGrow, Open
      <3>3. ASSUME NEW v \in TxWorker, Way(v) = way, Holds(v, t)
            PROVE  Resolved(t, way)' \/ Open(t, way)'
        <4>1. CASE v = w
          BY <3>3, <4>1 DEF OnlyMoves, Open
        <4>2. CASE v # w
          BY <3>3, <4>2 DEF OnlyMoves, Holds, Open
        <4> QED
          BY <4>1, <4>2
      <3> QED
        BY <2>2, <3>1, <3>2, <3>3 DEF Kept, Open
    <2> QED
      BY <2>1, <2>2 DEF SeenQueued
  <1>3. Kept'
    BY <1>2 DEF Kept
  <1> QED
    BY <1>1, <1>3

LEMMA StillGrows ==
  /\ UNCHANGED <<transactions, failed>> => StoreGrows
  /\ UNCHANGED queued => QueuesGrow
  /\ UNCHANGED seen => SeenQueued
  BY DEF StoreGrows, QueuesGrow, SeenQueued, Stored

LEMMA PublishGrows ==
  ASSUME TxStoreTypeOK, NEW q \in TxQueue, NEW t \in Tx, Publish(q, t)
  PROVE  QueuesGrow /\ queued'[q][t] > 0
  BY DEF TxStoreTypeOK, Publish, QueuesGrow

LEMMA FaultForGrows ==
  ASSUME TxStoreTypeOK, NEW t \in Tx, FaultFor(t), UNCHANGED transactions
  PROVE  StoreGrows /\ failed'[t] > 0
  BY DEF TxStoreTypeOK, FaultFor, StoreGrows, Stored

-----------------------------------------------------------------------------
(* How a handler moves *)

LEMMA ToMoves ==
  ASSUME JobTypeOK, NEW w \in TxWorker, NEW s \in {"time", "save", "follow"}, To(w, s),
         s = "follow" => \E t \in Tx : t = job[w].tx /\ Resolved(t, Way(w))'
  PROVE  OnlyMoves(w)
  <1>1. job'[w].tx = job[w].tx /\ job'[w].stage = s
    BY DEF JobTypeOK, TxJob, To
  <1> QED
    BY <1>1 DEF JobTypeOK, To, OnlyMoves, Holds

\* A handler whose transaction is resolved may do what it likes.
LEMMA ResolvedMoves ==
  ASSUME NEW w \in TxWorker, NEW t \in Tx, t = job[w].tx, job'[w].tx = t,
         Resolved(t, Way(w))', \A v \in TxWorker : v # w => job'[v] = job[v]
  PROVE  OnlyMoves(w)
  BY DEF OnlyMoves, Holds

LEMMA EndMoves ==
  ASSUME JobTypeOK, NEW w \in TxWorker, NEW t \in Tx, t = job[w].tx, End(w),
         Resolved(t, Way(w))' \/ \E q \in QueuesOf(Way(w)) : queued'[q][t] > 0
  PROVE  OnlyMoves(w)
  BY IdleType DEF JobTypeOK, End, OnlyMoves, Holds

LEMMA AfterSaveMoves ==
  ASSUME JobTypeOK, NEW w \in TxWorker, NEW t \in Tx, t = job[w].tx, AfterSave(w),
         Resolved(t, Way(w))'
  PROVE  OnlyMoves(w)
  <1>1. CASE To(w, "follow")
    BY <1>1, ToMoves
  <1>2. CASE End(w)
    BY <1>2, EndMoves
  <1> QED
    BY <1>1, <1>2 DEF AfterSave

LEMMA RetryMoves ==
  ASSUME JobTypeOK, TxStoreTypeOK, NEW w \in TxWorker, Retry(w)
  PROVE  QueuesGrow /\ OnlyMoves(w)
  <1>1. PICK t \in Tx : t = job[w].tx
    BY DEF JobTypeOK, TxJob
  <1>2. RetryQueue(w) \in TxQueue /\ RetryQueue(w) \in QueuesOf(Way(w))
    BY DEF RetryQueue, TxQueue, QueuesOf, Way
  <1>3. QueuesGrow /\ queued'[RetryQueue(w)][t] > 0
    BY <1>1, <1>2, PublishGrows DEF Retry
  <1> QED
    BY <1>1, <1>2, <1>3, EndMoves DEF Retry

LEMMA FetchProgresses ==
  ASSUME TypeInv, NEW w \in TxWorker,
         \/ FetchTx(w) \/ FetchTime(w)
         \/ FetchTxFails(w) \/ FetchTimeFails(w) \/ FetchTimeUnusable(w)
  PROVE  Progresses(w)
  <1> USE DEF TypeInv, TypeOK
  <1>t. PICK t \in Tx : t = job[w].tx
    BY DEF JobTypeOK, TxJob
  <1>1. CASE FetchTx(w) \/ FetchTime(w)
    BY <1>1, ToMoves, StillGrows DEF FetchTx, FetchTime, tables, faults, Progresses
  <1>2. CASE FetchTxFails(w) \/ FetchTimeUnusable(w)
    BY <1>2, <1>t, RetryMoves, FaultForGrows, StillGrows
    DEF FetchTxFails, FetchTimeUnusable, tables, Progresses
  <1>3. CASE FetchTimeFails(w)
    <2>1. StoreGrows /\ failed'[t] > 0 /\ SeenQueued
      BY <1>3, <1>t, FaultForGrows, StillGrows DEF FetchTimeFails, tables
    <2>2. CASE Retry(w)
      BY <2>1, <2>2, RetryMoves DEF Progresses
    <2>3. CASE w \notin DowntimeTxWorker /\ UNCHANGED queued /\ (To(w, "follow") \/ End(w))
      <3>1. Resolved(t, Way(w))'
        BY <2>1, <2>3 DEF Resolved, Way
      <3>2. OnlyMoves(w)
        BY <1>t, <2>3, <3>1, ToMoves, EndMoves
      <3> QED
        BY <2>1, <2>3, <3>2, StillGrows DEF Progresses
    <2> QED
      BY <1>3, <2>2, <2>3 DEF FetchTimeFails
  <1> QED
    BY <1>1, <1>2, <1>3

LEMMA SaveTxProgresses ==
  ASSUME TypeInv, NEW w \in TxWorker, SaveTx(w) \/ SaveTxFails(w)
  PROVE  Progresses(w)
  <1> USE DEF TypeInv, TypeOK
  <1>t. PICK t \in Tx : t = job[w].tx
    BY DEF JobTypeOK, TxJob
  <1>1. CASE SaveTx(w)
    <2>1. UNCHANGED <<queued, seen, failed>>
      BY <1>1 DEF SaveTx, restVars, faults
    <2>2. CASE Stored(t)
      <3>1. AfterSave(w) /\ UNCHANGED transactions
        BY <1>1, <1>t, <2>2 DEF SaveTx
      <3>2. Resolved(t, Way(w))'
        BY <2>2, <3>1 DEF Resolved, Stored
      <3> QED
        BY <1>t, <2>1, <3>1, <3>2, AfterSaveMoves, StillGrows DEF Progresses
    <2>3. CASE ~Stored(t)
      <3> DEFINE row == [txhash |-> t, toAddress |-> RecipientOf(w, t)]
      <3>1. transactions' = transactions \cup {row}
        BY <1>1, <1>t, <2>3 DEF SaveTx
      <3>2. row \in transactions' /\ row.txhash = t
        BY <3>1
      <3>3. Stored(t)' /\ StoreGrows
        BY <2>1, <3>1, <3>2 DEF Stored, StoreGrows
      <3>4. /\ job'[w].stage = "users" /\ job'[w].tx = t
            /\ \A v \in TxWorker : v # w => job'[v] = job[v]
        BY <1>1, <1>t, <2>3 DEF SaveTx, JobTypeOK, TxJob
      <3>5. OnlyMoves(w)
        <4>1. Resolved(t, Way(w))'
          BY <3>3 DEF Resolved
        <4> QED
          BY <1>t, <3>4, <4>1, ResolvedMoves
      <3> QED
        BY <2>1, <3>3, <3>5, StillGrows DEF Progresses
    <2> QED
      BY <2>2, <2>3
  <1>2. CASE SaveTxFails(w)
    <2>1. StoreGrows /\ failed'[t] > 0 /\ SeenQueued
      BY <1>2, <1>t, FaultForGrows, StillGrows DEF SaveTxFails, tables
    <2>2. CASE Retry(w)
      BY <2>1, <2>2, RetryMoves DEF Progresses
    <2>3. CASE w \notin DowntimeTxWorker /\ AfterSave(w) /\ UNCHANGED queued
      <3>1. Resolved(t, Way(w))'
        BY <2>1, <2>3 DEF Resolved, Way
      <3> QED
        BY <1>t, <2>1, <2>3, <3>1, AfterSaveMoves, StillGrows DEF Progresses
    <2> QED
      BY <1>2, <2>2, <2>3 DEF SaveTxFails
  <1> QED
    BY <1>1, <1>2

LEMMA UsersProgresses ==
  ASSUME TypeInv, KeptInv, NEW w \in TxWorker, NEW r \in Role,
         FindUser(w, r) \/ WriteUser(w, r) \/ UserFails(w, r)
  PROVE  Progresses(w)
  <1> USE DEF TypeInv, TypeOK
  <1>t. PICK t \in Tx : t = job[w].tx
    BY DEF JobTypeOK, TxJob
  <1>1. UNCHANGED <<queued, transactions, seen, failed>>
    BY DEF FindUser, WriteUser, UserFails, Fault, txStoreVars, tables, restVars, faults
  <1>2. StoreGrows /\ QueuesGrow /\ SeenQueued
    BY <1>1, StillGrows
  <1>3. Resolved(t, Way(w))'
    <2>1. Resolved(t, Way(w))
      BY <1>t DEF KeptInv, PastSave, FindUser, WriteUser, UserFails
    <2> QED
      BY <1>2, <2>1, ResolvedGrows
  <1>4. /\ job'[w].tx = t /\ job'[w].stage = job[w].stage
        /\ \A v \in TxWorker : v # w => job'[v] = job[v]
    BY <1>t DEF FindUser, WriteUser, UserFails, UserTo, JobTypeOK, TxJob
  <1>5. OnlyMoves(w)
    BY <1>t, <1>3, <1>4, ResolvedMoves
  <1> QED
    BY <1>2, <1>5 DEF Progresses

LEMMA FollowProgresses ==
  ASSUME TypeInv, KeptInv, NEW w \in TxWorker,
         EndUsers(w) \/ SaveVoter(w) \/ SaveContract(w) \/ SaveLog(w) \/ FollowFails(w)
  PROVE  Progresses(w)
  <1> USE DEF TypeInv, TypeOK
  <1>t. PICK t \in Tx : t = job[w].tx
    BY DEF JobTypeOK, TxJob
  <1>1. UNCHANGED <<queued, transactions, seen>> /\ StoreGrows
    <2>1. CASE FollowFails(w)
      BY <1>t, <2>1, FaultForGrows DEF FollowFails, tables
    <2>2. CASE EndUsers(w) \/ SaveVoter(w) \/ SaveContract(w) \/ SaveLog(w)
      BY <2>2, StillGrows
      DEF EndUsers, SaveVoter, SaveContract, SaveLog, txStoreVars, tables, faults
    <2> QED
      BY <2>1, <2>2
  <1>2. Resolved(t, Way(w))'
    <2>1. Resolved(t, Way(w))
      BY <1>t DEF KeptInv, PastSave, EndUsers, SaveVoter, SaveContract, SaveLog, FollowFails
    <2> QED
      BY <1>1, <2>1, ResolvedGrows
  <1>3. AfterSave(w) \/ End(w)
    BY DEF EndUsers, SaveVoter, SaveContract, SaveLog, FollowFails
  <1>4. OnlyMoves(w)
    BY <1>t, <1>2, <1>3, AfterSaveMoves, EndMoves
  <1> QED
    BY <1>1, <1>4, StillGrows DEF Progresses

-----------------------------------------------------------------------------
(* The other steps *)

\* The same for a step that moves no handler.
LEMMA StillKeeps ==
  ASSUME TypeInv, KeptInv, StoreGrows, QueuesGrow, SeenQueued, UNCHANGED job
  PROVE  KeptInv'
  <1> USE DEF KeptInv
  <1>1. PastSave'
    <2> SUFFICES ASSUME NEW v \in TxWorker, job[v].stage \in {"users", "follow"}
                 PROVE  Resolved(job[v].tx, Way(v))'
      BY DEF PastSave
    <2>1. PICK t \in Tx : t = job[v].tx
      BY DEF TypeInv, TypeOK, JobTypeOK, TxJob
    <2>2. Resolved(t, Way(v))'
      BY <2>1, ResolvedGrows DEF PastSave
    <2> QED
      BY <2>1, <2>2 DEF Resolved, Stored
  <1>2. ASSUME NEW t \in Tx, NEW way \in seen'[t]
        PROVE  Resolved(t, way)' \/ Open(t, way)'
    <2>1. QueuesOf(way) \subseteq TxQueue
      BY DEF QueuesOf, TxQueue
    <2>2. CASE \E q \in QueuesOf(way) : queued'[q][t] > 0
      BY <2>2 DEF Open
    <2>3. CASE way \in seen[t] /\ Resolved(t, way)
      BY <2>3, ResolvedGrows
    <2>4. CASE way \in seen[t] /\ Open(t, way)
      BY <2>1, <2>4 DEF Open, QueuesGrow, Holds
    <2> QED
      BY <2>2, <2>3, <2>4 DEF SeenQueued, Kept
  <1>3. Kept'
    BY <1>2 DEF Kept
  <1> QED
    BY <1>1, <1>3

\* The same steps only add messages, and rows and failures stay.
LEMMA WorldGrows ==
  ASSUME TypeInv,
         \/ CommitTx \/ FetchByHeight \/ Boot \/ Expire \/ UNCHANGED vars
         \/ \E k \in Task : Reward(k) \/ RewardFault(k)
  PROVE  StoreGrows /\ QueuesGrow /\ SeenQueued
  <1> USE DEF TypeInv, TypeOK
  <1>b. ASSUME NEW t \in Tx, NEW way, NEW q \in TxQueue, q \in QueuesOf(way), Bring(q, t, way)
        PROVE  QueuesGrow /\ SeenQueued
    <2>1. QueuesGrow /\ queued'[q][t] > 0
      BY <1>b, PublishGrows DEF Bring
    <2>2. SeenQueued
      BY <1>b, <2>1 DEF Bring, SeenQueued, TxStoreTypeOK
    <2> QED
      BY <2>1, <2>2
  <1>1. CASE CommitTx
    <2>1. committed + 1 \in Tx
      BY <1>1, TxBoundAssumption DEF CommitTx, Tx
    <2>2. QueuesGrow /\ SeenQueued
      BY <1>1, <2>1, <1>b, StillGrows DEF CommitTx, TxQueue, QueuesOf
    <2> QED
      BY <1>1, <2>2, StillGrows DEF CommitTx, tables, faults
  <1>2. CASE FetchByHeight
    <2>1. QueuesGrow /\ SeenQueued
      BY <1>2, <1>b, RefetchedAssumption DEF FetchByHeight, TxQueue, QueuesOf
    <2> QED
      BY <1>2, <2>1, StillGrows DEF FetchByHeight, tables, faults
  <1>3. CASE Boot \/ UNCHANGED vars
    BY <1>3, StillGrows DEF Boot, vars, txStoreVars, tables, faults
  <1>4. CASE Expire \/ \E k \in Task : Reward(k) \/ RewardFault(k)
    <2>1. UNCHANGED faults \/ \E t \in Tx : FaultFor(t)
      BY <1>4
      DEF Expire, ExpireRewards, Reward, RewardStep, FindReward, CacheReward, UpdateReward,
          CreateReward, FillReward, RewardFault, RewardFails, RewardTypeOK
    <2>2. UNCHANGED <<queued, transactions, seen>>
      BY <1>4 DEF Expire, Reward, RewardFault, tables
    <2>3. StoreGrows
      BY <2>1, <2>2, StillGrows, FaultForGrows DEF faults
    <2> QED
      BY <2>2, <2>3, StillGrows
  <1> QED
    BY <1>1, <1>2, <1>3, <1>4

LEMMA WorldKeeps ==
  ASSUME TypeInv, KeptInv,
         \/ CommitTx \/ FetchByHeight \/ Boot \/ Expire \/ UNCHANGED vars
         \/ \E k \in Task : Reward(k) \/ RewardFault(k)
  PROVE  KeptInv'
  <1>1. UNCHANGED job
    BY DEF CommitTx, FetchByHeight, Boot, Expire, Reward, RewardFault, vars, jobVars
  <1> QED
    BY <1>1, WorldGrows, StillKeeps

\* A delivery's queue is one of its way, and of no other.
LEMMA WayOfQueue ==
  ASSUME NEW w \in TxWorker, NEW way \in {"ws", "downtime"}
  PROVE  QueueOf(w) \in QueuesOf(way) <=> Way(w) = way
  <1>1. w \in DowntimeTxWorker => w \notin LatestTxWorker /\ w \notin MissedTxWorker
    BY TxWorkerAssumption
  <1> QED
    BY <1>1 DEF QueueOf, QueuesOf, Way, TxWorker

\* What is open on a way stays open on it when a message is delivered: the
\* message of a queue becomes a delivery of the same way.
LEMMA DeliverOpen ==
  ASSUME TypeInv, NEW w \in TxWorker, NEW u \in Tx, Deliver(w, u),
         NEW t \in Tx, NEW way \in {"ws", "downtime"}, Open(t, way)
  PROVE  Open(t, way)'
  <1> USE DEF TypeInv, TypeOK, TxStoreTypeOK
  <1>1. /\ job'[w].stage \in {"tx", "time"} /\ job'[w].tx = u
        /\ \A v \in TxWorker \ {w} : job'[v] = job[v]
    BY DEF Deliver, JobTypeOK, Idle
  <1>2. ASSUME NEW q \in QueuesOf(way), queued[q][t] > 0 PROVE Open(t, way)'
    <2>1. CASE t = u /\ q = QueueOf(w)
      <3>1. Way(w) = way
        BY <2>1, WayOfQueue
      <3> QED
        BY <1>1, <2>1, <3>1 DEF Open, Holds
    <2>2. CASE ~(t = u /\ q = QueueOf(w))
      <3>1. queued'[q][t] = queued[q][t]
        BY <2>2 DEF Deliver, Take, QueuesOf, TxQueue
      <3> QED
        BY <1>2, <3>1 DEF Open
    <2> QED
      BY <2>1, <2>2
  <1>3. ASSUME NEW v \in TxWorker, Way(v) = way, Holds(v, t) PROVE Open(t, way)'
    <2>1. v # w
      BY <1>3 DEF Deliver, Holds
    <2> QED
      BY <1>1, <1>3, <2>1 DEF Holds, Open
  <1> QED
    BY <1>2, <1>3 DEF Open

LEMMA DeliverKeeps ==
  ASSUME TypeInv, KeptInv, NEW w \in TxWorker, NEW u \in Tx, Deliver(w, u)
  PROVE  KeptInv'
  <1> USE DEF TypeInv, TypeOK, TxStoreTypeOK, KeptInv
  <1>1. UNCHANGED <<transactions, seen, failed>>
    BY DEF Deliver, tables, faults
  <1>2. /\ job'[w].stage \in {"tx", "time"}
        /\ \A v \in TxWorker \ {w} : job'[v] = job[v]
    BY DEF Deliver, JobTypeOK, Idle
  <1>3. PastSave'
    <2> SUFFICES ASSUME NEW v \in TxWorker, job'[v].stage \in {"users", "follow"}
                 PROVE  Resolved(job[v].tx, Way(v))'
      BY DEF PastSave
    <2>1. job'[v] = job[v] /\ Resolved(job[v].tx, Way(v))
      BY <1>2 DEF PastSave
    <2> QED
      BY <1>1, <2>1 DEF Resolved, Stored
  <1>4. Kept'
    BY <1>1, DeliverOpen DEF Kept, Resolved, Stored
  <1> QED
    BY <1>3, <1>4

\* A crash hands every unacknowledged message back to the queue it came from,
\* which is one of its way.
LEMMA CrashOpen ==
  ASSUME TypeInv, Crash, NEW t \in Tx, NEW way \in {"ws", "downtime"}, Open(t, way)
  PROVE  \E q \in QueuesOf(way) : queued'[q][t] > 0
  <1> USE DEF TypeInv, TypeOK, TxStoreTypeOK
  <1> DEFINE held(q) == {w \in TxWorker : QueueOf(w) = q /\ Holds(w, t)}
  <1>1. ASSUME NEW q \in TxQueue
        PROVE  /\ IsFiniteSet(held(q))
               /\ queued[q][t] > 0 \/ Cardinality(held(q)) # 0 => queued'[q][t] > 0
    <2>1. IsFiniteSet(held(q))
      BY FS_Subset, TxWorkerAssumption
    <2> DEFINE c == Cardinality(held(q))
               n == queued[q][t]
    <2>2. c \in Nat /\ n \in Nat
      BY <2>1, FS_CardinalityType
    <2>3. queued'[q][t] = n + c
      BY DEF Crash, Requeue
    <2>4. n > 0 \/ c # 0 => n + c > 0
      <3> HIDE DEF c, n
      <3> QED
        BY <2>2
    <2> QED
      BY <2>1, <2>3, <2>4
  <1>2. QueuesOf(way) \subseteq TxQueue
    BY DEF QueuesOf, TxQueue
  <1>3. CASE \E q \in QueuesOf(way) : queued[q][t] > 0
    BY <1>1, <1>2, <1>3
  <1>4. ASSUME NEW w \in TxWorker, Way(w) = way, Holds(w, t)
        PROVE  \E q \in QueuesOf(way) : queued'[q][t] > 0
    <2>1. QueueOf(w) \in QueuesOf(way)
      BY <1>4, WayOfQueue
    <2>2. w \in held(QueueOf(w))
      BY <1>4
    <2>3. Cardinality(held(QueueOf(w))) # 0
      BY <1>1, <1>2, <2>1, <2>2, FS_EmptySet
    <2> QED
      BY <1>1, <1>2, <2>1, <2>3
  <1> QED
    BY <1>3, <1>4 DEF Open

LEMMA CrashKeeps ==
  ASSUME TypeInv, KeptInv, Crash
  PROVE  KeptInv'
  <1> USE DEF TypeInv, TypeOK, TxStoreTypeOK, KeptInv
  <1>1. UNCHANGED <<transactions, seen, failed>>
    BY DEF Crash, tables, faults
  <1>2. PastSave'
    BY IdleType DEF PastSave, Crash, Requeue
  <1>3. ASSUME NEW t \in Tx, NEW way \in {"ws", "downtime"}, Open(t, way)
        PROVE  Open(t, way)'
    BY <1>3, CrashOpen DEF Open
  <1>4. Kept'
    BY <1>1, <1>3 DEF Kept, Resolved, Stored
  <1> QED
    BY <1>2, <1>4

LEMMA InitKeptInv == Init => KeptInv
  BY IdleType DEF Init, TxStoreInit, JobInit, KeptInv, Kept, PastSave

LEMMA NextKeptInv == TypeInv /\ KeptInv /\ [Next]_vars => KeptInv'
  <1> SUFFICES ASSUME TypeInv, KeptInv, [Next]_vars PROVE KeptInv'
    OBVIOUS
  <1>1. ASSUME NEW w \in TxWorker, Handle(w) \/ HandleFails(w) PROVE KeptInv'
    <2>1. Progresses(w)
      BY <1>1, FetchProgresses, SaveTxProgresses, UsersProgresses, FollowProgresses
      DEF Handle, HandleFails, TxStep, TxFails
    <2> QED
      BY <2>1, ProgressKeeps
  <1>2. CASE Consume
    BY <1>2, DeliverKeeps DEF Consume
  <1> QED
    BY <1>1, <1>2, WorldKeeps, CrashKeeps DEF Next

\* A transaction whose hash came through DOWNTIME_TXS is stored, queued or held
\* by a delivery, and one the WebSocket told of too unless a request for it
\* failed: for any transactions, deliveries, failures and crashes, and also
\* when one comes both ways.
THEOREM NoTxUnaccounted == Spec => []TxAccounted
  BY KeptAccounts, InitKeptInv, NextKeptInv, TypeInvariant, PTL DEF Spec

-----------------------------------------------------------------------------
(* What follows the save: votes and contract logs *)

\* Nothing more is owed to t after its save, or what is owed is lost.
FollowedUp(t) ==
    \/ failed[t] > 0
    \/ Kind[t] = "vote" /\ votes[Sender[t]] # 0
    \/ Kind[t] = "execute" /\ (t \in contractLogs \/ t \in early)

Owing(t) == Kind[t] \in {"vote", "execute"}

\* The WebSocket's way keeps a transaction until it is followed up, also past
\* its row: a crash between the row and the follow-up brings it back.
FollowsUp ==
    \A t \in Tx : Owing(t) /\ "ws" \in seen[t] => FollowedUp(t) \/ Open(t, "ws")

\* The contract never goes away: an execute that did not overtake it finds it.
HeldEarly ==
    \A w \in TxWorker : \A t \in Tx :
        Holds(w, t) /\ Kind[t] = "execute" => contract \/ t \in early

FollowInv == FollowsUp /\ HeldEarly

FollowGrows ==
    /\ \A t \in Tx : Owing(t) /\ FollowedUp(t) => FollowedUp(t)'
    /\ contract => contract'
    /\ early \subseteq early'

\* A delivery takes on nothing new, and on the WebSocket's way lets go of what
\* is owed something only once it is followed up or published again.
OwesUntil(w) ==
    /\ \A v \in TxWorker : v # w => job'[v] = job[v]
    /\ \A t \in Tx : Holds(w, t)' => Holds(w, t)
    /\ \A t \in Tx : Owing(t) /\ Holds(w, t) /\ Way(w) = "ws" =>
           \/ Holds(w, t)' \/ FollowedUp(t)'
           \/ \E q \in QueuesOf("ws") : queued'[q][t] > 0

LEMMA FollowIsSafe == TypeInv /\ FollowInv => VotesFollow /\ LogLossCauses
  <1> SUFFICES ASSUME TypeInv, FollowInv, NEW t \in Tx, "ws" \in seen[t], ~Pending(t),
                      Owing(t)
               PROVE  FollowedUp(t)
    BY DEF VotesFollow, LogLossCauses, Owing, FollowedUp, TypeInv, TypeOK, TxStoreTypeOK
  <1>1. ~Open(t, "ws")
    BY DEF Open, Pending, QueuesOf, TxQueue
  <1> QED
    BY <1>1 DEF FollowInv, FollowsUp

LEMMA InitFollowInv == Init => FollowInv
  BY IdleType DEF Init, TxStoreInit, JobInit, FollowInv, FollowsUp, HeldEarly, Holds

\* These four facts about a step of w are all that keeps the invariant.
LEMMA FollowKeeps ==
  ASSUME TypeInv, FollowInv, NEW w \in TxWorker,
         FollowGrows, QueuesGrow, SeenQueued, OwesUntil(w)
  PROVE  FollowInv'
  <1> USE DEF FollowInv
  <1>q. QueuesOf("ws") \subseteq TxQueue
    BY DEF QueuesOf, TxQueue
  <1>1. HeldEarly'
    <2> SUFFICES ASSUME NEW v \in TxWorker, NEW t \in Tx, Holds(v, t)', Kind[t] = "execute"
                 PROVE  (contract \/ t \in early)'
      BY DEF HeldEarly
    <2>1. Holds(v, t)
      BY DEF OwesUntil, Holds
    <2> QED
      BY <2>1 DEF HeldEarly, FollowGrows
  <1>2. ASSUME NEW t \in Tx, Owing(t), "ws" \in seen'[t]
        PROVE  FollowedUp(t)' \/ Open(t, "ws")'
    <2>1. CASE \E q \in QueuesOf("ws") : queued'[q][t] > 0
      BY <2>1 DEF Open
    <2>2. CASE "ws" \in seen[t] /\ FollowedUp(t)
      BY <1>2, <2>2 DEF FollowGrows
    <2>3. ASSUME NEW v \in TxWorker, Way(v) = "ws", Holds(v, t)
          PROVE  FollowedUp(t)' \/ Open(t, "ws")'
      <3>1. CASE v = w
        BY <1>2, <2>3, <3>1 DEF OwesUntil, Open
      <3>2. CASE v # w
        BY <2>3, <3>2 DEF OwesUntil, Holds, Open
      <3> QED
        BY <3>1, <3>2
    <2>4. CASE \E q \in QueuesOf("ws") : queued[q][t] > 0
      BY <1>q, <2>4 DEF QueuesGrow, Open
    <2> QED
      BY <1>2, <2>1, <2>2, <2>3, <2>4 DEF SeenQueued, FollowsUp, Open
  <1>3. FollowsUp'
    BY <1>2 DEF FollowsUp, Owing
  <1> QED
    BY <1>1, <1>3

\* A handler that goes on with its transaction.
LEMMA StaysOwing ==
  ASSUME TypeInv, NEW w \in TxWorker,
         \/ To(w, "time") \/ To(w, "save") \/ To(w, "follow")
         \/ \E r \in Role, s \in {"find", "write", "done"}, n \in Nat : UserTo(w, r, s, n),
         job[w].stage # "idle"
  PROVE  OwesUntil(w)
  <1>1. /\ \A v \in TxWorker : v # w => job'[v] = job[v]
        /\ job'[w].tx = job[w].tx /\ job'[w].stage # "idle"
    BY DEF TypeInv, TypeOK, JobTypeOK, TxJob, To, UserTo
  <1> QED
    BY <1>1 DEF OwesUntil, Holds

\* A handler that is over.
LEMMA EndOwes ==
  ASSUME TypeInv, NEW w \in TxWorker, NEW t \in Tx, t = job[w].tx, End(w),
         Owing(t) /\ Way(w) = "ws" =>
             FollowedUp(t)' \/ \E q \in QueuesOf("ws") : queued'[q][t] > 0
  PROVE  OwesUntil(w)
  BY IdleType DEF TypeInv, TypeOK, JobTypeOK, End, OwesUntil, Holds

LEMMA AfterSaveOwes ==
  ASSUME TypeInv, NEW w \in TxWorker, job[w].stage # "idle", AfterSave(w)
  PROVE  OwesUntil(w)
  <1>1. PICK t \in Tx : t = job[w].tx
    BY DEF TypeInv, TypeOK, JobTypeOK, TxJob
  <1>2. Owing(t) /\ Way(w) = "ws" => Follows(w, t)
    BY DEF Owing, Way, Follows
  <1> QED
    BY <1>1, <1>2, StaysOwing, EndOwes DEF AfterSave

LEMMA RetryOwes ==
  ASSUME TypeInv, NEW w \in TxWorker, Retry(w)
  PROVE  OwesUntil(w)
  <1>1. PICK t \in Tx : t = job[w].tx
    BY DEF TypeInv, TypeOK, JobTypeOK, TxJob
  <1>2. RetryQueue(w) \in TxQueue /\ RetryQueue(w) \in QueuesOf(Way(w))
    BY DEF RetryQueue, TxQueue, QueuesOf, Way
  <1>3. queued'[RetryQueue(w)][t] > 0
    BY <1>1, <1>2, PublishGrows DEF Retry, TypeInv, TypeOK
  <1> QED
    BY <1>1, <1>2, <1>3, EndOwes DEF Retry

\* Only SaveVoter, SaveContract and SaveLog touch what follows the save; every
\* other handler step changes at most the failures.
LEMMA OthersGrow ==
  ASSUME UNCHANGED <<votes, contract, contractLogs, early>>, StoreGrows
  PROVE  FollowGrows
  BY DEF FollowGrows, FollowedUp, StoreGrows

LEMMA HandleGrows ==
  ASSUME TypeInv, KeptInv, NEW w \in TxWorker, TxStep(w) \/ TxFails(w)
  PROVE  StoreGrows /\ QueuesGrow /\ SeenQueued /\ FollowGrows
  <1>1. StoreGrows /\ QueuesGrow /\ SeenQueued
    BY FetchProgresses, SaveTxProgresses, UsersProgresses, FollowProgresses
    DEF TxStep, TxFails, Progresses
  <1>t. PICK t \in Tx : t = job[w].tx
    BY DEF TypeInv, TypeOK, JobTypeOK, TxJob
  <1>2. CASE SaveVoter(w)
    <2>1. Sender[t] \in Address /\ t # 0
      BY TxAssumption, TxFacts
    <2>2. \A a \in Address : votes[a] # 0 => votes'[a] # 0
      BY <1>2, <1>t, <2>1 DEF SaveVoter, TypeInv, TypeOK, TxStoreTypeOK
    <2>3. \A u \in Tx : Sender[u] \in Address
      BY TxAssumption
    <2> QED
      BY <1>1, <1>2, <2>2, <2>3 DEF SaveVoter, FollowGrows, FollowedUp, faults
  <1>3. CASE SaveContract(w) \/ SaveLog(w)
    BY <1>1, <1>3 DEF SaveContract, SaveLog, FollowGrows, FollowedUp, faults
  <1>4. CASE UNCHANGED <<votes, contract, contractLogs, early>>
    BY <1>1, <1>4, OthersGrow
  <1>5. SaveVoter(w) \/ SaveContract(w) \/ SaveLog(w)
          \/ UNCHANGED <<votes, contract, contractLogs, early>>
    BY DEF TxStep, TxFails, FetchTx, FetchTime, SaveTx, FindUser, WriteUser, EndUsers,
           FetchTxFails, FetchTimeFails, FetchTimeUnusable, SaveTxFails, UserFails,
           FollowFails, txStoreVars, tables, restVars
  <1> QED
    BY <1>1, <1>2, <1>3, <1>4, <1>5

LEMMA HandleOwes ==
  ASSUME TypeInv, KeptInv, FollowInv, NEW w \in TxWorker, TxStep(w) \/ TxFails(w)
  PROVE  OwesUntil(w)
  <1>t. PICK t \in Tx : t = job[w].tx
    BY DEF TypeInv, TypeOK, JobTypeOK, TxJob
  <1>1. CASE FetchTx(w) \/ FetchTime(w)
    BY <1>1, StaysOwing DEF FetchTx, FetchTime
  <1>2. CASE FetchTxFails(w) \/ FetchTimeUnusable(w)
    BY <1>2, RetryOwes DEF FetchTxFails, FetchTimeUnusable
  <1>3. CASE FetchTimeFails(w)
    <2>1. failed'[t] > 0
      BY <1>3, <1>t, FaultForGrows DEF FetchTimeFails, tables, TypeInv, TypeOK
    <2> QED
      BY <1>3, <1>t, <2>1, RetryOwes, StaysOwing, EndOwes DEF FetchTimeFails, FollowedUp
  <1>4. CASE SaveTxFails(w)
    BY <1>4, RetryOwes, AfterSaveOwes DEF SaveTxFails
  <1>5. CASE SaveTx(w)
    <2>1. CASE AfterSave(w)
      BY <1>5, <2>1, AfterSaveOwes DEF SaveTx
    <2>2. CASE ~Stored(job[w].tx)
      <3>1. /\ job'[w].stage = "users" /\ job'[w].tx = job[w].tx
            /\ \A v \in TxWorker : v # w => job'[v] = job[v]
        BY <1>5, <2>2 DEF SaveTx, TypeInv, TypeOK, JobTypeOK, TxJob
      <3> QED
        BY <1>5, <3>1 DEF SaveTx, OwesUntil, Holds
    <2> QED
      BY <1>5, <2>1, <2>2 DEF SaveTx
  <1>6. ASSUME NEW r \in Role, FindUser(w, r) \/ WriteUser(w, r) \/ UserFails(w, r)
        PROVE  OwesUntil(w)
    <2>1. Party(w, r) \in Address
      BY <1>6, PartyType DEF FindUser, WriteUser, UserFails, TypeInv, TypeOK, HandlerInv
    <2>2. users[Party(w, r)] \in Nat /\ 0 \in Nat
      BY <2>1 DEF TypeInv, TypeOK, TxStoreTypeOK
    <2> QED
      BY <1>6, <2>2, StaysOwing DEF FindUser, WriteUser, UserFails
  <1>7. CASE EndUsers(w)
    BY <1>7, AfterSaveOwes DEF EndUsers
  <1>8. CASE SaveVoter(w)
    <2>1. Sender[t] \in Address /\ t # 0
      BY TxAssumption, TxFacts
    <2>2. votes'[Sender[t]] # 0
      BY <1>8, <1>t, <2>1 DEF SaveVoter, TypeInv, TypeOK, TxStoreTypeOK
    <2> QED
      BY <1>8, <1>t, <2>2, EndOwes DEF SaveVoter, FollowedUp
  <1>9. CASE SaveContract(w)
    BY <1>9, <1>t, EndOwes DEF SaveContract, Owing
  <1>10. CASE SaveLog(w)
    <2>1. contract \/ t \in early
      BY <1>10, <1>t DEF SaveLog, FollowInv, HeldEarly, Holds
    <2>2. Way(w) = "ws" => Stored(t) \/ failed[t] > 0
      BY <1>10, <1>t DEF SaveLog, KeptInv, PastSave, Resolved
    <2>3. Way(w) = "ws" => FollowedUp(t)'
      BY <1>10, <1>t, <2>1, <2>2 DEF SaveLog, FollowedUp, faults
    <2> QED
      BY <1>10, <1>t, <2>3, EndOwes DEF SaveLog
  <1>11. CASE FollowFails(w)
    <2>1. failed'[t] > 0
      BY <1>11, <1>t, FaultForGrows DEF FollowFails, tables, TypeInv, TypeOK
    <2> QED
      BY <1>11, <1>t, <2>1, EndOwes DEF FollowFails, FollowedUp
  <1> QED
    BY <1>1, <1>2, <1>3, <1>4, <1>5, <1>6, <1>7, <1>8, <1>9, <1>10, <1>11
    DEF TxStep, TxFails

\* A step that moves no handler and adds no row.
LEMMA StillFollows ==
  ASSUME TypeInv, FollowInv, StoreGrows, QueuesGrow, SeenQueued, UNCHANGED job,
         UNCHANGED <<votes, contract, contractLogs, early>>
  PROVE  FollowInv'
  <1> USE DEF FollowInv
  <1>1. FollowGrows
    BY OthersGrow
  <1>2. HeldEarly'
    BY DEF HeldEarly, Holds
  <1>3. ASSUME NEW t \in Tx, Owing(t), "ws" \in seen'[t]
        PROVE  FollowedUp(t)' \/ Open(t, "ws")'
    <2>1. QueuesOf("ws") \subseteq TxQueue
      BY DEF QueuesOf, TxQueue
    <2>2. CASE \E q \in QueuesOf("ws") : queued'[q][t] > 0
      BY <2>2 DEF Open
    <2>3. CASE "ws" \in seen[t] /\ FollowedUp(t)
      BY <1>1, <1>3, <2>3 DEF FollowGrows
    <2>4. CASE Open(t, "ws")
      BY <2>1, <2>4 DEF Open, QueuesGrow, Holds
    <2> QED
      BY <1>3, <2>2, <2>3, <2>4 DEF SeenQueued, FollowsUp
  <1>4. FollowsUp'
    BY <1>3 DEF FollowsUp, Owing
  <1> QED
    BY <1>2, <1>4

LEMMA NextFollowInv == TypeInv /\ KeptInv /\ FollowInv /\ [Next]_vars => FollowInv'
  <1> SUFFICES ASSUME TypeInv, KeptInv, FollowInv, [Next]_vars PROVE FollowInv'
    OBVIOUS
  <1>1. ASSUME NEW w \in TxWorker, Handle(w) \/ HandleFails(w) PROVE FollowInv'
    <2>1. TxStep(w) \/ TxFails(w)
      BY <1>1 DEF Handle, HandleFails
    <2> QED
      BY <2>1, HandleGrows, HandleOwes, FollowKeeps
  <1>2. ASSUME NEW w \in TxWorker, NEW u \in Tx, Deliver(w, u) PROVE FollowInv'
    <2>1. UNCHANGED <<votes, contract, contractLogs, seen, failed>> /\ early \subseteq early'
      BY <1>2 DEF Deliver, tables, faults
    <2>2. FollowsUp'
      BY <1>2, <2>1, DeliverOpen DEF FollowInv, FollowsUp, FollowedUp, Owing
    <2>3. /\ job'[w].tx = u
          /\ \A v \in TxWorker \ {w} : job'[v] = job[v]
          /\ Kind[u] = "execute" => contract \/ u \in early'
      BY <1>2 DEF Deliver, TypeInv, TypeOK, JobTypeOK, Idle
    <2>4. HeldEarly'
      BY <2>1, <2>3 DEF FollowInv, HeldEarly, Holds
    <2> QED
      BY <2>2, <2>4 DEF FollowInv
  <1>3. CASE Crash
    <2>1. UNCHANGED <<votes, contract, contractLogs, early, seen, failed>>
      BY <1>3 DEF Crash, tables, faults
    <2>2. \A t \in Tx : Open(t, "ws") => Open(t, "ws")'
      BY <1>3, CrashOpen DEF Open
    <2>3. FollowsUp'
      BY <2>1, <2>2 DEF FollowInv, FollowsUp, FollowedUp, Owing
    <2>4. HeldEarly'
      BY <1>3, IdleType DEF Crash, Requeue, HeldEarly, Holds
    <2> QED
      BY <2>3, <2>4 DEF FollowInv
  <1>4. CASE \/ CommitTx \/ FetchByHeight \/ Boot \/ Expire \/ UNCHANGED vars
             \/ \E k \in Task : Reward(k) \/ RewardFault(k)
    <2>1. StoreGrows /\ QueuesGrow /\ SeenQueued
      BY <1>4, WorldGrows
    <2>2. UNCHANGED <<job, votes, contract, contractLogs, early>>
      BY <1>4 DEF CommitTx, FetchByHeight, Boot, Expire, Reward, RewardFault, vars,
                  txStoreVars, tables, jobVars
    <2> QED
      BY <2>1, <2>2, StillFollows
  <1> QED
    BY <1>1, <1>2, <1>3, <1>4 DEF Next, Consume

LEMMA FollowInvariant == Spec => []FollowInv
  BY InitKeptInv, NextKeptInv, InitFollowInv, NextFollowInv, TypeInvariant, PTL DEF Spec

\* A vote the WebSocket told of has a row for its voter once no message about it
\* is left, unless a request failed: for any deliveries and crashes, also a crash
\* between the transaction's row and the vote's.
THEOREM VotesAreSaved == Spec => []VotesFollow
  BY FollowInvariant, TypeInvariant, FollowIsSafe, PTL

\* An execute the WebSocket told of has its log once no message about it is left,
\* unless a request failed or it was delivered before its contract's row was
\* saved: there is no third way to lose a log.
THEOREM LogsHaveCauses == Spec => []LogLossCauses
  BY FollowInvariant, TypeInvariant, FollowIsSafe, PTL

=============================================================================

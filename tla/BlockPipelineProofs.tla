------------------------- MODULE BlockPipelineProofs ------------------------
(***************************************************************************)
(* Theorems about BlockPipeline for every chain length, prefetch window    *)
(* and number of failures, ticks and crashes.                              *)
(***************************************************************************)
EXTENDS BlockPipeline, FiniteSetTheorems, TLAPS

FiniteBlocks == IsFiniteSet(blocks)

\* A handler that has got past the choice of its height works on a block.
ActiveHeights ==
    \A w \in Worker : job[w].stage \notin {"idle", "height"} => job[w].height \in Height

\* The type invariant with what the row counts and the saves need.
StoreInv == StoreTypeOK /\ FiniteBlocks
JobInv == JobTypeOK /\ ActiveHeights
TypeInv == StoreInv /\ JobInv /\ TypeOK

LEMMA HeightFacts ==
  /\ Height \subseteq Nat /\ Height \subseteq 0 .. MaxHeight
  /\ 0 .. MaxHeight \subseteq Nat
  /\ 1 \in Height /\ 0 \in 0 .. MaxHeight
  BY BoundAssumption DEF Height

LEMMA IdleType == Idle \in Job /\ Idle.stage = "idle"
  BY HeightFacts DEF Idle, Job, Stage

LEMMA JobInitInv == JobInit => JobInv
  BY IdleType DEF JobInit, JobInv, JobTypeOK, ActiveHeights

LEMMA InitTypeInv == Init => TypeInv
  <1> SUFFICES ASSUME Init PROVE TypeInv
    OBVIOUS
  <1>1. StoreInv
    BY FS_EmptySet, HeightFacts, BoundAssumption
    DEF Init, StoreInit, StoreInv, StoreTypeOK, FiniteBlocks, Row, Feed, Loss
  <1>2. JobInv
    BY JobInitInv DEF Init
  <1>3. SyncTypeOK
    BY DEF Init, SyncInit, SyncTypeOK, FeedInit, FeedTypeOK
  <1>4. BootTypeOK
    BY HeightFacts DEF Init, BootInit, BootTypeOK, InitCount, CatchUp, CountOff, CatchUpAt
  <1> QED
    BY <1>1, <1>2, <1>3, <1>4 DEF Init, TypeInv, TypeOK, StoreInv, JobInv

LEMMA PublishType ==
  ASSUME queued \in [Queue -> [Height -> Nat]], NEW q \in Queue, NEW H,
         Publish(q, H)
  PROVE  queued' \in [Queue -> [Height -> Nat]]
  BY DEF Publish

LEMMA AnnounceType ==
  ASSUME feeds \in [Height -> SUBSET Feed], NEW f \in Feed, NEW H,
         Announce(H, f)
  PROVE  feeds' \in [Height -> SUBSET Feed]
  BY DEF Announce

LEMMA TakeType ==
  ASSUME queued \in [Queue -> [Height -> Nat]], NEW q \in Queue,
         NEW h \in Height, Take(q, h)
  PROVE  queued' \in [Queue -> [Height -> Nat]]
  BY DEF Take

LEMMA SaveBlockType ==
  ASSUME blocks \in SUBSET Row, FiniteBlocks, lost \in [Height -> SUBSET Loss],
         NEW h \in Height, NEW x \in Hash, SaveBlock(h, x)
  PROVE  /\ blocks' \in SUBSET Row
         /\ FiniteBlocks'
         /\ lost' \in [Height -> SUBSET Loss]
  <1>1. [blocknumber |-> h, blockhash |-> x] \in Row
    BY DEF Row
  <1>2. blocks' \in SUBSET Row
    BY <1>1 DEF SaveBlock
  <1>3. FiniteBlocks'
    BY FS_AddElement DEF SaveBlock, FiniteBlocks
  <1>4. lost' \in [Height -> SUBSET Loss]
    BY DEF SaveBlock, Loss
  <1> QED
    BY <1>2, <1>3, <1>4

LEMMA GiveUpType ==
  ASSUME lost \in [Height -> SUBSET Loss], NEW h \in Height, NEW l \in Loss,
         GiveUp(h, l)
  PROVE  lost' \in [Height -> SUBSET Loss]
  BY DEF GiveUp
-----------------------------------------------------------------------------
(* The handlers of BlockConsumers *)

LEMMA ToInv ==
  ASSUME JobInv, NEW w \in Worker, NEW s \in Stage, To(w, s),
         job[w].height \in Height \/ s = "height"
  PROVE  JobInv'
  BY DEF To, JobInv, JobTypeOK, ActiveHeights, Job

LEMMA WorkOnInv ==
  ASSUME JobInv, NEW w \in Worker, NEW s \in Stage, NEW h \in Height, WorkOn(w, s, h)
  PROVE  JobInv'
  <1>1. [job[w] EXCEPT !.stage = s, !.height = h] \in Job
    BY HeightFacts DEF JobInv, JobTypeOK, Job
  <1> QED
    BY <1>1 DEF WorkOn, JobInv, JobTypeOK, ActiveHeights, Job

LEMMA EndInv ==
  ASSUME JobInv, NEW w \in Worker, End(w)
  PROVE  JobInv'
  BY IdleType DEF End, JobInv, JobTypeOK, ActiveHeights

LEMMA DeliverInv ==
  ASSUME StoreInv, JobInv, NEW w \in MessageWorker, NEW h \in Height, Deliver(w, h)
  PROVE  StoreInv' /\ JobInv'
  <1>1. QueueOf(w) \in Queue
    BY DEF QueueOf, Queue
  <1>2. StoreInv'
    BY <1>1, TakeType
    DEF Deliver, StoreInv, StoreTypeOK, FiniteBlocks, tables, redis, faults
  <1>3. JobInv'
    BY IdleType, HeightFacts
    DEF Deliver, JobInv, JobTypeOK, ActiveHeights, Job, Stage, Worker, Idle
  <1> QED
    BY <1>2, <1>3

LEMMA FetchBlockInv ==
  ASSUME StoreInv, JobInv, NEW w \in Worker, FetchBlock(w)
  PROVE  StoreInv' /\ JobInv'
  <1>1. job[w].height \in Height
    BY DEF JobInv, ActiveHeights, FetchBlock
  <1>2. StoreInv'
    BY <1>1 DEF FetchBlock, StoreInv, StoreTypeOK, FiniteBlocks, tables, redis, faults
  <1>3. JobInv'
    BY <1>1, ToInv DEF FetchBlock, Stage
  <1> QED
    BY <1>2, <1>3

LEMMA FaultForType ==
  ASSUME NEW h \in Height, StoreTypeOK, FaultFor(h)
  PROVE  failed' \in [Height -> Nat] /\ faultsLeft' \in Nat
  BY DEF FaultFor, StoreTypeOK

LEMMA FetchBlockFailsInv ==
  ASSUME StoreInv, JobInv, NEW w \in Worker, FetchBlockFails(w)
  PROVE  StoreInv' /\ JobInv'
  <1> DEFINE h == job[w].height
  <1>1. h \in Height
    BY DEF JobInv, ActiveHeights, FetchBlockFails
  <1>2. failed' \in [Height -> Nat] /\ faultsLeft' \in Nat
    BY <1>1, FaultForType DEF FetchBlockFails, StoreInv
  <1>3. queued' \in [Queue -> [Height -> Nat]]
    BY PublishType DEF FetchBlockFails, StoreInv, StoreTypeOK, Queue
  <1>4. lost' \in [Height -> SUBSET Loss]
    BY <1>1, GiveUpType DEF FetchBlockFails, StoreInv, StoreTypeOK, Loss
  <1>5. StoreInv'
    BY <1>2, <1>3, <1>4
    DEF FetchBlockFails, StoreInv, StoreTypeOK, FiniteBlocks, tables, redis
  <1>6. JobInv'
    BY EndInv DEF FetchBlockFails
  <1> QED
    BY <1>5, <1>6

LEMMA SaveInv ==
  ASSUME StoreInv, JobInv, NEW w \in Worker, Save(w)
  PROVE  StoreInv' /\ JobInv'
  <1>1. job[w].height \in Height
    BY DEF JobInv, ActiveHeights, Save
  <1>2. job[w].height \in Hash
    BY <1>1, HeightFacts DEF Hash
  <1>3. blocks' \in SUBSET Row /\ FiniteBlocks' /\ lost' \in [Height -> SUBSET Loss]
    BY <1>1, <1>2, SaveBlockType DEF Save, StoreInv, StoreTypeOK
  <1>4. StoreInv'
    BY <1>3 DEF Save, StoreInv, StoreTypeOK, redis, faults
  <1>5. JobInv'
    BY <1>1, ToInv DEF Save, Stage
  <1> QED
    BY <1>4, <1>5

LEMMA SaveFailsInv ==
  ASSUME StoreInv, JobInv, NEW w \in Worker, SaveFails(w)
  PROVE  StoreInv' /\ JobInv'
  <1> DEFINE h == job[w].height
  <1>1. h \in Height
    BY DEF JobInv, ActiveHeights, SaveFails
  <1>2. failed' \in [Height -> Nat] /\ faultsLeft' \in Nat
    BY <1>1, FaultForType DEF SaveFails, StoreInv
  <1>3. queued' \in [Queue -> [Height -> Nat]]
    BY PublishType DEF SaveFails, StoreInv, StoreTypeOK, Queue
  <1>4. lost' \in [Height -> SUBSET Loss]
    BY <1>1, GiveUpType DEF SaveFails, StoreInv, StoreTypeOK, Loss
  <1>5. StoreInv'
    BY <1>2, <1>3, <1>4 DEF SaveFails, StoreInv, StoreTypeOK, FiniteBlocks, tables, redis
  <1>6. JobInv'
    BY <1>1, EndInv, ToInv DEF SaveFails, Stage
  <1> QED
    BY <1>5, <1>6

-----------------------------------------------------------------------------
(* The counters *)

LEMMA CountInv ==
  ASSUME JobInv, NEW w \in Worker, NEW c \in {"get", "db", "init", "add", "done"}, NEW n \in Nat,
         Count(w, c, n)
  PROVE  JobInv'
  <1>1. [job[w] EXCEPT !.cnt = c, !.seen = n] \in Job
    BY DEF JobInv, JobTypeOK, Job
  <1> QED
    BY <1>1 DEF Count, JobInv, JobTypeOK, ActiveHeights, Job

LEMMA CreditInv ==
  ASSUME JobInv, NEW w \in Worker, NEW c \in {"find", "write", "done"}, NEW n \in Nat,
         Credit(w, c, n)
  PROVE  JobInv'
  <1>1. [job[w] EXCEPT !.val = c, !.vseen = n] \in Job
    BY DEF JobInv, JobTypeOK, Job
  <1> QED
    BY <1>1 DEF Credit, JobInv, JobTypeOK, ActiveHeights, Job

LEMMA StartCountInv ==
  ASSUME StoreInv, JobInv, NEW w \in Worker, NEW g \in BOOLEAN, NEW s \in BOOLEAN,
         StartCount(w, g, s), faultsLeft' \in Nat, UNCHANGED failed
  PROVE  StoreInv' /\ JobInv'
  <1>1. job[w].height \in Height
    BY DEF JobInv, ActiveHeights, StartCount
  <1>2. StoreInv'
    BY <1>1, HeightFacts DEF StartCount, StoreInv, StoreTypeOK, FiniteBlocks, tables
  <1>3. JobInv'
    BY CountInv DEF StartCount, StoreInv, StoreTypeOK
  <1> QED
    BY <1>2, <1>3

LEMMA UpdateStepInv ==
  ASSUME StoreInv, JobInv, NEW w \in Worker, UpdateStep(w)
  PROVE  StoreInv' /\ JobInv'
  <1> DEFINE h == job[w].height
  <1> USE DEF StoreInv, StoreTypeOK, FiniteBlocks, storeVars, tables, redis, faults
  <1>1. CASE ReadCount(w)
    BY <1>1, StartCountInv DEF ReadCount
  <1>2. CASE CountRows(w)
    <2>1. Cardinality(blocks) \in Nat
      BY FS_CardinalityType
    <2> QED
      BY <1>2, <2>1, CountInv DEF CountRows
  <1>3. CASE WriteCount(w)
    <2>1. job[w].seen \in Nat
      BY DEF JobInv, JobTypeOK, Job
    <2> QED
      BY <1>3, <2>1, CountInv DEF WriteCount, EndCount
  <1>4. CASE FindValidator(w)
    <2>1. h \in Height
      BY <1>4 DEF JobInv, ActiveHeights, FindValidator
    <2>2. validated[Proposer[h]] \in Nat
      BY <2>1, ProposerAssumption
    <2> QED
      BY <1>4, <2>2, CreditInv DEF FindValidator
  <1>5. CASE WriteValidator(w)
    <2>1. job[w].vseen \in Nat
      BY DEF JobInv, JobTypeOK, Job
    <2>2. validated \in [Validator -> Nat]
      OBVIOUS
    <2>3. \/ validated' = validated
          \/ validated' = [validated EXCEPT ![Proposer[h]] = job[w].vseen + 1]
      BY <1>5 DEF WriteValidator
    <2>4. validated' \in [Validator -> Nat]
      BY <2>1, <2>2, <2>3
    <2> QED
      BY <1>5, <2>4, CreditInv DEF WriteValidator
  <1>6. CASE MarkLatest(w)
    <2>1. h \in Height
      BY <1>6 DEF JobInv, ActiveHeights, MarkLatest, Updated
    <2> QED
      BY <1>6, <2>1, ToInv, HeightFacts DEF MarkLatest, Stage
  <1>7. CASE Ack(w)
    BY <1>7, EndInv DEF Ack
  <1> QED
    BY <1>1, <1>2, <1>3, <1>4, <1>5, <1>6, <1>7 DEF UpdateStep

LEMMA UpdateFailsInv ==
  ASSUME StoreInv, JobInv, NEW w \in Worker, UpdateFails(w)
  PROVE  StoreInv' /\ JobInv'
  <1> USE DEF StoreInv, StoreTypeOK, FiniteBlocks, tables, redis, Fault
  <1>1. CASE ReadCountFails(w)
    BY <1>1, StartCountInv DEF ReadCountFails
  <1>2. CASE CountRowsFails(w)
    <2>1. job[w].height \in Height
      BY <1>2 DEF JobInv, ActiveHeights, CountRowsFails
    <2> QED
      BY <1>2, <2>1, ToInv, CountInv DEF CountRowsFails, Stage
  <1>3. CASE WriteCountFails(w)
    BY <1>3, CountInv DEF WriteCountFails, EndCount
  <1>4. CASE UpsertValidatorFails(w)
    BY <1>4, CreditInv DEF UpsertValidatorFails
  <1>5. CASE MarkLatestFails(w)
    <2>1. job[w].height \in Height
      BY <1>5 DEF JobInv, ActiveHeights, MarkLatestFails, Updated
    <2> QED
      BY <1>5, <2>1, ToInv DEF MarkLatestFails, Stage
  <1> QED
    BY <1>1, <1>2, <1>3, <1>4, <1>5 DEF UpdateFails

LEMMA HandleInv ==
  ASSUME StoreInv, JobInv, NEW w \in MessageWorker, Handle(w) \/ HandleFails(w)
  PROVE  StoreInv' /\ JobInv'
  BY FetchBlockInv, SaveInv, UpdateStepInv, FetchBlockFailsInv, SaveFailsInv, UpdateFailsInv
  DEF Handle, HandleFails, MessageStep, MessageFails, Worker

-----------------------------------------------------------------------------
(* HttpBlockSync and BootCatchUp *)

LEMMA SyncInv ==
  ASSUME TypeInv, Sync \/ SyncFails
  PROVE  StoreInv' /\ JobInv' /\ SyncTypeOK'
  <1> USE DEF TypeInv, TypeOK, SyncTypeOK, FeedTypeOK, syncVars, feedVars, storeVars, tables, redis, faults,
              StoreInv, StoreTypeOK, FiniteBlocks
  <1>t. Tick \in Worker
    BY DEF Worker
  <1>1. CASE TickStart
    <2>1. JobInv'
      BY <1>1, <1>t, ToInv DEF TickStart, Stage
    <2> QED
      BY <1>1, <2>1 DEF TickStart
  <1>2. CASE TickHeight
    <2>1. JobInv'
      BY <1>2, <1>t, WorkOnInv DEF TickHeight, Stage
    <2> QED
      BY <1>2, <2>1 DEF TickHeight
  <1>3. ASSUME NEW r \in 0 .. MaxHeight, SyncMissing(r),
               failed' \in [Height -> Nat], faultsLeft' \in Nat
        PROVE  StoreInv' /\ JobInv' /\ SyncTypeOK'
    <2>1. job[Tick].height \in Height
      BY <1>3, <1>t DEF JobInv, ActiveHeights, SyncMissing
    <2>2. queued' \in [Queue -> [Height -> Nat]]
      BY <1>3, PublishType DEF SyncMissing, Queue
    <2>3. feeds' \in [Height -> SUBSET Feed]
      BY <1>3, AnnounceType DEF SyncMissing, Feed
    <2>4. JobInv'
      BY <1>3, <1>t, <2>1, ToInv DEF SyncMissing, Stage
    <2> QED
      BY <1>3, <2>2, <2>3, <2>4 DEF SyncMissing
  <1>4. CASE TickSync
    BY <1>3, <1>4 DEF TickSync
  <1>5. CASE TickSyncReadFails
    BY <1>3, <1>5, HeightFacts DEF TickSyncReadFails, Fault
  <1>6. CASE TickFetch
    <2>1. JobInv'
      BY <1>6, <1>t, WorkOnInv DEF TickFetch, Stage
    <2> QED
      BY <1>6, <2>1 DEF TickFetch
  <1>7. CASE TickSave
    <2> DEFINE h == job[Tick].height
    <2>1. h \in Height
      BY <1>7, <1>t DEF JobInv, ActiveHeights, TickSave
    <2>2. h - 1 \in Hash
      BY <2>1, BoundAssumption DEF Hash, Height
    <2>3. /\ blocks' \in SUBSET Row /\ FiniteBlocks'
          /\ lost' \in [Height -> SUBSET Loss]
      BY <1>7, <2>1, <2>2, SaveBlockType DEF TickSave
    <2>4. feeds' \in [Height -> SUBSET Feed]
      BY <1>7, AnnounceType DEF TickSave, Feed
    <2>5. JobInv'
      BY <1>7, <1>t, <2>1, ToInv DEF TickSave, Stage
    <2> QED
      BY <1>7, <2>3, <2>4, <2>5 DEF TickSave
  <1>8. CASE TickFails
    <2>1. JobInv'
      BY <1>8, <1>t, EndInv DEF TickFails
    <2> QED
      BY <1>8, <2>1 DEF TickFails, Fault
  <1>9. CASE TickUpdate
    BY <1>9, <1>t, UpdateStepInv DEF TickUpdate
  <1>10. CASE TickUpdateFails
    BY <1>10, <1>t, UpdateFailsInv DEF TickUpdateFails
  <1> QED
    BY <1>1, <1>2, <1>4, <1>5, <1>6, <1>7, <1>8, <1>9, <1>10
    DEF Sync, SyncFails, TickStep, TickFault

LEMMA AdvanceType ==
  ASSUME catchUp \in CatchUp, AdvanceLoop
  PROVE  catchUp' \in CatchUp
  <1>1. catchUp.i + 1 \in Nat
    BY DEF CatchUp
  <1>2. PICK s \in {"loop", "done"} : catchUp' = [catchUp EXCEPT !.i = catchUp.i + 1, !.stage = s]
    BY DEF AdvanceLoop
  <1> QED
    BY <1>1, <1>2 DEF CatchUp

LEMMA StartUpInv ==
  ASSUME TypeInv, StartUp \/ StartUpFails
  PROVE  StoreInv' /\ JobInv' /\ BootTypeOK'
  <1> USE DEF TypeInv, TypeOK, BootTypeOK, storeVars, tables, redis, faults, CatchUpIdle,
              StoreInv, StoreTypeOK, FiniteBlocks, InitCount, CatchUp, CountOff,
              CatchUpAt, Fault
  <1>j. UNCHANGED job => JobInv'
    BY DEF JobInv, JobTypeOK, ActiveHeights
  <1>1. CASE ReadInitCount
    <2>1. Cardinality(blocks) \in Nat
      BY FS_CardinalityType
    <2> QED
      BY <1>1, <1>j, <2>1 DEF ReadInitCount
  <1>2. CASE WriteInitCount
    BY <1>2, <1>j DEF WriteInitCount
  <1>3. CASE InitCountFails
    BY <1>3, <1>j DEF InitCountFails
  <1>4. CASE ReadLast
    BY <1>4, <1>j, HeightFacts DEF ReadLast
  <1>5. CASE ReadLastFails
    BY <1>5, <1>j, HeightFacts DEF ReadLastFails
  <1>6. CASE ReadHead
    <2>1. catchUp.last + 1 \in Nat /\ head \in 0 .. MaxHeight
      BY HeightFacts
    <2>2. catchUp' \in CatchUp
      BY <1>6, <2>1 DEF ReadHead
    <2> QED
      BY <1>6, <1>j, <2>2 DEF ReadHead
  <1>7. CASE ReadHeadFails
    BY <1>7, <1>j, HeightFacts DEF ReadHeadFails
  <1>8. CASE QueueMissed
    <2>1. queued' \in [Queue -> [Height -> Nat]]
      BY <1>8, PublishType DEF QueueMissed, QueueHeights, Queue
    <2>2. feeds' \in [Height -> SUBSET Feed]
      BY <1>8, AnnounceType DEF QueueMissed, QueueHeights, Feed
    <2> QED
      BY <1>8, AdvanceType, <1>j, <2>1, <2>2 DEF QueueMissed, QueueHeights
  <1>9. CASE QueueMissedFails
    <2>1. failed' \in [Height -> Nat] /\ faultsLeft' \in Nat
      BY <1>9, FaultForType DEF QueueMissedFails
    <2> QED
      BY <1>9, AdvanceType, <1>j, <2>1 DEF QueueMissedFails
  <1> QED
    BY <1>1, <1>2, <1>3, <1>4, <1>5, <1>6, <1>7, <1>8, <1>9
    DEF StartUp, StartUpFails, BootStep, BootFault

-----------------------------------------------------------------------------
(* The world around the process *)

LEMMA RequeueInv ==
  ASSUME StoreInv, JobInv, Requeue
  PROVE  queued' \in [Queue -> [Height -> Nat]] /\ JobInv'
  <1>1. ASSUME NEW q \in Queue, NEW h \in Height
        PROVE  Cardinality({w \in MessageWorker : QueueOf(w) = q /\ Holds(w, h)}) \in Nat
    BY FS_Subset, FS_CardinalityType, WorkerAssumption
  <1>2. queued' \in [Queue -> [Height -> Nat]]
    BY <1>1 DEF Requeue, StoreInv, StoreTypeOK
  <1>3. JobInv'
    BY IdleType DEF Requeue, JobInv, JobTypeOK, ActiveHeights
  <1> QED
    BY <1>2, <1>3

LEMMA WorldInv ==
  ASSUME TypeInv, World
  PROVE  TypeInv'
  <1> USE DEF TypeInv, TypeOK, SyncTypeOK, FeedTypeOK, BootTypeOK, storeVars, syncVars, feedVars, bootVars,
              procVars, tables, redis, faults, StoreInv, StoreTypeOK, FiniteBlocks
  <1>j. UNCHANGED job => JobInv' /\ JobTypeOK'
    BY DEF JobInv, JobTypeOK, ActiveHeights
  <1>1. CASE CommitBlock
    <2>1. head' \in Height
      BY <1>1, BoundAssumption DEF CommitBlock, Height
    <2>2. queued' \in [Queue -> [Height -> Nat]]
      BY <1>1, PublishType DEF CommitBlock, Queue
    <2>3. feeds' \in [Height -> SUBSET Feed]
      BY <1>1, AnnounceType DEF CommitBlock, Feed
    <2> QED
      BY <1>1, <1>j, <2>1, <2>2, <2>3 DEF CommitBlock
  <1>2. CASE FeedMoves
    BY <1>2, <1>j
    DEF FeedMoves, FeedNext, WsOpen, WsDrop, HttpStart
  <1>4. CASE Crash
    <2>1. queued' \in [Queue -> [Height -> Nat]] /\ JobInv'
      BY <1>4, RequeueInv DEF Crash
    <2>2. BootTypeOK'
      BY <1>4, HeightFacts
      DEF Crash, StopTasks, InitCount, CatchUp, CountOff, CatchUpAt
    <2>3. StoreInv'
      BY <1>4, <2>1 DEF Crash
    <2>4. SyncTypeOK'
      BY <1>4 DEF Crash
    <2>5. crashes' \in Nat
      BY <1>4 DEF Crash
    <2>6. JobTypeOK'
      BY <2>1 DEF JobInv
    <2> QED
      BY <1>4, <2>1, <2>2, <2>3, <2>4, <2>5, <2>6 DEF Crash
  <1>5. CASE Boot
    <2>1. BootTypeOK'
      BY <1>5, HeightFacts
      DEF Boot, StartTasks, InitCount, CatchUp, CountOff, CatchUpAt
    <2> QED
      BY <1>5, <1>j, <2>1 DEF Boot
  <1> QED
    BY <1>1, <1>2, <1>4, <1>5 DEF World

LEMMA NextTypeInv == TypeInv /\ [Next]_vars => TypeInv'
  <1> SUFFICES ASSUME TypeInv, [Next]_vars PROVE TypeInv'
    OBVIOUS
  <1> USE DEF TypeInv, TypeOK, JobInv, StoreInv
  <1>1. CASE World
    BY <1>1, WorldInv
  <1>2. CASE Consume
    BY <1>2, DeliverInv
    DEF Consume, syncVars, feedVars, bootVars, procVars, SyncTypeOK, FeedTypeOK, BootTypeOK
  <1>3. ASSUME NEW w \in MessageWorker, Handle(w) \/ HandleFails(w) PROVE TypeInv'
    BY <1>3, HandleInv
    DEF Handle, HandleFails, syncVars, feedVars, bootVars, procVars, SyncTypeOK, FeedTypeOK,
        BootTypeOK
  <1>4. CASE Sync \/ SyncFails
    BY <1>4, SyncInv DEF Sync, SyncFails, bootVars, procVars, BootTypeOK
  <1>5. CASE StartUp \/ StartUpFails
    BY <1>5, StartUpInv DEF StartUp, StartUpFails, syncVars, feedVars, procVars, SyncTypeOK, FeedTypeOK
  <1>6. CASE UNCHANGED vars
    BY <1>6
    DEF vars, storeVars, syncVars, feedVars, bootVars, procVars, tables, redis, faults,
        StoreTypeOK, FiniteBlocks, JobTypeOK, ActiveHeights, SyncTypeOK, FeedTypeOK, BootTypeOK
  <1> QED
    BY <1>1, <1>2, <1>3, <1>4, <1>5, <1>6 DEF Next

LEMMA TypeInvariant == Spec => []TypeInv
  BY InitTypeInv, NextTypeInv, PTL DEF Spec

\* The state of the pipeline always has its type: no count, height or stage
\* leaves its range, whatever is interleaved, fails or crashes.
THEOREM TypeCorrect == Spec => []TypeOK
  <1>1. TypeInv => TypeOK
    BY DEF TypeInv
  <1> QED
    BY <1>1, TypeInvariant, PTL

-----------------------------------------------------------------------------
(* No block is lost unnoticed *)

\* A handler that has come to its counters is done with its block.
JobSettled ==
    \A w \in Worker : job[w].stage \in {"update", "ack"} => Settled(job[w].height)

\* The inductive invariant: Accounted needs JobSettled when a message is
\* acknowledged, WatermarkKnown when LATEST_BLOCK is set.
SettledInv == JobSettled /\ Accounted /\ WatermarkKnown

\* What every step but a delivery and a crash does, seen from these invariants:
\* only w moves, nothing stored, given up or queued goes away, w comes to the
\* counters with its block settled and parts with a message only when its block
\* is queued again or settled, and what is new in feeds and LATEST_BLOCK is
\* queued or settled.
StoreGrows ==
    /\ blocks \subseteq blocks'
    /\ \A h \in Height : lost[h] \subseteq lost'[h]

QueuesGrow ==
    \A q \in Queue, h \in Height : queued[q][h] > 0 => queued'[q][h] > 0

FeedsQueued ==
    \A h \in Height : feeds'[h] # {} =>
        feeds[h] # {} \/ Settled(h)' \/ \E q \in Queue : queued'[q][h] > 0

LatestSettled ==
    latestBlock' = latestBlock \/ Settled(latestBlock)'

OnlyMoves(w) ==
    /\ \A k \in Worker \ {w} : job'[k] = job[k]
    /\ job'[w].stage \in {"update", "ack"} => Settled(job[w].height)'
    /\ \A h \in Height : Holds(w, h) =>
          Holds(w, h)' \/ Settled(h)' \/ \E q \in Queue : queued'[q][h] > 0

Progresses(w) ==
    StoreGrows /\ QueuesGrow /\ FeedsQueued /\ LatestSettled /\ OnlyMoves(w)

LEMMA SettledGrows ==
  ASSUME NEW h \in Height, StoreGrows, Settled(h)
  PROVE  Settled(h)'
  BY DEF StoreGrows, Settled, Stored

LEMMA ProgressKeeps ==
  ASSUME TypeInv, SettledInv, NEW w \in Worker, Progresses(w), JobInv'
  PROVE  SettledInv'
  <1> USE DEF SettledInv, Progresses
  <1>1. JobSettled'
    <2> SUFFICES ASSUME NEW k \in Worker, job'[k].stage \in {"update", "ack"}
                 PROVE  Settled(job[k].height)'
      BY DEF JobSettled
    <2>1. CASE k = w
      BY <2>1 DEF OnlyMoves
    <2>2. CASE k # w
      <3>1. job[k].height \in Height /\ job'[k] = job[k]
        BY <2>2 DEF OnlyMoves, TypeInv, JobInv, ActiveHeights
      <3>2. Settled(job[k].height)
        BY <3>1 DEF JobSettled
      <3>3. \E h \in Height : h = job'[k].height /\ Settled(h)'
        BY <3>1, <3>2, SettledGrows
      <3> QED
        BY <3>3 DEF Settled, Stored
    <2> QED
      BY <2>1, <2>2
  <1>2. Accounted'
    <2> SUFFICES ASSUME NEW h \in Height, feeds'[h] # {}
                 PROVE  Settled(h)' \/ Pending(h)'
      BY DEF Accounted
    <2>1. CASE Settled(h)'
      BY <2>1
    <2>2. CASE \E q \in Queue : queued'[q][h] > 0
      BY <2>2 DEF Pending
    <2>3. CASE feeds[h] # {}
      <3>1. CASE Settled(h)
        BY <3>1, SettledGrows
      <3>2. CASE \E q \in Queue : queued[q][h] > 0
        BY <3>2 DEF QueuesGrow, Pending
      <3>3. ASSUME NEW k \in MessageWorker, Holds(k, h) PROVE Settled(h)' \/ Pending(h)'
        <4>1. k \in Worker
          BY DEF Worker
        <4>2. CASE k = w
          BY <3>3, <4>2 DEF OnlyMoves, Pending
        <4>3. CASE k # w
          BY <3>3, <4>1, <4>3 DEF OnlyMoves, Holds, Pending
        <4> QED
          BY <4>2, <4>3
      <3> QED
        BY <2>3, <3>1, <3>2, <3>3 DEF Accounted, Pending
    <2> QED
      BY <2>1, <2>2, <2>3 DEF FeedsQueued
  <1>3. WatermarkKnown'
    BY SettledGrows, HeightFacts
    DEF WatermarkKnown, LatestSettled, TypeInv, StoreInv, StoreTypeOK, Height
  <1> QED
    BY <1>1, <1>2, <1>3

LEMMA PublishGrows ==
  ASSUME StoreTypeOK, NEW q \in Queue, NEW H, Publish(q, H)
  PROVE  QueuesGrow /\ \A h \in Height : h \in H => queued'[q][h] > 0
  BY DEF StoreTypeOK, Publish, QueuesGrow

LEMMA SaveBlockSettles ==
  ASSUME StoreTypeOK, NEW h \in Height, NEW x, SaveBlock(h, x)
  PROVE  StoreGrows /\ Settled(h)'
  <1>1. CASE Stored(h)
    BY <1>1 DEF SaveBlock, StoreGrows, Settled, Stored
  <1>2. CASE ~Stored(h) /\ Conflicts(h, x)
    BY <1>2 DEF StoreTypeOK, SaveBlock, StoreGrows, Settled
  <1>3. CASE ~Conflicts(h, x)
    <2>1. /\ lost' = lost
          /\ blocks' = blocks \cup {[blocknumber |-> h, blockhash |-> x]}
      BY <1>3 DEF SaveBlock
    <2>2. PICK r \in blocks' : r = [blocknumber |-> h, blockhash |-> x]
      BY <2>1
    <2>3. Stored(h)'
      BY <2>2 DEF Stored
    <2> QED
      BY <2>1, <2>3 DEF StoreGrows, Settled
  <1> QED
    BY <1>1, <1>2, <1>3

LEMMA GiveUpSettles ==
  ASSUME StoreTypeOK, NEW h \in Height, NEW l, GiveUp(h, l), UNCHANGED blocks
  PROVE  StoreGrows /\ Settled(h)'
  BY DEF StoreTypeOK, GiveUp, StoreGrows, Settled, Stored

LEMMA StillGrows ==
  /\ UNCHANGED <<blocks, lost>> => StoreGrows
  /\ UNCHANGED queued => QueuesGrow
  /\ UNCHANGED feeds => FeedsQueued
  /\ UNCHANGED latestBlock => LatestSettled
  BY DEF StoreGrows, QueuesGrow, FeedsQueued, LatestSettled

LEMMA ToMoves ==
  ASSUME JobTypeOK, NEW w \in Worker, NEW s \in Stage \ {"idle"}, To(w, s),
         s \in {"update", "ack"} => Settled(job[w].height)'
  PROVE  OnlyMoves(w)
  <1>1. job'[w].height = job[w].height /\ job'[w].stage = s
    BY DEF JobTypeOK, Job, To
  <1> QED
    BY <1>1 DEF JobTypeOK, To, OnlyMoves, Holds

LEMMA EndMoves ==
  ASSUME JobTypeOK, NEW w \in Worker, End(w),
         \A h \in Height : Holds(w, h) =>
            Settled(h)' \/ \E q \in Queue : queued'[q][h] > 0
  PROVE  OnlyMoves(w)
  BY IdleType DEF JobTypeOK, End, OnlyMoves

LEMMA ChainMoves ==
  ASSUME JobInv, JobSettled, StoreGrows, NEW w \in Worker, NEW c, NEW n,
         Count(w, c, n) \/ Credit(w, c, n)
  PROVE  OnlyMoves(w)
  <1>1. /\ \A k \in Worker \ {w} : job'[k] = job[k]
        /\ job'[w].height = job[w].height /\ job'[w].stage = job[w].stage
    BY DEF JobInv, JobTypeOK, Job, Count, Credit
  <1>2. ASSUME job[w].stage \in {"update", "ack"} PROVE Settled(job[w].height)'
    <2>1. job[w].height \in Height
      BY <1>2 DEF JobInv, ActiveHeights
    <2>2. \E h \in Height : h = job'[w].height /\ Settled(h)'
      BY <1>1, <1>2, <2>1, SettledGrows DEF JobSettled
    <2> QED
      BY <2>2 DEF Settled, Stored
  <1> QED
    BY <1>1, <1>2 DEF OnlyMoves, Holds

LEMMA FetchBlockProgresses ==
  ASSUME TypeInv, NEW w \in MessageWorker, FetchBlock(w) \/ FetchBlockFails(w)
  PROVE  Progresses(w)
  <1> USE DEF TypeInv, StoreInv, JobInv
  <1>w. w \in Worker
    BY DEF Worker
  <1>h. PICK h \in Height : h = job[w].height
    BY <1>w DEF FetchBlock, FetchBlockFails, ActiveHeights
  <1>1. CASE FetchBlock(w)
    <2>1. OnlyMoves(w)
      BY <1>1, <1>w, ToMoves DEF FetchBlock, Stage
    <2> QED
      BY <1>1, <2>1, StillGrows DEF FetchBlock, tables, redis, Progresses
  <1>2. CASE FetchBlockFails(w)
    <2>1. StoreGrows /\ QueuesGrow
      BY <1>2, <1>h, PublishGrows, GiveUpSettles, StillGrows
      DEF FetchBlockFails, tables, Queue
    <2>2. Settled(h)' \/ \E q \in Queue : queued'[q][h] > 0
      BY <1>2, <1>h, PublishGrows, GiveUpSettles DEF FetchBlockFails, tables, Queue
    <2>3. OnlyMoves(w)
      BY <1>2, <1>w, <1>h, <2>2, EndMoves DEF FetchBlockFails, Holds
    <2> QED
      BY <1>2, <2>1, <2>3, StillGrows DEF FetchBlockFails, redis, Progresses
  <1> QED
    BY <1>1, <1>2

LEMMA SaveProgresses ==
  ASSUME TypeInv, NEW w \in MessageWorker, Save(w) \/ SaveFails(w)
  PROVE  Progresses(w)
  <1> USE DEF TypeInv, StoreInv, JobInv
  <1>w. w \in Worker
    BY DEF Worker
  <1>h. PICK h \in Height : h = job[w].height
    BY <1>w DEF Save, SaveFails, ActiveHeights
  <1>m. ASSUME NEW s \in {"update", "ack"}, To(w, s), Settled(h)'
        PROVE  OnlyMoves(w)
    <2>1. job'[w].height = h
      BY <1>m, <1>w, <1>h DEF To, JobTypeOK, Job
    <2>2. Settled(job[w].height)'
      BY <1>m, <2>1 DEF Settled, Stored
    <2> QED
      BY <1>m, <1>w, <2>2, ToMoves DEF Stage
  <1>1. CASE Save(w)
    <2>1. StoreGrows /\ Settled(h)'
      BY <1>1, <1>h, SaveBlockSettles DEF Save
    <2>2. OnlyMoves(w)
      BY <1>1, <1>m, <2>1 DEF Save
    <2> QED
      BY <1>1, <2>1, <2>2, StillGrows DEF Save, redis, Progresses
  <1>2. CASE SaveFails(w)
    <2>1. StoreGrows /\ QueuesGrow
      BY <1>2, <1>h, PublishGrows, GiveUpSettles, StillGrows
      DEF SaveFails, tables, Queue
    <2>2. OnlyMoves(w)
      <3>1. CASE End(w) /\ Publish("ERROR_BLOCK", {job[w].height})
        <4>1. \E q \in Queue : queued'[q][h] > 0
          BY <3>1, <1>h, PublishGrows DEF Queue
        <4> QED
          BY <3>1, <4>1, <1>w, <1>h, EndMoves DEF Holds
      <3>2. CASE /\ GiveUp(job[w].height, "save_swallowed")
                 /\ To(w, IF w \in ErrorWorker THEN "ack" ELSE "update")
        <4>1. Settled(h)'
          BY <1>2, <3>2, <1>h, GiveUpSettles DEF SaveFails, tables
        <4> QED
          BY <3>2, <4>1, <1>m
      <3> QED
        BY <1>2, <3>1, <3>2 DEF SaveFails
    <2> QED
      BY <1>2, <2>1, <2>2, StillGrows DEF SaveFails, redis, Progresses
  <1> QED
    BY <1>1, <1>2

LEMMA UpdateProgresses ==
  ASSUME TypeInv, SettledInv, NEW w \in Worker, UpdateStep(w) \/ UpdateFails(w)
  PROVE  Progresses(w)
  <1> USE DEF TypeInv, StoreInv, JobInv, SettledInv, storeVars, tables, redis
  <1>h. PICK h \in Height : h = job[w].height /\ Settled(h)
    BY DEF UpdateStep, UpdateFails, ReadCount, StartCount, CountRows, WriteCount, EndCount,
           FindValidator, WriteValidator, MarkLatest, Ack, Updated, ReadCountFails,
           CountRowsFails, WriteCountFails, UpsertValidatorFails, MarkLatestFails,
           ActiveHeights, JobSettled
  <1>g. StoreGrows /\ QueuesGrow /\ FeedsQueued
    BY StillGrows
    DEF UpdateStep, UpdateFails, ReadCount, StartCount, CountRows, WriteCount, EndCount,
        FindValidator, WriteValidator, MarkLatest, Ack, ReadCountFails,
        CountRowsFails, WriteCountFails, UpsertValidatorFails, MarkLatestFails
  <1>s. Settled(h)'
    BY <1>g, <1>h, SettledGrows
  <1>l. LatestSettled
    <2>1. UNCHANGED latestBlock \/ latestBlock' = h
      BY <1>h
      DEF UpdateStep, UpdateFails, ReadCount, StartCount, CountRows, WriteCount, EndCount,
          FindValidator, WriteValidator, MarkLatest, Ack, ReadCountFails,
          CountRowsFails, WriteCountFails, UpsertValidatorFails, MarkLatestFails
    <2>2. latestBlock' = h => Settled(latestBlock)'
      BY <1>s DEF Settled, Stored
    <2> QED
      BY <2>1, <2>2 DEF LatestSettled
  <1>m. OnlyMoves(w)
    <2>1. \/ \E c, n : Count(w, c, n) \/ Credit(w, c, n)
          \/ To(w, "ack") \/ To(w, "stuck") \/ End(w)
      BY DEF UpdateStep, UpdateFails, ReadCount, StartCount, CountRows, WriteCount, EndCount,
             FindValidator, WriteValidator, MarkLatest, Ack, ReadCountFails,
             CountRowsFails, WriteCountFails, UpsertValidatorFails, MarkLatestFails
    <2>2. CASE \E c, n : Count(w, c, n) \/ Credit(w, c, n)
      BY <2>2, <1>g, ChainMoves
    <2>3. ASSUME NEW s \in {"ack", "stuck"}, To(w, s) PROVE OnlyMoves(w)
      <3>1. job'[w].height = h
        BY <2>3, <1>h DEF To, JobTypeOK, Job
      <3>2. Settled(job[w].height)'
        BY <1>s, <3>1 DEF Settled, Stored
      <3> QED
        BY <2>3, <3>2, ToMoves DEF Stage
    <2>4. CASE End(w)
      BY <2>4, <1>h, <1>s, EndMoves DEF Holds
    <2> QED
      BY <2>1, <2>2, <2>3, <2>4
  <1> QED
    BY <1>g, <1>l, <1>m DEF Progresses

LEMMA SyncProgresses ==
  ASSUME TypeInv, SettledInv, Sync \/ SyncFails
  PROVE  Progresses(Tick)
  <1> USE DEF TypeInv, StoreInv, JobInv, storeVars, tables, redis
  <1>t. Tick \in Worker
    BY DEF Worker
  <1>m. ASSUME NEW j \in Job, job' = [job EXCEPT ![Tick] = j], j.stage \notin {"update", "ack"}
        PROVE  OnlyMoves(Tick)
    BY <1>m, <1>t, WorkerAssumption DEF OnlyMoves, Holds, JobTypeOK
  <1>p. ASSUME UNCHANGED <<blocks, lost, queued, feeds, latestBlock>>, OnlyMoves(Tick)
        PROVE  Progresses(Tick)
    BY <1>p, StillGrows DEF Progresses
  <1>1. CASE TickStart
    <2>1. OnlyMoves(Tick)
      BY <1>1, <1>t, ToMoves DEF TickStart, Stage
    <2> QED
      BY <1>1, <1>p, <2>1 DEF TickStart
  <1>2. CASE TickHeight
    <2>1. [job[Tick] EXCEPT !.stage = "sync", !.height = head] \in Job
      BY <1>t, HeightFacts DEF JobTypeOK, Job, Stage, StoreTypeOK
    <2>2. [job[Tick] EXCEPT !.stage = "sync", !.height = head].stage = "sync"
      BY <1>t DEF JobTypeOK, Job
    <2> QED
      BY <1>2, <1>m, <1>p, <2>1, <2>2 DEF TickHeight, WorkOn
  <1>3. ASSUME NEW r, SyncMissing(r)
        PROVE  Progresses(Tick)
    <2> DEFINE missing == IF isRunning /\ job[Tick].height > r + 1
                          THEN r + 1 .. job[Tick].height - 1 ELSE {}
    <2>1. Publish("DOWNTIME_BLOCK", missing) /\ Announce(missing, "sync")
      BY <1>3 DEF SyncMissing
    <2>2. QueuesGrow /\ \A h \in Height : h \in missing => queued'["DOWNTIME_BLOCK"][h] > 0
      BY <2>1, PublishGrows DEF Queue
    <2>3. FeedsQueued
      BY <2>1, <2>2 DEF Announce, FeedsQueued, Queue
    <2>4. OnlyMoves(Tick)
      BY <1>3, <1>t, ToMoves DEF SyncMissing, Stage
    <2> QED
      BY <1>3, <2>2, <2>3, <2>4, StillGrows DEF SyncMissing, Progresses
  <1>4. CASE TickFetch
    <2>1. [job[Tick] EXCEPT !.stage = "save", !.height = head] \in Job
      BY <1>t, HeightFacts DEF JobTypeOK, Job, Stage, StoreTypeOK
    <2>2. [job[Tick] EXCEPT !.stage = "save", !.height = head].stage = "save"
      BY <1>t DEF JobTypeOK, Job
    <2> QED
      BY <1>4, <1>m, <1>p, <2>1, <2>2 DEF TickFetch, WorkOn
  <1>5. CASE TickSave
    <2>h. PICK h \in Height : h = job[Tick].height
      BY <1>5, <1>t DEF TickSave, ActiveHeights
    <2>1. StoreGrows /\ Settled(h)'
      BY <1>5, <2>h, SaveBlockSettles DEF TickSave
    <2>2. FeedsQueued
      BY <1>5, <2>h, <2>1 DEF TickSave, Announce, FeedsQueued
    <2>3. job'[Tick].height = h
      BY <1>5, <1>t, <2>h DEF TickSave, To, JobTypeOK, Job
    <2>4. Settled(job[Tick].height)'
      BY <2>1, <2>3 DEF Settled, Stored
    <2>5. OnlyMoves(Tick)
      BY <1>5, <1>t, <2>4, ToMoves DEF TickSave, Stage
    <2> QED
      BY <1>5, <2>1, <2>2, <2>5, StillGrows DEF TickSave, Progresses
  <1>6. CASE TickFails
    <2>1. OnlyMoves(Tick)
      BY <1>6, <1>m, IdleType DEF TickFails, End
    <2> QED
      BY <1>6, <1>p, <2>1 DEF TickFails
  <1>7. CASE TickUpdate \/ TickUpdateFails
    BY <1>7, <1>t, UpdateProgresses DEF TickUpdate, TickUpdateFails
  <1> QED
    BY <1>1, <1>2, <1>3, <1>4, <1>5, <1>6, <1>7
    DEF Sync, SyncFails, TickStep, TickFault, TickSync, TickSyncReadFails

\* Steps of the other parts move no handler.
LEMMA NoJobMoves ==
  ASSUME TypeInv, SettledInv, StoreGrows, UNCHANGED job
  PROVE  OnlyMoves(Tick)
  <1>1. job'[Tick].stage \in {"update", "ack"} => Settled(job[Tick].height)'
    <2> SUFFICES ASSUME job[Tick].stage \in {"update", "ack"}
                 PROVE  Settled(job[Tick].height)'
      OBVIOUS
    <2>1. PICK h \in Height : h = job[Tick].height /\ Settled(h)
      BY DEF TypeInv, JobInv, ActiveHeights, SettledInv, JobSettled, Worker
    <2>2. Settled(h)' /\ h = job'[Tick].height
      BY <2>1, SettledGrows
    <2> QED
      BY <2>2 DEF Settled, Stored
  <1> QED
    BY <1>1, WorkerAssumption DEF OnlyMoves, Holds

LEMMA OthersProgress ==
  ASSUME TypeInv, SettledInv,
         StartUp \/ StartUpFails \/ CommitBlock \/ FeedMoves \/ Boot
  PROVE  Progresses(Tick)
  <1> USE DEF TypeInv, StoreInv, JobInv, storeVars, tables, redis
  <1>p. ASSUME UNCHANGED <<blocks, lost, latestBlock, job>>, QueuesGrow, FeedsQueued
        PROVE  Progresses(Tick)
    BY <1>p, StillGrows, NoJobMoves DEF Progresses
  <1>1. CASE QueueMissed
    <2> DEFINE due == {h \in Height : h = catchUp.i /\ h <= head}
    <2>1. Publish("DOWNTIME_BLOCK", due) /\ Announce(due, "catchup")
      BY <1>1 DEF QueueMissed, QueueHeights
    <2>2. QueuesGrow /\ \A h \in Height : h \in due => queued'["DOWNTIME_BLOCK"][h] > 0
      BY <2>1, PublishGrows DEF Queue
    <2>3. FeedsQueued
      BY <2>1, <2>2 DEF Announce, FeedsQueued, Queue
    <2> QED
      BY <1>1, <1>p, <2>2, <2>3 DEF QueueMissed, QueueHeights, CatchUpIdle
  <1>2. CASE CommitBlock
    <2> DEFINE told == {h \in Height : h = head + 1 /\ feed = "ws"}
    <2>1. Publish("LATEST_BLOCKS", told) /\ Announce(told, "ws")
      BY <1>2 DEF CommitBlock
    <2>2. QueuesGrow /\ \A h \in Height : h \in told => queued'["LATEST_BLOCKS"][h] > 0
      BY <2>1, PublishGrows DEF Queue
    <2>3. FeedsQueued
      BY <2>1, <2>2 DEF Announce, FeedsQueued, Queue
    <2> QED
      BY <1>2, <1>p, <2>2, <2>3 DEF CommitBlock
  <1>3. CASE FeedMoves \/ Boot
    BY <1>3, <1>p, StillGrows DEF FeedMoves, Boot
  <1>4. CASE StartUpFails \/ (StartUp /\ ~QueueMissed)
    BY <1>4, <1>p, StillGrows
    DEF StartUp, StartUpFails, BootStep, BootFault, ReadInitCount, WriteInitCount,
        InitCountFails, ReadLast, ReadLastFails, ReadHead, ReadHeadFails,
        QueueMissedFails, CatchUpIdle
  <1> QED
    BY <1>1, <1>2, <1>3, <1>4 DEF StartUp, BootStep

LEMMA DeliverKeeps ==
  ASSUME TypeInv, SettledInv, NEW w \in MessageWorker, NEW k \in Height, Deliver(w, k)
  PROVE  SettledInv'
  <1> USE DEF TypeInv, StoreInv, StoreTypeOK, JobInv, SettledInv
  <1>w. w \in Worker
    BY DEF Worker
  <1>1. UNCHANGED <<blocks, lost, feeds, latestBlock>>
    BY DEF Deliver, tables, redis
  <1>2. /\ job'[w].stage = "fetch" /\ job'[w].height = k
        /\ \A v \in Worker \ {w} : job'[v] = job[v]
    BY <1>w DEF Deliver, JobTypeOK, Idle
  <1>3. \A h \in Height : Settled(h)' <=> Settled(h)
    BY <1>1 DEF Settled, Stored
  <1>4. JobSettled'
    <2> SUFFICES ASSUME NEW v \in Worker, job'[v].stage \in {"update", "ack"}
                 PROVE  Settled(job[v].height)'
      BY DEF JobSettled
    <2>1. job'[v] = job[v] /\ Settled(job[v].height)
      BY <1>2 DEF JobSettled
    <2> QED
      BY <1>1, <2>1 DEF Settled, Stored
  <1>5. ASSUME NEW h \in Height, Pending(h) PROVE Pending(h)'
    <2>1. CASE h = k
      BY <1>2, <2>1 DEF Pending, Holds
    <2>2. ASSUME h # k, NEW q \in Queue, queued[q][h] > 0 PROVE Pending(h)'
      <3>1. queued'[q][h] = queued[q][h]
        BY <2>2 DEF Deliver, Take
      <3> QED
        BY <2>2, <3>1 DEF Pending
    <2>3. ASSUME NEW v \in MessageWorker, Holds(v, h) PROVE Pending(h)'
      <3>1. v # w /\ v \in Worker
        BY <2>3 DEF Deliver, Holds, Worker
      <3> QED
        BY <1>2, <2>3, <3>1 DEF Holds, Pending
    <2> QED
      BY <1>5, <2>1, <2>2, <2>3 DEF Pending
  <1>6. Accounted'
    BY <1>1, <1>3, <1>5 DEF Accounted
  <1>7. WatermarkKnown'
    BY <1>1 DEF WatermarkKnown, Settled, Stored
  <1> QED
    BY <1>4, <1>6, <1>7

\* A crash hands every unacknowledged message back to its queue.
LEMMA CrashKeeps ==
  ASSUME TypeInv, SettledInv, Crash
  PROVE  SettledInv'
  <1> USE DEF TypeInv, StoreInv, StoreTypeOK, SettledInv
  <1> DEFINE held(q, h) == {w \in MessageWorker : QueueOf(w) = q /\ Holds(w, h)}
  <1>1. UNCHANGED <<blocks, lost, feeds, latestBlock>>
    BY DEF Crash, tables, redis
  <1>2. \A h \in Height : Settled(h)' <=> Settled(h)
    BY <1>1 DEF Settled, Stored
  <1>3. JobSettled'
    BY IdleType DEF JobSettled, Crash, Requeue
  <1>4. ASSUME NEW q \in Queue, NEW h \in Height
        PROVE  /\ IsFiniteSet(held(q, h))
               /\ queued[q][h] > 0 \/ Cardinality(held(q, h)) # 0 => queued'[q][h] > 0
    <2>1. IsFiniteSet(held(q, h))
      BY FS_Subset, WorkerAssumption
    <2> DEFINE c == Cardinality(held(q, h))
    <2>2. c \in Nat
      BY <2>1, FS_CardinalityType
    <2>3. queued[q][h] \in Nat
      OBVIOUS
    <2>4. queued'[q][h] = queued[q][h] + c
      BY DEF Crash, Requeue
    <2> HIDE DEF c
    <2>5. queued[q][h] > 0 \/ c # 0 => queued'[q][h] > 0
      BY <2>2, <2>3, <2>4
    <2> QED
      BY <2>1, <2>5 DEF c
  <1>5. ASSUME NEW h \in Height, Pending(h) PROVE Pending(h)'
    <2>1. ASSUME NEW q \in Queue, queued[q][h] > 0 PROVE Pending(h)'
      <3>1. queued'[q][h] > 0
        BY <1>4, <2>1
      <3> QED
        BY <3>1 DEF Pending
    <2>2. ASSUME NEW w \in MessageWorker, Holds(w, h) PROVE Pending(h)'
      <3>1. QueueOf(w) \in Queue
        BY DEF QueueOf, Queue
      <3>2. w \in held(QueueOf(w), h)
        BY <2>2
      <3>3. Cardinality(held(QueueOf(w), h)) # 0
        BY <1>4, <3>1, <3>2, FS_EmptySet
      <3>4. queued'[QueueOf(w)][h] > 0
        BY <1>4, <3>1, <3>3
      <3> QED
        BY <3>1, <3>4 DEF Pending
    <2> QED
      BY <1>5, <2>1, <2>2 DEF Pending
  <1>6. Accounted'
    BY <1>1, <1>2, <1>5 DEF Accounted
  <1>7. WatermarkKnown'
    BY <1>1 DEF WatermarkKnown, Settled, Stored
  <1> QED
    BY <1>3, <1>6, <1>7

LEMMA InitSettledInv == Init => SettledInv
  BY IdleType
  DEF Init, StoreInit, JobInit, SettledInv, JobSettled, Accounted, WatermarkKnown

LEMMA NextSettledInv == TypeInv /\ SettledInv /\ [Next]_vars => SettledInv'
  <1> SUFFICES ASSUME TypeInv, SettledInv, [Next]_vars PROVE SettledInv'
    OBVIOUS
  <1>t. TypeInv' /\ JobInv' /\ Tick \in Worker
    BY NextTypeInv DEF TypeInv, Worker
  <1>1. CASE World \/ StartUp \/ StartUpFails
    BY <1>1, <1>t, CrashKeeps, OthersProgress, ProgressKeeps DEF World
  <1>2. CASE Consume
    BY <1>2, DeliverKeeps DEF Consume
  <1>3. ASSUME NEW w \in MessageWorker, Handle(w) \/ HandleFails(w) PROVE SettledInv'
    <2>1. w \in Worker
      BY DEF Worker
    <2>2. Progresses(w)
      BY <1>3, <2>1, FetchBlockProgresses, SaveProgresses, UpdateProgresses
      DEF Handle, HandleFails, MessageStep, MessageFails
    <2> QED
      BY <1>t, <2>1, <2>2, ProgressKeeps
  <1>4. CASE Sync \/ SyncFails
    BY <1>4, <1>t, SyncProgresses, ProgressKeeps
  <1>5. CASE UNCHANGED vars
    BY <1>5
    DEF vars, storeVars, tables, redis, SettledInv, JobSettled, Accounted, WatermarkKnown,
        Settled, Stored, Pending, Holds
  <1> QED
    BY <1>1, <1>2, <1>3, <1>4, <1>5 DEF Next

LEMMA SettledInvariant == Spec => []SettledInv
  BY InitSettledInv, NextSettledInv, TypeInvariant, PTL DEF Spec

\* A block that a feed, the catch-up or the HTTP fallback brought into the
\* indexer is stored, given up, waiting in a queue or held by a consumer, for
\* any number of blocks, workers, failures and crashes.
THEOREM NoBlockUnaccounted == Spec => []Accounted
  <1>1. SettledInv => Accounted
    BY DEF SettledInv
  <1> QED
    BY <1>1, SettledInvariant, PTL

\* LATEST_BLOCK, from which a restarted indexer catches up, never names a block
\* that is still open: whoever sets it, and whatever else is under way.
THEOREM WatermarkIsKnown == Spec => []WatermarkKnown
  <1>1. SettledInv => WatermarkKnown
    BY DEF SettledInv
  <1> QED
    BY <1>1, SettledInvariant, PTL
=============================================================================

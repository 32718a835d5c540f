--------------------------- MODULE BlockFaultProofs --------------------------
(***************************************************************************)
(* What goes wrong in BlockPipeline has a cause, and what can be lost is   *)
(* bounded: theorems for every chain length, prefetch window and number of *)
(* failures, ticks and crashes.                                            *)
(***************************************************************************)
EXTENDS BlockLedgerProofs

\* A message about h is waiting in q or held by a worker that took it there.
Flow(q, h) ==
    \/ queued[q][h] > 0
    \/ \E w \in MessageWorker : QueueOf(w) = q /\ Holds(w, h)

\* The tick is under way only once one has been counted.
TickBegan == job[Tick].stage # "idle" => ticks > 0

\* A block comes to ERROR_BLOCK by a failed request for it, and to
\* LATEST_BLOCKS by the WebSocket.
RetriesFailed == \A h \in Height : Flow("ERROR_BLOCK", h) => failed[h] > 0
LatestFromWs == \A h \in Height : Flow("LATEST_BLOCKS", h) => "ws" \in feeds[h]

\* Every handler but processLatestBlock publishes the transactions of a block
\* before it saves the block.
TxsFirst ==
    \A w \in Worker \ LatestWorker :
        job[w].stage = "save" => job[w].height \in txQueued

\* The inductive invariant: what is lost, how rows are hashed and whether the
\* transactions follow all depend on where a handler's block came from.
CauseInv ==
    /\ TickBegan /\ RowHashes
    /\ RetriesFailed /\ LossCauses
    /\ LatestFromWs /\ TxsFirst /\ TxsFollow

\* What a step has to show to keep it.
HistoryGrows ==
    /\ ticks <= ticks'
    /\ \A h \in Height : failed[h] <= failed'[h] /\ feeds[h] \subseteq feeds'[h]
    /\ txQueued \subseteq txQueued'

Flows(q, H) == \A h \in Height : Flow(q, h)' => Flow(q, h) \/ h \in H

FlowsFrom ==
    /\ Flows("ERROR_BLOCK", {h \in Height : failed'[h] > 0})
    /\ Flows("LATEST_BLOCKS", {h \in Height : "ws" \in feeds'[h]})

SavesAfterTxs ==
    \A w \in Worker \ LatestWorker : job'[w].stage = "save" =>
        job'[w] = job[w] \/ job'[w].height \in txQueued'

\* The row a handler (x = h) or a tick (x = h - 1) makes, if any.
RowFrom(h, x) ==
    /\ SaveBlock(h, x)
    /\ x = h \/ (x = h - 1 /\ ticks > 0)
    /\ "ws" \in feeds'[h] \/ h \in txQueued'

LossFrom(h, l) ==
    /\ GiveUp(h, l) /\ UNCHANGED blocks
    /\ \/ l = "retry_exhausted" /\ failed'[h] >= 2
       \/ l = "save_swallowed" /\ failed'[h] >= 1

RecordFrom ==
    \/ UNCHANGED <<blocks, lost>>
    \/ \E h \in Height, x \in Hash : RowFrom(h, x)
    \/ \E h \in Height, l \in Loss : LossFrom(h, l)

HasCause == TickBegan' /\ HistoryGrows /\ FlowsFrom /\ SavesAfterTxs /\ RecordFrom

LEMMA InitCauseInv == Init => CauseInv
  BY IdleType
  DEF Init, StoreInit, JobInit, SyncInit, CauseInv, TickBegan, RowHashes, RetriesFailed,
      LatestFromWs, LossCauses, TxsFirst, TxsFollow, Flow, Holds, Stored, Worker, Queue

LEMMA RowFromKeeps ==
  ASSUME TypeInv, RowHashes, LossCauses, TxsFollow, HistoryGrows, ticks' \in Nat,
         failed' \in [Height -> Nat],
         NEW h \in Height, NEW x \in Hash, RowFrom(h, x)
  PROVE  RowHashes' /\ LossCauses' /\ TxsFollow'
  <1> USE DEF TypeInv, StoreInv, StoreTypeOK, TypeOK, SyncTypeOK
  <1>x. h \in Nat /\ x \in Nat /\ (x + 1 = h \/ x = h) /\ (x # h => ticks > 0)
    BY HeightFacts DEF RowFrom, Hash
  <1>r. \A r \in blocks : r.blocknumber \in Nat /\ r.blockhash \in Nat
    BY HeightFacts DEF Row, Hash
  <1>1. CASE blocks' = blocks /\ lost' = lost
    <2>1. RowHashes' /\ TxsFollow'
      BY <1>1 DEF HistoryGrows, RowHashes, TxsFollow, Stored
    <2>2. LossCauses'
      BY <1>1 DEF HistoryGrows, LossCauses
    <2> QED
      BY <2>1, <2>2
  <1>2. CASE /\ ~Conflicts(h, x) /\ lost' = lost
             /\ blocks' = blocks \cup {[blocknumber |-> h, blockhash |-> x]}
    <2> DEFINE n == [blocknumber |-> h, blockhash |-> x]
    <2>1. RowHashes'
      <3>1. \A r \in blocks' : \/ r.blockhash = r.blocknumber
                               \/ r.blockhash = r.blocknumber - 1 /\ ticks' > 0
        BY <1>2, <1>x DEF RowHashes, HistoryGrows
      <3>2. \A r, s \in blocks' :
               r # s => r.blocknumber # s.blocknumber /\ r.blockhash # s.blockhash
        BY <1>2 DEF RowHashes, Conflicts
      <3> QED
        BY <3>1, <3>2 DEF RowHashes
    <2>2. TxsFollow'
      BY <1>2 DEF TxsFollow, Stored, RowFrom, HistoryGrows
    <2>3. LossCauses'
      BY <1>2 DEF HistoryGrows, LossCauses
    <2> QED
      BY <2>1, <2>2, <2>3
  <1>3. CASE /\ Conflicts(h, x) /\ ~Stored(h) /\ blocks' = blocks
             /\ lost' = [lost EXCEPT ![h] = @ \cup {"hash_conflict"}]
    <2>1. RowHashes' /\ TxsFollow'
      BY <1>3 DEF HistoryGrows, RowHashes, TxsFollow, Stored
    <2>2. ticks > 0
      <3>1. PICK r \in blocks : r.blockhash = x /\ r.blocknumber # h
        BY <1>3 DEF Conflicts, Stored
      <3> QED
        BY <1>x, <1>r, <3>1 DEF RowHashes
    <2>3. LossCauses'
      BY <1>3, <2>2 DEF HistoryGrows, LossCauses
    <2> QED
      BY <2>1, <2>3
  <1> QED
    BY <1>1, <1>2, <1>3 DEF RowFrom, SaveBlock, Conflicts, Stored

LEMMA LossFromKeeps ==
  ASSUME TypeInv, RowHashes, LossCauses, TxsFollow, HistoryGrows, ticks' \in Nat,
         failed' \in [Height -> Nat],
         NEW h \in Height, NEW l \in Loss, LossFrom(h, l)
  PROVE  RowHashes' /\ LossCauses' /\ TxsFollow'
  <1> USE DEF TypeInv, StoreInv, StoreTypeOK, TypeOK, SyncTypeOK
  <1>1. RowHashes' /\ TxsFollow'
    BY DEF LossFrom, HistoryGrows, RowHashes, TxsFollow, Stored
  <1>2. lost' = lost \/ lost' = [lost EXCEPT ![h] = @ \cup {l}]
    BY DEF LossFrom, GiveUp
  <1>3. LossCauses'
    BY <1>2 DEF LossFrom, HistoryGrows, LossCauses
  <1> QED
    BY <1>1, <1>3

LEMMA CauseKeeps ==
  ASSUME TypeInv, TypeInv', CauseInv, HasCause
  PROVE  CauseInv'
  <1> USE DEF CauseInv, HasCause
  <1>t. /\ ticks \in Nat /\ ticks' \in Nat
        /\ failed \in [Height -> Nat] /\ failed' \in [Height -> Nat]
    BY DEF TypeInv, StoreInv, StoreTypeOK, TypeOK, SyncTypeOK
  <1>1. RowHashes' /\ LossCauses' /\ TxsFollow'
    <2>1. CASE UNCHANGED <<blocks, lost>>
      <3>1. RowHashes' /\ TxsFollow'
        BY <2>1, <1>t DEF HistoryGrows, RowHashes, TxsFollow, Stored
      <3>2. LossCauses'
        BY <2>1, <1>t DEF HistoryGrows, LossCauses
      <3> QED
        BY <3>1, <3>2
    <2> QED
      BY <1>t, <2>1, RowFromKeeps, LossFromKeeps DEF RecordFrom
  <1>2. RetriesFailed'
    BY <1>t DEF RetriesFailed, FlowsFrom, Flows, HistoryGrows
  <1>3. LatestFromWs'
    BY DEF LatestFromWs, FlowsFrom, Flows, HistoryGrows
  <1>4. TxsFirst'
    BY DEF TxsFirst, SavesAfterTxs, HistoryGrows
  <1> QED
    BY <1>1, <1>2, <1>3, <1>4

-----------------------------------------------------------------------------
(* Where messages go *)

LEMMA PublishTo ==
  ASSUME StoreTypeOK, NEW p \in Queue, NEW H, Publish(p, H), NEW q \in Queue
  PROVE  \A h \in Height : queued'[q][h] > 0 => queued[q][h] > 0 \/ (q = p /\ h \in H)
  BY DEF StoreTypeOK, Publish

\* A handler keeps its message or lets go of it; a tick has none.
LEMMA MovesFlow ==
  ASSUME NEW w \in Worker, \A v \in Worker \ {w} : job'[v] = job[v],
         \/ w \notin MessageWorker
         \/ job'[w].stage = "idle"
         \/ job[w].stage # "idle" /\ job'[w].height = job[w].height
         \/ job'[w] = job[w],
         NEW q \in Queue, NEW H,
         \A h \in Height : queued'[q][h] > 0 => queued[q][h] > 0 \/ h \in H
  PROVE  Flows(q, H)
  <1> SUFFICES ASSUME NEW h \in Height, Flow(q, h)' PROVE Flow(q, h) \/ h \in H
    BY DEF Flows
  <1>1. CASE queued'[q][h] > 0
    BY <1>1 DEF Flow
  <1>2. ASSUME NEW v \in MessageWorker, QueueOf(v) = q, Holds(v, h)' PROVE Flow(q, h)
    BY <1>2 DEF Flow, Holds, Worker
  <1> QED
    BY <1>1, <1>2 DEF Flow

\* A delivery moves a message from its queue to the worker.
LEMMA DeliverFlows ==
  ASSUME TypeInv, NEW w \in MessageWorker, NEW k \in Height, Deliver(w, k), NEW q \in Queue
  PROVE  Flows(q, {})
  <1> USE DEF TypeInv, StoreInv, StoreTypeOK, JobInv, JobTypeOK
  <1> SUFFICES ASSUME NEW h \in Height, Flow(q, h)' PROVE Flow(q, h)
    BY DEF Flows
  <1>1. CASE queued'[q][h] > 0
    BY <1>1 DEF Flow, Deliver, Take
  <1>2. ASSUME NEW v \in MessageWorker, QueueOf(v) = q, Holds(v, h)' PROVE Flow(q, h)
    <2>1. CASE v = w
      <3>1. h = k
        BY <1>2, <2>1 DEF Deliver, Holds, Idle, Worker
      <3> QED
        BY <1>2, <2>1, <3>1 DEF Deliver, Take, Flow
    <2>2. CASE v # w
      BY <1>2, <2>2 DEF Deliver, Holds, Flow, Worker
    <2> QED
      BY <2>1, <2>2
  <1> QED
    BY <1>1, <1>2 DEF Flow

\* A crash moves messages from the workers to the queues they came from.
LEMMA CrashFlows ==
  ASSUME TypeInv, Crash, NEW q \in Queue
  PROVE  Flows(q, {})
  <1> USE DEF TypeInv, StoreInv, StoreTypeOK
  <1> SUFFICES ASSUME NEW h \in Height, Flow(q, h)' PROVE Flow(q, h)
    BY DEF Flows
  <1> DEFINE held == {w \in MessageWorker : QueueOf(w) = q /\ Holds(w, h)}
  <1>1. queued'[q][h] > 0
    BY IdleType DEF Flow, Crash, Requeue, Holds, Worker
  <1>2. CASE held = {}
    <2>1. queued'[q][h] = queued[q][h] + Cardinality(held)
      BY DEF Crash, Requeue
    <2>2. Cardinality(held) = 0
      BY <1>2, FS_EmptySet
    <2> QED
      BY <1>1, <2>1, <2>2 DEF Flow
  <1>3. CASE held # {}
    BY <1>3 DEF Flow
  <1> QED
    BY <1>2, <1>3

-----------------------------------------------------------------------------
(* Every step has its cause *)

\* Steps that touch neither the record of the blocks nor the queues.
LEMMA QuietCause ==
  ASSUME TypeInv, TypeInv', CauseInv, NEW w \in Worker,
         UNCHANGED <<queued, txQueued, blocks, feeds, lost>>,
         ticks' = ticks \/ ticks' = ticks + 1,
         \A h \in Height : failed[h] <= failed'[h],
         \A v \in Worker \ {w} : job'[v] = job[v],
         \/ job'[w] = job[w] \/ job'[w].stage = "idle"
         \/ /\ job[w].stage # "idle" /\ job'[w].stage # "save"
            /\ w \in MessageWorker => job'[w].height = job[w].height,
         w = Tick /\ job'[Tick].stage # "idle" => ticks' > 0
  PROVE  HasCause
  <1>t. ticks \in Nat
    BY DEF TypeInv, TypeOK, SyncTypeOK
  <1>1. TickBegan'
    BY <1>t DEF CauseInv, TickBegan, Worker
  <1>2. HistoryGrows
    BY <1>t DEF HistoryGrows
  <1>3. FlowsFrom
    BY MovesFlow DEF FlowsFrom, Queue
  <1>4. SavesAfterTxs
    BY DEF SavesAfterTxs
  <1> QED
    BY <1>1, <1>2, <1>3, <1>4 DEF HasCause, RecordFrom

LEMMA FaultCauses ==
  /\ UNCHANGED faults \/ Fault => UNCHANGED failed
  /\ StoreTypeOK => \A h \in Height : FaultFor(h) =>
        /\ failed'[h] = failed[h] + 1
        /\ \A k \in Height : failed[k] <= failed'[k]
  BY DEF faults, Fault, FaultFor, StoreTypeOK

LEMMA MovedJob ==
  ASSUME JobTypeOK, NEW w \in Worker, NEW s, To(w, s) \/ End(w)
  PROVE  /\ \A v \in Worker \ {w} : job'[v] = job[v]
         /\ \/ job'[w].stage = "idle"
            \/ job'[w].stage = s /\ job'[w].height = job[w].height
         /\ To(w, s) => job'[w].stage = s
  BY IdleType DEF To, End, JobTypeOK, Job

LEMMA FetchCause ==
  ASSUME TypeInv, TypeInv', CauseInv, UNCHANGED ticks, NEW w \in MessageWorker,
         FetchBlock(w) \/ FetchBlockFails(w)
  PROVE  HasCause
  <1> USE DEF TypeInv, StoreInv, JobInv
  <1>w. w \in Worker /\ w # Tick /\ Tick \in Worker
    BY WorkerAssumption DEF Worker
  <1>h. PICK h \in Height : h = job[w].height
    BY <1>w DEF FetchBlock, FetchBlockFails, ActiveHeights
  <1>t. ticks \in Nat /\ failed \in [Height -> Nat]
    BY DEF TypeOK, SyncTypeOK, StoreTypeOK
  <1>1. CASE FetchBlock(w)
    <2>1. /\ \A v \in Worker \ {w} : job'[v] = job[v]
          /\ job'[w].stage = "save" /\ job'[w].height = h
      BY <1>1, <1>w, <1>h, MovedJob DEF FetchBlock
    <2>2. UNCHANGED <<queued, blocks, lost, feeds, failed>>
      BY <1>1 DEF FetchBlock, tables, faults
    <2>3. FlowsFrom
      BY <1>1, <1>w, <1>h, <2>1, <2>2, MovesFlow DEF FlowsFrom, Queue, FetchBlock
    <2>4. SavesAfterTxs
      BY <1>1, <1>w, <1>h, <2>1 DEF SavesAfterTxs, FetchBlock
    <2>5. TickBegan'
      BY <1>w, <2>1 DEF CauseInv, TickBegan
    <2>6. HistoryGrows
      BY <1>1, <1>t, <2>2 DEF HistoryGrows, FetchBlock
    <2> QED
      BY <2>2, <2>3, <2>4, <2>5, <2>6 DEF HasCause, RecordFrom
  <1>2. CASE FetchBlockFails(w)
    <2>1. /\ \A v \in Worker \ {w} : job'[v] = job[v]
          /\ job'[w].stage = "idle"
      BY <1>2, <1>w, IdleType DEF FetchBlockFails, End, JobTypeOK
    <2>2. UNCHANGED <<txQueued, blocks, feeds>>
      BY <1>2 DEF FetchBlockFails, tables
    <2>3. failed'[h] = failed[h] + 1 /\ \A k \in Height : failed[k] <= failed'[k]
      BY <1>2, <1>h, FaultCauses DEF FetchBlockFails
    <2>4. FlowsFrom
      <3>1. \A k \in Height :
               queued'["ERROR_BLOCK"][k] > 0 => queued["ERROR_BLOCK"][k] > 0 \/ k = h
        BY <1>2, <1>h, PublishTo DEF FetchBlockFails, Queue
      <3>2. \A k \in Height :
               queued'["LATEST_BLOCKS"][k] > 0 => queued["LATEST_BLOCKS"][k] > 0
        BY <1>2, PublishTo DEF FetchBlockFails, Queue
      <3>3. h \in {k \in Height : failed'[k] > 0}
        BY <1>t, <2>3
      <3> QED
        BY <1>w, <2>1, <3>1, <3>2, <3>3, MovesFlow DEF FlowsFrom, Queue
    <2>5. SavesAfterTxs
      BY <2>1 DEF SavesAfterTxs
    <2>6. TickBegan'
      BY <1>w, <2>1 DEF CauseInv, TickBegan
    <2>7. HistoryGrows
      BY <1>t, <2>2, <2>3 DEF HistoryGrows
    <2>8. RecordFrom
      <3>1. CASE UNCHANGED lost
        BY <2>2, <3>1 DEF RecordFrom
      <3>2. CASE w \in ErrorWorker /\ GiveUp(h, "retry_exhausted")
        <4>1. QueueOf(w) = "ERROR_BLOCK" /\ Holds(w, h)
          BY <1>2, <1>h, <3>2, WorkerAssumption DEF QueueOf, Holds, FetchBlockFails
        <4>2. failed[h] > 0
          BY <4>1 DEF CauseInv, RetriesFailed, Flow
        <4>3. failed'[h] >= 2
          BY <1>t, <2>3, <4>2
        <4> QED
          BY <2>2, <3>2, <4>3 DEF RecordFrom, LossFrom, Loss
      <3> QED
        BY <1>2, <1>h, <3>1, <3>2 DEF FetchBlockFails
    <2> QED
      BY <2>4, <2>5, <2>6, <2>7, <2>8 DEF HasCause
  <1> QED
    BY <1>1, <1>2

LEMMA SaveCause ==
  ASSUME TypeInv, TypeInv', CauseInv, UNCHANGED ticks, NEW w \in MessageWorker,
         Save(w) \/ SaveFails(w)
  PROVE  HasCause
  <1> USE DEF TypeInv, StoreInv, JobInv
  <1>w. w \in Worker /\ w # Tick /\ Tick \in Worker
    BY WorkerAssumption DEF Worker
  <1>h. PICK h \in Height : h = job[w].height /\ job[w].stage = "save"
    BY <1>w DEF Save, SaveFails, ActiveHeights
  <1>t. ticks \in Nat /\ failed \in [Height -> Nat]
    BY DEF TypeOK, SyncTypeOK, StoreTypeOK
  <1>1. CASE Save(w)
    <2>1. PICK s \in {"ack", "update"} : To(w, s)
      BY <1>1 DEF Save
    <2>2. /\ \A v \in Worker \ {w} : job'[v] = job[v]
          /\ job'[w].stage = s /\ job'[w].height = h
      BY <1>w, <1>h, <2>1, MovedJob
    <2>3. UNCHANGED <<queued, txQueued, feeds, failed>>
      BY <1>1 DEF Save, faults
    <2>4. FlowsFrom
      BY <1>w, <1>h, <2>2, <2>3, MovesFlow DEF FlowsFrom, Queue
    <2>5. SavesAfterTxs /\ TickBegan'
      BY <1>w, <2>2 DEF SavesAfterTxs, CauseInv, TickBegan
    <2>6. HistoryGrows
      BY <1>t, <2>3 DEF HistoryGrows
    <2>7. RowFrom(h, h)
      <3>1. CASE w \in LatestWorker
        <4>1. QueueOf(w) = "LATEST_BLOCKS" /\ Holds(w, h)
          BY <1>h, <3>1 DEF QueueOf, Holds
        <4>2. "ws" \in feeds'[h]
          BY <2>3, <4>1 DEF CauseInv, LatestFromWs, Flow
        <4> QED
          BY <1>1, <1>h, <4>2 DEF RowFrom, Save
      <3>2. CASE w \notin LatestWorker
        <4>1. h \in txQueued'
          BY <1>w, <1>h, <2>3, <3>2 DEF CauseInv, TxsFirst
        <4> QED
          BY <1>1, <1>h, <4>1 DEF RowFrom, Save
      <3> QED
        BY <3>1, <3>2
    <2>8. h \in Hash
      BY HeightFacts DEF Hash
    <2> QED
      BY <2>4, <2>5, <2>6, <2>7, <2>8 DEF HasCause, RecordFrom
  <1>2. CASE SaveFails(w)
    <2>1. /\ \A v \in Worker \ {w} : job'[v] = job[v]
          /\ job'[w].stage \in {"idle", "ack", "update"}
          /\ job'[w].stage = "idle" \/ job'[w].height = h
      BY <1>2, <1>w, <1>h, MovedJob DEF SaveFails
    <2>2. UNCHANGED <<txQueued, blocks, feeds>>
      BY <1>2 DEF SaveFails, tables
    <2>3. failed'[h] = failed[h] + 1 /\ \A k \in Height : failed[k] <= failed'[k]
      BY <1>2, <1>h, FaultCauses DEF SaveFails
    <2>4. failed'[h] >= 1
      BY <1>t, <2>3
    <2>5. FlowsFrom
      <3>1. \A k \in Height :
               queued'["ERROR_BLOCK"][k] > 0 => queued["ERROR_BLOCK"][k] > 0 \/ k = h
        BY <1>2, <1>h, PublishTo DEF SaveFails, Queue
      <3>2. \A k \in Height :
               queued'["LATEST_BLOCKS"][k] > 0 => queued["LATEST_BLOCKS"][k] > 0
        BY <1>2, PublishTo DEF SaveFails, Queue
      <3>3. h \in {k \in Height : failed'[k] > 0}
        BY <1>t, <2>3
      <3> QED
        BY <1>w, <1>h, <2>1, <3>1, <3>2, <3>3, MovesFlow DEF FlowsFrom, Queue
    <2>6. SavesAfterTxs /\ TickBegan'
      BY <1>w, <2>1 DEF SavesAfterTxs, CauseInv, TickBegan
    <2>7. HistoryGrows
      BY <1>t, <2>2, <2>3 DEF HistoryGrows
    <2>8. RecordFrom
      <3>1. CASE UNCHANGED lost
        BY <2>2, <3>1 DEF RecordFrom
      <3>2. CASE GiveUp(h, "save_swallowed")
        BY <2>2, <2>4, <3>2 DEF RecordFrom, LossFrom, Loss
      <3> QED
        BY <1>2, <1>h, <3>1, <3>2 DEF SaveFails
    <2> QED
      BY <2>5, <2>6, <2>7, <2>8 DEF HasCause
  <1> QED
    BY <1>1, <1>2

LEMMA UpdateCause ==
  ASSUME TypeInv, TypeInv', SettledInv, CauseInv, UNCHANGED ticks, NEW w \in Worker,
         UpdateStep(w) \/ UpdateFails(w)
  PROVE  HasCause
  <1> USE DEF TypeInv, StoreInv, JobInv
  <1>1. UNCHANGED <<queued, txQueued, blocks, feeds, lost, failed>>
    BY DEF UpdateStep, UpdateFails, ReadCount, StartCount, CountRows, WriteCount, EndCount,
           FindValidator, WriteValidator, MarkLatest, Ack, ReadCountFails,
           CountRowsFails, WriteCountFails, UpsertValidatorFails, MarkLatestFails,
           storeVars, tables, redis, faults, Fault
  <1>2. job[w].stage \in {"update", "ack"} /\ Passes(w, job[w].height)
    BY UpdateRecords
  <1>3. job'[w].stage # "save"
    <2>1. End(w) \/ (\E s \in {"ack", "stuck"} : To(w, s))
            \/ \E c, n : Count(w, c, n) \/ Credit(w, c, n)
      BY DEF UpdateStep, UpdateFails, ReadCount, StartCount, CountRows, WriteCount, EndCount,
             FindValidator, WriteValidator, MarkLatest, Ack, ReadCountFails,
             CountRowsFails, WriteCountFails, UpsertValidatorFails, MarkLatestFails
    <2>2. CASE \E c, n : Count(w, c, n) \/ Credit(w, c, n)
      <3>1. PICK c, n : Count(w, c, n) \/ Credit(w, c, n)
        BY <2>2
      <3>2. /\ [job[w] EXCEPT !.cnt = c, !.seen = n].stage = job[w].stage
            /\ [job[w] EXCEPT !.val = c, !.vseen = n].stage = job[w].stage
        BY DEF JobTypeOK, Job
      <3>3. job'[w].stage = job[w].stage
        BY <3>1, <3>2 DEF Count, Credit, JobTypeOK
      <3> QED
        BY <1>2, <3>3
    <2> QED
      BY <2>1, <2>2, MovedJob, IdleType DEF End, JobTypeOK
  <1>4. w = Tick /\ job'[Tick].stage # "idle" => ticks' > 0
    BY <1>2 DEF CauseInv, TickBegan
  <1>5. \A h \in Height : failed[h] <= failed'[h]
    BY <1>1 DEF StoreTypeOK
  <1> QED
    BY <1>1, <1>2, <1>3, <1>4, <1>5, QuietCause DEF Passes

LEMMA SyncCause ==
  ASSUME TypeInv, TypeInv', SettledInv, CauseInv, Sync \/ SyncFails
  PROVE  HasCause
  <1> USE DEF TypeInv, StoreInv, JobInv, storeVars, tables, redis, faults, syncVars
  <1>w. Tick \in Worker /\ Tick \notin MessageWorker /\ Tick \notin LatestWorker
    BY WorkerAssumption DEF Worker, MessageWorker
  <1>t. ticks \in Nat /\ failed \in [Height -> Nat]
    BY DEF TypeOK, SyncTypeOK, StoreTypeOK
  <1>1. CASE TickStart
    <2>1. /\ \A v \in Worker \ {Tick} : job'[v] = job[v]
          /\ job'[Tick].stage = "height"
      BY <1>1, <1>w, MovedJob DEF TickStart
    <2>2. FlowsFrom
      BY <1>1, <1>w, <2>1, MovesFlow DEF FlowsFrom, Queue, TickStart
    <2>3. SavesAfterTxs
      BY <2>1 DEF SavesAfterTxs
    <2> QED
      BY <1>1, <1>t, <2>1, <2>2, <2>3
      DEF HasCause, TickBegan, HistoryGrows, RecordFrom, TickStart
  <1>2. CASE TickHeight
    <2>1. /\ \A v \in Worker \ {Tick} : job'[v] = job[v]
          /\ job[Tick].stage # "idle" /\ job'[Tick].stage = "sync"
      BY <1>2, <1>w DEF TickHeight, WorkOn, JobTypeOK, Job
    <2> QED
      BY <1>2, <1>t, <1>w, <2>1, QuietCause DEF TickHeight, CauseInv, TickBegan
  <1>3. ASSUME NEW r, SyncMissing(r), UNCHANGED failed
        PROVE  HasCause
    <2>1. /\ \A v \in Worker \ {Tick} : job'[v] = job[v]
          /\ job[Tick].stage # "idle" /\ job'[Tick].stage = "fetch"
      BY <1>3, <1>w, MovedJob DEF SyncMissing
    <2>2. PICK H : Publish("DOWNTIME_BLOCK", H) /\ Announce(H, "sync")
      BY <1>3 DEF SyncMissing
    <2>3. FlowsFrom
      BY <1>w, <2>1, <2>2, PublishTo, MovesFlow DEF FlowsFrom, Queue
    <2>4. \A h \in Height : feeds[h] \subseteq feeds'[h]
      BY <2>2 DEF Announce
    <2>5. HistoryGrows
      BY <1>3, <1>t, <2>4 DEF SyncMissing, HistoryGrows
    <2>6. SavesAfterTxs /\ TickBegan'
      BY <1>3, <2>1 DEF SavesAfterTxs, TickBegan, CauseInv, SyncMissing
    <2> QED
      BY <1>3, <2>3, <2>5, <2>6 DEF HasCause, RecordFrom, SyncMissing
  <1>4. CASE TickFetch
    <2>1. /\ \A v \in Worker \ {Tick} : job'[v] = job[v]
          /\ job[Tick].stage # "idle" /\ job'[Tick].stage = "save"
          /\ job'[Tick].height = head
      BY <1>4, <1>w DEF TickFetch, WorkOn, JobTypeOK, Job
    <2>2. FlowsFrom
      BY <1>4, <1>w, <2>1, MovesFlow DEF FlowsFrom, Queue, TickFetch
    <2>3. SavesAfterTxs /\ TickBegan'
      BY <1>4, <2>1 DEF SavesAfterTxs, TickBegan, CauseInv, TickFetch
    <2>4. HistoryGrows
      BY <1>4, <1>t DEF HistoryGrows, TickFetch
    <2> QED
      BY <1>4, <2>2, <2>3, <2>4 DEF HasCause, RecordFrom, TickFetch
  <1>5. CASE TickSave
    <2>h. PICK h \in Height : h = job[Tick].height
      BY <1>5, <1>w DEF TickSave, ActiveHeights
    <2>1. /\ \A v \in Worker \ {Tick} : job'[v] = job[v]
          /\ job[Tick].stage = "save" /\ job'[Tick].stage = "update"
      BY <1>5, <1>w, MovedJob DEF TickSave
    <2>2. FlowsFrom
      BY <1>5, <1>w, <2>1, MovesFlow DEF FlowsFrom, Queue, TickSave
    <2>3. SavesAfterTxs /\ TickBegan'
      BY <1>5, <2>1 DEF SavesAfterTxs, TickBegan, CauseInv, TickSave
    <2>4. HistoryGrows
      BY <1>5, <1>t DEF HistoryGrows, TickSave, Announce
    <2>5. ticks > 0 /\ h \in txQueued
      BY <1>w, <2>h, <2>1 DEF CauseInv, TickBegan, TxsFirst
    <2>6. RowFrom(h, h - 1) /\ h - 1 \in Hash
      BY <1>5, <2>h, <2>5, BoundAssumption DEF RowFrom, TickSave, Hash, Height
    <2> QED
      BY <2>2, <2>3, <2>4, <2>6 DEF HasCause, RecordFrom
  <1>6. CASE TickFails
    <2>1. /\ \A v \in Worker \ {Tick} : job'[v] = job[v]
          /\ job'[Tick].stage = "idle"
      BY <1>6, <1>w, IdleType DEF TickFails, End, JobTypeOK
    <2> QED
      BY <1>6, <1>t, <1>w, <2>1, QuietCause DEF TickFails, Fault
  <1>7. CASE TickUpdate \/ TickUpdateFails
    BY <1>7, <1>w, UpdateCause DEF TickUpdate, TickUpdateFails
  <1> QED
    BY <1>1, <1>2, <1>3, <1>4, <1>5, <1>6, <1>7
    DEF Sync, SyncFails, TickStep, TickFault, TickSync, TickSyncReadFails, Fault

LEMMA OthersCause ==
  ASSUME TypeInv, TypeInv', CauseInv,
         World \/ Consume \/ StartUp \/ StartUpFails \/ UNCHANGED vars
  PROVE  HasCause
  <1> USE DEF TypeInv, StoreInv, JobInv, storeVars, tables, redis, faults, syncVars,
              feedVars
  <1>w. Tick \in Worker /\ Tick \notin MessageWorker
    BY WorkerAssumption DEF Worker
  <1>t. ticks \in Nat /\ failed \in [Height -> Nat] /\ feeds \in [Height -> SUBSET Feed]
    BY DEF TypeOK, SyncTypeOK, StoreTypeOK
  <1>n. UNCHANGED job => TickBegan' \/ ticks' < ticks
    BY <1>t DEF CauseInv, TickBegan, TypeOK, SyncTypeOK
  <1>1. CASE CommitBlock
    <2>1. PICK H : Publish("LATEST_BLOCKS", H) /\ Announce(H, "ws")
      BY <1>1 DEF CommitBlock
    <2>2. \A h \in Height : h \in H => "ws" \in feeds'[h]
      BY <1>t, <2>1 DEF Announce
    <2>3. FlowsFrom
      <3>1. \A h \in Height :
              queued'["LATEST_BLOCKS"][h] > 0
                => queued["LATEST_BLOCKS"][h] > 0 \/ h \in {k \in Height : "ws" \in feeds'[k]}
        BY <2>1, <2>2, PublishTo DEF Queue
      <3>2. \A h \in Height :
              queued'["ERROR_BLOCK"][h] > 0 => queued["ERROR_BLOCK"][h] > 0
        BY <2>1, PublishTo DEF Queue
      <3> QED
        BY <1>1, <1>w, <3>1, <3>2, MovesFlow DEF FlowsFrom, CommitBlock, Queue
    <2>4. HistoryGrows
      BY <1>1, <1>t, <2>1 DEF HistoryGrows, CommitBlock, Announce
    <2> QED
      BY <1>1, <1>t, <1>n, <2>3, <2>4 DEF HasCause, RecordFrom, SavesAfterTxs, CommitBlock
  <1>2. CASE StartUp /\ QueueMissed
    <2>1. PICK H : Publish("DOWNTIME_BLOCK", H) /\ Announce(H, "catchup")
      BY <1>2 DEF QueueMissed, QueueHeights
    <2>2. UNCHANGED <<ticks, failed, txQueued, blocks, lost, job>>
      BY <1>2 DEF StartUp, QueueMissed, QueueHeights, CatchUpIdle
    <2>3. FlowsFrom
      BY <1>w, <2>1, <2>2, PublishTo, MovesFlow DEF FlowsFrom, Queue
    <2>4. HistoryGrows
      BY <1>t, <2>1, <2>2 DEF HistoryGrows, Announce
    <2> QED
      BY <1>t, <1>n, <2>2, <2>3, <2>4 DEF HasCause, RecordFrom, SavesAfterTxs
  <1>3. CASE \/ StartUpFails \/ (StartUp /\ ~QueueMissed)
             \/ FeedMoves \/ Boot \/ UNCHANGED vars
    <2>1. UNCHANGED <<ticks, queued, txQueued, blocks, feeds, lost, job>>
      BY <1>3
      DEF StartUp, StartUpFails, BootStep, BootFault, ReadInitCount, WriteInitCount,
          InitCountFails, ReadLast, ReadLastFails, ReadHead, ReadHeadFails,
          QueueMissedFails, CatchUpIdle, FeedMoves, Boot, vars
    <2>2. \A h \in Height : failed[h] <= failed'[h]
      <3>1. CASE StartUpFails
        <4>1. QueueMissedFails \/ UNCHANGED failed
          BY <3>1
          DEF StartUpFails, BootFault, InitCountFails, ReadLastFails, ReadHeadFails, Fault
        <4>2. CASE QueueMissedFails
          <5>1. CASE catchUp.i \in Height
            BY <4>2, <5>1, FaultCauses DEF QueueMissedFails
          <5>2. CASE catchUp.i \notin Height
            BY <1>t, <4>2, <5>2 DEF QueueMissedFails, Fault
          <5> QED
            BY <5>1, <5>2
        <4> QED
          BY <1>t, <4>1, <4>2
      <3>2. CASE UNCHANGED failed
        BY <1>t, <3>2
      <3>3. ~StartUpFails => UNCHANGED failed
        BY <1>3
        DEF StartUp, BootStep, ReadInitCount, WriteInitCount, ReadLast, ReadHead,
            FeedMoves, Boot, vars
      <3> QED
        BY <3>1, <3>2, <3>3
    <2> QED
      BY <1>w, <2>1, <2>2, QuietCause DEF CauseInv, TickBegan
  <1>4. CASE Crash
    <2>1. \A w \in Worker : job'[w].stage = "idle"
      BY <1>4, IdleType DEF Crash, Requeue
    <2>2. UNCHANGED <<ticks, failed, txQueued, blocks, lost, feeds>>
      BY <1>4 DEF Crash
    <2>3. FlowsFrom
      BY <1>4, CrashFlows DEF FlowsFrom, Flows, Queue
    <2>4. HistoryGrows
      BY <1>t, <2>2 DEF HistoryGrows
    <2> QED
      BY <1>w, <2>1, <2>2, <2>3, <2>4 DEF HasCause, RecordFrom, SavesAfterTxs, TickBegan
  <1>5. CASE Consume
    <2>1. PICK w \in MessageWorker, h \in Height : Deliver(w, h)
      BY <1>5 DEF Consume
    <2>2. UNCHANGED <<ticks, failed, txQueued, blocks, lost, feeds>>
      BY <1>5, <2>1 DEF Consume, Deliver
    <2>3. /\ \A v \in Worker \ {w} : job'[v] = job[v]
          /\ job'[w].stage = "fetch" /\ w # Tick
      BY <1>w, <2>1 DEF Deliver, Idle, JobTypeOK, Worker
    <2>4. FlowsFrom
      BY <2>1, DeliverFlows DEF FlowsFrom, Flows, Queue
    <2>5. HistoryGrows
      BY <1>t, <2>2 DEF HistoryGrows
    <2>6. SavesAfterTxs
      BY <2>3 DEF SavesAfterTxs
    <2>7. TickBegan'
      BY <1>w, <2>2, <2>3 DEF CauseInv, TickBegan
    <2> QED
      BY <2>2, <2>4, <2>5, <2>6, <2>7 DEF HasCause, RecordFrom
  <1> QED
    BY <1>1, <1>2, <1>3, <1>4, <1>5 DEF World, StartUp

LEMMA NextHasCause ==
  TypeInv /\ TypeInv' /\ SettledInv /\ CauseInv /\ [Next]_vars => HasCause
  <1> SUFFICES ASSUME TypeInv, TypeInv', SettledInv, CauseInv, [Next]_vars PROVE HasCause
    OBVIOUS
  <1>1. ASSUME NEW w \in MessageWorker, Handle(w) \/ HandleFails(w) PROVE HasCause
    BY <1>1, FetchCause, SaveCause, UpdateCause
    DEF Handle, HandleFails, MessageStep, MessageFails, syncVars, Worker
  <1> QED
    BY <1>1, SyncCause, OthersCause DEF Next

LEMMA NextCauseInv ==
  TypeInv /\ TypeInv' /\ SettledInv /\ CauseInv /\ [Next]_vars => CauseInv'
  BY NextHasCause, CauseKeeps

LEMMA CauseInvariant == Spec => []CauseInv
  BY InitCauseInv, NextCauseInv, TypeInvariant, SettledInvariant, PTL DEF Spec

\* What it takes to lose a block, whatever is interleaved or crashes: two failed
\* requests for it by way of ERROR_BLOCK, one when a failed save is ignored, or
\* an HTTP tick whose row has taken the block's hash.
THEOREM LossesHaveCauses == Spec => []LossCauses
  <1>1. CauseInv => LossCauses
    BY DEF CauseInv
  <1> QED
    BY <1>1, CauseInvariant, PTL

\* A row carries the hash of its block or, by an HTTP tick, of the block before,
\* and two rows never share a height or a hash.
THEOREM HashesFit == Spec => []RowHashes
  <1>1. CauseInv => RowHashes
    BY DEF CauseInv
  <1> QED
    BY <1>1, CauseInvariant, PTL

\* No block is stored without its transactions: the WebSocket announced them, or
\* the handler that saved the block had published their hashes before.
THEOREM TransactionsFollow == Spec => []TxsFollow
  <1>1. CauseInv => TxsFollow
    BY DEF CauseInv
  <1> QED
    BY <1>1, CauseInvariant, PTL

-----------------------------------------------------------------------------
(* The boot catch-up *)

\* A height the loop has passed was told to the indexer, or the request for the
\* head that would have let it through failed.
LoopInv ==
    /\ catchUp.stage \in {"loop", "done"} => catchUp.new <= head
    /\ catchUp.stage \in {"loop", "done"} /\ catchUp.new > catchUp.last + 1 =>
          \A h \in catchUp.last + 1 .. catchUp.new :
              h < catchUp.i => Heard(h) \/ failed[h] > 0

LEMMA InitLoopInv == Init => LoopInv
  BY DEF Init, BootInit, CatchUpAt, LoopInv

LEMMA LoopHeights ==
  ASSUME TypeInv, NEW h \in catchUp.last + 1 .. catchUp.new
  PROVE  h \in Height
  <1>1. catchUp.last \in 0 .. MaxHeight /\ catchUp.new \in 0 .. MaxHeight
    BY DEF TypeInv, TypeOK, BootTypeOK, CatchUp
  <1> QED
    BY <1>1, BoundAssumption DEF Height

\* What the indexer was told of and what failed stays so.
LEMMA HeardStays ==
  ASSUME TypeInv, TypeInv', HistoryGrows, NEW h \in Height, Heard(h) \/ failed[h] > 0
  PROVE  (Heard(h) \/ failed[h] > 0)'
  <1>1. failed[h] \in Nat /\ failed'[h] \in Nat
    BY DEF TypeInv, TypeOK, StoreTypeOK
  <1> QED
    BY <1>1 DEF HistoryGrows, Heard

LEMMA HeadGrows ==
  TypeInv /\ [Next]_vars => head <= head' /\ head \in Nat /\ head' \in Nat
  <1> SUFFICES ASSUME TypeInv, [Next]_vars
               PROVE  head <= head' /\ head \in Nat /\ head' \in Nat
    OBVIOUS
  <1>1. head \in Nat
    BY HeightFacts DEF TypeInv, TypeOK, StoreTypeOK
  <1>2. head' = head \/ head' = head + 1
    <2>1. ASSUME NEW w \in Worker,
                 \/ FetchBlock(w) \/ Save(w) \/ UpdateStep(w)
                 \/ FetchBlockFails(w) \/ SaveFails(w) \/ UpdateFails(w)
          PROVE  UNCHANGED head
      BY <2>1
      DEF storeVars, FetchBlock, FetchBlockFails, Save, SaveFails, UpdateStep, UpdateFails,
          ReadCount, StartCount, CountRows, WriteCount, EndCount, FindValidator,
          WriteValidator, MarkLatest, Ack, ReadCountFails, CountRowsFails, WriteCountFails,
          UpsertValidatorFails, MarkLatestFails
    <2>2. ASSUME NEW w \in MessageWorker, Handle(w) \/ HandleFails(w) PROVE UNCHANGED head
      BY <2>1, <2>2 DEF Handle, HandleFails, MessageStep, MessageFails, Worker
    <2>3. Sync \/ SyncFails => UNCHANGED head
      BY <2>1
      DEF storeVars, Sync, SyncFails, TickStart, TickStep, TickFault, TickHeight, TickSync,
          SyncMissing, TickSyncReadFails, TickFetch, TickSave, TickFails, TickUpdate,
          TickUpdateFails, Worker
    <2>4. StartUp \/ StartUpFails => UNCHANGED head
      BY DEF storeVars, StartUp, StartUpFails, BootStep, BootFault, ReadInitCount,
          WriteInitCount, InitCountFails, ReadLast, ReadLastFails, ReadHead, ReadHeadFails,
          QueueMissed, QueueHeights, QueueMissedFails, CatchUpIdle
    <2>5. Consume \/ World \/ UNCHANGED vars => head' = head \/ head' = head + 1
      BY DEF Consume, Deliver, World, CommitBlock, FeedMoves, Crash, Boot, vars, storeVars
    <2> QED
      BY <2>2, <2>3, <2>4, <2>5 DEF Next
  <1> QED
    BY <1>1, <1>2

LEMMA NextLoopInv ==
  ASSUME TypeInv, TypeInv', HasCause, LoopInv, [Next]_vars
  PROVE  LoopInv'
  <1> DEFINE Past(h) == Heard(h) \/ failed[h] > 0
  <1>1. \A h \in Height : Past(h) => Past(h)'
    BY HeardStays DEF HasCause
  <1>2. head <= head' /\ head \in Nat /\ head' \in Nat
    BY HeadGrows
  <1>3. catchUp \in CatchUp /\ catchUp' \in CatchUp /\ catchUp.new \in Nat
        /\ catchUp.last \in Nat /\ catchUp.i \in Nat
    BY HeightFacts DEF TypeInv, TypeOK, BootTypeOK, CatchUp
  <1> HIDE DEF Past
  <1>4. CASE UNCHANGED catchUp
    <2>1. \A h \in catchUp.last + 1 .. catchUp.new : Past(h) => Past(h)'
      BY <1>1, LoopHeights
    <2> QED
      BY <1>2, <1>3, <1>4, <2>1 DEF LoopInv, Past
  <1>5. CASE catchUp'.stage \notin {"loop", "done"}
    BY <1>5 DEF LoopInv
  <1>6. CASE catchUp' = CatchUpAt("done")
    BY <1>2, <1>6 DEF LoopInv, CatchUpAt
  <1>7. CASE ReadHead
    <2>1. catchUp'.new = head /\ catchUp'.last = catchUp.last
          /\ catchUp'.i = catchUp.last + 1 /\ head' = head
      BY <1>3, <1>7 DEF ReadHead, CatchUp, CatchUpIdle
    <2>2. \A h \in catchUp'.last + 1 .. catchUp'.new : ~ h < catchUp'.i
      BY <1>2, <1>3, <2>1
    <2> QED
      BY <1>2, <2>1, <2>2 DEF LoopInv
  <1>8. ASSUME catchUp.stage = "loop", AdvanceLoop,
               \A h \in Height : h = catchUp.i /\ h <= head => Past(h)'
        PROVE  LoopInv'
    <2>1. /\ catchUp'.new = catchUp.new /\ catchUp'.last = catchUp.last
          /\ catchUp'.i = catchUp.i + 1
      BY <1>3, <1>8 DEF AdvanceLoop, CatchUp
    <2>2. catchUp.new <= head
      BY <1>8 DEF LoopInv
    <2>3. ASSUME catchUp.new > catchUp.last + 1,
                 NEW h \in catchUp.last + 1 .. catchUp.new, h < catchUp.i + 1
          PROVE  Past(h)'
      <3>1. h \in Height /\ h \in Nat /\ h <= head
        BY <1>2, <1>3, <2>2, LoopHeights
      <3>2. CASE h < catchUp.i
        BY <1>1, <1>8, <2>3, <3>1, <3>2 DEF LoopInv, Past
      <3>3. CASE h = catchUp.i
        BY <1>8, <3>1, <3>3
      <3> QED
        BY <1>3, <2>3, <3>1, <3>2, <3>3
    <2> QED
      BY <1>2, <1>3, <2>1, <2>2, <2>3 DEF LoopInv, Past
  <1>9. CASE QueueMissed
    <2>1. \A h \in Height : h = catchUp.i /\ h <= head => Heard(h)'
      BY <1>9 DEF QueueMissed, QueueHeights, Announce, Heard, TypeInv, TypeOK, StoreTypeOK
    <2> QED
      BY <1>8, <1>9, <2>1 DEF QueueMissed, QueueHeights, Past
  <1>10. CASE QueueMissedFails
    <2>1. \A h \in Height : h = catchUp.i => failed'[h] > 0
      BY <1>10 DEF QueueMissedFails, FaultFor, TypeInv, TypeOK, StoreTypeOK
    <2> QED
      BY <1>8, <1>10, <2>1 DEF QueueMissedFails, Past
  <1>11. CASE StartUp \/ StartUpFails
    <2>1. \/ QueueMissed \/ QueueMissedFails \/ ReadHead \/ UNCHANGED catchUp
          \/ catchUp' = CatchUpAt("done") \/ catchUp'.stage = "head"
      BY <1>3, <1>11
      DEF StartUp, StartUpFails, BootStep, BootFault, ReadInitCount, WriteInitCount,
          InitCountFails, ReadLast, ReadLastFails, ReadHeadFails, CatchUp
    <2> QED
      BY <1>4, <1>5, <1>6, <1>7, <1>9, <1>10, <2>1
  <1>12. CASE Crash \/ Boot
    BY <1>5, <1>12 DEF Crash, StopTasks, Boot, StartTasks, CatchUpAt
  <1>13. ~(StartUp \/ StartUpFails \/ Crash \/ Boot) => UNCHANGED catchUp
    BY DEF Next, World, CommitBlock, FeedMoves, Consume, Handle, HandleFails, Sync,
           SyncFails, bootVars, vars
  <1> QED
    BY <1>4, <1>11, <1>12, <1>13

LEMMA LoopInvariant == Spec => []LoopInv
  <1>1. TypeInv /\ TypeInv' /\ SettledInv /\ CauseInv /\ LoopInv /\ [Next]_vars => LoopInv'
    BY NextHasCause, NextLoopInv
  <1> QED
    BY <1>1, InitLoopInv, CauseInvariant, TypeInvariant, SettledInvariant, PTL DEF Spec

\* Whatever else the indexer does meanwhile, a height the catch-up loop has
\* passed is stored, given up or still on its way, unless a request for it
\* failed: what was told once cannot get lost unseen (NoBlockUnaccounted).
THEOREM CatchUpLosesNone == Spec => []CatchUpCovers
  <1>1. TypeInv /\ SettledInv /\ LoopInv => CatchUpCovers
    BY LoopHeights DEF SettledInv, Accounted, LoopInv, Heard, CatchUpCovers
  <1> QED
    BY <1>1, LoopInvariant, TypeInvariant, SettledInvariant, PTL

-----------------------------------------------------------------------------
(* Validators are not credited twice *)

\* A credit for h is still to come: its message waits for consumeLatestBlocks, or
\* a handler there has not written the count yet.
Owed(h) ==
    \/ queued["LATEST_BLOCKS"][h] > 0
    \/ \E w \in LatestWorker : Holds(w, h) /\ job[w].val # "done"

\* The rows of v's blocks for which no credit is to come: a count may have been
\* raised for each of them, and for no other.
FreeRows(v) == {r \in blocks : Proposer[r.blocknumber] = v /\ ~Owed(r.blocknumber)}

\* The WebSocket tells of a block once, and one handler works on it.
ToldOnce ==
    /\ \A h \in Height : queued["LATEST_BLOCKS"][h] <= 1
    /\ \A w \in LatestWorker, h \in Height : Holds(w, h) =>
          /\ queued["LATEST_BLOCKS"][h] = 0
          /\ \A v \in LatestWorker : Holds(v, h) => v = w

\* Only processLatestBlock credits validators, and for stored blocks.
LatestCredits ==
    /\ \A w \in MessageWorker \ LatestWorker :
          job[w].stage = "idle" \/ job[w].val = "done"
    /\ \A w \in LatestWorker :
          /\ job[w].stage = "update" => Stored(job[w].height)
          /\ job[w].val = "write" => job[w].stage = "update"

\* A handler about to write the count it read adds one to at most as many.
CreditsCovered ==
    /\ \A v \in Validator : validated[v] <= Cardinality(FreeRows(v))
    /\ \A w \in LatestWorker :
          job[w].stage = "update" /\ job[w].val = "write" =>
              job[w].vseen <= Cardinality(FreeRows(Proposer[job[w].height]))

CreditsInv == crashes = 0 /\ ticks = 0 => ToldOnce /\ LatestCredits /\ CreditsCovered

\* A step that leaves LATEST_BLOCKS alone; its handlers stay with their blocks.
LatestStays ==
    /\ queued'["LATEST_BLOCKS"] = queued["LATEST_BLOCKS"]
    /\ blocks \subseteq blocks'
    /\ \A w \in MessageWorker \ LatestWorker :
          job'[w].stage = "idle" \/ job'[w].val = "done"
    /\ \A w \in LatestWorker :
          \/ job'[w] = job[w]
          \/ job'[w] = Idle
          \/ /\ job[w].stage # "idle" /\ job'[w].height = job[w].height
             /\ job[w].val = "done" => job'[w].val = "done"
             /\ job'[w].val = "write" => job'[w].stage = "update"
             /\ job'[w].stage = "update" => Stored(job[w].height)'

\* What a handler has read stays, or is what the table holds now.
ReadsFit ==
    \A w \in LatestWorker : job'[w].stage = "update" /\ job'[w].val = "write" =>
        \/ /\ job[w].stage = "update" /\ job[w].val = "write"
           /\ job'[w].height = job[w].height /\ job'[w].vseen = job[w].vseen
        \/ job'[w].vseen = validated[Proposer[job'[w].height]]

LEMMA InitCreditsInv == Init => CreditsInv
  <1> SUFFICES ASSUME Init PROVE ToldOnce /\ LatestCredits /\ CreditsCovered
    BY DEF CreditsInv
  <1>1. \A w \in Worker : job[w].stage = "idle" /\ job[w].val = "find"
    BY DEF Init, JobInit, Idle
  <1>2. \A v \in Validator : FreeRows(v) = {}
    BY DEF Init, StoreInit, FreeRows
  <1>3. Cardinality({}) = 0
    BY FS_EmptySet
  <1>4. CreditsCovered
    <2>1. ASSUME NEW v \in Validator PROVE validated[v] <= Cardinality(FreeRows(v))
      <3>1. Cardinality(FreeRows(v)) = 0
        BY <1>2, <1>3
      <3> QED
        BY <3>1 DEF Init, StoreInit
    <2>2. \A w \in LatestWorker : job[w].stage = "idle"
      BY <1>1 DEF Worker, MessageWorker
    <2> QED
      BY <2>1, <2>2 DEF CreditsCovered
  <1> QED
    BY <1>1, <1>4
    DEF Init, StoreInit, ToldOnce, LatestCredits, Holds, Worker, MessageWorker, Queue

LEMMA FreeRowsFinite ==
  ASSUME TypeInv, NEW v
  PROVE  IsFiniteSet(FreeRows(v)) /\ Cardinality(FreeRows(v)) \in Nat
  BY FS_Subset, FS_CardinalityType DEF TypeInv, StoreInv, FiniteBlocks, FreeRows

LEMMA FreeRowsGrow ==
  ASSUME TypeInv, TypeInv', blocks \subseteq blocks',
         \A h \in Height : Stored(h) /\ Owed(h)' => Owed(h), NEW v
  PROVE  /\ FreeRows(v) \subseteq FreeRows(v)'
         /\ Cardinality(FreeRows(v)) <= Cardinality(FreeRows(v)')
  <1>1. \A r \in blocks : r.blocknumber \in Height /\ Stored(r.blocknumber)
    BY DEF TypeInv, StoreInv, StoreTypeOK, Row, Stored
  <1>2. ASSUME NEW r \in FreeRows(v) PROVE r \in FreeRows(v)'
    <2>1. PICK h \in Height : h = r.blocknumber /\ Stored(h) /\ ~Owed(h)
      BY <1>1 DEF FreeRows
    <2> QED
      BY <2>1 DEF FreeRows
  <1>3. FreeRows(v) \subseteq FreeRows(v)'
    BY <1>2
  <1>4. IsFiniteSet(FreeRows(v)')
    BY FS_Subset DEF TypeInv, StoreInv, FiniteBlocks, FreeRows
  <1> QED
    BY <1>3, <1>4, FS_Subset

LEMMA StaysKeep ==
  ASSUME TypeInv, TypeInv', ToldOnce, LatestCredits, LatestStays
  PROVE  /\ ToldOnce' /\ LatestCredits'
         /\ \A h \in Height : Owed(h)' => Owed(h)
  <1>1. \A w \in LatestWorker, h \in Height :
           Holds(w, h)' => Holds(w, h) /\ (job[w].val = "done" => job'[w].val = "done")
    BY DEF LatestStays, Holds, Idle
  <1>2. ToldOnce'
    BY <1>1 DEF ToldOnce, LatestStays
  <1>3. \A h \in Height : Stored(h) => Stored(h)'
    BY DEF LatestStays, Stored
  <1>4. LatestCredits'
    <2> SUFFICES ASSUME NEW w \in LatestWorker, job'[w].stage = "update"
                 PROVE  Stored(job[w].height)'
      BY DEF LatestCredits, LatestStays, Idle
    <2>1. CASE job'[w] = job[w]
      <3>1. Stored(job[w].height)
        BY <2>1 DEF LatestCredits
      <3> QED
        BY <2>1, <3>1 DEF Stored, LatestStays
    <2> QED
      BY <2>1 DEF LatestStays, Idle
  <1>5. \A h \in Height : Owed(h)' => Owed(h)
    BY <1>1 DEF Owed, LatestStays
  <1> QED
    BY <1>2, <1>4, <1>5

LEMMA CoverKept ==
  ASSUME TypeInv, TypeInv', CreditsCovered, ReadsFit,
         \A v \in Validator :
            validated'[v] = validated[v] \/ validated'[v] <= Cardinality(FreeRows(v)'),
         blocks \subseteq blocks', \A h \in Height : Stored(h) /\ Owed(h)' => Owed(h)
  PROVE  CreditsCovered'
  <1> USE DEF TypeInv, StoreInv, StoreTypeOK
  <1>1. \A v : /\ Cardinality(FreeRows(v)) <= Cardinality(FreeRows(v)')
               /\ Cardinality(FreeRows(v)) \in Nat /\ Cardinality(FreeRows(v)') \in Nat
    <2> SUFFICES ASSUME NEW v
                 PROVE  /\ Cardinality(FreeRows(v)) <= Cardinality(FreeRows(v)')
                        /\ Cardinality(FreeRows(v)) \in Nat
                        /\ Cardinality(FreeRows(v)') \in Nat
      OBVIOUS
    <2>1. Cardinality(FreeRows(v)') \in Nat
      BY FS_Subset, FS_CardinalityType DEF FiniteBlocks, FreeRows
    <2> QED
      BY <2>1, FreeRowsGrow, FreeRowsFinite
  <1>2. \A v \in Validator : validated'[v] <= Cardinality(FreeRows(v)')
    BY <1>1 DEF CreditsCovered
  <1>3. ASSUME NEW w \in LatestWorker, job'[w].stage = "update" /\ job'[w].val = "write"
        PROVE  job'[w].vseen <= Cardinality(FreeRows(Proposer[job[w].height])')
    <2> DEFINE h == job'[w].height
    <2>1. h \in Height /\ Proposer[h] \in Validator /\ job'[w].vseen \in Nat
      BY <1>3, ProposerAssumption
      DEF JobInv, JobTypeOK, ActiveHeights, Job, Worker, MessageWorker
    <2>2. PICK v \in Validator : v = Proposer[h]
      BY <2>1
    <2>3. job'[w].vseen <= Cardinality(FreeRows(v)')
      <3>1. CASE job'[w].vseen = validated[v]
        <4>1. validated[v] <= Cardinality(FreeRows(v)) /\ validated[v] \in Nat
          BY DEF CreditsCovered
        <4> QED
          BY <1>1, <3>1, <4>1
      <3>2. CASE /\ job[w].stage = "update" /\ job[w].val = "write"
                 /\ job'[w].height = job[w].height /\ job'[w].vseen = job[w].vseen
        <4>1. job[w].vseen <= Cardinality(FreeRows(v))
          BY <2>2, <3>2 DEF CreditsCovered
        <4> QED
          BY <1>1, <2>1, <3>2, <4>1
      <3> QED
        BY <1>3, <2>2, <3>1, <3>2 DEF ReadsFit
    <2>4. FreeRows(Proposer[job[w].height])' = FreeRows(v)'
      BY <2>2 DEF FreeRows
    <2> QED
      BY <2>3, <2>4
  <1> QED
    BY <1>2, <1>3 DEF CreditsCovered

LEMMA CountedJob ==
  ASSUME JobTypeOK, NEW w \in Worker, NEW c, NEW n
  PROVE  /\ Count(w, c, n) =>
              /\ \A v \in Worker \ {w} : job'[v] = job[v]
              /\ job'[w].stage = job[w].stage /\ job'[w].height = job[w].height
              /\ job'[w].val = job[w].val /\ job'[w].vseen = job[w].vseen
         /\ Credit(w, c, n) =>
              /\ \A v \in Worker \ {w} : job'[v] = job[v]
              /\ job'[w].stage = job[w].stage /\ job'[w].height = job[w].height
              /\ job'[w].val = c /\ job'[w].vseen = n
  <1>1. ASSUME Count(w, c, n)
        PROVE  /\ \A v \in Worker \ {w} : job'[v] = job[v]
               /\ job'[w].stage = job[w].stage /\ job'[w].height = job[w].height
               /\ job'[w].val = job[w].val /\ job'[w].vseen = job[w].vseen
    <2>1. PICK j : j = [job[w] EXCEPT !.cnt = c, !.seen = n]
      OBVIOUS
    <2>2. /\ j.stage = job[w].stage /\ j.height = job[w].height
          /\ j.val = job[w].val /\ j.vseen = job[w].vseen
      BY <2>1 DEF JobTypeOK, Job
    <2>3. job' = [job EXCEPT ![w] = j]
      BY <1>1, <2>1 DEF Count
    <2>4. job'[w] = j /\ \A v \in Worker \ {w} : job'[v] = job[v]
      BY <2>3 DEF JobTypeOK
    <2> QED
      BY <2>2, <2>4
  <1>2. ASSUME Credit(w, c, n)
        PROVE  /\ \A v \in Worker \ {w} : job'[v] = job[v]
               /\ job'[w].stage = job[w].stage /\ job'[w].height = job[w].height
               /\ job'[w].val = c /\ job'[w].vseen = n
    <2>1. PICK j : j = [job[w] EXCEPT !.val = c, !.vseen = n]
      OBVIOUS
    <2>2. /\ j.stage = job[w].stage /\ j.height = job[w].height
          /\ j.val = c /\ j.vseen = n
      BY <2>1 DEF JobTypeOK, Job
    <2>3. job' = [job EXCEPT ![w] = j]
      BY <1>2, <2>1 DEF Credit
    <2>4. job'[w] = j /\ \A v \in Worker \ {w} : job'[v] = job[v]
      BY <2>3 DEF JobTypeOK
    <2> QED
      BY <2>2, <2>4
  <1> QED
    BY <1>1, <1>2

LEMMA ToJob ==
  ASSUME JobTypeOK, NEW w \in Worker, NEW s, To(w, s)
  PROVE  /\ \A v \in Worker \ {w} : job'[v] = job[v]
         /\ job'[w].stage = s /\ job'[w].height = job[w].height
         /\ job'[w].val = job[w].val /\ job'[w].vseen = job[w].vseen
  BY DEF To, JobTypeOK, Job

LEMMA EndJob ==
  ASSUME JobTypeOK, NEW w \in Worker, End(w)
  PROVE  /\ \A v \in Worker \ {w} : job'[v] = job[v]
         /\ job'[w] = Idle
  BY DEF End, JobTypeOK

LEMMA SavedIsStored ==
  ASSUME TypeInv, RowHashes, ticks = 0, NEW h \in Height, SaveBlock(h, h)
  PROVE  Stored(h)' /\ blocks \subseteq blocks'
  <1> USE DEF TypeInv, StoreInv, StoreTypeOK
  <1>1. CASE Conflicts(h, h)
    <2>1. \A r \in blocks : r.blockhash = r.blocknumber
      BY DEF RowHashes
    <2>2. Stored(h)
      BY <1>1, <2>1 DEF Conflicts, Stored
    <2> QED
      BY <1>1, <2>2 DEF SaveBlock, Stored
  <1>2. CASE ~Conflicts(h, h)
    <2>1. blocks' = blocks \cup {[blocknumber |-> h, blockhash |-> h]}
      BY <1>2 DEF SaveBlock
    <2>2. PICK r \in blocks' : r = [blocknumber |-> h, blockhash |-> h]
      BY <2>1
    <2> QED
      BY <2>1, <2>2 DEF Stored
  <1> QED
    BY <1>1, <1>2

\* The part of a handler that works on the block itself.
LEMMA BlockStays ==
  ASSUME TypeInv, RowHashes, ticks = 0, LatestCredits, NEW w \in MessageWorker,
         FetchBlock(w) \/ FetchBlockFails(w) \/ Save(w) \/ SaveFails(w)
  PROVE  LatestStays /\ ReadsFit /\ UNCHANGED validated
  <1> USE DEF TypeInv, StoreInv, StoreTypeOK, JobInv
  <1>w. w \in Worker /\ MessageWorker \subseteq Worker /\ LatestWorker \subseteq MessageWorker
    BY DEF Worker, MessageWorker
  <1>h. PICK h \in Height : h = job[w].height /\ job[w].stage \in {"fetch", "save"}
    BY <1>w DEF FetchBlock, FetchBlockFails, Save, SaveFails, ActiveHeights
  <1>1. UNCHANGED validated /\ queued'["LATEST_BLOCKS"] = queued["LATEST_BLOCKS"]
    BY DEF FetchBlock, FetchBlockFails, Save, SaveFails, tables, Publish, Queue
  <1>2. blocks \subseteq blocks' /\ (Save(w) => Stored(h)')
    BY <1>h, SavedIsStored DEF FetchBlock, FetchBlockFails, Save, SaveFails, tables
  <1>3. /\ \A v \in Worker \ {w} : job'[v] = job[v]
        /\ \/ job'[w] = Idle
           \/ /\ job'[w].height = h /\ job'[w].val = job[w].val
              /\ job'[w].stage \in {"save", "update", "ack"}
              /\ job'[w].stage = "update" /\ w \in LatestWorker => Save(w)
    <2>1. CASE End(w)
      BY <1>w, <2>1, EndJob
    <2>2. CASE FetchBlock(w)
      BY <1>w, <1>h, <2>2, ToJob DEF FetchBlock
    <2>3. CASE Save(w)
      <3>1. PICK s \in {"update", "ack"} : To(w, s)
        BY <2>3 DEF Save
      <3> QED
        BY <1>w, <1>h, <2>3, <3>1, ToJob
    <2>4. CASE SaveFails(w) /\ ~End(w)
      <3>1. PICK s \in {"update", "ack"} : To(w, s) /\ w \notin LatestWorker
        BY <2>4 DEF SaveFails
      <3> QED
        BY <1>w, <1>h, <3>1, ToJob
    <2> QED
      BY <2>1, <2>2, <2>3, <2>4 DEF FetchBlockFails
  <1>4. Save(w) /\ job'[w].height = h => Stored(job[w].height)'
    BY <1>2 DEF Stored
  <1>5. LatestStays
    BY <1>w, <1>h, <1>1, <1>2, <1>3, <1>4, IdleType DEF LatestStays, LatestCredits
  <1>6. ReadsFit
    <2>1. CASE w \in LatestWorker /\ job'[w].stage = "update"
      <3>1. job'[w].val = job[w].val /\ job[w].val # "write"
        BY <1>h, <1>3, <2>1, IdleType DEF LatestCredits
      <3> QED
        BY <1>w, <1>3, <3>1 DEF ReadsFit
    <2>2. CASE w \notin LatestWorker \/ job'[w].stage # "update"
      BY <1>w, <1>3, <2>2 DEF ReadsFit
    <2> QED
      BY <2>1, <2>2
  <1> QED
    BY <1>1, <1>5, <1>6

LEMMA UpdateShape ==
  ASSUME NEW w \in MessageWorker, UpdateStep(w) \/ UpdateFails(w)
  PROVE  /\ job[w].stage \in {"update", "ack"} /\ UNCHANGED <<queued, blocks>>
         /\ \/ (\E c, n : Count(w, c, n)) /\ UNCHANGED validated
            \/ /\ w \in DowntimeWorker /\ UNCHANGED validated
               /\ \E s \in {"ack", "stuck"} : To(w, s)
            \/ End(w) /\ UNCHANGED validated
            \/ /\ Credit(w, "done", 0) /\ UNCHANGED validated
               /\ job[w].stage = "update" /\ job[w].val # "done"
            \/ FindValidator(w) \/ WriteValidator(w)
  <1> USE DEF storeVars, tables
  <1>1. CASE UpdateStep(w)
    BY <1>1
    DEF UpdateStep, ReadCount, StartCount, CountRows, WriteCount, EndCount,
        FindValidator, WriteValidator, MarkLatest, Ack, Updated
  <1>2. CASE UpdateFails(w)
    BY <1>2
    DEF UpdateFails, ReadCountFails, StartCount, CountRowsFails, WriteCountFails, EndCount,
        UpsertValidatorFails, MarkLatestFails, Updated
  <1> QED
    BY <1>1, <1>2

\* The part that works on the counters, but for the write of a credit.
LEMMA UpdateStays ==
  ASSUME TypeInv, LatestCredits, NEW w \in MessageWorker, UpdateStep(w) \/ UpdateFails(w)
  PROVE  \/ LatestStays /\ ReadsFit /\ UNCHANGED validated
         \/ w \in LatestWorker /\ WriteValidator(w) /\ LatestStays
  <1> USE DEF TypeInv, StoreInv, StoreTypeOK, JobInv
  <1>w. w \in Worker /\ MessageWorker \subseteq Worker /\ LatestWorker \subseteq MessageWorker
    BY DEF Worker, MessageWorker
  <1>h. PICK h \in Height : h = job[w].height /\ job[w].stage \in {"update", "ack"}
    BY <1>w, UpdateShape DEF ActiveHeights
  <1>1. UNCHANGED <<queued, blocks>>
    BY UpdateShape
  <1>2. w \in LatestWorker /\ job[w].stage = "update" => Stored(h)'
    BY <1>h, <1>1 DEF LatestCredits, Stored
  <1>3. w \in LatestWorker /\ job[w].stage = "update" /\ job'[w].height = h
          => Stored(job[w].height)'
    BY <1>2 DEF Stored
  <1>4. CASE End(w) /\ UNCHANGED validated
    <2>1. job'[w] = Idle /\ \A v \in Worker \ {w} : job'[v] = job[v]
      BY <1>w, <1>4, EndJob
    <2>2. LatestStays
      BY <1>w, <1>1, <2>1, IdleType DEF LatestStays, LatestCredits
    <2>3. ReadsFit
      BY <1>w, <2>1, IdleType DEF ReadsFit
    <2> QED
      BY <1>4, <2>2, <2>3
  <1>5. CASE w \in DowntimeWorker /\ (\E s \in {"ack", "stuck"} : To(w, s)) /\ UNCHANGED validated
    <2>1. /\ job'[w].val = job[w].val /\ \A v \in Worker \ {w} : job'[v] = job[v]
      BY <1>w, <1>5, ToJob
    <2>2. w \notin LatestWorker
      BY <1>5, WorkerAssumption
    <2>3. LatestStays
      BY <1>w, <1>h, <1>1, <2>1, <2>2 DEF LatestStays, LatestCredits
    <2>4. ReadsFit
      BY <1>w, <2>1, <2>2 DEF ReadsFit
    <2> QED
      BY <1>5, <2>3, <2>4
  <1>6. ASSUME NEW c, NEW n, Count(w, c, n) PROVE LatestStays /\ ReadsFit
    <2>1. /\ \A v \in Worker \ {w} : job'[v] = job[v]
          /\ job'[w].stage = job[w].stage /\ job'[w].height = h
          /\ job'[w].val = job[w].val /\ job'[w].vseen = job[w].vseen
      BY <1>w, <1>h, <1>6, CountedJob
    <2>2. LatestStays
      BY <1>w, <1>h, <1>1, <1>3, <2>1 DEF LatestStays, LatestCredits
    <2>3. ReadsFit
      BY <1>w, <1>h, <2>1 DEF ReadsFit
    <2> QED
      BY <2>2, <2>3
  <1>7. ASSUME NEW c, NEW n, Credit(w, c, n), job[w].stage = "update", job[w].val # "done"
        PROVE  /\ LatestStays /\ w \in LatestWorker
               /\ \A v \in Worker \ {w} : job'[v] = job[v]
               /\ job'[w].height = h /\ job'[w].val = c /\ job'[w].vseen = n
    <2>1. /\ \A v \in Worker \ {w} : job'[v] = job[v]
          /\ job'[w].stage = job[w].stage /\ job'[w].height = h
          /\ job'[w].val = c /\ job'[w].vseen = n
      BY <1>w, <1>h, <1>7, CountedJob
    <2>2. w \in LatestWorker
      BY <1>7 DEF LatestCredits
    <2>3. LatestStays
      BY <1>w, <1>h, <1>1, <1>3, <1>7, <2>1, <2>2 DEF LatestStays, LatestCredits
    <2> QED
      BY <2>1, <2>2, <2>3
  <1>8. CASE Credit(w, "done", 0) /\ job[w].val # "done" /\ UNCHANGED validated
              /\ job[w].stage = "update"
    BY <1>w, <1>7, <1>8 DEF ReadsFit
  <1>9. CASE FindValidator(w)
    <2>1. /\ LatestStays /\ w \in LatestWorker
          /\ \A v \in Worker \ {w} : job'[v] = job[v]
          /\ job'[w].height = h /\ job'[w].vseen = validated[Proposer[h]]
      BY <1>h, <1>7, <1>9 DEF FindValidator
    <2> QED
      BY <1>w, <1>9, <2>1 DEF ReadsFit, FindValidator, storeVars
  <1>10. CASE WriteValidator(w)
    BY <1>7, <1>10 DEF WriteValidator
  <1> QED
    BY <1>4, <1>5, <1>6, <1>8, <1>9, <1>10, UpdateShape

\* Writing a credit settles the debt for a stored block: there is one free row
\* more for the one the count is raised by.
LEMMA CreditWritten ==
  ASSUME TypeInv, TypeInv', ToldOnce, LatestCredits, CreditsCovered,
         NEW w \in LatestWorker, WriteValidator(w), LatestStays
  PROVE  CreditsCovered'
  <1> USE DEF TypeInv, StoreInv, StoreTypeOK, JobInv
  <1>w. w \in Worker /\ MessageWorker \subseteq Worker /\ LatestWorker \subseteq MessageWorker
    BY DEF Worker, MessageWorker
  <1>h. PICK h \in Height : h = job[w].height
    BY <1>w DEF WriteValidator, ActiveHeights
  <1>v. PICK v \in Validator : v = Proposer[h]
    BY ProposerAssumption
  <1>1. job[w].stage = "update" /\ job[w].val = "write" /\ Holds(w, h) /\ Stored(h)
    BY <1>w, <1>h DEF WriteValidator, LatestCredits, Holds
  <1>2. /\ \A u \in Worker \ {w} : job'[u] = job[u]
        /\ job'[w].val = "done"
    BY <1>w, CountedJob DEF WriteValidator
  <1>3. Owed(h) /\ ~Owed(h)'
    <2>1. Owed(h)
      BY <1>1 DEF Owed
    <2>2. queued'["LATEST_BLOCKS"][h] = 0
      BY <1>1 DEF LatestStays, ToldOnce
    <2>3. ASSUME NEW u \in LatestWorker, Holds(u, h)', job'[u].val # "done" PROVE FALSE
      <3>1. u # w /\ job'[u] = job[u]
        BY <1>w, <1>2, <2>3
      <3>2. Holds(u, h)
        BY <2>3, <3>1 DEF Holds
      <3> QED
        BY <1>1, <3>1, <3>2 DEF ToldOnce
    <2> QED
      BY <2>1, <2>2, <2>3 DEF Owed
  <1>4. \A k \in Height : Owed(k)' => Owed(k)
    BY StaysKeep
  <1>5. blocks \subseteq blocks'
    BY DEF LatestStays
  <1>6. Cardinality(FreeRows(v)) + 1 <= Cardinality(FreeRows(v)')
    <2>1. PICK r \in blocks : r.blocknumber = h
      BY <1>1 DEF Stored
    <2>2. r \notin FreeRows(v) /\ r \in FreeRows(v)'
      BY <1>v, <1>3, <1>5, <2>1 DEF FreeRows
    <2>3. FreeRows(v) \cup {r} \subseteq FreeRows(v)'
      BY <1>4, <1>5, <2>2, FreeRowsGrow
    <2>4. IsFiniteSet(FreeRows(v)) /\ Cardinality(FreeRows(v)) \in Nat
      BY FreeRowsFinite
    <2>5. IsFiniteSet(FreeRows(v)')
      BY FS_Subset DEF FiniteBlocks, FreeRows
    <2>6. Cardinality(FreeRows(v) \cup {r}) = Cardinality(FreeRows(v)) + 1
      BY <2>2, <2>4, FS_AddElement
    <2>7. Cardinality(FreeRows(v) \cup {r}) <= Cardinality(FreeRows(v)')
      BY <2>3, <2>5, FS_Subset
    <2> QED
      BY <2>6, <2>7
  <1>7. job[w].vseen <= Cardinality(FreeRows(v))
    BY <1>h, <1>v, <1>1 DEF CreditsCovered
  <1>8. job[w].vseen + 1 <= Cardinality(FreeRows(v)')
    <2>1. job[w].vseen \in Nat /\ Cardinality(FreeRows(v)) \in Nat
      BY <1>w, FreeRowsFinite DEF JobTypeOK, Job
    <2>2. Cardinality(FreeRows(v)') \in Nat
      BY FS_Subset, FS_CardinalityType DEF FiniteBlocks, FreeRows
    <2> QED
      BY <1>6, <1>7, <2>1, <2>2
  <1>9. ASSUME NEW u \in Validator
        PROVE  validated'[u] = validated[u] \/ validated'[u] <= Cardinality(FreeRows(u)')
    <2>1. \/ validated' = validated
          \/ validated' = [validated EXCEPT ![v] = job[w].vseen + 1]
      BY <1>h, <1>v DEF WriteValidator
    <2>2. CASE u = v
      BY <1>8, <2>1, <2>2
    <2>3. CASE u # v
      BY <2>1, <2>3
    <2> QED
      BY <2>2, <2>3
  <1>10. ReadsFit
    BY <1>w, <1>2 DEF ReadsFit
  <1> QED
    BY <1>4, <1>5, <1>9, <1>10, CoverKept

LEMMA DeliverCredits ==
  ASSUME TypeInv, TypeInv', ToldOnce, LatestCredits, CreditsCovered,
         NEW w \in MessageWorker, NEW k \in Height, Deliver(w, k)
  PROVE  ToldOnce' /\ LatestCredits' /\ CreditsCovered'
  <1> USE DEF TypeInv, StoreInv, StoreTypeOK, JobInv, JobTypeOK
  <1>w. w \in Worker /\ MessageWorker \subseteq Worker /\ LatestWorker \subseteq MessageWorker
    BY DEF Worker, MessageWorker
  <1>1. UNCHANGED <<blocks, validated>>
    BY DEF Deliver, tables
  <1>2. /\ \A v \in Worker \ {w} : job'[v] = job[v]
        /\ job[w].stage = "idle" /\ job'[w].stage = "fetch" /\ job'[w].height = k
        /\ job'[w].val = IF w \in LatestWorker THEN "find" ELSE "done"
    BY <1>w DEF Deliver, Idle
  <1>3. ReadsFit
    BY <1>w, <1>2 DEF ReadsFit
  <1>4. CASE w \in LatestWorker
    <2>1. /\ queued["LATEST_BLOCKS"][k] > 0
          /\ queued'["LATEST_BLOCKS"][k] = queued["LATEST_BLOCKS"][k] - 1
          /\ \A h \in Height \ {k} :
                queued'["LATEST_BLOCKS"][h] = queued["LATEST_BLOCKS"][h]
      BY <1>4 DEF Deliver, Take, QueueOf, Queue
    <2>2. queued["LATEST_BLOCKS"][k] = 1 /\ queued'["LATEST_BLOCKS"][k] = 0
      BY <2>1 DEF ToldOnce, Queue
    <2>3. \A u \in LatestWorker, h \in Height :
             Holds(u, h)' => (u = w /\ h = k) \/ (u # w /\ Holds(u, h) /\ h # k)
      BY <1>w, <1>2, <2>2 DEF Holds, ToldOnce
    <2>4. ToldOnce'
      <3>1. \A h \in Height : queued'["LATEST_BLOCKS"][h] <= 1
        BY <2>1, <2>2 DEF ToldOnce
      <3>2. ASSUME NEW u \in LatestWorker, NEW h \in Height, Holds(u, h)'
            PROVE  /\ queued'["LATEST_BLOCKS"][h] = 0
                   /\ \A v \in LatestWorker : Holds(v, h)' => v = u
        <4>1. CASE u = w /\ h = k
          BY <2>2, <2>3, <4>1
        <4>2. CASE u # w /\ Holds(u, h) /\ h # k
          BY <2>1, <2>3, <4>2 DEF ToldOnce
        <4> QED
          BY <2>3, <3>2, <4>1, <4>2
      <3> QED
        BY <3>1, <3>2 DEF ToldOnce
    <2>5. LatestCredits'
      BY <1>w, <1>1, <1>2, <1>4 DEF LatestCredits, Stored
    <2>6. \A h \in Height : Owed(h)' => Owed(h)
      <3> SUFFICES ASSUME NEW h \in Height, Owed(h)' PROVE Owed(h)
        OBVIOUS
      <3>1. CASE h = k
        BY <2>1, <3>1 DEF Owed
      <3>2. CASE h # k
        BY <1>w, <1>2, <2>1, <2>3, <3>2 DEF Owed
      <3> QED
        BY <3>1, <3>2
    <2> QED
      BY <1>1, <1>3, <2>4, <2>5, <2>6, CoverKept
  <1>5. CASE w \notin LatestWorker
    <2>1. queued'["LATEST_BLOCKS"] = queued["LATEST_BLOCKS"]
      BY <1>5 DEF Deliver, Take, QueueOf, Queue
    <2>2. LatestStays
      BY <1>w, <1>1, <1>2, <1>5, <2>1 DEF LatestStays, LatestCredits
    <2> QED
      BY <1>1, <1>3, <2>2, StaysKeep, CoverKept
  <1> QED
    BY <1>4, <1>5

LEMMA CommitCredits ==
  ASSUME TypeInv, TypeInv', HeardInv, ToldOnce, LatestCredits, CreditsCovered, CommitBlock
  PROVE  ToldOnce' /\ LatestCredits' /\ CreditsCovered'
  <1> USE DEF TypeInv, StoreInv, StoreTypeOK, JobInv, JobTypeOK
  <1> DEFINE told == {h \in Height : h = head + 1 /\ feed = "ws"}
  <1>1. UNCHANGED <<blocks, validated, job>> /\ Publish("LATEST_BLOCKS", told)
    BY DEF CommitBlock, tables
  <1>2. \A h \in told : ~Pending(h) /\ ~Stored(h)
    BY HeightFacts DEF HeardInv, Settled, Height
  <1>3. \A h \in Height : queued'["LATEST_BLOCKS"][h] =
           IF h \in told THEN queued["LATEST_BLOCKS"][h] + 1
                         ELSE queued["LATEST_BLOCKS"][h]
    BY <1>1 DEF Publish, Queue
  <1> HIDE DEF told
  <1>4. \A h \in told : /\ queued["LATEST_BLOCKS"][h] = 0 /\ h \in Height
                        /\ \A w \in LatestWorker : ~Holds(w, h)
    BY <1>2 DEF Pending, Queue, MessageWorker, told
  <1>5. \A w, h : Holds(w, h)' <=> Holds(w, h)
    BY <1>1 DEF Holds
  <1>6. ToldOnce'
    <2>1. \A h \in Height : queued'["LATEST_BLOCKS"][h] <= 1
      BY <1>3, <1>4 DEF ToldOnce
    <2>2. ASSUME NEW w \in LatestWorker, NEW h \in Height, Holds(w, h)'
          PROVE  /\ queued'["LATEST_BLOCKS"][h] = 0
                 /\ \A v \in LatestWorker : Holds(v, h)' => v = w
      <3>1. Holds(w, h) /\ h \notin told
        BY <1>4, <1>5, <2>2
      <3>2. queued'["LATEST_BLOCKS"][h] = queued["LATEST_BLOCKS"][h]
        BY <1>3, <3>1
      <3> QED
        BY <1>5, <3>1, <3>2 DEF ToldOnce
    <2> QED
      BY <2>1, <2>2 DEF ToldOnce
  <1>7. LatestCredits' /\ ReadsFit
    BY <1>1 DEF LatestCredits, ReadsFit, Stored
  <1>8. \A h \in Height : Stored(h) /\ Owed(h)' => Owed(h)
    BY <1>1, <1>2, <1>3, <1>5 DEF Owed
  <1> QED
    BY <1>1, <1>6, <1>7, <1>8, CoverKept

LEMMA NextCreditsInv ==
  TypeInv /\ TypeInv' /\ HeardInv /\ CauseInv /\ HasCause /\ CreditsInv /\ [Next]_vars
    => CreditsInv'
  <1> SUFFICES ASSUME TypeInv, TypeInv', HeardInv, CauseInv, HasCause, CreditsInv,
                      [Next]_vars, crashes' = 0, ticks' = 0
               PROVE  ToldOnce' /\ LatestCredits' /\ CreditsCovered'
    BY DEF CreditsInv
  <1>t. crashes \in Nat /\ ticks \in Nat /\ ticks <= ticks'
    BY DEF TypeInv, TypeOK, SyncTypeOK, HasCause, HistoryGrows
  <1>1. ~Crash /\ ~TickStart
    BY <1>t DEF Crash, TickStart
  <1>2. crashes = 0 /\ ticks = 0
    <2>1. UNCHANGED crashes
      BY <1>1
      DEF Next, World, CommitBlock, FeedMoves, Boot, Consume, Handle, HandleFails, Sync,
          SyncFails, StartUp, StartUpFails, procVars, vars
    <2> QED
      BY <1>t, <2>1
  <1>3. ToldOnce /\ LatestCredits /\ CreditsCovered
    BY <1>2 DEF CreditsInv
  <1>4. ~(Sync \/ SyncFails)
    <2>1. job[Tick].stage = "idle"
      BY <1>2 DEF CauseInv, TickBegan
    <2> QED
      BY <1>1, <2>1
      DEF Sync, SyncFails, TickStep, TickFault, TickHeight, TickSync, SyncMissing,
          TickSyncReadFails, TickFetch, TickSave, TickFails, TickUpdate, TickUpdateFails,
          UpdateStep, UpdateFails, ReadCount, StartCount, CountRows, WriteCount, EndCount,
          FindValidator, WriteValidator, MarkLatest, Ack, Updated, ReadCountFails,
          CountRowsFails, WriteCountFails, UpsertValidatorFails, MarkLatestFails
  <1>5. ASSUME LatestStays, ReadsFit, UNCHANGED validated
        PROVE  ToldOnce' /\ LatestCredits' /\ CreditsCovered'
    BY <1>3, <1>5, StaysKeep, CoverKept DEF LatestStays
  <1>6. CASE CommitBlock
    BY <1>3, <1>6, CommitCredits
  <1>7. CASE Consume
    BY <1>3, <1>7, DeliverCredits DEF Consume
  <1>8. ASSUME NEW w \in MessageWorker, Handle(w) \/ HandleFails(w)
        PROVE  ToldOnce' /\ LatestCredits' /\ CreditsCovered'
    <2>1. CASE FetchBlock(w) \/ FetchBlockFails(w) \/ Save(w) \/ SaveFails(w)
      BY <1>2, <1>3, <1>5, <2>1, BlockStays DEF CauseInv
    <2>2. CASE UpdateStep(w) \/ UpdateFails(w)
      <3>1. CASE w \in LatestWorker /\ WriteValidator(w) /\ LatestStays
        BY <1>3, <3>1, CreditWritten, StaysKeep
      <3> QED
        BY <1>3, <1>5, <2>2, <3>1, UpdateStays
    <2> QED
      BY <1>8, <2>1, <2>2 DEF Handle, HandleFails, MessageStep, MessageFails
  <1>9. CASE FeedMoves \/ Boot \/ StartUp \/ StartUpFails \/ UNCHANGED vars
    <2>1. /\ UNCHANGED <<blocks, validated, job>>
          /\ queued'["LATEST_BLOCKS"] = queued["LATEST_BLOCKS"]
      BY <1>9
      DEF FeedMoves, Boot, StartUp, StartUpFails, BootStep, BootFault, ReadInitCount,
          WriteInitCount, InitCountFails, ReadLast, ReadLastFails, ReadHead, ReadHeadFails,
          QueueMissed, QueueHeights, QueueMissedFails, CatchUpIdle, Publish, vars,
          storeVars, tables, TypeInv, TypeOK, StoreTypeOK, Queue
    <2> QED
      BY <1>3, <1>5, <2>1 DEF LatestStays, ReadsFit, LatestCredits
  <1> QED
    BY <1>1, <1>4, <1>6, <1>7, <1>8, <1>9 DEF Next, World

LEMMA CreditsInvariant == Spec => []CreditsInv
  <1>1. TypeInv /\ TypeInv' /\ SettledInv /\ HeardInv /\ CauseInv /\ CreditsInv /\ [Next]_vars
          => CreditsInv'
    BY NextHasCause, NextCreditsInv
  <1> QED
    BY <1>1, InitCreditsInv, HeardInvariant, CauseInvariant, PTL DEF Spec

\* Lost updates of ValidatedBlocksCount only ever lose: as long as nothing was
\* redelivered by a crash and no HTTP tick ran, however many handlers interleave
\* their find and their write, no validator has more credits than blocks.
THEOREM CreditsOnlyLost == Spec => []NeverOverCredited
  <1>1. TypeInv /\ CreditsInv => NeverOverCredited
    <2> SUFFICES ASSUME TypeInv, CreditsCovered, NEW v \in Validator
                 PROVE  validated[v]
                          <= Cardinality({r \in blocks : Proposer[r.blocknumber] = v})
      BY DEF CreditsInv, NeverOverCredited
    <2> DEFINE rows == {r \in blocks : Proposer[r.blocknumber] = v}
    <2>1. FreeRows(v) \subseteq rows
      BY DEF FreeRows
    <2>2. IsFiniteSet(rows) /\ Cardinality(rows) \in Nat
      BY FS_Subset, FS_CardinalityType DEF TypeInv, StoreInv, FiniteBlocks
    <2>3. Cardinality(FreeRows(v)) <= Cardinality(rows)
      BY <2>1, <2>2, FS_Subset
    <2>4. validated[v] <= Cardinality(FreeRows(v)) /\ validated[v] \in Nat
      BY DEF CreditsCovered, TypeInv, TypeOK, StoreTypeOK
    <2>5. Cardinality(FreeRows(v)) \in Nat
      BY FreeRowsFinite
    <2> QED
      BY <2>2, <2>3, <2>4, <2>5
  <1> QED
    BY <1>1, CreditsInvariant, TypeInvariant, PTL
=============================================================================

--------------------------- MODULE BlockConsumers ---------------------------
(***************************************************************************)
(* The RabbitMQ block consumers of the indexer and the handlers they call. *)
(* A worker is one unacknowledged delivery a consumer may hold             *)
(* (channel.prefetch counts them per consumer); the handlers of one        *)
(* consumer run concurrently and are cut here wherever the code awaits a   *)
(* reply, each action being the reply and all that runs up to the next     *)
(* await.                                                                  *)
(***************************************************************************)
EXTENDS IndexerStore

CONSTANTS
    LatestWorker,   \* deliveries of consumeLatestBlocks
    DowntimeWorker, \* deliveries of consumeDownTimeBlocks
    ErrorWorker,    \* deliveries of consumeErrorBlocks
    Tick            \* the one safeTick that may run in HttpBlockSyncService

MessageWorker == LatestWorker \cup DowntimeWorker \cup ErrorWorker
Worker == MessageWorker \cup {Tick}

ASSUME WorkerAssumption ==
    /\ IsFiniteSet(MessageWorker)
    /\ LatestWorker \cap DowntimeWorker = {}
    /\ LatestWorker \cap ErrorWorker = {}
    /\ DowntimeWorker \cap ErrorWorker = {}
    /\ Tick \notin MessageWorker

VARIABLE job  \* job[w]: how far the handler run by w has come

Stage == {"idle", "height", "sync", "fetch", "save", "update", "ack", "stuck"}

\* cnt and val: the two read-modify-write chains that end a handler, the one
\* on NATIVE_BLOCKS_COUNT and the one on ValidatedBlocksCount, each with the
\* value it read and has not written back yet.  cnt is "init" when that value
\* is a count of the rows and "add" when it is the old count plus one.
Job == [stage : Stage, height : 0 .. MaxHeight,
        cnt : {"get", "db", "init", "add", "done"}, seen : Nat,
        val : {"find", "write", "done"}, vseen : Nat]

Idle == [stage |-> "idle", height |-> 0,
         cnt |-> "get", seen |-> 0, val |-> "find", vseen |-> 0]

JobTypeOK == job \in [Worker -> Job]
JobInit == job = [w \in Worker |-> Idle]

\* Slip: consumeErrorBlocks subscribes to LATEST_BLOCKS.
QueueOfSwapped(w) == IF w \in DowntimeWorker THEN "DOWNTIME_BLOCK"
                                              ELSE "LATEST_BLOCKS"

QueueOf(w) == IF w \in LatestWorker THEN "LATEST_BLOCKS"
              ELSE IF w \in DowntimeWorker THEN "DOWNTIME_BLOCK"
              ELSE "ERROR_BLOCK"

\* w holds a message about h that it has not acknowledged.
Holds(w, h) == w \in MessageWorker /\ job[w].stage # "idle" /\ job[w].height = h

\* A message about h is waiting in a queue or unacknowledged.
Pending(h) == \/ \E q \in Queue : queued[q][h] > 0
              \/ \E w \in MessageWorker : Holds(w, h)

To(w, stage) == job' = [job EXCEPT ![w].stage = stage]
WorkOn(w, stage, h) ==
    job' = [job EXCEPT ![w] = [@ EXCEPT !.stage = stage, !.height = h]]
End(w) == job' = [job EXCEPT ![w] = Idle]
Count(w, cnt, n) == job' = [job EXCEPT ![w] = [@ EXCEPT !.cnt = cnt, !.seen = n]]
Credit(w, val, n) == job' = [job EXCEPT ![w] = [@ EXCEPT !.val = val, !.vseen = n]]

-----------------------------------------------------------------------------
(* Delivery and the block itself *)

Deliver(w, h) ==
    /\ job[w].stage = "idle"
    /\ Take(QueueOf(w), h)
    /\ job' = [job EXCEPT ![w] =
                  [Idle EXCEPT !.stage = "fetch", !.height = h,
                               !.val = IF w \in LatestWorker THEN "find"
                                                             ELSE "done"]]
    /\ UNCHANGED <<head, txQueued, tables, redis, feeds, lost, faults>>

\* Slip: the transactions of the block are not published.
FetchBlockOnly(w) ==
    /\ job[w].stage = "fetch"
    /\ To(w, "save")
    /\ UNCHANGED <<head, queued, txQueued, tables, redis, feeds, lost, faults>>

\* GET /block?height=h answers.  processErrorBlock publishes the hashes of the
\* block's transactions before it saves the block; processLatestBlock leaves
\* them to the Tx subscription.
FetchBlock(w) ==
    LET h == job[w].height IN
    /\ job[w].stage = "fetch"
    /\ txQueued' = IF w \in LatestWorker THEN txQueued ELSE txQueued \cup {h}
    /\ To(w, "save")
    /\ UNCHANGED <<head, queued, tables, redis, feeds, lost, faults>>

\* Slip: the failure leaves the handler without an acknowledgement.
FetchBlockHangs(w) ==
    /\ job[w].stage = "fetch"
    /\ FaultFor(job[w].height)
    /\ To(w, "stuck")
    /\ UNCHANGED <<head, queued, txQueued, tables, redis, feeds, lost>>

\* It fails.  consumeLatestBlocks and consumeDownTimeBlocks pass the height to
\* ERROR_BLOCK; consumeErrorBlocks ignores the result of processErrorBlock.
FetchBlockFails(w) ==
    LET h == job[w].height IN
    /\ job[w].stage = "fetch"
    /\ FaultFor(h)
    /\ \/ /\ w \notin ErrorWorker
          /\ Publish("ERROR_BLOCK", {h})
          /\ UNCHANGED lost
       \/ /\ w \in ErrorWorker
          /\ GiveUp(h, "retry_exhausted")
          /\ UNCHANGED queued
    /\ End(w)
    /\ UNCHANGED <<head, txQueued, tables, redis, feeds>>

Save(w) ==
    LET h == job[w].height IN
    /\ job[w].stage = "save"
    /\ SaveBlock(h, h)
    /\ To(w, IF w \in ErrorWorker THEN "ack" ELSE "update")
    /\ UNCHANGED <<head, queued, txQueued, validated, redis, feeds, faults>>

\* Slip: processLatestBlock goes on to the counters after a failed insert.
SaveFailsUnseen(w) ==
    /\ job[w].stage = "save"
    /\ FaultFor(job[w].height)
    /\ To(w, IF w \in ErrorWorker THEN "ack" ELSE "update")
    /\ UNCHANGED <<head, queued, txQueued, tables, redis, feeds, lost>>

\* The insert fails for another reason than a duplicate.  processLatestBlock
\* throws; processErrorBlock does not look at the result and returns true.
SaveFails(w) ==
    LET h == job[w].height IN
    /\ job[w].stage = "save"
    /\ FaultFor(h)
    /\ \/ /\ w \in LatestWorker
          /\ Publish("ERROR_BLOCK", {h})
          /\ End(w)
          /\ UNCHANGED lost
       \/ /\ w \notin LatestWorker
          /\ GiveUp(h, "save_swallowed")
          /\ To(w, IF w \in ErrorWorker THEN "ack" ELSE "update")
          /\ UNCHANGED queued
    /\ UNCHANGED <<head, txQueued, tables, redis, feeds>>

-----------------------------------------------------------------------------
(* NATIVE_BLOCKS_COUNT: GET, then SET, with a row count when it is not set *)

\* Promise.all issues the GET of updateBlockCount and the SET of LATEST_BLOCK
\* back to back on one connection.  consumeDownTimeBlocks sets LATEST_BLOCK
\* after the count instead.  A failed GET returns [], which counts as 0.
StartCount(w, getOk, setOk) ==
    /\ job[w].stage = "update" /\ job[w].cnt = "get"
    /\ IF getOk /\ blockCount = 0
       THEN Count(w, "db", 0)
       ELSE Count(w, "add", IF getOk THEN blockCount + 1 ELSE 1)
    /\ latestBlock' = IF setOk /\ w \notin DowntimeWorker THEN job[w].height
                                                          ELSE latestBlock
    /\ UNCHANGED <<head, queued, txQueued, tables, blockCount, feeds, lost>>

ReadCount(w) == StartCount(w, TRUE, TRUE) /\ UNCHANGED faults

ReadCountFails(w) ==
    /\ \E getOk, setOk \in BOOLEAN :
          /\ ~getOk \/ (~setOk /\ w \notin DowntimeWorker)
          /\ StartCount(w, getOk, setOk)
    /\ Fault

CountRows(w) ==
    /\ job[w].stage = "update" /\ job[w].cnt = "db"
    /\ Count(w, "init", Cardinality(blocks))
    /\ UNCHANGED storeVars

\* updateBlockCount catches the error; in consumeDownTimeBlocks it reaches a
\* catch that does not acknowledge, so the delivery stays with the worker.
CountRowsFails(w) ==
    /\ job[w].stage = "update" /\ job[w].cnt = "db"
    /\ Fault
    /\ IF w \in DowntimeWorker THEN To(w, "stuck") ELSE Count(w, "done", 0)
    /\ UNCHANGED <<head, queued, txQueued, tables, redis, feeds, lost>>

EndCount(w) ==
    /\ job[w].stage = "update" /\ job[w].cnt \in {"init", "add"}
    /\ Count(w, "done", 0)
    /\ UNCHANGED <<head, queued, txQueued, tables, latestBlock, feeds, lost>>

WriteCount(w) ==
    /\ EndCount(w)
    /\ blockCount' = job[w].seen
    /\ UNCHANGED faults

WriteCountFails(w) == EndCount(w) /\ Fault /\ UNCHANGED blockCount

-----------------------------------------------------------------------------
(* ValidatedBlocksCount: find, then update or create *)

FindValidator(w) ==
    /\ job[w].stage = "update" /\ job[w].val = "find"
    /\ Credit(w, "write", validated[Proposer[job[w].height]])
    /\ UNCHANGED storeVars

\* A create that meets a row made since the find fails, and is only logged.
WriteValidator(w) ==
    LET v == Proposer[job[w].height] IN
    /\ job[w].stage = "update" /\ job[w].val = "write"
    /\ validated' = IF job[w].vseen = 0 /\ validated[v] > 0
                    THEN validated
                    ELSE [validated EXCEPT ![v] = job[w].vseen + 1]
    /\ Credit(w, "done", 0)
    /\ UNCHANGED <<head, queued, txQueued, blocks, redis, feeds, lost, faults>>

UpsertValidatorFails(w) ==
    /\ job[w].stage = "update" /\ job[w].val # "done"
    /\ Fault
    /\ Credit(w, "done", 0)
    /\ UNCHANGED <<head, queued, txQueued, tables, redis, feeds, lost>>

-----------------------------------------------------------------------------
(* The end of a handler *)

Updated(w) ==
    job[w].stage = "update" /\ job[w].cnt = "done" /\ job[w].val = "done"

\* consumeDownTimeBlocks sets LATEST_BLOCK to the block it was given.
MarkLatest(w) ==
    /\ w \in DowntimeWorker /\ Updated(w)
    /\ latestBlock' = job[w].height
    /\ To(w, "ack")
    /\ UNCHANGED <<head, queued, txQueued, tables, blockCount, feeds, lost, faults>>

MarkLatestFails(w) ==
    /\ w \in DowntimeWorker /\ Updated(w)
    /\ Fault
    /\ To(w, "ack")
    /\ UNCHANGED <<head, queued, txQueued, tables, redis, feeds, lost>>

\* Slip: nack, which puts the message back, in place of ack.
AckByNack(w) ==
    /\ job[w].stage = "ack" \/ (w \notin DowntimeWorker /\ Updated(w))
    /\ Publish(QueueOf(w), {job[w].height})
    /\ End(w)
    /\ UNCHANGED <<head, txQueued, tables, redis, feeds, lost, faults>>

Ack(w) ==
    /\ job[w].stage = "ack" \/ (w \notin DowntimeWorker /\ Updated(w))
    /\ End(w)
    /\ UNCHANGED storeVars

UpdateStep(w) ==
    \/ ReadCount(w) \/ CountRows(w) \/ WriteCount(w)
    \/ FindValidator(w) \/ WriteValidator(w)
    \/ MarkLatest(w) \/ Ack(w)

UpdateFails(w) ==
    \/ ReadCountFails(w) \/ CountRowsFails(w) \/ WriteCountFails(w)
    \/ UpsertValidatorFails(w) \/ MarkLatestFails(w)

MessageStep(w) ==
    w \in MessageWorker /\ (FetchBlock(w) \/ Save(w) \/ UpdateStep(w))

MessageFails(w) ==
    w \in MessageWorker /\ (FetchBlockFails(w) \/ SaveFails(w) \/ UpdateFails(w))

\* Slip: the consumers were opened with noAck, so nothing comes back.
RequeueNothing == UNCHANGED queued /\ job' = [w \in Worker |-> Idle]

\* The process stops: every unacknowledged message returns to its queue.
Requeue ==
    /\ queued' = [q \in Queue |-> [h \in Height |->
           queued[q][h]
             + Cardinality({w \in MessageWorker : QueueOf(w) = q /\ Holds(w, h)})]]
    /\ job' = [w \in Worker |-> Idle]
=============================================================================

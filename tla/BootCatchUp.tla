----------------------------- MODULE BootCatchUp ----------------------------
(***************************************************************************)
(* What server.ts starts once Redis is up and does not await: the block    *)
(* count is read from Postgres into Redis (initializeCount), and the       *)
(* heights the chain reached while the indexer was down are queued         *)
(* (downTimeBlocks), both while the consumers already run.                 *)
(***************************************************************************)
EXTENDS BlockConsumers

CONSTANT CatchupDisabled  \* the environment's catchupDisabled

ASSUME CatchupAssumption == CatchupDisabled \in BOOLEAN

VARIABLES
    initCount,  \* initializeCount: its stage and the count it read
    catchUp     \* downTimeBlocks: its stage and its locals lastBlockSaved,
                \* newBlock and i

bootVars == <<initCount, catchUp>>

InitCount == [stage : {"off", "db", "set"}, seen : Nat]
CatchUp == [stage : {"off", "read", "head", "loop", "done"},
            last : 0 .. MaxHeight, new : 0 .. MaxHeight, i : Nat]

BootTypeOK == initCount \in InitCount /\ catchUp \in CatchUp

CountOff == [stage |-> "off", seen |-> 0]
CatchUpAt(stage) == [stage |-> stage, last |-> 0, new |-> 0, i |-> 0]

BootInit == initCount = CountOff /\ catchUp = CatchUpAt("off")

StartTasks ==
    /\ initCount' = [CountOff EXCEPT !.stage = "db"]
    /\ catchUp' = CatchUpAt(IF CatchupDisabled THEN "off" ELSE "read")

StopTasks == initCount' = CountOff /\ catchUp' = CatchUpAt("off")

-----------------------------------------------------------------------------
\* initializeCount: an empty table writes nothing, and a failed count rejects.
ReadInitCount ==
    /\ initCount.stage = "db"
    /\ initCount' = IF blocks = {} THEN CountOff
                    ELSE [stage |-> "set", seen |-> Cardinality(blocks)]
    /\ UNCHANGED <<storeVars, job, catchUp>>

WriteInitCount ==
    /\ initCount.stage = "set"
    /\ blockCount' = initCount.seen
    /\ initCount' = CountOff
    /\ UNCHANGED <<head, queued, txQueued, tables, latestBlock, feeds, lost,
                   faults, job, catchUp>>

InitCountFails ==
    /\ initCount.stage # "off"
    /\ Fault
    /\ initCount' = CountOff
    /\ UNCHANGED <<head, queued, txQueued, tables, redis, feeds, lost, job, catchUp>>

-----------------------------------------------------------------------------
CatchUpIdle == UNCHANGED <<head, txQueued, tables, redis, lost, job, initCount>>

\* A key that is not set ends the catch-up; a failed read returns [], which is
\* truthy and converts to 0.
ReadLast ==
    /\ catchUp.stage = "read"
    /\ catchUp' = IF latestBlock = 0
                  THEN CatchUpAt("done")
                  ELSE [catchUp EXCEPT !.stage = "head", !.last = latestBlock]
    /\ UNCHANGED <<queued, feeds, faults>>
    /\ CatchUpIdle

ReadLastFails ==
    /\ catchUp.stage = "read"
    /\ Fault
    /\ catchUp' = [catchUp EXCEPT !.stage = "head"]
    /\ UNCHANGED <<queued, feeds>>
    /\ CatchUpIdle

ReadHead ==
    /\ catchUp.stage = "head"
    /\ catchUp' = [catchUp EXCEPT
                      !.stage = IF head > catchUp.last + 1 THEN "loop" ELSE "done",
                      !.new = head,
                      !.i = catchUp.last + 1]
    /\ UNCHANGED <<queued, feeds, faults>>
    /\ CatchUpIdle

ReadHeadFails ==
    /\ catchUp.stage = "head"
    /\ Fault
    /\ catchUp' = CatchUpAt("done")
    /\ UNCHANGED <<queued, feeds>>
    /\ CatchUpIdle

\* One turn of the loop asks for the head again and queues i unless i is
\* above it; the loop goes one height past newBlock.
AdvanceLoop ==
    catchUp' = [catchUp EXCEPT
                   !.i = @ + 1,
                   !.stage = IF catchUp.i = catchUp.new + 1 THEN "done" ELSE "loop"]

QueueHeights(due) ==
    /\ catchUp.stage = "loop"
    /\ Publish("DOWNTIME_BLOCK", due)
    /\ Announce(due, "catchup")
    /\ AdvanceLoop
    /\ UNCHANGED faults
    /\ CatchUpIdle

\* Slips: the head is not asked for again, or the head itself is passed over.
QueueMissedBlindly == QueueHeights({h \in Height : h = catchUp.i})
QueueMissedBelowHead == QueueHeights({h \in Height : h = catchUp.i /\ h < head})

QueueMissed == QueueHeights({h \in Height : h = catchUp.i /\ h <= head})

\* When that request fails the height is passed over.
QueueMissedFails ==
    /\ catchUp.stage = "loop"
    /\ \/ catchUp.i \in Height /\ FaultFor(catchUp.i)
       \/ catchUp.i \notin Height /\ Fault
    /\ AdvanceLoop
    /\ UNCHANGED <<queued, feeds>>
    /\ CatchUpIdle

BootStep == \/ ReadInitCount \/ WriteInitCount
            \/ ReadLast \/ ReadHead \/ QueueMissed

BootFault == \/ InitCountFails \/ ReadLastFails \/ ReadHeadFails
             \/ QueueMissedFails
=============================================================================

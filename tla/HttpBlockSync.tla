---------------------------- MODULE HttpBlockSync ---------------------------
(***************************************************************************)
(* HttpBlockSyncService: while the WebSocket is down, one tick at a time   *)
(* queues the heights between LATEST_BLOCK and the chain's head and then   *)
(* processes the head itself.  Where the tick does what processLatestBlock *)
(* does (the counters), it uses the steps of BlockConsumers.               *)
(***************************************************************************)
EXTENDS BlockConsumers, BlockFeed

CONSTANT MaxTicks  \* ticks in a behaviour

ASSUME TicksAssumption == MaxTicks \in Nat

VARIABLE ticks  \* ticks begun so far

SyncTypeOK == FeedTypeOK /\ ticks \in Nat
SyncInit == FeedInit /\ ticks = 0

syncVars == <<feedVars, ticks>>

\* safeTick: isTickRunning is job[Tick] not being idle.
TickStart ==
    /\ isRunning
    /\ job[Tick].stage = "idle"
    /\ ticks < MaxTicks
    /\ ticks' = ticks + 1
    /\ To(Tick, "height")
    /\ UNCHANGED <<storeVars, feedVars>>

\* fetchLatestBlockHeight
TickHeight ==
    /\ job[Tick].stage = "height"
    /\ WorkOn(Tick, "sync", head)
    /\ UNCHANGED <<storeVars, syncVars>>

\* syncMissingBlocks(latest): a failed read of LATEST_BLOCK counts as 0.  The
\* loop has no await, so isRunning is what it was when the read answered.
SyncMissing(redisBlock) ==
    LET latest == job[Tick].height
        missing == IF isRunning /\ latest > redisBlock + 1
                   THEN redisBlock + 1 .. latest - 1
                   ELSE {}
    IN  /\ job[Tick].stage = "sync"
        /\ Publish("DOWNTIME_BLOCK", missing)
        /\ Announce(missing, "sync")
        /\ To(Tick, "fetch")
        /\ UNCHANGED <<head, txQueued, tables, redis, lost, syncVars>>

TickSync == SyncMissing(latestBlock) /\ UNCHANGED faults
TickSyncReadFails == SyncMissing(0) /\ Fault

\* Slip: the transactions of the head are not published.
TickFetchOnly ==
    /\ job[Tick].stage = "fetch"
    /\ WorkOn(Tick, "save", head)
    /\ UNCHANGED <<storeVars, syncVars>>

\* processLatestBlock asks for the head again, which may have moved, and
\* publishes its transactions.
TickFetch ==
    /\ job[Tick].stage = "fetch"
    /\ WorkOn(Tick, "save", head)
    /\ txQueued' = txQueued \cup {head}
    /\ UNCHANGED <<head, queued, tables, redis, feeds, lost, faults, syncVars>>

\* It saves last_commit.block_id.hash: the hash of the block before.
TickSave ==
    LET h == job[Tick].height IN
    /\ job[Tick].stage = "save"
    /\ SaveBlock(h, h - 1)
    /\ Announce({h}, "tick")
    /\ To(Tick, "update")
    /\ UNCHANGED <<head, queued, txQueued, validated, redis, faults, syncVars>>

\* Any failed request before the save is answered ends the tick.
TickFails ==
    /\ job[Tick].stage \in {"height", "fetch", "save"}
    /\ Fault
    /\ End(Tick)
    /\ UNCHANGED <<head, queued, txQueued, tables, redis, feeds, lost, syncVars>>

TickUpdate == UpdateStep(Tick) /\ UNCHANGED syncVars
TickUpdateFails == UpdateFails(Tick) /\ UNCHANGED syncVars

TickStep == TickHeight \/ TickSync \/ TickFetch \/ TickSave \/ TickUpdate
TickFault == TickSyncReadFails \/ TickFails \/ TickUpdateFails
=============================================================================

---------------------------- MODULE BlockPipeline ---------------------------
(***************************************************************************)
(* How blocks reach Postgres: the chain commits them, the WebSocket feed,  *)
(* the HTTP fallback or the boot catch-up brings them into the queues, the *)
(* consumers save them and move the Redis counters, and the indexer may    *)
(* crash and start again at any point.                                     *)
(***************************************************************************)
EXTENDS HttpBlockSync, BootCatchUp

CONSTANT MaxCrashes  \* crashes in a behaviour

ASSUME CrashesAssumption == MaxCrashes \in Nat

VARIABLES
    up,      \* the indexer process is running
    crashes  \* crashes so far

procVars == <<up, crashes>>
vars == <<storeVars, job, syncVars, bootVars, procVars>>

TypeOK ==
    /\ StoreTypeOK /\ JobTypeOK /\ SyncTypeOK /\ BootTypeOK
    /\ up \in BOOLEAN
    /\ crashes \in Nat

Init ==
    /\ StoreInit /\ JobInit /\ SyncInit /\ BootInit
    /\ up = FALSE
    /\ crashes = 0

-----------------------------------------------------------------------------
(* The world around the process *)

\* The chain commits a block.  The NewBlock event of an open WebSocket goes to
\* LATEST_BLOCKS (onMessage); nothing else keeps it.
CommitBlock ==
    LET told == {h \in Height : h = head + 1 /\ feed = "ws"} IN
    /\ head < MaxHeight
    /\ head' = head + 1
    /\ Publish("LATEST_BLOCKS", told)
    /\ Announce(told, "ws")
    /\ UNCHANGED <<txQueued, tables, redis, lost, faults, job, syncVars,
                   bootVars, procVars>>

\* The WebSocket comes and goes, and the HTTP sync with it (WsFailover); a tick
\* that has begun goes on.
FeedMoves == up /\ FeedNext /\ UNCHANGED <<storeVars, job, ticks, bootVars, procVars>>

Crash ==
    /\ up
    /\ crashes < MaxCrashes
    /\ crashes' = crashes + 1
    /\ up' = FALSE
    /\ feed' = "none" /\ isRunning' = FALSE
    /\ Requeue
    /\ StopTasks
    /\ UNCHANGED <<head, txQueued, tables, redis, feeds, lost, faults, ticks>>

\* restart: unless-stopped
Boot ==
    /\ ~up
    /\ up' = TRUE
    /\ StartTasks
    /\ UNCHANGED <<storeVars, job, syncVars, crashes>>

-----------------------------------------------------------------------------
Consume == /\ up
           /\ \E w \in MessageWorker, h \in Height : Deliver(w, h)
           /\ UNCHANGED <<syncVars, bootVars, procVars>>

Handle(w) == MessageStep(w) /\ UNCHANGED <<syncVars, bootVars, procVars>>
HandleFails(w) == MessageFails(w) /\ UNCHANGED <<syncVars, bootVars, procVars>>

Sync == (TickStart \/ TickStep) /\ UNCHANGED <<bootVars, procVars>>
SyncFails == TickFault /\ UNCHANGED <<bootVars, procVars>>

StartUp == BootStep /\ UNCHANGED <<syncVars, procVars>>
StartUpFails == BootFault /\ UNCHANGED <<syncVars, procVars>>

World == CommitBlock \/ FeedMoves \/ Crash \/ Boot

Next ==
    \/ World
    \/ Consume
    \/ \E w \in MessageWorker : Handle(w) \/ HandleFails(w)
    \/ Sync \/ SyncFails
    \/ StartUp \/ StartUpFails

Spec == Init /\ [][Next]_vars

\* The broker delivers while a consumer has room, every awaited reply comes,
\* the container is started again, and setInterval keeps firing.  Nothing is
\* assumed of the chain, the socket, crashes or failures.
Fairness ==
    /\ WF_vars(Boot) /\ WF_vars(Consume) /\ WF_vars(StartUp) /\ WF_vars(Sync)
    /\ \A w \in MessageWorker : WF_vars(Handle(w))

FairSpec == Spec /\ Fairness

-----------------------------------------------------------------------------
(* Properties *)

\* No block that reached the indexer disappears from it: it is stored, or a
\* message about it is waiting or unacknowledged, or it was given up in one of
\* the three places where the code drops a block.
Accounted ==
    \A h \in Height : feeds[h] # {} => Settled(h) \/ Pending(h)

\* What it takes to lose a block: two failed requests for it when it goes
\* through ERROR_BLOCK, one when processErrorBlock ignores a failed save, and
\* the HTTP fallback when a unique violation on the hash passes for a duplicate.
LossCauses ==
    \A h \in Height :
        /\ "retry_exhausted" \in lost[h] => failed[h] >= 2
        /\ "save_swallowed" \in lost[h] => failed[h] >= 1
        /\ "hash_conflict" \in lost[h] => ticks > 0

\* LATEST_BLOCK, from which the catch-up starts, never names a block that is
\* neither stored nor given up.
WatermarkKnown ==
    latestBlock # 0 => Settled(latestBlock)

\* Nothing asks the chain for a block it has not committed, although the
\* catch-up loop runs past the head it read.
NeverAhead ==
    /\ latestBlock <= head
    /\ \A h \in Height : feeds[h] # {} \/ Stored(h) => h <= head

\* A row's hash is the hash of its block; only once the HTTP fallback has run
\* may it be that of the block before.  No two rows share a height or a hash.
RowHashes ==
    /\ \A r \in blocks :
          \/ r.blockhash = r.blocknumber
          \/ r.blockhash = r.blocknumber - 1 /\ ticks > 0
    /\ \A r, s \in blocks :
          r # s => r.blocknumber # s.blocknumber /\ r.blockhash # s.blockhash

\* Every stored block's transactions are on their way too: the WebSocket
\* announced them or their hashes were published to DOWNTIME_TXS.
TxsFollow ==
    \A h \in Height : Stored(h) => "ws" \in feeds[h] \/ h \in txQueued

\* Whatever else runs meanwhile, every height the catch-up loop has passed is
\* stored, pending or given up, unless a request for it failed.
CatchUpCovers ==
    catchUp.stage \in {"loop", "done"} /\ catchUp.new > catchUp.last + 1 =>
        \A h \in catchUp.last + 1 .. catchUp.new :
            h < catchUp.i => Settled(h) \/ Pending(h) \/ failed[h] > 0

\* Lost updates only ever lose: as long as nothing was redelivered and the
\* HTTP fallback did not run, no validator is credited with more blocks than
\* the table holds for it.
NeverOverCredited ==
    crashes = 0 /\ ticks = 0 =>
        \A v \in Validator :
            validated[v] <= Cardinality({r \in blocks : Proposer[r.blocknumber] = v})

\* Every block brought into the indexer is stored or given up in the end,
\* unless consumeDownTimeBlocks is left with no delivery to work on because
\* each one it holds ended in the catch that does not acknowledge.
Clogged == \A w \in DowntimeWorker : job[w].stage = "stuck"

EventuallyResolved ==
    \A h \in Height : feeds[h] # {} ~> Settled(h) \/ Clogged

Ledger == INSTANCE BlockLedger
          WITH known <- {h \in Height : feeds[h] # {}}, rows <- blocks,
               dropped <- {h \in Height : lost[h] # {}}, latest <- latestBlock

\* Whatever is interleaved, fails or crashes, every step is one of BlockLedger
\* or leaves it alone: nothing of the record is ever taken back, and
\* LATEST_BLOCK moves to resolved blocks only.
ImplementsLedger == Ledger!LedgerSpec

\* No update of the count is under way but that of w, if it is.
LastUpdate(w) ==
    /\ initCount = CountOff
    /\ \A x \in Worker \ {w} : job[x].stage = "update" => job[x].cnt = "done"

\* "Helper method to handle block count updates atomically": a handler that
\* read a count, not the rows, and is the last to write it back brings the count
\* forward, if there are rows missing from it.
AtomicIncrement ==
    [][\A w \in LatestWorker \cup {Tick} :
          /\ WriteCount(w) /\ job[w].cnt = "add" /\ job[w].seen > 1
          /\ LastUpdate(w) /\ blockCount < Cardinality(blocks)
          => blockCount' > blockCount]_vars

\* "idempotent writes where a duplicate is an acceptable outcome": a unique
\* violation answered {error: false} is about a block that is stored.
DuplicatesAreStored == \A h \in Height : "hash_conflict" \notin lost[h]
=============================================================================

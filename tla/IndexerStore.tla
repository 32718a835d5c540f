---------------------------- MODULE IndexerStore ----------------------------
(***************************************************************************)
(* What the indexer keeps outside its own process: the RabbitMQ block      *)
(* queues, the Postgres Blocks and ValidatedBlocksCount tables, the Redis  *)
(* keys LATEST_BLOCK and NATIVE_BLOCKS_COUNT, and the chain it reads from. *)
(* All of it survives a crash of the indexer.                              *)
(*                                                                         *)
(* A block is its height.  The hash of the block at height h is h itself;  *)
(* 0 is the empty string the code stores when it finds no hash.            *)
(***************************************************************************)
EXTENDS Naturals, FiniteSets

CONSTANTS
    MaxHeight,  \* the chain stops growing here
    MaxFaults,  \* failed requests (RPC, Postgres, Redis) in a behaviour
    Validator,  \* block proposers
    Proposer    \* Proposer[h] proposed the block at height h

Height == 1 .. MaxHeight
Hash == 0 .. MaxHeight
Queue == {"LATEST_BLOCKS", "DOWNTIME_BLOCK", "ERROR_BLOCK"}

ASSUME BoundAssumption == MaxHeight \in Nat \ {0} /\ MaxFaults \in Nat
ASSUME ProposerAssumption == Proposer \in [Height -> Validator]

VARIABLES
    head,         \* height of the chain's last committed block
    queued,       \* queued[q][h]: ready messages for h in queue q
    txQueued,     \* heights whose tx hashes were published to DOWNTIME_TXS
    blocks,       \* rows of the Blocks table
    validated,    \* validated[v]: ValidatedBlocksCount.count (0: no row)
    latestBlock,  \* Redis LATEST_BLOCK (0: not set)
    blockCount,   \* Redis NATIVE_BLOCKS_COUNT (0: not set)
    \* History, read by the properties and never by an action's guard:
    feeds,        \* feeds[h]: the sources that brought h into the indexer
    lost,         \* lost[h]: the ways in which h was given up while not stored
    failed,       \* failed[h]: failed requests made on behalf of h
    faultsLeft    \* failures that may still happen

storeVars == <<head, queued, txQueued, blocks, validated, latestBlock,
               blockCount, feeds, lost, failed, faultsLeft>>
tables == <<blocks, validated>>
redis == <<latestBlock, blockCount>>
faults == <<failed, faultsLeft>>

Feed == {"ws", "catchup", "sync", "tick"}
Loss == {"retry_exhausted", "save_swallowed", "hash_conflict"}
Row == [blocknumber : Height, blockhash : Hash]

StoreTypeOK ==
    /\ head \in Height
    /\ queued \in [Queue -> [Height -> Nat]]
    /\ txQueued \in SUBSET Height
    /\ blocks \in SUBSET Row
    /\ validated \in [Validator -> Nat]
    /\ latestBlock \in 0 .. MaxHeight
    /\ blockCount \in Nat
    /\ feeds \in [Height -> SUBSET Feed]
    /\ lost \in [Height -> SUBSET Loss]
    /\ failed \in [Height -> Nat]
    /\ faultsLeft \in Nat

\* A deployment on an empty database, joining a chain that has one block.
StoreInit ==
    /\ head = 1
    /\ queued = [q \in Queue |-> [h \in Height |-> 0]]
    /\ txQueued = {}
    /\ blocks = {}
    /\ validated = [v \in Validator |-> 0]
    /\ latestBlock = 0
    /\ blockCount = 0
    /\ feeds = [h \in Height |-> {}]
    /\ lost = [h \in Height |-> {}]
    /\ failed = [h \in Height |-> 0]
    /\ faultsLeft = MaxFaults

-----------------------------------------------------------------------------
(* Broker *)

\* RabbitMq.inQueueData: one message for each height of H.  Messages of one
\* queue are not ordered here: up to seven unacknowledged deliveries per
\* consumer finish in any order, and a requeued message is delivered again.
Publish(q, H) ==
    queued' = [queued EXCEPT ![q] =
                  [h \in Height |-> IF h \in H THEN @[h] + 1 ELSE @[h]]]

\* Slip: a message is handed out although none is waiting.
TakeAnyway(q, h) ==
    queued' = [queued EXCEPT ![q] =
                  [k \in Height |-> IF k = h THEN @[k] - 1 ELSE @[k]]]

Take(q, h) ==
    /\ queued[q][h] > 0
    /\ queued' = [queued EXCEPT ![q] =
                     [k \in Height |-> IF k = h THEN @[k] - 1 ELSE @[k]]]

Announce(H, f) ==
    feeds' = [h \in Height |-> IF h \in H THEN feeds[h] \cup {f} ELSE feeds[h]]

(* Postgres *)

Stored(h) == \E r \in blocks : r.blocknumber = h

\* Nothing is left to do for h: it is stored, or it was given up.
Settled(h) == Stored(h) \/ lost[h] # {}

\* Slip: the schema had only the compound @@unique([blocknumber, blockhash]).
ConflictsAsPair(h, hash) ==
    \E r \in blocks : r.blocknumber = h /\ r.blockhash = hash

\* Blocks.blocknumber and Blocks.blockhash are each unique on their own.
Conflicts(h, hash) ==
    \E r \in blocks : r.blocknumber = h \/ r.blockhash = hash

\* prisma.blocks.create, with a unique violation answered {error: false}.
SaveBlock(h, hash) ==
    /\ blocks' = IF Conflicts(h, hash)
                 THEN blocks
                 ELSE blocks \cup {[blocknumber |-> h, blockhash |-> hash]}
    /\ lost' = IF Conflicts(h, hash) /\ ~Stored(h)
               THEN [lost EXCEPT ![h] = @ \cup {"hash_conflict"}]
               ELSE lost

GiveUp(h, loss) ==
    lost' = IF Stored(h) THEN lost ELSE [lost EXCEPT ![h] = @ \cup {loss}]

(* Failures *)

\* A request that is not about one block fails: Redis, a row count, the head.
Fault ==
    /\ faultsLeft > 0
    /\ faultsLeft' = faultsLeft - 1
    /\ UNCHANGED failed

\* A request made for the block at height h fails.
FaultFor(h) ==
    /\ faultsLeft > 0
    /\ faultsLeft' = faultsLeft - 1
    /\ failed' = [failed EXCEPT ![h] = @ + 1]
=============================================================================

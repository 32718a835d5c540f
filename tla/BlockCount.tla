------------------------------ MODULE BlockCount ----------------------------
(***************************************************************************)
(* NATIVE_BLOCKS_COUNT, which three pieces of two programs write without a *)
(* lock: the indexer's handlers after each block they take for saved, the  *)
(* indexer's boot (initializeCount), and the API when it finds the key     *)
(* unset.  How a block gets to a handler is BlockPipeline's subject: here  *)
(* any block may come at any time, and more than once.                     *)
(***************************************************************************)
EXTENDS Integers, FiniteSets

CONSTANTS
    MaxHeight,    \* heights of the chain, a bound
    Handler,      \* places of the indexer whose handlers move the count: the
                  \* deliveries of consumeLatestBlocks and consumeDownTimeBlocks
                  \* and the tick of the HTTP fallback
    DowntimeHandler, \* those of consumeDownTimeBlocks
    MaxFaults,    \* failed requests in a behaviour, a bound
    MaxRestarts,  \* restarts of the indexer in a behaviour, a bound
    MaxRepeats    \* saves that met a unique violation in a behaviour, a bound

Height == 1 .. MaxHeight

ASSUME BlockCountAssumption ==
    /\ MaxHeight \in Nat /\ MaxFaults \in Nat /\ MaxRestarts \in Nat /\ MaxRepeats \in Nat
    /\ IsFiniteSet(Handler) /\ DowntimeHandler \subseteq Handler

VARIABLES
    rows,        \* heights that have a row in Blocks
    blockCount,  \* NATIVE_BLOCKS_COUNT, 0 if unset
    adder,       \* adder[w]: how far updateBlockCount of handler w has come
    seeder,      \* seeder[s]: how far a program's counting of the rows has come
    \* History
    overlapped,  \* an update began, or a row came, beside an update
    drift,       \* since the rows were last counted: saves that are counted and
                 \* brought no row, less rows that came and are not counted
    \* Bounds
    faultsLeft,
    restarts,
    repeats

countVars == <<rows, blockCount, adder, seeder, overlapped, drift,
               faultsLeft, restarts, repeats>>

Seeder == {"boot", "api"}
Resting == [stage |-> "idle", value |-> 0]

CountTypeOK ==
    /\ rows \subseteq Height
    /\ blockCount \in Nat
    /\ adder \in [Handler -> [stage : {"idle", "read", "rows", "write", "stuck"}, value : Nat]]
    /\ seeder \in [Seeder -> [stage : {"idle", "rows", "write"}, value : Nat]]
    /\ overlapped \in BOOLEAN
    /\ drift \in Int
    /\ faultsLeft \in 0 .. MaxFaults
    /\ restarts \in 0 .. MaxRestarts
    /\ repeats \in 0 .. MaxRepeats

\* The indexer is just booting; what it stored in an earlier life is there.
CountInit ==
    /\ \E n \in 0 .. MaxHeight : rows = 1 .. n /\ blockCount \in {0, n}
    /\ adder = [w \in Handler |-> Resting]
    /\ seeder = [s \in Seeder |->
                    [stage |-> IF s = "boot" THEN "rows" ELSE "idle", value |-> 0]]
    /\ overlapped = FALSE /\ drift = 0
    /\ faultsLeft = MaxFaults
    /\ restarts = 0 /\ repeats = 0

Updating == {w \in Handler : adder[w].stage \notin {"idle", "stuck"}}
              \cup {s \in Seeder : seeder[s].stage # "idle"}
Quiet == Updating = {}

Adds(w, stage, value) == adder' = [adder EXCEPT ![w] = [stage |-> stage, value |-> value]]
Seeds(s, stage, value) == seeder' = [seeder EXCEPT ![s] = [stage |-> stage, value |-> value]]
Starts == overlapped' = (overlapped \/ ~Quiet)

Fails == faultsLeft > 0 /\ faultsLeft' = faultsLeft - 1

-----------------------------------------------------------------------------
(* What the handlers do with a block *)

\* The block is taken for saved, and the update of the count begins.
Saved(w) ==
    /\ adder[w].stage = "idle"
    /\ Adds(w, "read", 0)
    /\ Starts
    /\ UNCHANGED <<blockCount, seeder, restarts>>

SaveRow(w) ==
    /\ \E h \in Height \ rows : rows' = rows \cup {h}
    /\ Saved(w)
    /\ UNCHANGED <<drift, faultsLeft, repeats>>

\* A unique violation is answered {error: false}, and the count goes up though
\* no row came.  It is what meets a block that is delivered again, because the
\* catch-up queued it or because the indexer died before it acknowledged it,
\* and a block of the HTTP fallback whose hash another row has.
SaveAgain(w) ==
    /\ rows # {}
    /\ repeats < MaxRepeats /\ repeats' = repeats + 1
    /\ drift' = drift + 1
    /\ Saved(w)
    /\ UNCHANGED <<rows, faultsLeft>>

\* processErrorBlock does not look at the result of the save, so
\* consumeDownTimeBlocks counts the block; processLatestBlock throws.
SaveFails(w) ==
    /\ w \in DowntimeHandler
    /\ Fails
    /\ drift' = drift + 1
    /\ Saved(w)
    /\ UNCHANGED <<rows, repeats>>

\* consumeErrorBlocks saves a block and leaves the count alone.
SaveUncounted ==
    /\ \E h \in Height \ rows : rows' = rows \cup {h}
    /\ drift' = drift - 1
    /\ Starts
    /\ UNCHANGED <<blockCount, adder, seeder, faultsLeft, restarts, repeats>>

-----------------------------------------------------------------------------
(* updateBlockCount, and the copy of it in consumeDownTimeBlocks *)

ReadCount(w) ==
    /\ adder[w].stage = "read"
    /\ IF blockCount = 0 THEN Adds(w, "rows", 0) ELSE Adds(w, "write", blockCount + 1)
    /\ UNCHANGED <<rows, blockCount, seeder, overlapped, drift, faultsLeft, restarts, repeats>>

\* getString answers a failure with [], which is truthy and counts as zero.
ReadCountFails(w) ==
    /\ adder[w].stage = "read"
    /\ Fails
    /\ Adds(w, "write", 1)
    /\ UNCHANGED <<rows, blockCount, seeder, overlapped, drift, restarts, repeats>>

CountRows(w) ==
    /\ adder[w].stage = "rows"
    /\ Adds(w, "write", Cardinality(rows))
    /\ drift' = 0
    /\ UNCHANGED <<rows, blockCount, seeder, overlapped, faultsLeft, restarts, repeats>>

\* updateBlockCount catches the error; in consumeDownTimeBlocks it reaches a
\* catch that does not acknowledge, and the delivery keeps its place.
CountRowsFails(w) ==
    /\ adder[w].stage = "rows"
    /\ Fails
    /\ Adds(w, IF w \in DowntimeHandler THEN "stuck" ELSE "idle", 0)
    /\ UNCHANGED <<rows, blockCount, seeder, overlapped, drift, restarts, repeats>>

WriteCount(w) ==
    /\ adder[w].stage = "write"
    /\ blockCount' = adder[w].value
    /\ Adds(w, "idle", 0)
    /\ UNCHANGED <<rows, seeder, overlapped, drift, faultsLeft, restarts, repeats>>

\* setString swallows its failures.
WriteCountFails(w) ==
    /\ adder[w].stage = "write"
    /\ Fails
    /\ Adds(w, "idle", 0)
    /\ UNCHANGED <<rows, blockCount, seeder, overlapped, drift, restarts, repeats>>

-----------------------------------------------------------------------------
(* Counting the rows: initializeCount, and the API *)

\* Slip: the rows are counted past the last one.
SeedReadPast(s) ==
    /\ seeder[s].stage = "rows"
    /\ Seeds(s, "write", Cardinality(rows) + 1)
    /\ drift' = 0
    /\ UNCHANGED <<rows, blockCount, adder, overlapped, faultsLeft, restarts, repeats>>

\* An empty table writes nothing.
SeedRead(s) ==
    /\ seeder[s].stage = "rows"
    /\ IF rows = {} THEN Seeds(s, "idle", 0) ELSE Seeds(s, "write", Cardinality(rows))
    /\ drift' = 0
    /\ UNCHANGED <<rows, blockCount, adder, overlapped, faultsLeft, restarts, repeats>>

SeedWrite(s) ==
    /\ seeder[s].stage = "write"
    /\ blockCount' = seeder[s].value
    /\ Seeds(s, "idle", 0)
    /\ UNCHANGED <<rows, adder, overlapped, drift, faultsLeft, restarts, repeats>>

\* setString swallows its failures.
SeedWriteFails(s) ==
    /\ seeder[s].stage = "write"
    /\ Fails
    /\ Seeds(s, "idle", 0)
    /\ UNCHANGED <<rows, blockCount, adder, overlapped, drift, restarts, repeats>>

\* The indexer dies and boots.  What its handlers had not written is lost, and
\* the blocks they held are delivered again, which is SaveAgain.
Restart ==
    /\ restarts < MaxRestarts
    /\ restarts' = restarts + 1
    /\ adder' = [w \in Handler |-> Resting]
    /\ Seeds("boot", "rows", 0)
    /\ overlapped' = (overlapped \/ seeder["api"].stage # "idle")
    /\ UNCHANGED <<rows, blockCount, drift, faultsLeft, repeats>>

CountStep ==
    \/ \E w \in Handler :
          \/ SaveRow(w) \/ SaveAgain(w) \/ SaveFails(w)
          \/ ReadCount(w) \/ CountRows(w) \/ WriteCount(w)
          \/ ReadCountFails(w) \/ CountRowsFails(w) \/ WriteCountFails(w)
    \/ SaveUncounted
    \/ SeedRead("boot") \/ SeedWrite("boot") \/ SeedWriteFails("boot")
    \/ Restart
=============================================================================

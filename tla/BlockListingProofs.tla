-------------------------- MODULE BlockListingProofs ------------------------
(***************************************************************************)
(* Theorems about BlockListing for every number of blocks, handlers,       *)
(* failures and restarts, and every size of a page.                        *)
(***************************************************************************)
EXTENDS BlockListing, FiniteSetTheorems, WellFoundedInduction, TLAPS

Undisturbed == ~overlapped /\ faultsLeft = MaxFaults

Stored == Cardinality(rows)

\* What the count should be.
Due == Stored + drift

Rests(w) == adder[w].stage \in {"idle", "stuck"}

\* Without overlap at most one update of the count is under way.
OneUpdate ==
    /\ \A v, w \in Handler : ~Rests(v) /\ ~Rests(w) => v = w
    /\ \A w \in Handler, s \in Seeder : Rests(w) \/ seeder[s].stage = "idle"
    /\ seeder["boot"].stage = "idle" \/ seeder["api"].stage = "idle"

\* How far the count may be behind while an update is under way.
CountTracks ==
    /\ Quiet => blockCount = Due
    /\ rows = {} => blockCount = 0 /\ drift = 0
    /\ \A w \in Handler :
          /\ adder[w].stage = "read" => blockCount + 1 = Due
          /\ adder[w].stage = "write" => adder[w].value = Due
    /\ \A s \in Seeder : seeder[s].stage = "write" => seeder[s].value = Due

CountInv == CountTypeOK /\ (Undisturbed => OneUpdate /\ CountTracks)

LEMMA RowsFinite ==
  ASSUME CountTypeOK
  PROVE  IsFiniteSet(rows) /\ Stored \in Nat /\ (rows = {} <=> Stored = 0)
  <1>1. IsFiniteSet(Height)
    BY BlockCountAssumption, FS_Interval DEF Height
  <1>2. IsFiniteSet(rows)
    BY <1>1, FS_Subset DEF CountTypeOK
  <1> QED
    BY <1>2, FS_CardinalityType, FS_EmptySet DEF Stored

LEMMA InitCountInv == Init => CountInv
  <1> SUFFICES ASSUME Init PROVE CountInv
    OBVIOUS
  <1> USE DEF Init, CountInit
  <1>1. PICK n \in 0 .. MaxHeight : rows = 1 .. n /\ blockCount \in {0, n}
    OBVIOUS
  <1>2. CountTypeOK
    <2>1. rows \subseteq Height /\ blockCount \in Nat
      BY <1>1, BlockCountAssumption DEF Height
    <2>2. /\ adder \in [Handler -> [stage : {"idle", "read", "rows", "write", "stuck"}, value : Nat]]
          /\ seeder \in [Seeder -> [stage : {"idle", "rows", "write"}, value : Nat]]
      BY DEF Resting, Seeder
    <2>3. overlapped \in BOOLEAN
      BY Zenon
    <2>4. /\ faultsLeft \in 0 .. MaxFaults /\ restarts \in 0 .. MaxRestarts
          /\ repeats \in 0 .. MaxRepeats /\ drift \in Int
      BY BlockCountAssumption
    <2> QED
      BY <2>1, <2>2, <2>3, <2>4 DEF CountTypeOK
  <1>3. ~Quiet
    BY DEF Quiet, Updating, Seeder
  <1>4. rows = {} => blockCount = 0
    BY <1>1
  <1>5. OneUpdate /\ CountTracks
    BY <1>3, <1>4 DEF OneUpdate, CountTracks, Rests, Resting, Seeder
  <1> QED
    BY <1>2, <1>5 DEF CountInv

\* What Starts notices.
LEMMA QuietFacts ==
  Quiet <=> /\ \A w \in Handler : Rests(w)
            /\ \A s \in Seeder : seeder[s].stage = "idle"
  BY DEF Quiet, Updating, Rests

LEMMA OneMoreRow ==
  ASSUME CountTypeOK, NEW h \in Height \ rows, rows' = rows \cup {h}
  PROVE  Stored' = Stored + 1 /\ rows' # {}
  BY RowsFinite, FS_AddElement DEF Stored

\* A save that is counted puts the count one behind, whether a row came, and
\* then the drift stays, or not.
LEMMA SavedKeeps ==
  ASSUME CountInv, CountTypeOK', NEW w \in Handler, Saved(w),
         Undisturbed' => Undisturbed /\ Quiet,
         Undisturbed' => Due' = Due + 1 /\ rows' # {}
  PROVE  CountInv'
  <1> USE DEF CountInv, Saved, Adds
  <1>1. ASSUME Undisturbed' PROVE OneUpdate' /\ CountTracks'
    <2>1. adder'[w].stage = "read" /\ (\A v \in Handler \ {w} : adder'[v] = adder[v])
      BY DEF CountTypeOK
    <2>2. ~Quiet'
      BY <2>1 DEF Quiet, Updating
    <2>3. /\ \A v \in Handler : Rests(v)
          /\ \A s \in Seeder : seeder'[s].stage = "idle"
          /\ blockCount' = blockCount /\ blockCount = Due
      BY <1>1, QuietFacts DEF CountTracks
    <2>4. OneUpdate'
      BY <2>1, <2>3 DEF OneUpdate, Rests, Seeder
    <2>5. CountTracks'
      BY <1>1, <2>1, <2>2, <2>3 DEF CountTracks, Rests
    <2> QED
      BY <2>4, <2>5
  <1> QED
    BY <1>1

\* A behaviour without overlap was without overlap, and began the step quiet.
LEMMA StartsQuiet ==
  ASSUME Starts, UNCHANGED faultsLeft
  PROVE  Undisturbed' => Undisturbed /\ Quiet
  BY DEF Undisturbed, Starts

LEMMA SaveRowKeeps ==
  ASSUME CountInv, NEW w \in Handler, SaveRow(w)
  PROVE  CountInv'
  <1>1. PICK h \in Height \ rows : rows' = rows \cup {h}
    BY DEF SaveRow
  <1>2. CountTypeOK'
    BY <1>1 DEF CountInv, CountTypeOK, SaveRow, Saved, Adds, Starts
  <1>3. Due' = Due + 1 /\ rows' # {}
    BY <1>1, OneMoreRow, RowsFinite DEF CountInv, CountTypeOK, Due, SaveRow
  <1> QED
    BY <1>2, <1>3, StartsQuiet, SavedKeeps DEF SaveRow, Saved

LEMMA SaveAgainKeeps ==
  ASSUME CountInv, NEW w \in Handler, SaveAgain(w)
  PROVE  CountInv'
  <1>1. CountTypeOK'
    BY BlockCountAssumption DEF CountInv, CountTypeOK, SaveAgain, Saved, Adds, Starts
  <1>2. Due' = Due + 1 /\ rows' # {}
    BY RowsFinite DEF CountInv, CountTypeOK, Due, Stored, SaveAgain
  <1> QED
    BY <1>1, <1>2, StartsQuiet, SavedKeeps DEF SaveAgain, Saved

\* A row that is not counted leaves the count alone, and the drift makes up for
\* the row.
LEMMA SaveUncountedKeeps ==
  ASSUME CountInv, SaveUncounted
  PROVE  CountInv'
  <1> USE DEF CountInv, SaveUncounted
  <1>1. PICK h \in Height \ rows : rows' = rows \cup {h}
    OBVIOUS
  <1>2. CountTypeOK'
    BY <1>1 DEF CountTypeOK, Starts
  <1>3. Due' = Due /\ rows' # {}
    BY <1>1, OneMoreRow, RowsFinite DEF CountTypeOK, Due
  <1>4. ASSUME Undisturbed' PROVE OneUpdate' /\ CountTracks'
    <2>1. Undisturbed /\ Quiet
      BY <1>4, StartsQuiet
    <2>2. /\ \A v \in Handler : Rests(v) /\ adder'[v] = adder[v]
          /\ \A s \in Seeder : seeder[s].stage = "idle" /\ seeder'[s] = seeder[s]
      BY <2>1, QuietFacts
    <2>3. OneUpdate'
      BY <2>2 DEF OneUpdate, Rests, Seeder
    <2>4. CountTracks'
      BY <1>3, <2>1, <2>2 DEF CountTracks, Rests
    <2> QED
      BY <2>3, <2>4
  <1> QED
    BY <1>2, <1>4

\* The steps of an update that is under way.
LEMMA AdderKeeps ==
  ASSUME CountInv, NEW w \in Handler, ReadCount(w) \/ CountRows(w) \/ WriteCount(w)
  PROVE  CountInv'
  <1> USE DEF CountInv, ReadCount, CountRows, WriteCount, Adds
  <1>1. CountTypeOK'
    BY RowsFinite DEF CountTypeOK, Stored
  <1>2. Undisturbed' => Undisturbed
    BY DEF Undisturbed
  <1>3. ASSUME Undisturbed PROVE OneUpdate' /\ CountTracks'
    <2>1. /\ \A v \in Handler \ {w} : Rests(v) /\ adder'[v] = adder[v]
          /\ \A s \in Seeder : seeder[s].stage = "idle" /\ seeder'[s] = seeder[s]
      BY <1>3 DEF OneUpdate, CountTypeOK, Rests
    <2>2. OneUpdate'
      BY <2>1 DEF OneUpdate, Rests, Seeder
    <2>3. CASE WriteCount(w)
      <3>1. /\ blockCount' = Due /\ adder'[w].stage = "idle"
            /\ rows' = rows /\ Due' = Due /\ drift' = drift
        BY <1>3, <2>3 DEF CountTracks, CountTypeOK, Due, Stored
      <3>2. rows = {} => Due = 0
        BY <1>3, RowsFinite DEF CountTracks, Due
      <3> QED
        BY <1>3, <2>1, <2>2, <3>1, <3>2 DEF CountTracks, Rests
    <2>4. CASE ReadCount(w)
      <3>1. /\ blockCount' = blockCount /\ adder'[w].stage \in {"rows", "write"}
            /\ adder'[w].stage = "write" => adder'[w].value = Due
            /\ rows' = rows /\ Due' = Due /\ drift' = drift
        BY <1>3, <2>4 DEF CountTracks, CountTypeOK, Due, Stored
      <3>2. ~Quiet'
        BY <3>1 DEF Quiet, Updating
      <3> QED
        BY <1>3, <2>1, <2>2, <3>1, <3>2 DEF CountTracks, Rests
    <2>5. CASE CountRows(w)
      <3>1. /\ blockCount' = blockCount /\ adder'[w].stage = "write"
            /\ adder'[w].value = Stored /\ rows' = rows /\ Stored' = Stored /\ drift' = 0
        BY <2>5 DEF CountTypeOK, Stored
      <3>2. ~Quiet' /\ Due' = Stored
        BY <3>1, RowsFinite DEF Quiet, Updating, Due
      <3> QED
        BY <1>3, <2>1, <2>2, <3>1, <3>2 DEF CountTracks, Rests
    <2> QED
      BY <2>2, <2>3, <2>4, <2>5
  <1> QED
    BY <1>1, <1>2, <1>3

LEMMA SeederKeeps ==
  ASSUME CountInv, NEW s \in Seeder, SeedRead(s) \/ SeedWrite(s)
  PROVE  CountInv'
  <1> USE DEF CountInv, SeedRead, SeedWrite, Seeds
  <1>1. CountTypeOK'
    BY RowsFinite DEF CountTypeOK, Stored
  <1>2. Undisturbed' => Undisturbed
    BY DEF Undisturbed
  <1>3. ASSUME Undisturbed PROVE OneUpdate' /\ CountTracks'
    <2>1. /\ \A w \in Handler : Rests(w) /\ adder'[w] = adder[w]
          /\ \A u \in Seeder \ {s} : seeder[u].stage = "idle" /\ seeder'[u] = seeder[u]
      BY <1>3 DEF OneUpdate, CountTypeOK, Seeder
    <2>2. OneUpdate'
      BY <2>1 DEF OneUpdate, Rests, Seeder
    <2>3. CASE SeedWrite(s)
      <3>1. /\ blockCount' = Due /\ seeder'[s].stage = "idle"
            /\ rows' = rows /\ Due' = Due /\ drift' = drift
        BY <1>3, <2>3 DEF CountTracks, CountTypeOK, Due, Stored
      <3>2. rows = {} => Due = 0
        BY <1>3, RowsFinite DEF CountTracks, Due
      <3> QED
        BY <1>3, <2>1, <2>2, <3>1, <3>2 DEF CountTracks, Rests
    <2>4. CASE SeedRead(s)
      <3>1. /\ blockCount' = blockCount /\ rows' = rows /\ Stored' = Stored /\ drift' = 0
            /\ Due' = Stored
        BY <2>4, RowsFinite DEF Due, Stored
      <3>2. CASE rows = {}
        <4>1. blockCount = 0 /\ Stored = 0 /\ seeder'[s].stage = "idle"
          BY <1>3, <2>4, <3>2, RowsFinite DEF CountTracks, CountTypeOK
        <4> QED
          BY <1>3, <2>1, <2>2, <3>1, <4>1 DEF CountTracks, Rests
      <3>3. CASE rows # {}
        <4>1. seeder'[s].stage = "write" /\ seeder'[s].value = Stored
          BY <2>4, <3>3 DEF CountTypeOK, Stored
        <4>2. ~Quiet'
          BY <4>1 DEF Quiet, Updating
        <4> QED
          BY <2>1, <2>2, <3>1, <3>3, <4>1, <4>2 DEF CountTracks, Rests
      <3> QED
        BY <3>2, <3>3
    <2> QED
      BY <2>2, <2>3, <2>4
  <1> QED
    BY <1>1, <1>2, <1>3

\* The API begins to count.
LEMMA SeedStartKeeps ==
  ASSUME CountInv, Seeds("api", "rows", 0), Starts,
         UNCHANGED <<rows, blockCount, adder, drift, faultsLeft, restarts, repeats>>
  PROVE  CountInv'
  <1> USE DEF CountInv, Seeds
  <1>1. CountTypeOK'
    BY DEF CountTypeOK, Starts
  <1>2. ASSUME Undisturbed' PROVE OneUpdate' /\ CountTracks'
    <2>1. Undisturbed /\ Quiet /\ Due' = Due
      BY <1>2, StartsQuiet DEF Due, Stored
    <2>2. seeder'["api"].stage = "rows" /\ seeder'["boot"] = seeder["boot"]
      BY DEF CountTypeOK, Seeder
    <2>3. ~Quiet'
      BY <2>2 DEF Quiet, Updating, Seeder
    <2> QED
      BY <2>1, <2>2, <2>3, QuietFacts DEF OneUpdate, CountTracks, Rests, Seeder
  <1> QED
    BY <1>1, <1>2

LEMMA RestartKeeps ==
  ASSUME CountInv, Restart
  PROVE  CountInv'
  <1> USE DEF CountInv, Restart, Seeds
  <1>1. CountTypeOK'
    BY BlockCountAssumption DEF CountTypeOK, Resting, Seeder
  <1>2. ASSUME Undisturbed' PROVE OneUpdate' /\ CountTracks'
    <2>1. Undisturbed /\ Due' = Due /\ seeder["api"].stage = "idle"
      BY <1>2 DEF Undisturbed, Due, Stored
    <2>2. /\ seeder'["boot"].stage = "rows" /\ seeder'["api"] = seeder["api"]
          /\ \A w \in Handler : adder'[w].stage = "idle"
      BY DEF CountTypeOK, Seeder, Resting
    <2>3. ~Quiet'
      BY <2>2 DEF Quiet, Updating, Seeder
    <2> QED
      BY <2>1, <2>2, <2>3 DEF OneUpdate, CountTracks, Rests, Seeder
  <1> QED
    BY <1>1, <1>2

\* After a failure the count is owed nothing.
LEMMA FailsKeeps ==
  ASSUME CountInv, faultsLeft' = faultsLeft - 1, CountTypeOK'
  PROVE  CountInv'
  <1>1. ~Undisturbed'
    BY BlockCountAssumption DEF CountInv, CountTypeOK, Undisturbed
  <1> QED
    BY <1>1 DEF CountInv

LEMMA FaultsKeep ==
  ASSUME CountInv,
         \/ \E w \in Handler :
               SaveFails(w) \/ ReadCountFails(w) \/ CountRowsFails(w) \/ WriteCountFails(w)
         \/ \E s \in Seeder : SeedWriteFails(s)
         \/ FetchTotalFails
  PROVE  CountInv'
  <1> USE DEF SaveFails, ReadCountFails, CountRowsFails, WriteCountFails, SeedWriteFails,
              FetchTotalFails, Fails
  <1>1. faultsLeft > 0 /\ faultsLeft' = faultsLeft - 1
    OBVIOUS
  <1>2. faultsLeft' \in 0 .. MaxFaults
    BY <1>1, BlockCountAssumption DEF CountInv, CountTypeOK
  <1>3. CountTypeOK'
    <2> USE DEF CountInv, CountTypeOK, Adds
    <2>1. ASSUME NEW w \in Handler, SaveFails(w) PROVE CountTypeOK'
      BY <1>2, <2>1 DEF Saved, Starts
    <2>2. ASSUME NEW w \in Handler,
                 ReadCountFails(w) \/ CountRowsFails(w) \/ WriteCountFails(w)
          PROVE  CountTypeOK'
      BY <1>2, <2>2
    <2>3. ASSUME (\E s \in Seeder : SeedWriteFails(s)) \/ FetchTotalFails PROVE CountTypeOK'
      BY <1>2, <2>3 DEF Seeds
    <2> QED
      BY <2>1, <2>2, <2>3
  <1> QED
    BY <1>1, <1>3, FailsKeeps

LEMMA NextCountInv == CountInv /\ [Next]_vars => CountInv'
  <1> SUFFICES ASSUME CountInv, [Next]_vars PROVE CountInv'
    OBVIOUS
  <1>s. "boot" \in Seeder /\ "api" \in Seeder
    BY DEF Seeder
  <1>1. CASE CountStep
    BY <1>1, <1>s, SaveRowKeeps, SaveAgainKeeps, SaveUncountedKeeps, AdderKeeps, SeederKeeps,
       RestartKeeps, FaultsKeep DEF CountStep
  <1>2. ASSUME UNCHANGED countVars PROVE CountInv'
    BY <1>2
    DEF countVars, CountInv, CountTypeOK, Undisturbed, OneUpdate, CountTracks, Due, Stored,
        Rests, Quiet, Updating
  <1>3. CASE FetchTotal
    <2>1. UNCHANGED countVars \/ (Seeds("api", "rows", 0) /\ Starts)
      BY <1>3 DEF FetchTotal, countVars
    <2> QED
      BY <1>2, <1>3, <2>1, SeedStartKeeps DEF FetchTotal
  <1>4. CASE FetchTotalFails
    BY <1>4, FaultsKeep
  <1>5. CASE SeedTotal
    BY <1>5, <1>s, SeederKeeps, FaultsKeep DEF SeedTotal
  <1>6. CASE \/ AskFirst \/ AskNext \/ AskPrev \/ FetchPage \/ FetchBounds \/ FetchLast
             \/ UNCHANGED vars
    BY <1>2, <1>6
    DEF AskFirst, AskNext, AskPrev, Asks, FetchPage, FetchBounds, FetchLast, vars
  <1> QED
    BY <1>1, <1>3, <1>4, <1>5, <1>6 DEF Next

\* As long as no two updates of NATIVE_BLOCKS_COUNT overlap and no request
\* fails, the count differs from the number of rows by the blocks counted twice
\* and the blocks not counted since the rows were last counted, whenever no
\* update is under way, and however often the indexer died in an update.
THEOREM CountIsExplained == Spec => []CountExplained
  <1>1. CountInv => CountExplained
    BY DEF CountInv, CountExplained, Undisturbed, CountTracks, Due, Stored
  <1> QED
    BY <1>1, InitCountInv, NextCountInv, PTL DEF Spec

-----------------------------------------------------------------------------
(* The ends of a page *)

LEMMA LeastExists ==
  ASSUME NEW T, T \subseteq Nat, T # {}
  PROVE  \E x \in T : \A y \in T : x <= y
  <1>1. \E x \in T : \A y \in T : ~(<<y, x>> \in OpToRel(<, Nat))
    BY NatLessThanWellFounded, WFMin, Zenon
  <1>2. PICK x \in T : \A y \in T : ~(<<y, x>> \in OpToRel(<, Nat))
    BY <1>1
  <1>3. ASSUME NEW y \in T PROVE x <= y
    <2>1. x \in Nat /\ y \in Nat
      OBVIOUS
    <2>2. y < x => <<y, x>> \in OpToRel(<, Nat)
      BY <2>1, Zenon DEF OpToRel
    <2>3. ~(y < x)
      BY <1>2, <2>2, Zenon
    <2> QED
      BY <2>1, <2>3
  <1> QED
    BY <1>3

LEMMA PageEnds ==
  ASSUME NEW S, S \subseteq Height, S # {}
  PROVE  /\ Lowest(S) \in S /\ \A g \in S : Lowest(S) <= g
         /\ Highest(S) \in S /\ \A g \in S : g <= Highest(S)
  <1>1. S \subseteq Nat
    BY DEF Height
  <1>2. Lowest(S) \in S /\ \A g \in S : Lowest(S) <= g
    BY <1>1, LeastExists DEF Lowest
  <1>3. \E h \in S : \A g \in S : g <= h
    <2> DEFINE T == {MaxHeight - h : h \in S}
    <2>1. T \subseteq Nat /\ T # {}
      BY BlockCountAssumption DEF Height
    <2>2. PICK x \in T : \A y \in T : x <= y
      <3> HIDE DEF T
      <3> QED
        BY <2>1, LeastExists
    <2>3. PICK h \in S : x = MaxHeight - h
      BY <2>2
    <2>4. ASSUME NEW g \in S PROVE g <= h
      <3>1. MaxHeight - g \in T
        OBVIOUS
      <3>2. MaxHeight - h <= MaxHeight - g
        BY <2>2, <2>3, <3>1
      <3> QED
        BY <1>1, <3>2, BlockCountAssumption
    <2> QED
      BY <2>4
  <1>4. Highest(S) \in S /\ \A g \in S : g <= Highest(S)
    BY <1>3 DEF Highest
  <1> QED
    BY <1>2, <1>4

-----------------------------------------------------------------------------
(* What FirstOf picks *)

\* g comes before h.
Before(order, g, h) == IF order = "asc" THEN g < h ELSE g > h

Ahead(S, order, h) == {g \in S : Before(order, g, h)}

LEMMA FirstOfIs ==
  ASSUME NEW S, NEW order, NEW n
  PROVE  FirstOf(S, order, n) = {h \in S : Cardinality(Ahead(S, order, h)) < n}
  BY DEF FirstOf, Ahead, Before

LEMMA HeightsCount ==
  ASSUME NEW S, S \subseteq Height
  PROVE  /\ IsFiniteSet(S) /\ Cardinality(S) \in Nat
         /\ S = {} <=> Cardinality(S) = 0
         /\ \A T \in SUBSET S : IsFiniteSet(T) /\ Cardinality(T) \in Nat
                                /\ Cardinality(T) <= Cardinality(S)
                                /\ (Cardinality(T) = Cardinality(S) => T = S)
  <1>1. IsFiniteSet(S)
    <2>1. IsFiniteSet(Height)
      BY BlockCountAssumption, FS_Interval DEF Height
    <2> QED
      BY <2>1, FS_Subset
  <1> QED
    BY <1>1, FS_CardinalityType, FS_EmptySet, FS_Subset

\* Every set of heights has a first and a last element in either order.
LEMMA OrderEnds ==
  ASSUME NEW S, S \subseteq Height, S # {}, NEW order
  PROVE  /\ \E h \in S : \A g \in S : ~Before(order, g, h)
         /\ \E h \in S : \A g \in S : ~Before(order, h, g)
  <1>1. /\ Lowest(S) \in S /\ \A g \in S : Lowest(S) <= g
        /\ Highest(S) \in S /\ \A g \in S : g <= Highest(S)
    BY PageEnds
  <1>2. S \subseteq Nat
    BY DEF Height
  <1>3. \A g, h \in Nat : (g <= h <=> ~(h < g)) /\ (g <= h <=> ~(g > h))
    OBVIOUS
  <1>4. /\ \A g \in S : ~(g < Lowest(S)) /\ ~(Lowest(S) > g)
        /\ \A g \in S : ~(Highest(S) < g) /\ ~(g > Highest(S))
    BY <1>1, <1>2, <1>3
  <1>5. CASE order = "asc"
    BY <1>1, <1>4, <1>5 DEF Before
  <1>6. CASE order # "asc"
    BY <1>1, <1>4, <1>6 DEF Before
  <1> QED
    BY <1>5, <1>6

LEMMA BeforeOrders ==
  ASSUME NEW order, NEW g \in Nat, NEW h \in Nat
  PROVE  /\ Before(order, g, h) \/ g = h \/ Before(order, h, g)
         /\ ~Before(order, g, g)
         /\ Before(order, g, h) => ~Before(order, h, g)
         /\ \A k \in Nat : Before(order, g, h) /\ Before(order, h, k) => Before(order, g, k)
  BY DEF Before

\* It picks no more than n, an initial segment, something if there is anything,
\* and everything if it picks less than n.
LEMMA FirstOfPicks ==
  ASSUME NEW S, S \subseteq Height, NEW order, NEW n \in Nat
  PROVE  /\ FirstOf(S, order, n) \subseteq S
         /\ Cardinality(FirstOf(S, order, n)) <= n
         /\ \A h \in FirstOf(S, order, n), g \in S :
               Before(order, g, h) => g \in FirstOf(S, order, n)
         /\ n # 0 /\ S # {} => FirstOf(S, order, n) # {}
         /\ Cardinality(FirstOf(S, order, n)) < n => FirstOf(S, order, n) = S
  <1> DEFINE F == FirstOf(S, order, n)
  <1>0. F = {h \in S : Cardinality(Ahead(S, order, h)) < n}
    BY FirstOfIs
  <1>1. F \subseteq S /\ S \subseteq Nat
    BY <1>0 DEF Height
  <1>2. \A h \in S : Ahead(S, order, h) \subseteq S /\ Cardinality(Ahead(S, order, h)) \in Nat
    BY HeightsCount DEF Ahead
  <1> HIDE DEF F
  <1>3. ASSUME NEW h \in F, NEW g \in S, Before(order, g, h) PROVE g \in F
    <2>1. Ahead(S, order, g) \subseteq Ahead(S, order, h)
      BY <1>1, <1>3, BeforeOrders DEF Ahead
    <2>2. Ahead(S, order, h) \subseteq Height
      BY DEF Ahead
    <2>3. Cardinality(Ahead(S, order, g)) <= Cardinality(Ahead(S, order, h))
      BY <2>1, <2>2, HeightsCount
    <2> QED
      BY <1>0, <1>1, <1>2, <2>3
  <1>4. Cardinality(F) <= n
    <2>1. CASE F = {}
      BY <2>1, FS_EmptySet
    <2>2. CASE F # {}
      <3>1. PICK h \in F : \A g \in F : ~Before(order, h, g)
        BY <1>1, <2>2, OrderEnds
      <3>2. F \subseteq Ahead(S, order, h) \cup {h}
        BY <1>1, <3>1, BeforeOrders DEF Ahead
      <3>3. h \notin Ahead(S, order, h) /\ IsFiniteSet(Ahead(S, order, h))
        BY <1>1, BeforeOrders, HeightsCount DEF Ahead
      <3>4. Cardinality(Ahead(S, order, h) \cup {h}) = Cardinality(Ahead(S, order, h)) + 1
        BY <3>3, FS_AddElement
      <3>5. Ahead(S, order, h) \cup {h} \subseteq Height
        BY <1>1 DEF Ahead
      <3>6. Cardinality(F) <= Cardinality(Ahead(S, order, h) \cup {h}) /\ Cardinality(F) \in Nat
        BY <3>2, <3>5, HeightsCount
      <3>7. Cardinality(Ahead(S, order, h)) < n /\ Cardinality(Ahead(S, order, h)) \in Nat
        BY <1>0, <1>1, <1>2
      <3> QED
        BY <3>4, <3>6, <3>7
    <2> QED
      BY <2>1, <2>2
  <1>5. ASSUME n # 0, S # {} PROVE F # {}
    <2>1. PICK h \in S : \A g \in S : ~Before(order, g, h)
      BY <1>5, OrderEnds
    <2>2. Ahead(S, order, h) = {}
      BY <2>1 DEF Ahead
    <2>3. Cardinality(Ahead(S, order, h)) = 0
      BY <2>2, FS_EmptySet
    <2> QED
      BY <1>0, <1>5, <2>3
  <1>6. ASSUME Cardinality(F) < n PROVE F = S
    <2> SUFFICES ASSUME S \ F # {} PROVE FALSE
      BY <1>1
    <2>1. PICK h \in S \ F : \A g \in S \ F : ~Before(order, g, h)
      BY OrderEnds
    <2>2. Ahead(S, order, h) \subseteq F
      BY <2>1 DEF Ahead
    <2>3. Cardinality(Ahead(S, order, h)) <= Cardinality(F) /\ Cardinality(F) \in Nat
      BY <1>1, <2>2, HeightsCount
    <2> QED
      BY <1>0, <1>2, <1>6, <2>1, <2>3
  <1> QED
    BY <1>1, <1>3, <1>4, <1>5, <1>6 DEF F

\* The n elements of A are picked if nothing outside A comes before one of them.
LEMMA FirstOfSegment ==
  ASSUME NEW S, S \subseteq Height, NEW order, NEW n \in Nat,
         NEW A, A \subseteq S, Cardinality(A) = n,
         \A a \in A, g \in S : Before(order, g, a) => g \in A
  PROVE  FirstOf(S, order, n) = A
  <1>1. S \subseteq Nat /\ A \subseteq Height
    BY DEF Height
  <1>2. ASSUME NEW a \in A PROVE Cardinality(Ahead(S, order, a)) < n
    <2>1. Ahead(S, order, a) \subseteq A \ {a}
      BY <1>1, BeforeOrders DEF Ahead
    <2>2. Ahead(S, order, a) \subseteq A /\ Ahead(S, order, a) # A
      BY <2>1
    <2>3. /\ Cardinality(Ahead(S, order, a)) <= Cardinality(A)
          /\ Cardinality(Ahead(S, order, a)) # Cardinality(A)
          /\ Cardinality(Ahead(S, order, a)) \in Nat
      BY <1>1, <2>2, HeightsCount
    <2> QED
      BY <2>3
  <1>3. ASSUME NEW x \in S \ A PROVE ~(Cardinality(Ahead(S, order, x)) < n)
    <2>1. A \subseteq Ahead(S, order, x)
      BY <1>1, <1>3, BeforeOrders DEF Ahead
    <2>2. Ahead(S, order, x) \subseteq Height
      BY DEF Ahead
    <2>3. /\ Cardinality(A) <= Cardinality(Ahead(S, order, x))
          /\ Cardinality(Ahead(S, order, x)) \in Nat
      BY <2>1, <2>2, HeightsCount
    <2> QED
      BY <2>3
  <1> QED
    BY <1>2, <1>3, FirstOfIs

-----------------------------------------------------------------------------
(* The steps of a request *)

HasPage == request.stage \in {"total", "seed", "bounds", "last"}

\* The page of a request is a page of the rows it was read from.
Fetched ==
    HasPage => /\ request.blocks # {} /\ request.blocks \subseteq request.of
               /\ request.of \subseteq rows

ListInv == CountInv /\ ReaderTypeOK /\ Fetched

\* ORDER BY of the step by in the walk.
Heading(filter, by) == IF (filter = "newest") = (by = "prev") THEN "asc" ELSE "desc"

\* The elements of S past cursor c; 1 is no cursor.
After(S, c, order) == {h \in S : c = 1 \/ Before(order, c, h)}

LEMMA Queries ==
  /\ OrderOf(request) = Heading(request.filter, request.by)
  /\ \A c, order : Past(c, order) = After(rows, c, order)
  BY DEF OrderOf, Heading, Past, After, Before

WalkRecord == [since : SUBSET Height, shown : SUBSET Height,
               twice : BOOLEAN, short : BOOLEAN, back : BOOLEAN]
BackRecord == [blocks : Page, of : SUBSET Height]

\* Nothing of the reader changes but the rows it reads from.
LEMMA ReaderRests ==
  ASSUME ListInv, CountInv', rows \subseteq rows', UNCHANGED readerVars
  PROVE  ListInv'
  BY DEF ListInv, ReaderTypeOK, Fetched, HasPage, readerVars

LEMMA EmptyPage == {} \in Page
  BY FS_EmptySet, LimitAssumption DEF Page

LEMMA Records ==
  ASSUME ReaderTypeOK
  PROVE  /\ request.by \in {"first", "next", "prev"} /\ request.filter \in Filter
         /\ request.page \in Height \cup {1} /\ request.blocks \in Page
         /\ request.of \in SUBSET Height /\ request.total \in Nat
         /\ request.min \in Cursor /\ request.max \in Cursor
         /\ reply.blocks \in Page /\ reply.of \in SUBSET Height
         /\ reply.next \in Cursor /\ reply.prev \in Cursor /\ reply.last \in Cursor
         /\ reply.error \in BOOLEAN /\ reply.total \in Nat
  BY DEF ReaderTypeOK, Request, Reply

\* What the reader asks for.
LEMMA AskFacts ==
  ASSUME ListInv, CountInv', AskFirst \/ AskNext \/ AskPrev
  PROVE  /\ request.stage = "idle" /\ request'.stage = "page"
         /\ reply' = NoReply /\ rows' = rows
         /\ \/ /\ request'.by = "first" /\ request'.page = 1
               /\ walk' = NoWalk /\ back' = NoPage
            \/ /\ request'.by = "next" /\ request'.filter = request.filter
               /\ request'.page = reply.next /\ reply.next # 0
               /\ walk' = walk /\ back' = [blocks |-> reply.blocks, of |-> reply.of]
            \/ /\ request'.by = "prev" /\ request'.filter = request.filter
               /\ request'.page = reply.prev /\ reply.prev # 0
               /\ walk' = [NoWalk EXCEPT !.back = TRUE]
               /\ back' = IF request.by = "next" THEN back ELSE NoPage
         /\ ListInv'
  <1> USE DEF ListInv
  <1>1. PICK by \in {"first", "next", "prev"}, filter \in Filter, page \in Height \cup {1} :
            /\ Asks(by, filter, page)
            /\ \/ /\ by = "first" /\ page = 1 /\ walk' = NoWalk /\ back' = NoPage
               \/ /\ by = "next" /\ page = reply.next /\ filter = request.filter
                  /\ reply.next # 0 /\ walk' = walk
                  /\ back' = [blocks |-> reply.blocks, of |-> reply.of]
               \/ /\ by = "prev" /\ page = reply.prev /\ filter = request.filter
                  /\ reply.prev # 0 /\ walk' = [NoWalk EXCEPT !.back = TRUE]
                  /\ back' = IF request.by = "next" THEN back ELSE NoPage
    <2>1. Cursor \ {0} \subseteq Height
      BY BlockCountAssumption DEF Cursor, Height
    <2>2. CASE AskFirst
      BY <2>2 DEF AskFirst
    <2>3. CASE AskNext
      BY <2>1, <2>3, Records DEF AskNext
    <2>4. CASE AskPrev
      BY <2>1, <2>4, Records DEF AskPrev
    <2> QED
      BY <2>2, <2>3, <2>4
  <1>2. /\ request.stage = "idle" /\ reply' = NoReply /\ rows' = rows
        /\ request' = [NoRequest EXCEPT !.stage = "page", !.by = by,
                                        !.filter = filter, !.page = page]
    BY <1>1 DEF Asks, countVars
  <1>3. /\ request'.stage = "page" /\ request'.by = by
        /\ request'.filter = filter /\ request'.page = page
    BY <1>2 DEF NoRequest
  <1>4. request' \in Request /\ reply' \in Reply
    <2>1. {} \in Page /\ 0 \in Cursor
      BY EmptyPage, BlockCountAssumption DEF Cursor
    <2>2. NoRequest \in Request /\ NoReply \in Reply
      BY <2>1 DEF NoRequest, NoReply, Request, Reply, Filter
    <2> QED
      BY <1>2, <2>2 DEF Request
  <1>5. walk' \in WalkRecord /\ back' \in BackRecord
    <2>1. NoWalk \in WalkRecord /\ NoPage \in BackRecord
      BY EmptyPage DEF NoWalk, NoPage, WalkRecord, BackRecord
    <2>2. walk \in WalkRecord /\ back \in BackRecord
      BY DEF ReaderTypeOK, WalkRecord, BackRecord
    <2>3. [blocks |-> reply.blocks, of |-> reply.of] \in BackRecord
      BY Records DEF BackRecord
    <2>4. [NoWalk EXCEPT !.back = TRUE] \in WalkRecord
      BY <2>1 DEF WalkRecord
    <2> QED
      BY <1>1, <2>1, <2>2, <2>3, <2>4
  <1>6. ListInv'
    BY <1>3, <1>4, <1>5 DEF ReaderTypeOK, Fetched, HasPage, WalkRecord, BackRecord
  <1> QED
    BY <1>1, <1>2, <1>3, <1>6

Asked == FirstOf(After(rows, request.page, OrderOf(request)), OrderOf(request), Limit)

LEMMA AskedIsPage ==
  ASSUME ListInv
  PROVE  Asked \in Page /\ Asked \subseteq After(rows, request.page, OrderOf(request))
         /\ Asked \subseteq rows
  <1>1. After(rows, request.page, OrderOf(request)) \subseteq rows /\ rows \subseteq Height
    BY DEF After, ListInv, CountInv, CountTypeOK
  <1>2. After(rows, request.page, OrderOf(request)) \subseteq Height
    BY <1>1
  <1> QED
    BY <1>1, <1>2, FirstOfPicks, LimitAssumption DEF Asked, Page

\* The page is fetched, and shown.
LEMMA FetchPageFacts ==
  ASSUME ListInv, CountInv', FetchPage
  PROVE  /\ request.stage = "page" /\ rows' = rows /\ back' = back
         /\ request'.by = request.by /\ request'.filter = request.filter
         /\ request'.page = request.page
         /\ \/ /\ Asked # {} /\ request'.stage = "total" /\ reply' = reply
               /\ request'.blocks = Asked /\ request'.of = rows
            \/ /\ Asked = {} /\ request'.stage = "idle"
               /\ reply' = [NoReply EXCEPT !.error = TRUE, !.of = rows]
         /\ walk'.back = walk.back /\ walk'.short = walk.short
         /\ walk.back = FALSE =>
               /\ walk'.since = IF request.by = "first" THEN rows ELSE walk.since
               /\ walk'.shown = walk.shown \cup Asked
         /\ walk.back = TRUE \/ Asked \cap walk.shown = {} => walk'.twice = walk.twice
         /\ ListInv'
  <1> USE DEF ListInv
  <1>0. request.stage = "page" /\ rows' = rows /\ back' = back /\ rows \in SUBSET Height
    BY DEF FetchPage, countVars, CountInv, CountTypeOK
  <1>1. Asked \in Page /\ Asked \subseteq rows
    BY AskedIsPage
  <1>2. /\ \/ /\ Asked # {} /\ UNCHANGED reply
              /\ request' = [request EXCEPT !.stage = "total", !.blocks = Asked, !.of = rows]
           \/ Asked = {} /\ Answer([NoReply EXCEPT !.error = TRUE, !.of = rows])
        /\ Show(Asked)
    BY Queries DEF FetchPage, Asked
  <1> HIDE DEF Asked
  <1>3. /\ walk' \in WalkRecord /\ walk'.back = walk.back /\ walk'.short = walk.short
        /\ walk.back = FALSE =>
              /\ walk'.since = IF request.by = "first" THEN rows ELSE walk.since
              /\ walk'.shown = walk.shown \cup Asked
        /\ walk.back = TRUE \/ Asked \cap walk.shown = {} => walk'.twice = walk.twice
    <2>1. walk \in WalkRecord
      BY DEF ReaderTypeOK, WalkRecord
    <2>2. CASE walk.back = TRUE
      BY <1>2, <2>1, <2>2 DEF Show
    <2>3. CASE walk.back = FALSE
      <3> DEFINE since == IF request.by = "first" THEN rows ELSE walk.since
                 twice == walk.twice \/ Asked \cap walk.shown # {}
      <3>1. walk' = [walk EXCEPT !.since = since, !.shown = @ \cup Asked, !.twice = twice]
        BY <1>2, <2>3 DEF Show
      <3>2. since \in SUBSET Height /\ Asked \in SUBSET Height /\ twice \in BOOLEAN
        BY <1>0, <1>1, <2>1 DEF WalkRecord, Page
      <3>3. /\ walk'.since = since /\ walk'.shown = walk.shown \cup Asked
            /\ walk'.back = walk.back /\ walk'.short = walk.short /\ walk'.twice = twice
        BY <2>1, <3>1 DEF WalkRecord
      <3>4. Asked \cap walk.shown = {} => twice = walk.twice
        BY <2>1 DEF WalkRecord
      <3> HIDE DEF since, twice
      <3>5. walk' \in WalkRecord
        BY <2>1, <3>1, <3>2 DEF WalkRecord
      <3> QED
        BY <2>3, <3>3, <3>4, <3>5 DEF since
    <2> QED
      BY <2>1, <2>2, <2>3 DEF WalkRecord
  <1>4. CASE /\ Asked # {} /\ UNCHANGED reply
             /\ request' = [request EXCEPT !.stage = "total", !.blocks = Asked, !.of = rows]
    <2>1. /\ request'.stage = "total" /\ request'.blocks = Asked /\ request'.of = rows
          /\ request'.by = request.by /\ request'.filter = request.filter
          /\ request'.page = request.page
      BY <1>4 DEF ReaderTypeOK, Request
    <2>2. request' \in Request
      BY <1>0, <1>1, <1>4 DEF ReaderTypeOK, Request
    <2>3. ListInv'
      BY <1>0, <1>1, <1>3, <1>4, <2>1, <2>2
      DEF ReaderTypeOK, Fetched, WalkRecord
    <2> QED
      BY <1>0, <1>3, <1>4, <2>1, <2>3
  <1>5. CASE Asked = {} /\ Answer([NoReply EXCEPT !.error = TRUE, !.of = rows])
    <2>1. /\ request'.stage = "idle" /\ request'.by = request.by
          /\ request'.filter = request.filter /\ request'.page = request.page
      BY <1>5 DEF Answer, NoRequest
    <2>2. request' \in Request /\ reply' \in Reply
      <3>1. {} \in Page /\ 0 \in Cursor
        BY EmptyPage, BlockCountAssumption DEF Cursor
      <3> QED
        BY <1>0, <1>5, <3>1, Records DEF Answer, NoRequest, NoReply, Request, Reply
    <2>3. ListInv'
      BY <1>0, <1>3, <2>1, <2>2 DEF ReaderTypeOK, Fetched, HasPage, WalkRecord
    <2> QED
      BY <1>0, <1>3, <1>5, <2>1, <2>3 DEF Answer
  <1> QED
    BY <1>2, <1>4, <1>5

\* A request that has its page waits for the total.
LEMMA WaitFacts ==
  ASSUME ListInv, CountInv', FetchTotal \/ FetchTotalFails \/ SeedTotal
  PROVE  /\ HasPage /\ HasPage' /\ request'.stage \in {"seed", "bounds"}
         /\ UNCHANGED <<rows, reply, walk, back>>
         /\ request'.by = request.by /\ request'.filter = request.filter
         /\ request'.page = request.page /\ request'.blocks = request.blocks
         /\ request'.of = request.of
         /\ ListInv'
  <1> USE DEF ListInv
  <1>1. UNCHANGED <<rows, reply, walk, back>> /\ HasPage
    BY DEF FetchTotal, FetchTotalFails, SeedTotal, SeedRead, SeedWrite, SeedWriteFails, HasPage
  <1>2. PICK s \in {"seed", "bounds"}, n \in Nat :
           request' = [request EXCEPT !.stage = s, !.total = n]
    <2>1. request.total \in Nat /\ blockCount \in Nat /\ Stored \in Nat
      BY RowsFinite, Records DEF CountInv, CountTypeOK
    <2>2. \A s : [request EXCEPT !.stage = s]
                    = [request EXCEPT !.stage = s, !.total = request.total]
      BY DEF ReaderTypeOK, Request
    <2>3. request.stage = "seed" =>
            [request EXCEPT !.total = Stored]
              = [request EXCEPT !.stage = "seed", !.total = Stored]
      BY DEF ReaderTypeOK, Request
    <2> QED
      BY <2>1, <2>2, <2>3 DEF FetchTotal, FetchTotalFails, SeedTotal, GoOn, Stored
  <1>3. /\ request'.stage \in {"seed", "bounds"}
        /\ request'.by = request.by /\ request'.filter = request.filter
        /\ request'.page = request.page /\ request'.blocks = request.blocks
        /\ request'.of = request.of
    BY <1>2 DEF ReaderTypeOK, Request
  <1>4. request' \in Request
    BY <1>2 DEF ReaderTypeOK, Request
  <1>5. ListInv'
    BY <1>1, <1>3, <1>4 DEF ReaderTypeOK, Fetched, HasPage
  <1> QED
    BY <1>1, <1>3, <1>5 DEF HasPage

\* The ends of the table.
LEMMA FetchBoundsFacts ==
  ASSUME ListInv, CountInv', FetchBounds
  PROVE  /\ request.stage = "bounds" /\ request'.stage = "last"
         /\ UNCHANGED <<rows, reply, walk, back>>
         /\ request'.by = request.by /\ request'.filter = request.filter
         /\ request'.page = request.page /\ request'.blocks = request.blocks
         /\ request'.of = request.of
         /\ request'.min = Lowest(rows) /\ request'.max = Highest(rows)
         /\ rows # {} /\ rows \subseteq Height
         /\ ListInv'
  <1> USE DEF ListInv
  <1>1. /\ request.stage = "bounds" /\ UNCHANGED <<rows, reply, walk, back>>
        /\ request' = [request EXCEPT !.stage = "last", !.min = Lowest(rows),
                                      !.max = Highest(rows)]
    BY DEF FetchBounds, countVars
  <1>2. rows # {} /\ rows \subseteq Height
    BY <1>1 DEF Fetched, HasPage, CountInv, CountTypeOK
  <1>3. Lowest(rows) \in Cursor /\ Highest(rows) \in Cursor
    <2>1. Lowest(rows) \in Height /\ Highest(rows) \in Height
      BY <1>2, PageEnds
    <2> QED
      BY <2>1, BlockCountAssumption DEF Cursor, Height
  <1>4. /\ request'.stage = "last" /\ request'.of = request.of
        /\ request'.by = request.by /\ request'.filter = request.filter
        /\ request'.page = request.page /\ request'.blocks = request.blocks
        /\ request'.min = Lowest(rows) /\ request'.max = Highest(rows)
    BY <1>1 DEF ReaderTypeOK, Request
  <1>5. request' \in Request
    BY <1>1, <1>3 DEF ReaderTypeOK, Request
  <1>6. ListInv'
    BY <1>1, <1>4, <1>5 DEF ReaderTypeOK, Fetched, HasPage
  <1> QED
    BY <1>1, <1>2, <1>4, <1>6

LEMMA OffsetFacts ==
  ASSUME NEW total \in Nat
  PROVE  Offset(total) \in 1 .. Limit
  <1>1. total % Limit \in 0 .. Limit - 1
    BY LimitAssumption
  <1> QED
    BY <1>1, LimitAssumption DEF Offset

\* Where the walk ends and where it began.
Finish(r) == IF r.filter = "newest" THEN r.min ELSE r.max
Start(r) == IF r.filter = "newest" THEN r.max ELSE r.min

FromFinish(r) == {h \in rows : Before(Heading(r.filter, "prev"), Finish(r), h)}

Tail == FirstOf(FromFinish(request), Heading(request.filter, "prev"), Offset(request.total))

LEMMA TailFacts ==
  ASSUME ListInv
  PROVE  /\ Tail \subseteq FromFinish(request) /\ FromFinish(request) \subseteq rows
         /\ rows \subseteq Height
         /\ Tail = {} => FromFinish(request) = {}
  <1>1. FromFinish(request) \subseteq rows /\ rows \subseteq Height
    BY DEF FromFinish, ListInv, CountInv, CountTypeOK
  <1>2. Offset(request.total) \in Nat /\ Offset(request.total) # 0
    BY OffsetFacts, Records, LimitAssumption DEF ListInv
  <1>3. FromFinish(request) \subseteq Height
    BY <1>1
  <1> QED
    BY <1>1, <1>2, <1>3, FirstOfPicks DEF Tail

LEMMA FetchLastFacts ==
  ASSUME ListInv, CountInv', FetchLast
  PROVE  /\ request.stage = "last" /\ request'.stage = "idle"
         /\ rows' = rows /\ back' = back
         /\ request'.by = request.by /\ request'.filter = request.filter
         /\ request'.page = request.page
         /\ walk'.since = walk.since /\ walk'.shown = walk.shown
         /\ walk'.back = walk.back /\ walk'.twice = walk.twice
         /\ walk.back = FALSE => (walk'.short = TRUE <=> walk.short = TRUE \/ request.total < Limit)
         /\ reply'.of = request.of
         /\ \/ /\ Tail = {} /\ reply'.error = TRUE /\ reply'.blocks = {}
               /\ reply'.next = 0 /\ reply'.prev = 0 /\ reply'.last = 0
            \/ /\ Tail # {} /\ reply'.error = FALSE /\ reply'.blocks = request.blocks
               /\ reply'.total = request.total
               /\ reply'.last = Near(Tail, request.filter)
               /\ reply'.next = IF \/ Partial(request.blocks) \/ request.total < Limit
                                   \/ Far(request.blocks, request.filter) = Finish(request)
                                THEN 0 ELSE Far(request.blocks, request.filter)
               /\ reply'.prev = IF \/ request.total < Limit
                                   \/ Near(request.blocks, request.filter) = Start(request)
                                THEN 0 ELSE Near(request.blocks, request.filter)
         /\ ListInv'
  <1> USE DEF ListInv
  <1> DEFINE far == Far(request.blocks, request.filter)
             near == Near(request.blocks, request.filter)
             last == Near(Tail, request.filter)
             next == IF \/ Partial(request.blocks) \/ far = Finish(request)
                        \/ request.total < Limit THEN 0 ELSE far
             prev == IF near = Start(request) \/ request.total < Limit THEN 0 ELSE near
             shown == [blocks |-> request.blocks, of |-> request.of, total |-> request.total,
                       error |-> FALSE, last |-> last, next |-> next, prev |-> prev]
             failed == [NoReply EXCEPT !.error = TRUE, !.of = request.of]
  <1>1. request.stage = "last" /\ rows' = rows /\ back' = back
    BY DEF FetchLast, countVars
  <1>2. request.filter \in Filter
    BY Records
  <1>3. Tail = FirstOf({h \in rows : IF request.filter = "newest" THEN h > request.min
                                                                ELSE h < request.max},
                       IF request.filter = "newest" THEN "asc" ELSE "desc",
                       Offset(request.total))
    <2>1. Heading(request.filter, "prev") = IF request.filter = "newest" THEN "asc" ELSE "desc"
      BY DEF Heading
    <2>2. \A h \in rows : /\ h \in Nat /\ request.min \in Nat /\ request.max \in Nat
      BY Records, BlockCountAssumption DEF CountInv, CountTypeOK, Height, Cursor
    <2>3. FromFinish(request) = {h \in rows : IF request.filter = "newest" THEN h > request.min
                                                                ELSE h < request.max}
      BY <2>1, <2>2 DEF FromFinish, Finish, Before
    <2> QED
      BY <2>1, <2>3 DEF Tail
  <1>4. (Tail = {} /\ Answer(failed)) \/ (Tail # {} /\ Answer(shown))
    BY <1>3 DEF FetchLast, Finish, Start
  <1>5. /\ walk' \in WalkRecord /\ walk'.since = walk.since /\ walk'.shown = walk.shown
        /\ walk'.back = walk.back /\ walk'.twice = walk.twice
        /\ walk.back = FALSE => (walk'.short = TRUE <=> walk.short = TRUE \/ request.total < Limit)
    <2> DEFINE short == ~walk.back /\ (walk.short \/ request.total < Limit)
    <2>1. walk \in WalkRecord /\ short \in BOOLEAN
      BY DEF ReaderTypeOK, WalkRecord
    <2>2. walk' = [walk EXCEPT !.short = short]
      BY DEF FetchLast
    <2>3. walk.back = FALSE => (short = TRUE <=> walk.short = TRUE \/ request.total < Limit)
      BY <2>1 DEF WalkRecord
    <2> HIDE DEF short
    <2> QED
      BY <2>1, <2>2, <2>3 DEF WalkRecord
  <1>6. far \in Cursor /\ near \in Cursor /\ (Tail # {} => last \in Cursor)
    <2>1. request.blocks # {} /\ request.blocks \subseteq Height
      BY <1>1, Records DEF Fetched, HasPage, Page
    <2>2. Tail \subseteq Height
      BY TailFacts
    <2>3. Height \subseteq Cursor
      BY BlockCountAssumption DEF Height, Cursor
    <2>4. /\ Lowest(request.blocks) \in Height /\ Highest(request.blocks) \in Height
          /\ Tail # {} => Lowest(Tail) \in Height /\ Highest(Tail) \in Height
      BY <2>1, <2>2, PageEnds
    <2> QED
      BY <2>3, <2>4 DEF Far, Near
  <1> HIDE DEF far, near, last
  <1>7. next \in Cursor /\ prev \in Cursor /\ 0 \in Cursor
    BY <1>6, BlockCountAssumption DEF Cursor
  <1>8. (Tail # {} => shown \in Reply) /\ failed \in Reply
    <2> HIDE DEF next, prev
    <2> QED
      BY <1>6, <1>7, Records, EmptyPage DEF Reply, NoReply
  <1>9. /\ request'.stage = "idle" /\ request'.by = request.by
        /\ request'.filter = request.filter /\ request'.page = request.page
        /\ request' \in Request
    <2>1. /\ request' = [NoRequest EXCEPT !.by = request.by, !.filter = request.filter,
                                          !.page = request.page]
      BY <1>4 DEF Answer
    <2> QED
      BY <1>7, <2>1, Records, EmptyPage DEF NoRequest, Request
  <1>10. reply' \in Reply
    BY <1>4, <1>8 DEF Answer
  <1>11. ListInv'
    BY <1>1, <1>5, <1>9, <1>10 DEF ReaderTypeOK, Fetched, HasPage, WalkRecord
  <1>12. CASE Tail = {} /\ Answer(failed)
    BY <1>1, <1>5, <1>9, <1>11, <1>12 DEF Answer, NoReply
  <1>13. CASE Tail # {} /\ Answer(shown)
    <2>1. /\ reply'.error = FALSE /\ reply'.blocks = request.blocks /\ reply'.of = request.of
          /\ reply'.total = request.total /\ reply'.last = last
          /\ reply'.next = next /\ reply'.prev = prev
      BY <1>13 DEF Answer
    <2> QED
      BY <1>1, <1>5, <1>9, <1>11, <1>13, <2>1 DEF far, near, last
  <1> QED
    BY <1>4, <1>12, <1>13

\* What the indexer does to the reader: more rows.
LEMMA IndexerFacts ==
  ASSUME CountInv, (CountStep /\ UNCHANGED readerVars) \/ UNCHANGED vars
  PROVE  rows \subseteq rows' /\ UNCHANGED <<request, reply, walk, back>>
  BY DEF CountStep, SaveRow, SaveAgain, SaveFails, SaveUncounted, Saved, ReadCount,
         ReadCountFails, CountRows, CountRowsFails, WriteCount, WriteCountFails, SeedRead, SeedWrite, SeedWriteFails, Restart, vars, countVars,
         readerVars

LEMMA Steps ==
  [Next]_vars =>
     \/ (CountStep /\ UNCHANGED readerVars) \/ UNCHANGED vars
     \/ AskFirst \/ AskNext \/ AskPrev
     \/ FetchPage
     \/ FetchTotal \/ FetchTotalFails \/ SeedTotal
     \/ FetchBounds
     \/ FetchLast
  BY DEF Next

LEMMA InitListInv == Init => ListInv
  <1> SUFFICES ASSUME Init PROVE ListInv
    OBVIOUS
  <1>1. request = NoRequest /\ reply = NoReply /\ walk = NoWalk /\ back = NoPage
    BY DEF Init
  <1>2. {} \in Page /\ 0 \in Cursor
    BY EmptyPage, BlockCountAssumption DEF Cursor
  <1>3. ReaderTypeOK
    BY <1>1, <1>2
    DEF ReaderTypeOK, Request, Reply, Filter, NoRequest, NoReply, NoWalk, NoPage
  <1>4. Fetched
    BY <1>1 DEF Fetched, HasPage, NoRequest
  <1> QED
    BY <1>3, <1>4, InitCountInv DEF ListInv

LEMMA NextListInv == ListInv /\ [Next]_vars => ListInv'
  <1> SUFFICES ASSUME ListInv, [Next]_vars PROVE ListInv'
    OBVIOUS
  <1>1. CountInv /\ CountInv'
    BY NextCountInv DEF ListInv
  <1>2. CASE (CountStep /\ UNCHANGED readerVars) \/ UNCHANGED vars
    BY <1>1, <1>2, IndexerFacts, ReaderRests DEF readerVars
  <1> QED
    BY <1>1, <1>2, Steps, AskFacts, FetchPageFacts, WaitFacts, FetchBoundsFacts, FetchLastFacts

\* Pages are no longer than Limit and cursors are heights or null, whatever the
\* count is and whatever is stored while a request is answered.
THEOREM TypeCorrect == Spec => []TypeOK
  <1>1. ListInv => TypeOK
    BY DEF ListInv, CountInv, TypeOK
  <1> QED
    BY <1>1, InitListInv, NextListInv, PTL DEF Spec

-----------------------------------------------------------------------------
(* A cursor that is given out leads to a page *)

\* From a cursor that is given out there is a row to go on to, and the ends of
\* the table are those of the rows the page was read from, or wider.
LeadsOn ==
    /\ reply.of \subseteq rows
    /\ reply.error = TRUE => Cardinality(reply.of) < 2
    /\ request.by = "first" => request.page = 1
    /\ request.stage = "page" =>
          request.page = 1 \/ After(rows, request.page, OrderOf(request)) # {}
    /\ request.stage = "last" =>
          /\ request.min \in rows /\ request.max \in rows
          /\ \A h \in request.of : request.min <= h /\ h <= request.max
    /\ request.stage = "idle" =>
          /\ reply.next # 0 => After(rows, reply.next, Heading(request.filter, "next")) # {}
          /\ reply.prev # 0 => After(rows, reply.prev, Heading(request.filter, "prev")) # {}

LEMMA LeadsOnIndexer ==
  ASSUME LeadsOn, rows \subseteq rows', UNCHANGED <<request, reply, walk, back>>
  PROVE  LeadsOn'
  <1>1. \A c, order : After(rows, c, order) \subseteq After(rows', c, order)
    BY DEF After
  <1>2. OrderOf(request)' = OrderOf(request)
    BY DEF OrderOf
  <1>3. \A c, order : After(rows, c, order)' = After(rows', c, order)
    BY DEF After, Before
  <1> QED
    BY <1>1, <1>2, <1>3 DEF LeadsOn

LEMMA AskLeadsOn ==
  ASSUME ListInv, CountInv', LeadsOn, AskFirst \/ AskNext \/ AskPrev
  PROVE  LeadsOn'
  <1>1. /\ request.stage = "idle" /\ request'.stage = "page"
        /\ reply' = NoReply /\ rows' = rows
        /\ \/ request'.by = "first" /\ request'.page = 1
           \/ /\ request'.by = "next" /\ request'.filter = request.filter
              /\ request'.page = reply.next /\ reply.next # 0
           \/ /\ request'.by = "prev" /\ request'.filter = request.filter
              /\ request'.page = reply.prev /\ reply.prev # 0
    BY AskFacts
  <1>2. request'.page = 1 \/ After(rows, request'.page, Heading(request'.filter, request'.by)) # {}
    BY <1>1 DEF LeadsOn
  <1>3. OrderOf(request)' = Heading(request'.filter, request'.by)
    BY DEF OrderOf, Heading
  <1>4. \A c, order : After(rows, c, order)' = After(rows', c, order)
    BY DEF After, Before
  <1>5. reply'.of = {} /\ reply'.error = FALSE
    BY <1>1 DEF NoReply
  <1> QED
    BY <1>1, <1>2, <1>3, <1>4, <1>5 DEF LeadsOn

LEMMA FetchPageLeadsOn ==
  ASSUME ListInv, CountInv', LeadsOn, FetchPage
  PROVE  LeadsOn'
  <1>1. /\ request.stage = "page" /\ rows' = rows
        /\ request'.by = request.by /\ request'.page = request.page
        /\ \/ Asked # {} /\ request'.stage = "total" /\ reply' = reply
           \/ /\ Asked = {} /\ request'.stage = "idle"
              /\ reply' = [NoReply EXCEPT !.error = TRUE, !.of = rows]
    BY FetchPageFacts
  <1>2. ASSUME Asked = {} PROVE Cardinality(rows) = 0
    <2>1. rows \subseteq Height /\ After(rows, request.page, OrderOf(request)) \subseteq Height
      BY DEF ListInv, CountInv, CountTypeOK, After
    <2>2. After(rows, request.page, OrderOf(request)) = {}
      BY <1>2, <2>1, FirstOfPicks, LimitAssumption DEF Asked
    <2>3. request.page = 1
      BY <1>1, <2>2 DEF LeadsOn
    <2>4. rows = {}
      BY <2>2, <2>3 DEF After
    <2> QED
      BY <2>4, FS_EmptySet
  <1>3. CASE Asked # {} /\ request'.stage = "total" /\ reply' = reply
    BY <1>1, <1>3 DEF LeadsOn
  <1>4. CASE /\ Asked = {} /\ request'.stage = "idle"
             /\ reply' = [NoReply EXCEPT !.error = TRUE, !.of = rows]
    <2>1. reply'.of = rows /\ reply'.next = 0 /\ reply'.prev = 0
      BY <1>4 DEF NoReply
    <2> QED
      BY <1>1, <1>2, <1>4, <2>1 DEF LeadsOn
  <1> QED
    BY <1>1, <1>3, <1>4

LEMMA WaitLeadsOn ==
  ASSUME ListInv, CountInv', LeadsOn, FetchTotal \/ FetchTotalFails \/ SeedTotal
  PROVE  LeadsOn'
  BY WaitFacts DEF LeadsOn

LEMMA FetchBoundsLeadsOn ==
  ASSUME ListInv, CountInv', LeadsOn, FetchBounds
  PROVE  LeadsOn'
  <1>1. /\ request.stage = "bounds" /\ request'.stage = "last"
        /\ rows' = rows /\ reply' = reply
        /\ request'.by = request.by /\ request'.page = request.page
        /\ request'.of = request.of
        /\ request'.min = Lowest(rows) /\ request'.max = Highest(rows)
        /\ rows # {} /\ rows \subseteq Height
    BY FetchBoundsFacts
  <1>2. /\ Lowest(rows) \in rows /\ \A g \in rows : Lowest(rows) <= g
        /\ Highest(rows) \in rows /\ \A g \in rows : g <= Highest(rows)
    BY <1>1, PageEnds
  <1>3. request.of \subseteq rows
    BY <1>1 DEF ListInv, Fetched, HasPage
  <1> QED
    BY <1>1, <1>2, <1>3 DEF LeadsOn

\* The ends of a page as the walk comes to them.
LEMMA NearFar ==
  ASSUME NEW S, S \subseteq Height, S # {}, NEW filter \in Filter
  PROVE  /\ Far(S, filter) \in S /\ Near(S, filter) \in S
         /\ \A h \in S : /\ ~Before(Heading(filter, "next"), Far(S, filter), h)
                         /\ ~Before(Heading(filter, "next"), h, Near(S, filter))
  <1>1. /\ Lowest(S) \in S /\ \A g \in S : Lowest(S) <= g
        /\ Highest(S) \in S /\ \A g \in S : g <= Highest(S)
    BY PageEnds
  <1>2. \A h \in S : h \in Nat
    BY DEF Height
  <1> QED
    BY <1>1, <1>2 DEF Far, Near, Heading, Before, Filter

\* The steps "next" and "prev" read in opposite orders.
LEMMA BackAndForth ==
  ASSUME NEW filter \in Filter, NEW g \in Nat, NEW h \in Nat
  PROVE  Before(Heading(filter, "prev"), g, h) <=> Before(Heading(filter, "next"), h, g)
  BY DEF Heading, Before, Filter

\* A page that is answered.
LEMMA AnswerEnds ==
  ASSUME ListInv, request.stage = "last"
  PROVE  /\ request.blocks # {} /\ request.blocks \subseteq request.of
         /\ request.of \subseteq rows /\ rows \subseteq Height
         /\ Far(request.blocks, request.filter) \in request.blocks
         /\ Near(request.blocks, request.filter) \in request.blocks
         /\ request.filter \in Filter /\ request.min \in Nat /\ request.max \in Nat
  <1>1. /\ request.blocks # {} /\ request.blocks \subseteq request.of
        /\ request.of \subseteq rows /\ rows \subseteq Height
    BY DEF ListInv, Fetched, HasPage, CountInv, CountTypeOK
  <1>2. request.filter \in Filter /\ request.min \in Nat /\ request.max \in Nat
    BY Records, BlockCountAssumption DEF ListInv, Cursor
  <1>3. request.blocks \subseteq Height
    BY <1>1
  <1> QED
    BY <1>1, <1>2, <1>3, NearFar

LEMMA FetchLastLeadsOn ==
  ASSUME ListInv, CountInv', LeadsOn, FetchLast
  PROVE  LeadsOn'
  <1> DEFINE far == Far(request.blocks, request.filter)
             near == Near(request.blocks, request.filter)
  <1>1. /\ request.stage = "last" /\ request'.stage = "idle" /\ rows' = rows
        /\ request'.by = request.by /\ request'.filter = request.filter
        /\ request'.page = request.page /\ reply'.of = request.of
        /\ \/ Tail = {} /\ reply'.next = 0 /\ reply'.prev = 0
           \/ /\ Tail # {} /\ reply'.error = FALSE
              /\ reply'.next # 0 => reply'.next = far /\ far # Finish(request)
              /\ reply'.prev # 0 => reply'.prev = near /\ near # Start(request)
    BY FetchLastFacts
  <1>2. /\ request.of \subseteq rows /\ rows \subseteq Height /\ request.filter \in Filter
        /\ far \in request.of /\ near \in request.of
        /\ request.min \in Nat /\ request.max \in Nat
        /\ request.min \in rows /\ request.max \in rows
        /\ \A h \in request.of : h \in Nat /\ request.min <= h /\ h <= request.max
    BY <1>1, AnswerEnds DEF LeadsOn, Height
  <1> HIDE DEF far, near
  <1>3. ASSUME Tail = {} PROVE Cardinality(request.of) < 2
    <2>1. FromFinish(request) = {}
      BY <1>3, TailFacts
    <2>2. request.of \subseteq {Finish(request)}
      BY <1>2, <2>1 DEF FromFinish, Finish, Before, Heading, Filter
    <2>3. request.of = {} \/ request.of = {Finish(request)}
      BY <2>2
    <2>4. Cardinality({}) = 0 /\ Cardinality({Finish(request)}) = 1
      BY FS_EmptySet, FS_Singleton
    <2> QED
      BY <2>3, <2>4
  <1>4. /\ far # Finish(request) =>
             Finish(request) \in After(rows, far, Heading(request.filter, "next"))
        /\ near # Start(request) =>
             Start(request) \in After(rows, near, Heading(request.filter, "prev"))
    BY <1>2 DEF Finish, Start, After, Before, Heading, Filter
  <1>5. \A c, order : After(rows, c, order)' = After(rows', c, order)
    BY DEF After, Before
  <1> QED
    BY <1>1, <1>2, <1>3, <1>4, <1>5 DEF LeadsOn

LEMMA InitLeadsOn == Init => LeadsOn
  BY DEF Init, LeadsOn, NoRequest, NoReply

LEMMA NextLeadsOn == ListInv /\ LeadsOn /\ [Next]_vars => LeadsOn'
  <1> SUFFICES ASSUME ListInv, LeadsOn, [Next]_vars PROVE LeadsOn'
    OBVIOUS
  <1>1. CountInv /\ CountInv'
    BY NextCountInv DEF ListInv
  <1>2. CASE (CountStep /\ UNCHANGED readerVars) \/ UNCHANGED vars
    BY <1>1, <1>2, IndexerFacts, LeadsOnIndexer
  <1> QED
    BY <1>1, <1>2, Steps, AskLeadsOn, FetchPageLeadsOn, WaitLeadsOn, FetchBoundsLeadsOn,
       FetchLastLeadsOn

\* The API answers an error in place of a page only if the table had fewer than
\* two rows when the page was read: a cursor it gave out leads to a page, and
\* the last page has a first row to begin it.
THEOREM ErrorsHaveCauses == Spec => []ErrorCauses
  <1>1. ListInv /\ LeadsOn => ErrorCauses
    BY DEF LeadsOn, ErrorCauses, ListInv, ReaderTypeOK, Reply
  <1> QED
    BY <1>1, InitListInv, NextListInv, InitLeadsOn, NextLeadsOn, PTL DEF Spec

-----------------------------------------------------------------------------
(* No block is shown twice *)

\* What a walk has shown is behind it.  Cursor 1, which would be taken for no
\* cursor, is never given out.
ShownBehind ==
    /\ walk.twice = FALSE
    /\ request.stage = "page" /\ request.by = "next" => request.page # 1
    /\ request.stage = "idle" => reply.next # 1
    /\ walk.back = FALSE =>
          /\ request.by # "prev"
          /\ request.stage = "page" /\ request.by = "first" => walk.shown = {}
          /\ request.stage = "page" /\ request.by = "next" =>
                \A h \in walk.shown : ~Before(Heading(request.filter, "next"), request.page, h)
          /\ HasPage =>
                \A h \in walk.shown : \E b \in request.blocks :
                   ~Before(Heading(request.filter, "next"), b, h)
          /\ request.stage = "idle" /\ reply.next # 0 =>
                \A h \in walk.shown : ~Before(Heading(request.filter, "next"), reply.next, h)

LEMMA AskShownBehind ==
  ASSUME ListInv, CountInv', ShownBehind, AskFirst \/ AskNext \/ AskPrev
  PROVE  ShownBehind'
  <1>1. /\ request.stage = "idle" /\ request'.stage = "page"
        /\ \/ request'.by = "first" /\ walk' = NoWalk
           \/ /\ request'.by = "next" /\ request'.filter = request.filter
              /\ request'.page = reply.next /\ reply.next # 0 /\ walk' = walk
           \/ request'.by = "prev" /\ walk' = [NoWalk EXCEPT !.back = TRUE]
    BY AskFacts
  <1>2. NoWalk.twice = FALSE /\ NoWalk.shown = {}
    BY DEF NoWalk
  <1>3. [NoWalk EXCEPT !.back = TRUE].twice = FALSE /\ [NoWalk EXCEPT !.back = TRUE].back = TRUE
    BY DEF NoWalk
  <1> QED
    BY <1>1, <1>2, <1>3 DEF ShownBehind, HasPage

LEMMA FetchPageShownBehind ==
  ASSUME ListInv, CountInv', ShownBehind, FetchPage
  PROVE  ShownBehind'
  <1> DEFINE on == Heading(request.filter, "next")
  <1>1. /\ request.stage = "page"
        /\ request'.by = request.by /\ request'.filter = request.filter
        /\ \/ /\ Asked # {} /\ request'.stage = "total" /\ request'.blocks = Asked
           \/ request'.stage = "idle" /\ reply'.next = 0
        /\ walk'.back = walk.back
        /\ walk.back = FALSE => walk'.shown = walk.shown \cup Asked
        /\ walk.back = TRUE \/ Asked \cap walk.shown = {} => walk'.twice = walk.twice
    BY FetchPageFacts DEF NoReply
  <1>2. \A h \in walk.shown \cup Asked : h \in Nat
    <2>1. walk.shown \subseteq Height /\ Asked \subseteq Height
      BY AskedIsPage DEF ListInv, ReaderTypeOK, Page
    <2>2. \A h \in Height : h \in Nat
      BY DEF Height
    <2> QED
      BY <2>1, <2>2
  <1>3. ASSUME walk.back = FALSE, NEW h \in walk.shown, NEW b \in Asked
        PROVE  h # b /\ ~Before(on, b, h)
    <2>1. request.by = "next"
      BY <1>1, <1>3, Records DEF ShownBehind, ListInv
    <2>2. request.page # 1 /\ ~Before(on, request.page, h)
      BY <1>1, <1>3, <2>1 DEF ShownBehind
    <2>3. Before(on, request.page, b)
      BY <1>3, <2>1, <2>2, AskedIsPage, Queries DEF After
    <2>4. request.page \in Nat /\ h \in Nat /\ b \in Nat
      BY <1>2, <1>3, Records DEF ListInv, Height
    <2> HIDE DEF on
    <2> QED
      BY <2>2, <2>3, <2>4, BeforeOrders
  <1>4. walk.back = TRUE \/ Asked \cap walk.shown = {}
    <2>1. walk.back \in BOOLEAN
      BY DEF ListInv, ReaderTypeOK
    <2> QED
      BY <1>3, <2>1
  <1>5. walk'.twice = FALSE
    BY <1>1, <1>4 DEF ShownBehind
  <1>6. ASSUME walk.back = FALSE, Asked # {}, NEW h \in walk.shown \cup Asked
        PROVE  \E b \in Asked : ~Before(on, b, h)
    <2>1. CASE h \in walk.shown
      BY <1>3, <1>6, <2>1
    <2>2. CASE h \in Asked
      <3>1. h \in Nat
        BY <1>2, <1>6
      <3>2. ~Before(on, h, h)
        BY <3>1 DEF Before
      <3> QED
        BY <2>2, <3>2
    <2> QED
      BY <1>6, <2>1, <2>2
  <1>7. walk.back = FALSE => request.by # "prev"
    BY DEF ShownBehind
  <1> HIDE DEF on
  <1>8. CASE Asked # {} /\ request'.stage = "total" /\ request'.blocks = Asked
    <2>1. walk.back = FALSE =>
             \A h \in walk'.shown : \E b \in request'.blocks :
                ~Before(Heading(request'.filter, "next"), b, h)
      BY <1>1, <1>6, <1>8 DEF on
    <2> QED
      BY <1>1, <1>5, <1>7, <1>8, <2>1 DEF ShownBehind
  <1>9. CASE request'.stage = "idle" /\ reply'.next = 0
    BY <1>1, <1>5, <1>7, <1>9 DEF ShownBehind, HasPage
  <1> QED
    BY <1>1, <1>8, <1>9

\* The end of a full page is not block 1 if there are rows beyond it, or others
\* on it.
LEMMA NextCursor ==
  ASSUME ListInv, LeadsOn, Limit # 1, request.stage = "last", ~Partial(request.blocks),
         Far(request.blocks, request.filter) # Finish(request)
  PROVE  Far(request.blocks, request.filter) # 1
  <1> DEFINE far == Far(request.blocks, request.filter)
  <1> SUFFICES ASSUME far = 1 PROVE FALSE
    OBVIOUS
  <1>1. /\ far \in request.blocks /\ request.blocks \subseteq request.of
        /\ request.of \subseteq rows /\ rows \subseteq Height
        /\ request.filter \in Filter /\ request.min \in Nat
    BY AnswerEnds
  <1>2. CASE request.filter = "newest"
    <2>1. request.min \in rows /\ request.min <= far
      BY <1>1 DEF LeadsOn
    <2>2. request.min = 1
      BY <1>1, <2>1 DEF Height
    <2> QED
      BY <1>2, <2>2 DEF Finish
  <1>3. CASE request.filter = "oldest"
    <2>1. request.blocks \subseteq Height /\ request.blocks # {}
      BY <1>1
    <2>2. \A b \in request.blocks : b <= 1
      BY <1>3, <2>1, PageEnds DEF Far
    <2>3. request.blocks = {1}
      BY <1>1, <2>1, <2>2 DEF Height
    <2>4. Cardinality(request.blocks) = 1
      BY <2>3, FS_Singleton
    <2> QED
      BY <2>4, LimitAssumption DEF Partial
  <1> QED
    BY <1>1, <1>2, <1>3 DEF Filter

LEMMA FetchLastShownBehind ==
  ASSUME ListInv, CountInv', LeadsOn, Limit # 1, ShownBehind, FetchLast
  PROVE  ShownBehind'
  <1> DEFINE far == Far(request.blocks, request.filter)
             on == Heading(request.filter, "next")
  <1>1. /\ request.stage = "last" /\ request'.stage = "idle"
        /\ request'.by = request.by /\ request'.filter = request.filter
        /\ walk'.shown = walk.shown /\ walk'.back = walk.back /\ walk'.twice = walk.twice
        /\ reply'.next # 0 => /\ reply'.next = far /\ far # Finish(request)
                              /\ ~Partial(request.blocks)
    BY FetchLastFacts
  <1>2. reply'.next # 1
    BY <1>1, NextCursor
  <1>3. ASSUME walk.back = FALSE, NEW h \in walk.shown PROVE ~Before(on, far, h)
    <2>1. PICK b \in request.blocks : ~Before(on, b, h)
      BY <1>1, <1>3 DEF ShownBehind, HasPage
    <2>2. /\ request.blocks # {} /\ request.blocks \subseteq Height
          /\ request.filter \in Filter /\ far \in request.blocks
      BY <1>1, AnswerEnds
    <2>3. ~Before(on, far, b)
      BY <2>2, NearFar
    <2>4. h \in Nat /\ b \in Nat /\ far \in Nat
      BY <1>3, <2>2 DEF ListInv, ReaderTypeOK, Height
    <2> HIDE DEF on, far
    <2> QED
      BY <2>1, <2>3, <2>4, BeforeOrders
  <1> HIDE DEF on, far
  <1>4. walk.back = FALSE /\ reply'.next # 0 =>
           \A h \in walk'.shown : ~Before(Heading(request'.filter, "next"), reply'.next, h)
    BY <1>1, <1>3 DEF on
  <1> QED
    BY <1>1, <1>2, <1>4 DEF ShownBehind, HasPage

LEMMA InitShownBehind == Init => ShownBehind
  BY DEF Init, ShownBehind, HasPage, NoRequest, NoReply, NoWalk

LEMMA NextShownBehind ==
  ASSUME Limit # 1
  PROVE  ListInv /\ LeadsOn /\ ShownBehind /\ [Next]_vars => ShownBehind'
  <1> SUFFICES ASSUME ListInv, LeadsOn, ShownBehind, [Next]_vars PROVE ShownBehind'
    OBVIOUS
  <1>1. CountInv /\ CountInv'
    BY NextCountInv DEF ListInv
  <1>2. CASE (CountStep /\ UNCHANGED readerVars) \/ UNCHANGED vars
    BY <1>1, <1>2, IndexerFacts DEF ShownBehind, HasPage
  <1>3. CASE FetchTotal \/ FetchTotalFails \/ SeedTotal \/ FetchBounds
    <2>1. /\ HasPage /\ HasPage' /\ UNCHANGED walk /\ request'.stage \notin {"page", "idle"}
          /\ request'.by = request.by /\ request'.filter = request.filter
          /\ request'.blocks = request.blocks
      BY <1>1, <1>3, WaitFacts, FetchBoundsFacts DEF HasPage
    <2> QED
      BY <2>1 DEF ShownBehind
  <1> QED
    BY <1>1, <1>2, <1>3, Steps, AskShownBehind, FetchPageShownBehind, FetchLastShownBehind

\* With pages of more than one block, a reader who walks on by Next is never
\* shown a block twice, whatever the indexer stores meanwhile and whatever
\* becomes of the count.
THEOREM NoBlockShownTwice ==
  ASSUME Limit # 1
  PROVE  Spec => []WalkOnce
  <1>1. ShownBehind => WalkOnce
    BY DEF ShownBehind, WalkOnce
  <1> QED
    BY <1>1, InitListInv, NextListInv, InitLeadsOn, NextLeadsOn, InitShownBehind,
       NextShownBehind, PTL DEF Spec

-----------------------------------------------------------------------------
(* A walk leaves nothing out *)

Unshown == walk.since \ walk.shown

\* What was there at the start of a walk and is not yet shown is still ahead.
StillAhead ==
    walk.back = FALSE =>
       /\ walk.since \subseteq rows
       /\ request.by # "prev"
       /\ request.stage = "page" =>
             \A h \in Unshown :
                /\ request.by = "next"
                /\ request.page = 1 \/ Before(OrderOf(request), request.page, h)
       /\ HasPage =>
             \A h \in Unshown :
                /\ ~Partial(request.blocks)
                /\ \A b \in request.blocks : Before(OrderOf(request), b, h)
       /\ request.stage = "last" =>
             \A h \in walk.since : request.min <= h /\ h <= request.max
       /\ request.stage = "idle" =>
             \A h \in Unshown :
                /\ reply.next # 0 => Before(Heading(request.filter, "next"), reply.next, h)
                /\ reply.next = 0 /\ reply.error = FALSE => walk.short = TRUE

\* The order of a request depends on nothing else.
LEMMA SameOrder ==
  ASSUME request'.by = request.by, request'.filter = request.filter
  PROVE  OrderOf(request)' = OrderOf(request)
  BY DEF OrderOf

LEMMA AskStillAhead ==
  ASSUME ListInv, CountInv', StillAhead, AskFirst \/ AskNext \/ AskPrev
  PROVE  StillAhead'
  <1>1. /\ request.stage = "idle" /\ request'.stage = "page" /\ rows' = rows
        /\ \/ request'.by = "first" /\ walk' = NoWalk
           \/ /\ request'.by = "next" /\ request'.filter = request.filter
              /\ request'.page = reply.next /\ reply.next # 0 /\ walk' = walk
           \/ walk' = [NoWalk EXCEPT !.back = TRUE]
    BY AskFacts
  <1>2. CASE request'.by = "first" /\ walk' = NoWalk
    BY <1>1, <1>2 DEF StillAhead, Unshown, HasPage, NoWalk
  <1>3. CASE /\ request'.by = "next" /\ request'.filter = request.filter
             /\ request'.page = reply.next /\ reply.next # 0 /\ walk' = walk
    <2>1. OrderOf(request)' = Heading(request.filter, "next")
      BY <1>3 DEF OrderOf, Heading
    <2>2. Unshown' = Unshown
      BY <1>3 DEF Unshown
    <2>3. \A h : Before(Heading(request.filter, "next"), reply.next, h)
                   => Before(OrderOf(request), request.page, h)'
      BY <1>3, <2>1 DEF Before
    <2> QED
      BY <1>1, <1>3, <2>2, <2>3 DEF StillAhead, HasPage
  <1>4. CASE walk' = [NoWalk EXCEPT !.back = TRUE]
    BY <1>4 DEF StillAhead, NoWalk
  <1> QED
    BY <1>1, <1>2, <1>3, <1>4

LEMMA FetchPageStillAhead ==
  ASSUME ListInv, CountInv', LeadsOn, StillAhead, FetchPage
  PROVE  StillAhead'
  <1> DEFINE order == OrderOf(request)
             ahead == After(rows, request.page, order)
  <1>1. /\ request.stage = "page" /\ rows' = rows
        /\ request'.by = request.by /\ request'.filter = request.filter
        /\ \/ Asked # {} /\ request'.stage = "total" /\ request'.blocks = Asked
           \/ /\ Asked = {} /\ request'.stage = "idle"
              /\ reply' = [NoReply EXCEPT !.error = TRUE, !.of = rows]
        /\ walk'.back = walk.back
        /\ walk.back = FALSE =>
              /\ walk'.since = IF request.by = "first" THEN rows ELSE walk.since
              /\ walk'.shown = walk.shown \cup Asked
    BY FetchPageFacts
  <1> SUFFICES ASSUME walk.back = FALSE PROVE StillAhead'
    BY <1>1 DEF StillAhead
  <1>2. walk.since \subseteq rows /\ request.by # "prev"
    BY DEF StillAhead
  <1>3. ASSUME NEW h \in Unshown' PROVE h \in ahead \ Asked
    <2>1. h \in rows /\ h \notin Asked
      BY <1>1, <1>2, <1>3 DEF Unshown
    <2>2. CASE request.by = "first"
      BY <2>1, <2>2 DEF LeadsOn, After
    <2>3. CASE request.by # "first"
      <3>1. h \in Unshown
        BY <1>1, <1>3, <2>3 DEF Unshown
      <3> QED
        BY <1>1, <2>1, <3>1 DEF StillAhead, After
    <2> QED
      BY <2>2, <2>3
  <1>4. ahead \subseteq Height /\ Asked = FirstOf(ahead, order, Limit)
    BY DEF Asked, After, ListInv, CountInv, CountTypeOK
  <1>5. /\ Asked \subseteq ahead
        /\ \A b \in Asked, g \in ahead : Before(order, g, b) => g \in Asked
        /\ ahead # {} => Asked # {}
        /\ Partial(Asked) => Asked = ahead
    <2> HIDE DEF ahead, order
    <2> QED
      BY <1>4, FirstOfPicks, LimitAssumption DEF Partial
  <1>6. ASSUME NEW h \in Unshown'
        PROVE  Asked # {} /\ ~Partial(Asked) /\ \A b \in Asked : Before(order, b, h)
    <2>1. h \in ahead \ Asked
      BY <1>3, <1>6
    <2>2. ASSUME NEW b \in Asked PROVE Before(order, b, h)
      <3>1. h \in Nat /\ b \in Nat /\ b # h /\ ~Before(order, h, b)
        BY <1>4, <1>5, <2>1 DEF Height
      <3> QED
        BY <3>1, BeforeOrders
    <2> QED
      BY <1>5, <2>1, <2>2
  <1>7. OrderOf(request)' = order
    BY <1>1, SameOrder
  <1>8. \A b, h : Before(order, b, h) => Before(OrderOf(request), b, h)'
    BY <1>7 DEF Before
  <1> HIDE DEF ahead, order
  <1>9. walk'.since \subseteq rows
    BY <1>1, <1>2
  <1>10. CASE Asked # {} /\ request'.stage = "total" /\ request'.blocks = Asked
    <2>1. \A h \in Unshown' : /\ ~Partial(request.blocks)'
                              /\ \A b \in request'.blocks : Before(OrderOf(request), b, h)'
      BY <1>6, <1>8, <1>10 DEF Partial
    <2> QED
      BY <1>1, <1>2, <1>9, <1>10, <2>1 DEF StillAhead
  <1>11. CASE Asked = {} /\ request'.stage = "idle"
    BY <1>1, <1>2, <1>6, <1>9, <1>11 DEF StillAhead, HasPage
  <1> QED
    BY <1>1, <1>10, <1>11

LEMMA WaitStillAhead ==
  ASSUME ListInv, CountInv', StillAhead, FetchTotal \/ FetchTotalFails \/ SeedTotal
  PROVE  StillAhead'
  <1>1. /\ HasPage /\ request'.stage \in {"seed", "bounds"}
        /\ UNCHANGED <<rows, walk>>
        /\ request'.by = request.by /\ request'.filter = request.filter
        /\ request'.blocks = request.blocks
    BY WaitFacts
  <1>2. OrderOf(request)' = OrderOf(request) /\ Unshown' = Unshown
    BY <1>1, SameOrder DEF Unshown
  <1>3. \A b, h : Before(OrderOf(request), b, h) => Before(OrderOf(request), b, h)'
    BY <1>2 DEF Before
  <1> QED
    BY <1>1, <1>2, <1>3 DEF StillAhead, Partial

LEMMA FetchBoundsStillAhead ==
  ASSUME ListInv, CountInv', StillAhead, FetchBounds
  PROVE  StillAhead'
  <1>1. /\ request.stage = "bounds" /\ request'.stage = "last"
        /\ UNCHANGED <<rows, walk>>
        /\ request'.by = request.by /\ request'.filter = request.filter
        /\ request'.blocks = request.blocks
        /\ request'.min = Lowest(rows) /\ request'.max = Highest(rows)
        /\ rows # {} /\ rows \subseteq Height
    BY FetchBoundsFacts
  <1>2. OrderOf(request)' = OrderOf(request) /\ Unshown' = Unshown
    BY <1>1, SameOrder DEF Unshown
  <1>3. \A b, h : Before(OrderOf(request), b, h) => Before(OrderOf(request), b, h)'
    BY <1>2 DEF Before
  <1>4. \A h \in rows : Lowest(rows) <= h /\ h <= Highest(rows)
    BY <1>1, PageEnds
  <1> QED
    BY <1>1, <1>2, <1>3, <1>4 DEF StillAhead, Partial, HasPage

LEMMA FetchLastStillAhead ==
  ASSUME ListInv, CountInv', LeadsOn, StillAhead, FetchLast
  PROVE  StillAhead'
  <1> DEFINE far == Far(request.blocks, request.filter)
  <1>1. /\ request.stage = "last" /\ request'.stage = "idle" /\ rows' = rows
        /\ request'.by = request.by /\ request'.filter = request.filter
        /\ walk'.since = walk.since /\ walk'.shown = walk.shown /\ walk'.back = walk.back
        /\ walk.back = FALSE => (walk'.short = TRUE <=> walk.short = TRUE \/ request.total < Limit)
        /\ \/ reply'.error = TRUE /\ reply'.next = 0
           \/ reply'.next = IF \/ Partial(request.blocks) \/ request.total < Limit
                               \/ far = Finish(request) THEN 0 ELSE far
    BY FetchLastFacts
  <1> SUFFICES ASSUME walk.back = FALSE PROVE StillAhead'
    BY <1>1 DEF StillAhead
  <1>2. walk.since \subseteq rows /\ request.by # "prev"
    BY DEF StillAhead
  <1>3. /\ far \in request.blocks /\ request.filter \in Filter /\ rows \subseteq Height
        /\ request.min \in Nat /\ request.max \in Nat
        /\ request.blocks \subseteq rows
    BY <1>1, AnswerEnds
  <1>4. OrderOf(request) = Heading(request.filter, "next")
    BY <1>2 DEF OrderOf, Heading
  <1> HIDE DEF far
  <1>5. ASSUME NEW h \in Unshown
        PROVE  /\ ~Partial(request.blocks) /\ far # Finish(request)
               /\ Before(Heading(request.filter, "next"), far, h)
    <2>0. h \in walk.since /\ h \in Height /\ far \in Height
      BY <1>2, <1>3, <1>5 DEF Unshown
    <2>1. h \in Nat /\ far \in Nat
      BY <2>0 DEF Height
    <2>2. request.min <= h /\ h <= request.max
      BY <1>1, <2>0 DEF StillAhead
    <2>3. ~Partial(request.blocks) /\ Before(OrderOf(request), far, h)
      BY <1>1, <1>3 DEF StillAhead, HasPage
    <2> QED
      BY <1>3, <1>4, <2>1, <2>2, <2>3 DEF Finish, Heading, Before, Filter
  <1>6. Unshown' = Unshown
    BY <1>1 DEF Unshown
  <1>7. ASSUME NEW h \in Unshown'
        PROVE  /\ reply'.next # 0 => Before(Heading(request'.filter, "next"), reply'.next, h)
               /\ reply'.next = 0 /\ reply'.error = FALSE => walk'.short = TRUE
    <2>1. h \in Unshown /\ request'.filter = request.filter /\ far # 0
      BY <1>1, <1>3, <1>6 DEF Height
    <2>2. CASE reply'.error = TRUE /\ reply'.next = 0
      BY <2>2
    <2>3. CASE reply'.next = IF request.total < Limit THEN 0 ELSE far
      BY <1>1, <1>5, <2>1, <2>3
    <2> QED
      BY <1>1, <1>5, <2>1, <2>2, <2>3
  <1> QED
    BY <1>1, <1>2, <1>7 DEF StillAhead, HasPage

LEMMA IndexerStillAhead ==
  ASSUME StillAhead, rows \subseteq rows', UNCHANGED <<request, reply, walk, back>>
  PROVE  StillAhead'
  BY DEF StillAhead, Unshown, HasPage, Partial, OrderOf, Heading, Before

LEMMA InitStillAhead == Init => StillAhead
  BY DEF Init, StillAhead, Unshown, HasPage, NoRequest, NoWalk

LEMMA NextStillAhead == ListInv /\ LeadsOn /\ StillAhead /\ [Next]_vars => StillAhead'
  <1> SUFFICES ASSUME ListInv, LeadsOn, StillAhead, [Next]_vars PROVE StillAhead'
    OBVIOUS
  <1>1. CountInv /\ CountInv'
    BY NextCountInv DEF ListInv
  <1>2. CASE (CountStep /\ UNCHANGED readerVars) \/ UNCHANGED vars
    BY <1>1, <1>2, IndexerFacts, IndexerStillAhead
  <1> QED
    BY <1>1, <1>2, Steps, AskStillAhead, FetchPageStillAhead, WaitStillAhead,
       FetchBoundsStillAhead, FetchLastStillAhead

\* A walk by Next that ends, and was not cut short by a count below the size of
\* a page, has shown every block that was stored when it began, whatever the
\* indexer stored between its pages and between the queries of one page.
THEOREM WalksAreComplete == Spec => []WalkComplete
  <1>1. ListInv /\ StillAhead => WalkComplete
    <2> SUFFICES ASSUME ListInv, StillAhead, Ended, walk.short = FALSE
                 PROVE  walk.since \subseteq walk.shown
      BY DEF WalkComplete, ListInv, ReaderTypeOK
    <2>1. walk.back = FALSE /\ reply.error = FALSE /\ reply.next = 0 /\ request.stage = "idle"
      BY DEF Ended, ListInv, ReaderTypeOK, Reply
    <2>2. Unshown = {}
      BY <2>1 DEF StillAhead
    <2> QED
      BY <2>2 DEF Unshown
  <1> QED
    BY <1>1, InitListInv, NextListInv, InitLeadsOn, NextLeadsOn, InitStillAhead, NextStillAhead,
       PTL DEF Spec

-----------------------------------------------------------------------------
(* Going back *)

\* Whatever of S lies between two elements of A is in A.
Convex(A, S) == \A g \in S : \A a, b \in A : a < g /\ g < b => g \in A

\* From cursor c, the step "prev" over the rows of b gives page b back.
Returns(b, filter, c) ==
    /\ b.blocks # {} /\ c \in b.of /\ c \notin b.blocks
    /\ FirstOf(After(b.of, c, Heading(filter, "prev")), Heading(filter, "prev"), Limit)
         = b.blocks

\* The page begins where the rows past cursor c begin.
Follows(blocks, of, filter, c) ==
    LET past == After(of, c, Heading(filter, "next")) IN
    /\ blocks \subseteq past
    /\ \A g \in past : ~Before(Heading(filter, "next"), g, Near(blocks, filter))

\* Pages have no gaps, and a full one gives out its end as the cursor.
Unbroken ==
    /\ HasPage => Convex(request.blocks, request.of)
    /\ reply.blocks \subseteq reply.of /\ Convex(reply.blocks, reply.of)
    /\ request.stage = "idle" /\ reply.next # 0 =>
          /\ ~Partial(reply.blocks) /\ reply.blocks # {}
          /\ reply.next = Far(reply.blocks, request.filter)
          /\ reply.next = 1 => request.filter = "oldest"

\* The page that was left by Next, and the one after it.
WentOn ==
    request.by = "next" =>
       /\ back.blocks # {} /\ back.blocks \subseteq back.of /\ back.of \subseteq rows
       /\ ~Partial(back.blocks) /\ Convex(back.blocks, back.of)
       /\ request.page = Far(back.blocks, request.filter)
       /\ request.page = 1 => request.filter = "oldest"
       /\ HasPage => /\ back.of \subseteq request.of
                     /\ Follows(request.blocks, request.of, request.filter, request.page)
       /\ request.stage = "idle" =>
             /\ back.of \subseteq reply.of
             /\ reply.prev # 0 /\ reply.prev # 1 /\ reply.of = back.of
                  => Returns(back, request.filter, reply.prev)

\* The way back to it, if nothing was stored since.
WentBack ==
    request.by = "prev" /\ back # NoPage /\ request.page # 1 =>
       /\ request.stage = "page" => /\ back.of \subseteq rows
                                    /\ rows = back.of => Returns(back, request.filter, request.page)
       /\ HasPage /\ request.of = back.of =>
             request.blocks = back.blocks /\ ~(Cardinality(back.of) < 2)
       /\ request.stage = "idle" /\ reply.of = back.of => reply.blocks = back.blocks

BackInv == Unbroken /\ WentOn /\ WentBack

\* A full page without gaps is what comes first on the way back from the row
\* that follows it.
LEMMA WayBack ==
  ASSUME NEW b, b.of \subseteq Height, b.blocks \subseteq b.of, b.blocks # {},
         Cardinality(b.blocks) = Limit, Convex(b.blocks, b.of), NEW filter \in Filter,
         NEW c \in b.of, c # 1,
         Before(Heading(filter, "next"), Far(b.blocks, filter), c),
         \A g \in b.of : Before(Heading(filter, "next"), Far(b.blocks, filter), g)
                           => ~Before(Heading(filter, "next"), g, c)
  PROVE  Returns(b, filter, c)
  <1> DEFINE far == Far(b.blocks, filter)
             on == Heading(filter, "next")
             S == After(b.of, c, Heading(filter, "prev"))
  <1>1. /\ far \in b.blocks /\ \A a \in b.blocks : ~Before(on, far, a)
        /\ \A h \in b.of : h \in Nat
    <2>1. b.blocks \subseteq Height
      OBVIOUS
    <2> QED
      BY <2>1, NearFar DEF Height
  <1>2. S = {h \in b.of : Before(on, h, c)}
    BY <1>1, BackAndForth DEF After
  <1> HIDE DEF far, on, S
  <1>3. c \notin b.blocks
    BY <1>1 DEF on, far
  <1>4. ASSUME NEW a \in b.blocks PROVE a \in S
    <2>1. a \in Nat /\ far \in Nat /\ c \in Nat /\ ~Before(on, far, a) /\ Before(on, far, c)
      BY <1>1 DEF on, far
    <2>2. Before(on, a, c)
      BY <2>1, BeforeOrders
    <2> QED
      BY <1>2, <2>2
  <1>5. ASSUME NEW a \in b.blocks, NEW g \in S, Before(Heading(filter, "prev"), g, a)
        PROVE  g \in b.blocks
    <2>1. /\ a \in Nat /\ g \in Nat /\ far \in Nat /\ c \in Nat
          /\ g \in b.of /\ Before(on, g, c)
      BY <1>1, <1>2
    <2>2. Before(on, a, g)
      BY <1>5, <2>1, BackAndForth DEF on
    <2>3. ~Before(on, far, g)
      BY <2>1 DEF on, far
    <2>4. CASE g = far
      BY <1>1, <2>4
    <2>5. CASE Before(on, g, far)
      <3>1. (a < g /\ g < far) \/ (far < g /\ g < a)
        BY <2>1, <2>2, <2>5 DEF Before
      <3> QED
        BY <1>1, <2>1, <3>1 DEF Convex
    <2> QED
      BY <2>1, <2>3, <2>4, <2>5, BeforeOrders
  <1>6. S \subseteq Height /\ b.blocks \subseteq S
    BY <1>2, <1>4
  <1>7. FirstOf(S, Heading(filter, "prev"), Limit) = b.blocks
    BY <1>5, <1>6, FirstOfSegment, LimitAssumption
  <1> QED
    BY <1>3, <1>7 DEF Returns, S

\* A page that is fetched has no gap, and begins where the rows past the cursor
\* begin.
LEMMA AskedUnbroken ==
  ASSUME ListInv
  PROVE  /\ Convex(Asked, rows)
         /\ request.by = "next" /\ Asked # {} =>
               Follows(Asked, rows, request.filter, request.page)
  <1> DEFINE order == OrderOf(request)
             past == After(rows, request.page, order)
  <1>1. rows \subseteq Height /\ past \subseteq Height /\ past \subseteq rows
    BY DEF After, ListInv, CountInv, CountTypeOK
  <1>2. /\ Asked \subseteq past
        /\ \A b \in Asked, g \in past : Before(order, g, b) => g \in Asked
    <2>1. Asked = FirstOf(past, order, Limit)
      BY DEF Asked
    <2> HIDE DEF past, order
    <2> QED
      BY <1>1, <2>1, FirstOfPicks, LimitAssumption
  <1>3. ASSUME NEW g \in rows, NEW a \in Asked, NEW b \in Asked, a < g, g < b
        PROVE  g \in Asked
    <2>1. g \in Nat /\ a \in Nat /\ b \in Nat /\ request.page \in Nat
      BY <1>1, <1>2, Records DEF ListInv, Height
    <2>2. a \in past /\ b \in past
      BY <1>2
    <2>3. g \in past /\ (Before(order, g, a) \/ Before(order, g, b))
      <3> HIDE DEF order
      <3> QED
        BY <1>3, <2>1, <2>2 DEF After, Before
    <2> QED
      BY <1>2, <2>3
  <1>4. ASSUME request.by = "next", Asked # {}
        PROVE  Follows(Asked, rows, request.filter, request.page)
    <2>1. order = Heading(request.filter, "next") /\ request.filter \in Filter
      BY <1>4, Queries, Records DEF ListInv
    <2>2. Asked \subseteq Height
      BY <1>1, <1>2
    <2>3. /\ Near(Asked, request.filter) \in Asked
          /\ \A h \in Asked : ~Before(order, h, Near(Asked, request.filter))
      BY <1>4, <2>1, <2>2, NearFar
    <2>4. \A g \in past : ~Before(order, g, Near(Asked, request.filter))
      BY <1>2, <2>3
    <2> HIDE DEF order
    <2> QED
      BY <1>2, <2>1, <2>4 DEF Follows
  <1> QED
    BY <1>3, <1>4 DEF Convex

LEMMA IndexerBackInv ==
  ASSUME BackInv, rows \subseteq rows', UNCHANGED <<request, reply, walk, back>>
  PROVE  BackInv'
  BY DEF BackInv, Unbroken, WentOn, WentBack, HasPage, Partial

LEMMA AskBackInv ==
  ASSUME ListInv, CountInv', LeadsOn, BackInv, AskFirst \/ AskNext \/ AskPrev
  PROVE  BackInv'
  <1>1. /\ request.stage = "idle" /\ request'.stage = "page"
        /\ reply' = NoReply /\ rows' = rows
        /\ \/ request'.by = "first"
           \/ /\ request'.by = "next" /\ request'.filter = request.filter
              /\ request'.page = reply.next /\ reply.next # 0
              /\ back' = [blocks |-> reply.blocks, of |-> reply.of]
           \/ /\ request'.by = "prev" /\ request'.filter = request.filter
              /\ request'.page = reply.prev /\ reply.prev # 0
              /\ back' = IF request.by = "next" THEN back ELSE NoPage
    BY AskFacts
  <1>2. Unbroken'
    <2>1. reply'.blocks = {} /\ reply'.of = {}
      BY <1>1 DEF NoReply
    <2> QED
      BY <1>1, <2>1 DEF Unbroken, HasPage, Convex
  <1>3. CASE request'.by = "first"
    BY <1>2, <1>3 DEF BackInv, WentOn, WentBack
  <1>4. CASE /\ request'.by = "next" /\ request'.filter = request.filter
             /\ request'.page = reply.next /\ reply.next # 0
             /\ back' = [blocks |-> reply.blocks, of |-> reply.of]
    <2>1. back'.blocks = reply.blocks /\ back'.of = reply.of
      BY <1>4
    <2> QED
      BY <1>1, <1>2, <1>4, <2>1 DEF BackInv, Unbroken, WentOn, WentBack, LeadsOn, HasPage, Partial
  <1>5. CASE /\ request'.by = "prev" /\ request'.filter = request.filter
             /\ request'.page = reply.prev /\ reply.prev # 0
             /\ back' = IF request.by = "next" THEN back ELSE NoPage
    <2>1. NoPage' = NoPage
      BY DEF NoPage
    <2>2. ASSUME back' # NoPage, request'.page # 1
          PROVE  /\ back'.of \subseteq rows'
                 /\ rows' = back'.of => Returns(back', request'.filter, request'.page)
      <3>1. back' = back /\ request.by = "next"
        BY <1>5, <2>2
      <3>2. back.of \subseteq reply.of /\ reply.of \subseteq rows /\ back.of \subseteq rows
        BY <1>1, <3>1 DEF BackInv, WentOn, LeadsOn
      <3> QED
        BY <1>1, <1>5, <2>2, <3>1, <3>2 DEF BackInv, WentOn
    <2> QED
      BY <1>1, <1>2, <1>5, <2>1, <2>2 DEF BackInv, WentOn, WentBack, HasPage
  <1> QED
    BY <1>1, <1>3, <1>4, <1>5

LEMMA FetchPageBackInv ==
  ASSUME ListInv, CountInv', BackInv, FetchPage
  PROVE  BackInv'
  <1>1. /\ request.stage = "page" /\ rows' = rows /\ back' = back
        /\ request'.by = request.by /\ request'.filter = request.filter
        /\ request'.page = request.page
        /\ \/ /\ Asked # {} /\ request'.stage = "total" /\ reply' = reply
              /\ request'.blocks = Asked /\ request'.of = rows
           \/ /\ Asked = {} /\ request'.stage = "idle" /\ reply'.blocks = {} /\ reply'.of = rows
              /\ reply'.next = 0 /\ reply'.prev = 0
    BY FetchPageFacts DEF NoReply
  <1>2. Unbroken'
    BY <1>1, AskedUnbroken DEF BackInv, Unbroken, Convex, HasPage
  <1>3. WentOn'
    BY <1>1, AskedUnbroken DEF BackInv, WentOn, HasPage, Partial
  <1>4. WentBack'
    <2> SUFFICES ASSUME request.by = "prev", back # NoPage, request.page # 1, rows = back.of
                 PROVE  /\ Asked = back.blocks /\ Asked # {}
                        /\ ~(Cardinality(back.of) < 2)
      BY <1>1 DEF WentBack, HasPage, NoPage
    <2>1. Returns(back, request.filter, request.page)
      BY <1>1 DEF BackInv, WentBack
    <2>2. Asked = back.blocks /\ Asked # {}
      BY <2>1, Queries DEF Returns, Asked
    <2>3. PICK b \in back.blocks : TRUE
      BY <2>2
    <2>4. b \in rows /\ request.page \in rows /\ b # request.page
      BY <2>1, <2>2, <2>3, AskedIsPage DEF Returns
    <2>5. Cardinality({b, request.page}) = 2
      <3>1. Cardinality({b}) = 1 /\ IsFiniteSet({b})
        BY FS_Singleton
      <3>2. Cardinality({b} \cup {request.page}) = 2
        BY <2>4, <3>1, FS_AddElement
      <3>3. {b} \cup {request.page} = {b, request.page}
        OBVIOUS
      <3> QED
        BY <3>2, <3>3
    <2>6. Cardinality({b, request.page}) <= Cardinality(rows) /\ Cardinality(rows) \in Nat
      <3>1. rows \subseteq Height /\ {b, request.page} \subseteq rows
        BY <2>4 DEF ListInv, CountInv, CountTypeOK
      <3> QED
        BY <3>1, HeightsCount
    <2> QED
      BY <2>2, <2>5, <2>6
  <1> QED
    BY <1>2, <1>3, <1>4 DEF BackInv

LEMMA WaitBackInv ==
  ASSUME ListInv, CountInv', BackInv,
         FetchTotal \/ FetchTotalFails \/ SeedTotal \/ FetchBounds
  PROVE  BackInv'
  <1>1. /\ HasPage /\ HasPage' /\ request'.stage \notin {"page", "idle"}
        /\ UNCHANGED <<rows, reply, back>>
        /\ request'.by = request.by /\ request'.filter = request.filter
        /\ request'.page = request.page /\ request'.blocks = request.blocks
        /\ request'.of = request.of
    BY WaitFacts, FetchBoundsFacts DEF HasPage
  <1> QED
    BY <1>1 DEF BackInv, Unbroken, WentOn, WentBack, Partial

LEMMA FetchLastBackInv ==
  ASSUME ListInv, CountInv', LeadsOn, BackInv, FetchLast
  PROVE  BackInv'
  <1> DEFINE far == Far(request.blocks, request.filter)
             near == Near(request.blocks, request.filter)
  <1>1. /\ request.stage = "last" /\ request'.stage = "idle" /\ rows' = rows /\ back' = back
        /\ request'.by = request.by /\ request'.filter = request.filter
        /\ request'.page = request.page /\ reply'.of = request.of
        /\ \/ /\ reply'.error = TRUE /\ reply'.blocks = {}
              /\ reply'.next = 0 /\ reply'.prev = 0
           \/ /\ reply'.error = FALSE /\ reply'.blocks = request.blocks
              /\ reply'.next # 0 => /\ reply'.next = far /\ far # Finish(request)
                                    /\ ~Partial(request.blocks)
              /\ reply'.prev # 0 => reply'.prev = near
    BY FetchLastFacts
  <1>2. HasPage
    BY <1>1 DEF HasPage
  <1>3. /\ request.blocks # {} /\ request.blocks \subseteq request.of
        /\ request.of \subseteq rows /\ rows \subseteq Height
        /\ far \in request.blocks /\ near \in request.blocks
        /\ request.filter \in Filter /\ request.min \in Nat
    BY <1>1, AnswerEnds
  <1>4. ASSUME reply'.next = 1 PROVE request.filter = "oldest"
    <2>1. far = 1 /\ far # Finish(request)
      BY <1>1, <1>4
    <2>2. request.min \in rows /\ request.min <= far
      BY <1>1, <1>3 DEF LeadsOn
    <2>3. request.min = 1
      BY <1>3, <2>1, <2>2 DEF Height
    <2> QED
      BY <1>3, <2>1, <2>3 DEF Finish, Filter
  <1>5. Unbroken'
    <2>1. Convex(request.blocks, request.of)
      BY <1>2 DEF BackInv, Unbroken
    <2>2. CASE reply'.blocks = {} /\ reply'.next = 0
      BY <1>1, <2>2 DEF Unbroken, HasPage, Convex
    <2>3. CASE /\ reply'.blocks = request.blocks
               /\ reply'.next # 0 => reply'.next = far /\ ~Partial(request.blocks)
      BY <1>1, <1>3, <1>4, <2>1, <2>3 DEF Unbroken, HasPage, Partial
    <2> QED
      BY <1>1, <2>2, <2>3
  <1>6. WentOn'
    <2> SUFFICES ASSUME request.by = "next" PROVE WentOn'
      BY <1>1 DEF WentOn
    <2>1. /\ back.blocks # {} /\ back.blocks \subseteq back.of /\ back.of \subseteq rows
          /\ ~Partial(back.blocks) /\ Convex(back.blocks, back.of)
          /\ request.page = Far(back.blocks, request.filter)
          /\ request.page = 1 => request.filter = "oldest"
          /\ back.of \subseteq request.of
          /\ Follows(request.blocks, request.of, request.filter, request.page)
      BY <1>2 DEF BackInv, WentOn
    <2>2. ASSUME request.of = back.of, near # 1 PROVE Returns(back, request.filter, near)
      <3> DEFINE on == Heading(request.filter, "next")
                 past == After(back.of, request.page, on)
      <3>1. /\ request.blocks \subseteq past
            /\ \A g \in past : ~Before(on, g, near)
        BY <2>1, <2>2 DEF Follows
      <3>2. back.of \subseteq Height /\ back.blocks \subseteq Height
        BY <1>3, <2>1
      <3>3. Cardinality(back.blocks) = Limit
        <4>1. Cardinality(back.blocks) <= Limit
          BY DEF ListInv, ReaderTypeOK, Page
        <4>2. Cardinality(back.blocks) \in Nat
          BY <3>2, HeightsCount
        <4> QED
          BY <2>1, <4>1, <4>2, LimitAssumption DEF Partial
      <3>4. request.page # 1
        <4> SUFFICES ASSUME request.page = 1 PROVE FALSE
          OBVIOUS
        <4>1. 1 \in back.blocks /\ request.filter = "oldest"
          BY <1>3, <2>1, <3>2, NearFar
        <4>2. 1 \in past /\ near \in Height
          BY <1>3, <2>1, <4>1 DEF After
        <4> HIDE DEF past, near
        <4>3. ~Before("asc", 1, near)
          BY <3>1, <4>1, <4>2 DEF Heading
        <4> QED
          BY <2>2, <4>2, <4>3 DEF Before, Height
      <3>5. near \in back.of /\ near \in past
        BY <1>3, <2>2, <3>1
      <3>6. /\ Before(on, request.page, near)
            /\ \A g \in back.of : Before(on, request.page, g) => ~Before(on, g, near)
        BY <3>1, <3>4, <3>5 DEF After
      <3> HIDE DEF near, on
      <3>7. Returns(back, request.filter, near)
        BY <1>3, <2>1, <2>2, <3>2, <3>3, <3>5, <3>6, WayBack DEF on
      <3> QED
        BY <3>7
    <2> HIDE DEF near, far
    <2>3. back'.of \subseteq reply'.of
      BY <1>1, <2>1
    <2>4. reply'.prev # 0 /\ reply'.prev # 1 /\ reply'.of = back'.of
            => Returns(back', request'.filter, reply'.prev)
      BY <1>1, <2>2
    <2> QED
      BY <1>1, <2>1, <2>3, <2>4 DEF WentOn, HasPage, Partial
  <1>7. WentBack'
    <2> SUFFICES ASSUME request.by = "prev", back # NoPage, request.page # 1,
                        request.of = back.of
                 PROVE  reply'.blocks = back.blocks
      BY <1>1 DEF WentBack, HasPage, NoPage
    <2>1. request.blocks = back.blocks /\ ~(Cardinality(back.of) < 2)
      BY <1>2 DEF BackInv, WentBack
    <2>2. reply'.error = TRUE => Cardinality(reply'.of) < 2
      BY FetchLastLeadsOn DEF LeadsOn
    <2> QED
      BY <1>1, <2>1, <2>2
  <1> QED
    BY <1>5, <1>6, <1>7 DEF BackInv

LEMMA InitBackInv == Init => BackInv
  BY DEF Init, BackInv, Unbroken, WentOn, WentBack, HasPage, Convex, NoRequest, NoReply

LEMMA NextBackInv == ListInv /\ LeadsOn /\ BackInv /\ [Next]_vars => BackInv'
  <1> SUFFICES ASSUME ListInv, LeadsOn, BackInv, [Next]_vars PROVE BackInv'
    OBVIOUS
  <1>1. CountInv /\ CountInv'
    BY NextCountInv DEF ListInv
  <1>2. CASE (CountStep /\ UNCHANGED readerVars) \/ UNCHANGED vars
    BY <1>1, <1>2, IndexerFacts, IndexerBackInv
  <1> QED
    BY <1>1, <1>2, Steps, AskBackInv, FetchPageBackInv, WaitBackInv, FetchLastBackInv

\* Prev after Next shows the same page again if the table is still as it was
\* when that page was read, except from cursor 1, which is taken for no cursor.
THEOREM PrevUndoesNext == Spec => []PrevReturns
  <1>1. BackInv => PrevReturns
    BY DEF BackInv, WentBack, PrevReturns
  <1> QED
    BY <1>1, InitListInv, NextListInv, InitLeadsOn, NextLeadsOn, InitBackInv, NextBackInv,
       PTL DEF Spec

-----------------------------------------------------------------------------
(* The link to the last page *)

\* The ends of a table that has not changed since the page was read.
EndsHold ==
    request.stage = "last" /\ request.of = rows =>
       request.min = Lowest(rows) /\ request.max = Highest(rows)

LastInv == EndsHold /\ LastFits

\* The k rows from the far end on whose own row is left out: k rows lie beyond
\* the one of them that the walk comes to first.
LEMMA LastPage ==
  ASSUME NEW R, R \subseteq Height, NEW filter \in Filter, NEW k \in 1 .. Limit,
         Cardinality(R) > Limit,
         NEW T, T = FirstOf({h \in R : Before(Heading(filter, "prev"), Far(R, filter), h)},
                            Heading(filter, "prev"), k)
  PROVE  Cardinality({h \in R : Before(Heading(filter, "next"), Near(T, filter), h)}) = k
  <1> DEFINE on == Heading(filter, "next")
             end == Far(R, filter)
             last == Near(T, filter)
             F == {h \in R : Before(Heading(filter, "prev"), end, h)}
             beyond == {h \in R : Before(on, last, h)}
  <1>1. Cardinality(R) \in Nat /\ IsFiniteSet(R) /\ R # {} /\ k \in Nat /\ k # 0 /\ Limit \in Nat
    BY HeightsCount, LimitAssumption, FS_EmptySet
  <1>2. end \in R /\ \A h \in R : ~Before(on, end, h)
    BY <1>1, NearFar
  <1>3. \A g, h \in R : /\ g \in Nat /\ h \in Nat
                        /\ Before(Heading(filter, "prev"), g, h) <=> Before(on, h, g)
    BY BackAndForth DEF Height
  <1> HIDE DEF on, end
  <1>4. F = R \ {end}
    BY <1>2, <1>3, BeforeOrders
  <1>5. Cardinality(F) = Cardinality(R) - 1 /\ F \subseteq Height
    BY <1>1, <1>2, <1>4, FS_RemoveElement
  <1>6. T = FirstOf(F, Heading(filter, "prev"), k)
    BY DEF end
  <1> HIDE DEF F
  <1>7. /\ T \subseteq F /\ Cardinality(T) <= k
        /\ \A h \in T, g \in F : Before(Heading(filter, "prev"), g, h) => g \in T
        /\ Cardinality(T) < k => T = F
    BY <1>1, <1>5, <1>6, FirstOfPicks
  <1>8. Cardinality(T) = k /\ T \subseteq R /\ IsFiniteSet(T)
    <2>1. T \subseteq R /\ IsFiniteSet(T) /\ Cardinality(T) \in Nat
      BY <1>4, <1>7, HeightsCount
    <2> QED
      BY <1>1, <1>5, <1>7, <2>1
  <1>9. last \in T /\ \A h \in T : ~Before(on, h, last)
    <2>1. T # {} /\ T \subseteq Height
      BY <1>1, <1>8, FS_EmptySet
    <2> QED
      BY <2>1, NearFar DEF on
  <1> HIDE DEF last
  <1>10. beyond = (T \ {last}) \cup {end}
    <2>1. ASSUME NEW h \in R, Before(on, last, h), h # end PROVE h \in T \ {last}
      <3>1. h \in F /\ last \in R /\ h # last
        BY <1>3, <1>4, <1>8, <1>9, <2>1, BeforeOrders
      <3> QED
        BY <1>3, <1>7, <1>9, <2>1, <3>1
    <2>2. ASSUME NEW h \in T \ {last} PROVE h \in R /\ Before(on, last, h)
      BY <1>3, <1>8, <1>9, <2>2, BeforeOrders
    <2>3. Before(on, last, end)
      BY <1>2, <1>3, <1>4, <1>7, <1>8, <1>9, BeforeOrders
    <2> QED
      BY <1>2, <2>1, <2>2, <2>3
  <1>11. Cardinality(T \ {last}) = Cardinality(T) - 1 /\ IsFiniteSet(T \ {last})
    BY <1>8, <1>9, FS_RemoveElement, Zenon
  <1>12. end \notin T \ {last}
    BY <1>4, <1>7
  <1>13. Cardinality((T \ {last}) \cup {end}) = Cardinality(T \ {last}) + 1
    BY <1>11, <1>12, FS_AddElement, Zenon
  <1>14. Cardinality((T \ {last}) \cup {end}) = k
    BY <1>1, <1>8, <1>11, <1>13
  <1> QED
    BY <1>10, <1>14 DEF last, on

LEMMA IndexerLastInv ==
  ASSUME ListInv, LeadsOn, LastInv, rows \subseteq rows', UNCHANGED <<request, reply, walk, back>>
  PROVE  LastInv'
  <1>1. request.stage = "last" => request.of \subseteq rows
    BY DEF ListInv, Fetched, HasPage
  <1>2. reply.of \subseteq rows
    BY DEF LeadsOn
  <1>3. EndsHold'
    BY <1>1 DEF LastInv, EndsHold
  <1>4. LastFits'
    BY <1>2 DEF LastInv, LastFits
  <1> QED
    BY <1>3, <1>4 DEF LastInv

LEMMA FetchLastLastInv ==
  ASSUME ListInv, CountInv', LastInv, FetchLast
  PROVE  LastInv'
  <1>1. /\ request.stage = "last" /\ request'.stage = "idle" /\ rows' = rows
        /\ request'.filter = request.filter /\ reply'.of = request.of
        /\ \/ reply'.last = 0
           \/ reply'.total = request.total /\ reply'.last = Near(Tail, request.filter)
    BY FetchLastFacts
  <1>2. EndsHold'
    BY <1>1 DEF EndsHold
  <1>3. LastFits'
    <2> DEFINE n == Cardinality(rows)
               beyond == {h \in rows : IF request.filter = "newest" THEN h < reply'.last
                                                                    ELSE h > reply'.last}
    <2> SUFFICES ASSUME reply'.last # 0, rows = request.of, reply'.total = n, n > Limit
                 PROVE  Cardinality(beyond) = IF n % Limit = 0 THEN Limit ELSE n % Limit
      BY <1>1 DEF LastFits
    <2>1. request.total = n /\ reply'.last = Near(Tail, request.filter)
      BY <1>1
    <2>2. request.filter \in Filter /\ rows \subseteq Height
      BY <1>1, AnswerEnds
    <2>3. Finish(request) = Far(rows, request.filter)
      BY <1>1 DEF LastInv, EndsHold, Finish, Far
    <2>4. Tail = FirstOf({h \in rows : Before(Heading(request.filter, "prev"),
                                              Far(rows, request.filter), h)},
                         Heading(request.filter, "prev"), Offset(n))
      BY <2>1, <2>3 DEF Tail, FromFinish
    <2>5. Offset(n) \in 1 .. Limit
      BY <2>2, HeightsCount, OffsetFacts
    <2>6. Cardinality({h \in rows : Before(Heading(request.filter, "next"),
                                           Near(Tail, request.filter), h)}) = Offset(n)
      <3> HIDE DEF n
      <3> QED
        BY <2>2, <2>4, <2>5, LastPage DEF n
    <2>7. beyond = {h \in rows : Before(Heading(request.filter, "next"),
                                        Near(Tail, request.filter), h)}
      <3>1. ReaderTypeOK'
        BY FetchLastFacts DEF ListInv
      <3>2. reply'.last \in Cursor
        BY <3>1 DEF ReaderTypeOK, Reply
      <3>3. Near(Tail, request.filter) \in Nat
        BY <2>1, <3>2, BlockCountAssumption DEF Cursor
      <3>4. \A h \in rows : h \in Nat
        BY <2>2 DEF Height
      <3> QED
        BY <2>1, <2>2, <3>3, <3>4 DEF Before, Heading, Filter
    <2> QED
      BY <2>6, <2>7 DEF Offset
  <1> QED
    BY <1>2, <1>3 DEF LastInv

LEMMA InitLastInv == Init => LastInv
  BY DEF Init, LastInv, EndsHold, LastFits, NoRequest, NoReply

LEMMA NextLastInv == ListInv /\ LeadsOn /\ LastInv /\ [Next]_vars => LastInv'
  <1> SUFFICES ASSUME ListInv, LeadsOn, LastInv, [Next]_vars PROVE LastInv'
    OBVIOUS
  <1>1. CountInv /\ CountInv'
    BY NextCountInv DEF ListInv
  <1>2. CASE (CountStep /\ UNCHANGED readerVars) \/ UNCHANGED vars
    BY <1>1, <1>2, IndexerFacts, IndexerLastInv
  <1>3. CASE \/ AskFirst \/ AskNext \/ AskPrev
             \/ FetchTotal \/ FetchTotalFails \/ SeedTotal
    <2>1. request'.stage \in {"page", "seed", "bounds"}
      BY <1>1, <1>3, AskFacts, WaitFacts
    <2> QED
      BY <2>1 DEF LastInv, EndsHold, LastFits
  <1>4. CASE FetchPage
    <2>1. request'.stage = "total" \/ (request'.stage = "idle" /\ reply'.last = 0)
      BY <1>1, <1>4, FetchPageFacts DEF NoReply
    <2> QED
      BY <2>1 DEF LastInv, EndsHold, LastFits
  <1>5. CASE FetchBounds
    BY <1>1, <1>5, FetchBoundsFacts DEF LastInv, EndsHold, LastFits
  <1> QED
    BY <1>1, <1>2, <1>3, <1>4, <1>5, Steps, FetchLastLastInv

\* With a right count and nothing stored while the request was answered, the
\* link to the last page leads to the blocks that do not fill a page, or to a
\* full page if they do.
THEOREM LastLinkFits == Spec => []LastFits
  <1>1. LastInv => LastFits
    BY DEF LastInv
  <1> QED
    BY <1>1, InitListInv, NextListInv, InitLeadsOn, NextLeadsOn, InitLastInv, NextLastInv,
       PTL DEF Spec

=============================================================================

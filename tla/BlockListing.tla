----------------------------- MODULE BlockListing ---------------------------
(***************************************************************************)
(* GET /blocks of the API (getAllLatestBlock and cursorPagination): a      *)
(* reader walks through the Blocks table page by page while the indexer    *)
(* stores blocks below, between and above.  One request is four queries,   *)
(* and the rows and their count may change between any two.  A failed      *)
(* query to Postgres only yields the error page, and is left out.          *)
(***************************************************************************)
EXTENDS BlockCount

CONSTANT Limit  \* blocks on a page

ASSUME LimitAssumption == Limit \in Nat \ {0}

VARIABLES
    request,  \* the request being answered
    reply,    \* the page the reader is looking at
    \* History
    walk,     \* the walk: what was there at its start and what it has shown
    back      \* the page the reader left by Next, until it asks again

readerVars == <<request, reply, walk, back>>
vars == <<countVars, readerVars>>

Filter == {"newest", "oldest"}
Cursor == 0 .. MaxHeight  \* 0: null
Page == {S \in SUBSET Height : Cardinality(S) <= Limit}

\* by: the reader's step; page: 1 or a cursor; of: the rows when it was read.
Request == [stage : {"idle", "page", "total", "seed", "bounds", "last"},
            by : {"first", "next", "prev"}, filter : Filter,
            page : Height \cup {1}, blocks : Page, of : SUBSET Height, total : Nat,
            min : Cursor, max : Cursor]

\* of: the rows when the page was read; last: the link to the last page.
Reply == [blocks : Page, of : SUBSET Height, total : Nat,
          next : Cursor, prev : Cursor, last : Cursor, error : BOOLEAN]

NoRequest == [stage |-> "idle", by |-> "first", filter |-> "newest", page |-> 1,
              blocks |-> {}, of |-> {}, total |-> 0, min |-> 0, max |-> 0]
NoReply == [blocks |-> {}, of |-> {}, total |-> 0, next |-> 0, prev |-> 0,
            last |-> 0, error |-> FALSE]
NoPage == [blocks |-> {}, of |-> {}]

ReaderTypeOK ==
    /\ request \in Request /\ reply \in Reply
    /\ walk \in [since : SUBSET Height, shown : SUBSET Height,
                 twice : BOOLEAN, short : BOOLEAN, back : BOOLEAN]
    /\ back \in [blocks : Page, of : SUBSET Height]

TypeOK == CountTypeOK /\ ReaderTypeOK

NoWalk == [since |-> {}, shown |-> {}, twice |-> FALSE, short |-> FALSE, back |-> FALSE]

Init ==
    /\ CountInit
    /\ request = NoRequest /\ reply = NoReply
    /\ walk = NoWalk /\ back = NoPage

-----------------------------------------------------------------------------
Lowest(S) == CHOOSE h \in S : \A g \in S : h <= g
Highest(S) == CHOOSE h \in S : \A g \in S : g <= h

\* Slip: one row too many.
FirstOfMore(S, order, n) ==
    {h \in S : Cardinality({g \in S : IF order = "asc" THEN g < h ELSE g > h}) <= n}

\* ORDER BY blocknumber asc or desc, LIMIT n
FirstOf(S, order, n) ==
    {h \in S : Cardinality({g \in S : IF order = "asc" THEN g < h ELSE g > h}) < n}

\* Slip: going back reads in the direction of going on.
OrderOfNext(r) == IF r.filter = "newest" THEN "desc" ELSE "asc"

OrderOf(r) == IF (r.filter = "newest") = (r.by = "prev") THEN "asc" ELSE "desc"

\* Slip: lte and gte for lt and gt.
PastFrom(page, order) ==
    {h \in rows : page = 1 \/ IF order = "asc" THEN h >= page ELSE h <= page}

\* Page 1 has no cursor: also when 1 is meant as the cursor.
Past(page, order) ==
    {h \in rows : page = 1 \/ IF order = "asc" THEN h > page ELSE h < page}

\* The element of S the walk comes to last, and the one it comes to first.
Far(S, filter) == IF filter = "newest" THEN Lowest(S) ELSE Highest(S)
Near(S, filter) == IF filter = "newest" THEN Highest(S) ELSE Lowest(S)

\* Slip: "<=" for "<", so that a full page is taken for the last.
PartialOrFull(page) == Cardinality(page) <= Limit

Partial(page) == Cardinality(page) < Limit

\* Slip: without "|| limit".
OffsetOnly(total) == total % Limit

\* Slip: always a full page.
OffsetFull(total) == Limit

\* blockCount % limit || limit
Offset(total) == IF total % Limit = 0 THEN Limit ELSE total % Limit

-----------------------------------------------------------------------------
(* The reader *)

Asks(by, filter, page) ==
    /\ request.stage = "idle"
    /\ request' = [NoRequest EXCEPT !.stage = "page", !.by = by,
                                    !.filter = filter, !.page = page]
    /\ reply' = NoReply
    /\ UNCHANGED countVars

AskFirst ==
    /\ \E filter \in Filter : Asks("first", filter, 1)
    /\ walk' = NoWalk /\ back' = NoPage

AskNext ==
    /\ reply.next # 0
    /\ Asks("next", request.filter, reply.next)
    /\ back' = [blocks |-> reply.blocks, of |-> reply.of]
    /\ UNCHANGED walk

AskPrev ==
    /\ reply.prev # 0
    /\ Asks("prev", request.filter, reply.prev)
    /\ back' = IF request.by = "next" THEN back ELSE NoPage
    /\ walk' = [NoWalk EXCEPT !.back = TRUE]

-----------------------------------------------------------------------------
(* The API *)

GoOn(stage) == request' = [request EXCEPT !.stage = stage]
Answer(r) ==
    /\ reply' = r
    /\ request' = [NoRequest EXCEPT !.by = request.by, !.filter = request.filter,
                                    !.page = request.page]

Show(page) ==
    walk' = IF walk.back THEN walk
            ELSE [walk EXCEPT !.since = IF request.by = "first" THEN rows ELSE @,
                              !.shown = @ \cup page,
                              !.twice = @ \/ page \cap walk.shown # {}]

FetchPage ==
    LET order == OrderOf(request)
        page == FirstOf(Past(request.page, order), order, Limit) IN
    /\ request.stage = "page"
    /\ \/ /\ page # {}
          /\ request' = [request EXCEPT !.stage = "total", !.blocks = page, !.of = rows]
          /\ UNCHANGED reply
       \/ page = {} /\ Answer([NoReply EXCEPT !.error = TRUE, !.of = rows])
    /\ Show(page)
    /\ UNCHANGED <<countVars, back>>

\* The count in Redis; if there is none, the API counts the rows and sets it.
FetchTotal ==
    /\ request.stage = "total"
    /\ \/ /\ blockCount # 0
          /\ request' = [request EXCEPT !.stage = "bounds", !.total = blockCount]
          /\ UNCHANGED <<seeder, overlapped>>
       \/ /\ blockCount = 0
          /\ GoOn("seed") /\ Seeds("api", "rows", 0) /\ Starts
    /\ UNCHANGED <<rows, blockCount, adder, drift, faultsLeft, restarts, repeats,
                   reply, walk, back>>

\* getString answers a failure with [], which computes like 0.
FetchTotalFails ==
    /\ request.stage = "total"
    /\ Fails
    /\ GoOn("bounds")
    /\ UNCHANGED <<rows, blockCount, adder, seeder, overlapped, drift, restarts, repeats,
                   reply, walk, back>>

SeedTotal ==
    /\ request.stage = "seed"
    /\ \/ /\ SeedRead("api")
          /\ request' = [request EXCEPT !.total = Cardinality(rows)]
       \/ (SeedWrite("api") \/ SeedWriteFails("api")) /\ GoOn("bounds")
    /\ UNCHANGED <<reply, walk, back>>

FetchBounds ==
    /\ request.stage = "bounds"
    /\ request' = [request EXCEPT !.stage = "last",
                                  !.min = Lowest(rows), !.max = Highest(rows)]
    /\ UNCHANGED <<countVars, reply, walk, back>>

\* The rows that begin the last page, counted from the far end, whose own row
\* is left out; then cursorPagination.  No such row throws.
FetchLast ==
    LET r == request
        newest == r.filter = "newest"
        start == IF newest THEN r.max ELSE r.min
        end == IF newest THEN r.min ELSE r.max
        tail == FirstOf({h \in rows : IF newest THEN h > r.min ELSE h < r.max},
                        IF newest THEN "asc" ELSE "desc", Offset(r.total))
        far == Far(r.blocks, r.filter)
        near == Near(r.blocks, r.filter) IN
    /\ r.stage = "last"
    /\ \/ tail = {} /\ Answer([NoReply EXCEPT !.error = TRUE, !.of = r.of])
       \/ /\ tail # {}
          /\ Answer([blocks |-> r.blocks, of |-> r.of, total |-> r.total, error |-> FALSE,
                     last |-> Near(tail, r.filter),
                     next |-> IF Partial(r.blocks) \/ far = end \/ r.total < Limit
                              THEN 0 ELSE far,
                     prev |-> IF near = start \/ r.total < Limit THEN 0 ELSE near])
    /\ walk' = [walk EXCEPT !.short = ~walk.back /\ (@ \/ r.total < Limit)]
    /\ UNCHANGED <<countVars, back>>

Next ==
    \/ CountStep /\ UNCHANGED readerVars
    \/ AskFirst \/ AskNext \/ AskPrev
    \/ FetchPage \/ FetchTotal \/ FetchTotalFails \/ SeedTotal
    \/ FetchBounds \/ FetchLast

Spec == Init /\ [][Next]_vars

-----------------------------------------------------------------------------
(* Properties *)

\* Whatever is stored meanwhile, walking on by Next shows no block twice.
WalkOnce == ~walk.twice

Ended == request.stage = "idle" /\ ~reply.error /\ reply.next = 0 /\ ~walk.back

\* A walk that ends has shown every block that was stored when it began, unless
\* it was cut short by a count below the size of a page.
WalkComplete == Ended /\ ~walk.short => walk.since \subseteq walk.shown

\* Prev after Next gives the page back, if nothing was stored since; but block
\* 1 as the cursor is taken for page 1, and the page begins with it again.
PrevReturns ==
    /\ request.stage = "idle" /\ request.by = "prev"
    /\ back # NoPage /\ reply.of = back.of /\ request.page # 1
    => reply.blocks = back.blocks

\* An error, in place of a page, means that there are fewer than two blocks.
ErrorCauses == reply.error => Cardinality(reply.of) < 2

\* With a right count and nothing stored meanwhile, the link to the last page
\* leads to the blocks that do not fill a page, or to a full one.
LastFits ==
    LET n == Cardinality(rows)
        beyond == {h \in rows : IF request.filter = "newest" THEN h < reply.last
                                                             ELSE h > reply.last} IN
    /\ request.stage = "idle" /\ reply.last # 0
    /\ rows = reply.of /\ reply.total = n /\ n > Limit
    => Cardinality(beyond) = IF n % Limit = 0 THEN Limit ELSE n % Limit

\* As long as no two updates of the count overlap and no request fails, the
\* count is off by exactly what it should be off by whenever no update is under
\* way: one up for each save that brought no row, one down for each block that
\* consumeErrorBlocks saved, all forgotten when the rows are counted again.  So
\* it is when the indexer dies in an update: its boot counts the row, and the
\* block that is delivered again counts as one more.
CountExplained ==
    Quiet /\ ~overlapped /\ faultsLeft = MaxFaults => blockCount = Cardinality(rows) + drift
=============================================================================

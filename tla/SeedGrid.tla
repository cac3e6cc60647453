------------------------------ MODULE SeedGrid ------------------------------
(***************************************************************************)
(* The list of seeds in the browser.  The first page of a filter replaces  *)
(* what is shown; a further page is appended when an IntersectionObserver  *)
(* reports that the end of the list has come near the window, which it     *)
(* does once, until the end has been out of it again.  Requests overlap: a *)
(* new one does not cancel the older ones, it makes their answers void.    *)
(* The backend counts and selects with two statements while rows come and  *)
(* go, and a page is an offset, not a position.                            *)
(*                                                                         *)
(* A filter here is a choice of the tab, the fields of the filter bar and  *)
(* the order; what the visitor does happens in one step with the effects   *)
(* React runs after it.                                                    *)
(***************************************************************************)
EXTENDS Integers, Sequences, FiniteSets, SequencesExt, FiniteSetsExt

CONSTANTS
    Rows,         \* the rows the table ever has
    OldRows,      \* the rows it has when the page is loaded
    Order,        \* Order[f]: all rows that filter f selects, sorted
    FirstFilter,  \* the filter the page starts with
    PageSize,     \* PAGE_SIZE; 50 in the code
    Fits,         \* the most rows that leave the end of the list always near the window
    Unmounted,    \* the grid while another page is shown
    MaxEvents     \* bound: visits, changes of the filter, deletions and failures

Filters == DOMAIN Order

VARIABLES
    db,        \* db[r]: row r is still to come, there, or gone
    grid,      \* the state and the refs of the component SeedGrid
    requests,  \* calls of fetchSeeds that have not returned
    events     \* how many of the events that MaxEvents bounds have happened

vars == <<db, grid, requests, events>>

\* Selected(t, s)[n]: those of the first n rows of s that are in table t.
Selected(t, s) ==
    LET among[n \in 0 .. Len(s)] ==
            IF n = 0 THEN <<>>
            ELSE IF t[s[n]] = "in" THEN Append(among[n - 1], s[n]) ELSE among[n - 1]
    IN  among

\* What SELECT ... WHERE ... ORDER BY gives.
Listing(f) == Selected(db, Order[f])[Len(Order[f])]

\* Mutant: the number of pages is rounded down.
PagesFloor(total) == total \div PageSize

Pages(total) == (total + PageSize - 1) \div PageSize

\* Mutant: pages are counted from 0.
PageFromZero(f, n) ==
    LET l == Listing(f) IN SubSeq(l, n * PageSize + 1, Min({(n + 1) * PageSize, Len(l)}))

\* LIMIT and OFFSET.
Page(f, n) ==
    LET l == Listing(f) IN SubSeq(l, (n - 1) * PageSize + 1, Min({n * PageSize, Len(l)}))

-----------------------------------------------------------------------------
(* fetchPage and its callers *)

\* A request for a page of the current filter, which voids the others.
FetchPage(g, n, replace) ==
    /\ requests' = {[q EXCEPT !.current = FALSE] : q \in requests} \cup
                   {[filter |-> g.filter, page |-> n, replace |-> replace, current |-> TRUE,
                     step |-> "sent", total |-> 0, rows |-> <<>>]}
    /\ grid' = [g EXCEPT !.loading = TRUE, !.error = FALSE]

\* The effects of a new filter: the first page is fetched, and a new observer has
\* not reported yet.  The seeds shown stay until the answer is there.
\* The other fields are history: the rows when the request was sent, whether rows
\* came or went since, one came between the two statements of the backend, or the
\* first page failed.
FirstPage(f, shown, total) ==
    FetchPage([filter |-> f, seeds |-> shown, total |-> total, page |-> 1, hasMore |-> TRUE,
               base |-> {r \in Rows : db[r] = "in"}, grown |-> FALSE, shrunk |-> FALSE,
               slipped |-> FALSE, firstFailed |-> FALSE, loading |-> TRUE, error |-> FALSE,
               inView |-> FALSE],
              1, TRUE)

Init ==
    /\ db = [r \in Rows |-> IF r \in OldRows THEN "in" ELSE "later"]
    /\ grid = Unmounted
    /\ requests = {}
    /\ events = 0

Event == events < MaxEvents /\ events' = events + 1

Mounted == grid # Unmounted

Mount ==
    /\ FirstPage(FirstFilter, <<>>, 0)
    /\ UNCHANGED db

\* Answers that arrive later find no component.
Unmount ==
    /\ grid' = Unmounted
    /\ requests' = {}
    /\ UNCHANGED db

\* Also to an equal filter: it is another object, and fetched again.
ChangeFilter(f) ==
    /\ Mounted
    /\ Event
    /\ FirstPage(f, grid.seeds, grid.total)
    /\ UNCHANGED db

\* The observer reports that the end of the list has come near the window.  Nothing
\* comes of it while a request is under way, and it is not reported again.
Intersect ==
    /\ Mounted /\ ~grid.inView
    /\ LET g == [grid EXCEPT !.inView = TRUE]
       IN  IF ~g.loading /\ g.hasMore
             THEN FetchPage(g, g.page + 1, FALSE)
             ELSE grid' = g /\ UNCHANGED requests
    /\ UNCHANGED <<db, events>>

\* It reports that the end is out of the window: rows have come before it, or the
\* placeholders shown while loading, or the visitor has scrolled back.
LeaveView ==
    /\ Mounted /\ grid.inView
    /\ grid.loading \/ Len(grid.seeds) > Fits
    /\ grid' = [grid EXCEPT !.inView = FALSE]
    /\ UNCHANGED <<db, requests, events>>

\* Mutant: the answer to an older request is taken as well.
DeliverAny(q) ==
    /\ q \in requests /\ q.step = "selected"
    /\ requests' = requests \ {q}
    /\ grid' = [grid EXCEPT !.seeds = IF q.replace THEN q.rows ELSE @ \o q.rows,
                            !.total = q.total,
                            !.hasMore = q.page < Pages(q.total),
                            !.page = q.page,
                            !.loading = FALSE]
    /\ UNCHANGED <<db, events>>

\* An answer arrives.
Deliver(q) ==
    /\ q \in requests /\ q.step = "selected"
    /\ requests' = requests \ {q}
    /\ grid' = IF q.current
                 THEN [grid EXCEPT !.seeds = IF q.replace THEN q.rows ELSE @ \o q.rows,
                                   !.total = q.total,
                                   !.hasMore = q.page < Pages(q.total),
                                   !.page = q.page,
                                   !.loading = FALSE]
                 ELSE grid
    /\ UNCHANGED <<db, events>>

\* Mutant: loading is only reset after an answer.
FailLoading(q) ==
    /\ q \in requests
    /\ Event
    /\ requests' = requests \ {q}
    /\ grid' = IF q.current
                 THEN [grid EXCEPT !.error = TRUE, !.firstFailed = @ \/ q.replace]
                 ELSE grid
    /\ UNCHANGED db

\* The request fails, or is answered with an error.
Fail(q) ==
    /\ q \in requests
    /\ Event
    /\ requests' = requests \ {q}
    /\ grid' = IF q.current
                 THEN [grid EXCEPT !.error = TRUE, !.loading = FALSE,
                                   !.firstFailed = @ \/ q.replace]
                 ELSE grid
    /\ UNCHANGED db

-----------------------------------------------------------------------------
(* list_seeds in the backend, and the rows *)

Count(q) ==
    /\ q \in requests /\ q.step = "sent"
    /\ requests' = (requests \ {q}) \cup {[q EXCEPT !.step = "counted", !.total = Len(Listing(q.filter))]}
    /\ UNCHANGED <<db, grid, events>>

Select(q) ==
    /\ q \in requests /\ q.step = "counted"
    /\ requests' = (requests \ {q}) \cup {[q EXCEPT !.step = "selected", !.rows = Page(q.filter, q.page)]}
    /\ UNCHANGED <<db, grid, events>>

\* The uploader posts a find.
InsertRow(r) ==
    /\ db[r] = "later"
    /\ db' = [db EXCEPT ![r] = "in"]
    /\ grid' = IF Mounted
                 THEN [grid EXCEPT !.grown = TRUE,
                                   !.slipped = @ \/ \E q \in requests : q.current /\ q.step = "counted"]
                 ELSE grid
    /\ UNCHANGED <<requests, events>>

DeleteRow(r) ==
    /\ db[r] = "in"
    /\ db' = [db EXCEPT ![r] = "gone"]
    /\ grid' = IF Mounted THEN [grid EXCEPT !.shrunk = TRUE] ELSE grid
    /\ UNCHANGED requests

Serve == \E q \in requests : Count(q) \/ Select(q) \/ Deliver(q)

Next ==
    \/ \E f \in Filters : ChangeFilter(f)
    \/ Intersect
    \/ LeaveView
    \/ Serve
    \/ \E q \in requests : Fail(q)
    \/ \E r \in Rows : InsertRow(r)

-----------------------------------------------------------------------------
(* Properties *)

GridStates ==
    [filter : Filters, seeds : Seq(Rows), total : Nat, page : Nat, hasMore : BOOLEAN,
     base : SUBSET Rows, grown : BOOLEAN, shrunk : BOOLEAN, slipped : BOOLEAN,
     firstFailed : BOOLEAN, loading : BOOLEAN, error : BOOLEAN, inView : BOOLEAN]

Requests ==
    [filter : Filters, page : Nat \ {0}, replace : BOOLEAN, current : BOOLEAN,
     step : {"sent", "counted", "selected"}, total : Nat, rows : Seq(Rows)]

TypeOK ==
    /\ db \in [Rows -> {"later", "in", "gone"}]
    /\ grid \in GridStates \cup {Unmounted}
    /\ \A q \in requests : q \in Requests
    /\ requests # {} => Mounted

\* Nothing is on its way and the first page of this filter has come.
Settled == Mounted /\ ~grid.loading /\ ~grid.error /\ ~grid.firstFailed

\* Nothing brings a further page: its first page failed, or rows were deleted
\* meanwhile, and what is left never leaves the window.
Stuck == (grid.firstFailed \/ grid.shrunk) /\ Len(grid.seeds) <= Fits

\* The visitor has scrolled to the end.
Complete == Settled /\ ~grid.hasMore

\* What is shown belongs to the filter, once its first page has come.
OwnFilter == Settled => ToSet(grid.seeds) \subseteq ToSet(Order[grid.filter])

\* The same whenever no error is shown.
FilterHolds ==
    Mounted /\ ~grid.loading /\ ~grid.error => ToSet(grid.seeds) \subseteq ToSet(Order[grid.filter])

\* Scrolling to the end shows all rows that were there at the start.
NothingSkipped ==
    Complete /\ ~grid.shrunk /\ ~grid.slipped
        => grid.base \cap ToSet(Order[grid.filter]) \subseteq ToSet(grid.seeds)

\* A table that does not change is shown as it is.
ShownExactly ==
    Complete /\ ~grid.shrunk /\ ~grid.grown
        => grid.seeds = Listing(grid.filter) /\ grid.total = Len(grid.seeds)

-----------------------------------------------------------------------------
(* The inductive invariant *)

\* At most one request counts: one for the filter that is set, and either for
\* its first page or for the one after the last page shown.
CurrentOK ==
    \A q \in requests : q.current =>
        /\ \A p \in requests : p.current => p = q
        /\ grid.loading /\ q.filter = grid.filter
        /\ q.page = IF q.replace THEN 1 ELSE grid.page + 1

\* The list on the page is the beginning of a list of this filter: its first page
\* has come.
Started == ~grid.firstFailed /\ \A q \in requests : ~(q.current /\ q.replace)

\* An answer the page will take, and that continues such a list.
Counts(q) == q.current /\ (q.replace \/ ~grid.firstFailed)

\* What is shown, and what an answer brings, is selected by the filter.
RowsOK ==
    /\ \A q \in requests : ToSet(q.rows) \subseteq ToSet(Order[q.filter])
    /\ Mounted /\ Started => ToSet(grid.seeds) \subseteq ToSet(Order[grid.filter])

\* The first n pages.
UpTo(n) == LET l == Listing(grid.filter) IN SubSeq(l, 1, Min({n * PageSize, Len(l)}))

\* The rows shown when the answer q has come.
Known(q) == ToSet(q.rows) \cup (IF q.replace THEN {} ELSE ToSet(grid.seeds))

\* Rows that were there when the filter was set and are on the first pages have
\* been shown, since rows that come only move others to later pages; and if this
\* was the last page, all of them have been.
ListCovers ==
    /\ grid.base \cap ToSet(UpTo(grid.page)) \subseteq ToSet(grid.seeds)
    /\ ~grid.slipped /\ ~grid.hasMore => grid.base \cap ToSet(Order[grid.filter]) \subseteq ToSet(grid.seeds)

AnswerCovers(q) ==
    /\ q.step = "counted" /\ ~grid.slipped => q.total = Len(Listing(q.filter))
    /\ q.step = "selected" => grid.base \cap ToSet(UpTo(q.page)) \subseteq Known(q)
    /\ q.step = "selected" /\ ~grid.slipped /\ Pages(q.total) <= q.page =>
          grid.base \cap ToSet(Order[q.filter]) \subseteq Known(q)

CoverOK ==
    Mounted /\ ~grid.shrunk =>
        /\ \A r \in grid.base : db[r] = "in"
        /\ Started => ListCovers
        /\ \A q \in requests : Counts(q) => AnswerCovers(q)

\* As long as the table does not change, the list is the first pages of it.
ListExact ==
    /\ grid.seeds = UpTo(grid.page) /\ grid.total = Len(Listing(grid.filter))
    /\ grid.hasMore = (grid.page < Pages(grid.total))

AnswerExact(q) ==
    /\ q.step # "sent" => q.total = Len(Listing(q.filter))
    /\ q.step = "selected" => q.rows = Page(q.filter, q.page)

ExactOK ==
    Mounted /\ ~grid.shrunk /\ ~grid.grown =>
        /\ Started => ListExact
        /\ \A q \in requests : q.current => AnswerExact(q)

IInv == TypeOK /\ CurrentOK /\ RowsOK /\ CoverOK /\ ExactOK
=============================================================================

------------------------------- MODULE Viewer -------------------------------
(***************************************************************************)
(* The pages of the seed viewer: the list of seeds (SeedGrid) at "/", and  *)
(* for each row the page SeedDetail, which fetches the row and, when it    *)
(* has it, shows its map (TileWorkers).  Going from the list to a row or   *)
(* back replaces one component by the other; going from row to row, with   *)
(* the history of the browser, keeps SeedDetail and its answers.           *)
(***************************************************************************)
EXTENDS Integers, Sequences, FiniteSets, SequencesExt, Functions

CONSTANTS
    Rows, OldRows, Order, FirstFilter, PageSize, Fits, Unmounted,
    Worlds, NoWorld, Tiles, NumWorkers, MaxEvents,
    WorldOf,  \* WorldOf[r]: the seed of row r, with its size of biomes
    List,     \* the route "/"
    NoRow     \* no row fetched yet, or no page loaded yet

ASSUME ViewerAssumption ==
    /\ \A f \in DOMAIN Order : Order[f] \in Seq(Rows) /\ IsInjective(Order[f])
    /\ OldRows \subseteq Rows
    /\ FirstFilter \in DOMAIN Order
    /\ PageSize \in Nat \ {0}
    /\ Fits \in Nat /\ Fits < PageSize
    /\ NumWorkers \in Nat \ {0}
    /\ WorldOf \in [Rows -> Worlds] /\ NoWorld \notin Worlds
    /\ {List, NoRow} \cap Rows = {} /\ List # NoRow
    /\ MaxEvents \in Nat

VARIABLES
    db, grid, requests,
    current, workers, nextWorker, listening, requestId, pending, map, broken,
    events,
    route,     \* the route: List, a row, or NoRow before the page is loaded
    detail,    \* the state of SeedDetail
    fetches,   \* calls of fetchSeed by this SeedDetail that have not returned
    deletes    \* rows whose deletion has been confirmed and not answered

gridVars == <<db, grid, requests>>
tileVars == <<current, workers, nextWorker, listening, requestId, pending, map, broken>>
pageVars == <<route, detail, fetches, deletes>>
vars == <<gridVars, tileVars, pageVars, events>>

Grid == INSTANCE SeedGrid
Map == INSTANCE TileWorkers

\* While another page is shown, the list has no state.
ASSUME UnmountedAssumption == Unmounted \notin Grid!GridStates

\* SeedDetail before its first answer; jumped says that the route has changed
\* from another row to this one without leaving SeedDetail (history).
NewDetail == [row |-> NoRow, loading |-> TRUE, error |-> FALSE, jumped |-> FALSE]

\* SeedMap is part of the page.
ShowsMap(d) == ~d.loading /\ ~d.error /\ d.row # NoRow

Init ==
    /\ Grid!Init
    /\ Map!Init
    /\ route = NoRow
    /\ detail = NewDetail
    /\ fetches = {}
    /\ deletes = {}

-----------------------------------------------------------------------------
(* Routes *)

\* SeedGrid comes for SeedDetail, whose answers find nobody any more.
ShowList ==
    /\ route' = List
    /\ Grid!Mount
    /\ Map!UnmountMap
    /\ detail' = NewDetail
    /\ fetches' = {}

VisitList ==
    /\ route # List
    /\ Grid!Event
    /\ ShowList
    /\ UNCHANGED deletes

\* A card of the list, a link from elsewhere, or the history of the browser.
VisitRow(r) ==
    /\ route \in {NoRow, List}
    /\ Grid!Event
    /\ route' = r
    /\ Grid!Unmount
    /\ fetches' = {r}
    /\ UNCHANGED <<tileVars, detail, deletes>>

\* From row to row: SeedDetail stays and shows neither row until an answer comes.
JumpToRow(r) ==
    /\ route \in Rows \ {r}
    /\ Grid!Event
    /\ route' = r
    /\ detail' = [detail EXCEPT !.loading = TRUE, !.jumped = TRUE]
    /\ fetches' = fetches \cup {r}
    /\ Map!UnmountMap
    /\ UNCHANGED <<gridVars, deletes>>

-----------------------------------------------------------------------------
(* SeedDetail *)

\* An answer or an error changes the page to d, with a new map for a new row.
ShowDetail(q, d) ==
    /\ fetches' = fetches \ {q}
    /\ detail' = d
    /\ CASE ~ShowsMap(d) -> Map!UnmountMap
         [] ShowsMap(d) /\ ShowsMap(detail) /\ d.row = detail.row -> UNCHANGED tileVars
         [] OTHER -> Map!MountMap(WorldOf[d.row])
    /\ UNCHANGED <<route, deletes>>

\* The row is shown, whatever the route is by now; 404 if it has been deleted.
FetchReturns(q) ==
    /\ q \in fetches
    /\ ShowDetail(q, IF db[q] = "in"
                       THEN [detail EXCEPT !.row = q, !.error = FALSE, !.loading = FALSE]
                       ELSE [detail EXCEPT !.error = TRUE, !.loading = FALSE])
    /\ UNCHANGED <<gridVars, events>>

FetchFails(q) ==
    /\ q \in fetches
    /\ Grid!Event
    /\ ShowDetail(q, [detail EXCEPT !.error = TRUE, !.loading = FALSE])
    /\ UNCHANGED gridVars

\* Again, too, while the first request is under way.
ConfirmDelete ==
    /\ Grid!Event
    /\ ShowsMap(detail)
    /\ deletes' = deletes \cup {[row |-> detail.row, done |-> FALSE]}
    /\ UNCHANGED <<gridVars, tileVars, route, detail, fetches>>

\* The backend deletes the row, or answers 404.
DeleteRow(d) ==
    /\ d \in deletes /\ ~d.done
    /\ IF db[d.row] = "in"
         THEN /\ Grid!DeleteRow(d.row)
              /\ deletes' = (deletes \ {d}) \cup {[d EXCEPT !.done = TRUE]}
         ELSE /\ deletes' = deletes \ {d}
              /\ UNCHANGED gridVars
    /\ UNCHANGED <<tileVars, route, detail, fetches, events>>

\* The list is shown next, wherever the visitor has gone in the meantime.
DeleteReturns(d) ==
    /\ d \in deletes /\ d.done
    /\ deletes' = deletes \ {d}
    /\ IF route = List THEN UNCHANGED <<gridVars, tileVars, route, detail, fetches>> ELSE ShowList
    /\ UNCHANGED events

-----------------------------------------------------------------------------
ScrollToEnd == Grid!Intersect /\ UNCHANGED <<tileVars, pageVars>>
ScrollBack == Grid!LeaveView /\ UNCHANGED <<tileVars, pageVars>>
Serve == Grid!Serve /\ UNCHANGED <<tileVars, pageVars>>
GridStep == Grid!Next /\ UNCHANGED <<tileVars, pageVars>>
WorkerStep(i) == Map!WorkerStep(i) /\ UNCHANGED <<gridVars, pageVars>>
MapStep == Map!Next /\ UNCHANGED <<gridVars, pageVars>>

Next ==
    \/ VisitList
    \/ \E r \in Rows : VisitRow(r) \/ JumpToRow(r)
    \/ \E q \in fetches : FetchReturns(q) \/ FetchFails(q)
    \/ ConfirmDelete
    \/ \E d \in deletes : DeleteRow(d) \/ DeleteReturns(d)
    \/ GridStep
    \/ MapStep

Spec == Init /\ [][Next]_vars

(***************************************************************************)
(* Fairness.  Requests are answered or fail, the workers and the page go   *)
(* on taking their messages, and the browser reports what the observer     *)
(* sees.  Of the visitor it is assumed that he scrolls: to the end of the  *)
(* list, and away from it where the list is long enough for that.          *)
(***************************************************************************)
Fairness ==
    /\ WF_vars(Serve)
    /\ WF_vars(ScrollToEnd)
    /\ WF_vars(ScrollBack)
    /\ \A i \in 1 .. NumWorkers : WF_vars(WorkerStep(i))

FairSpec == Spec /\ Fairness

-----------------------------------------------------------------------------
(* Properties *)

\* The variables keep their types; the page shows the list or a row, and there is
\* a map exactly if SeedDetail has a row.
TypeOK ==
    /\ Grid!TypeOK /\ Map!TypeOK
    /\ route \in Rows \cup {List, NoRow}
    /\ detail \in [row : Rows \cup {NoRow}, loading : BOOLEAN, error : BOOLEAN, jumped : BOOLEAN]
    /\ fetches \subseteq Rows
    /\ deletes \subseteq [row : Rows, done : BOOLEAN]
    /\ Grid!Mounted <=> route = List
    /\ map.phase # "closed" <=> ShowsMap(detail)

\* The list belongs to the filter that is set, whatever answers to older filters
\* and pages are still under way, once the first page of the filter has come.
OwnFilter == Grid!OwnFilter

\* The same without the last condition: the filter holds for all seeds that are
\* shown without an error.
FilterHolds == Grid!FilterHolds

\* At the end of the list the visitor has seen every row that was there when the
\* filter was set, although finds uploaded in the meantime shift the pages.  A row
\* is skipped only if rows are deleted, or if a find comes between the two
\* statements with which the backend counts and selects.
NothingSkipped == Grid!NothingSkipped

\* If the rows stay as they are, the list is in the end the table, each row once
\* and in order, and as long as the total says.
ShownExactly == Grid!ShownExactly

\* The tiles on the map of a row are of the seed of that row, although workers
\* are kept from map to map and tiles of earlier maps are still under way.  Going
\* from row to row within SeedDetail is excepted: of its answers the last one
\* wins, whatever the route.
MapOfRoute ==
    route \in Rows /\ ~detail.jumped =>
        \A s \in map.shown : s.world = WorldOf[route]

\* A visitor who keeps scrolling reaches the end of the list, although the observer
\* reports it only once, perhaps while a request is under way, and also after
\* requests that failed or were made void.  A list that is excepted has at most as
\* many rows as fit the window, after its first page failed or rows were deleted:
\* its end never leaves the window, and so is never reported again.
ListEnds == []<>(grid = Unmounted \/ (~grid.loading /\ (~grid.hasMore \/ Grid!Stuck)))

\* No map waits for ever for its workers or for a tile, unless a worker cannot
\* load its module or the map was opened while its workers were starting.
MapGetsTiles ==
    /\ []<>(map.phase # "starting" \/ broken)
    /\ \A t \in Tiles : []<>(t \notin map.asked \ Map!ShownTiles \/ map.early)

-----------------------------------------------------------------------------
(* The inductive invariant *)

\* SeedDetail has nothing of a row the visitor was not on, unless it was kept from
\* one row to the next; the map is that of its row.
DetailOK ==
    /\ route \notin Rows => detail = NewDetail /\ fetches = {}
    /\ route \in Rows /\ ~detail.jumped => fetches \subseteq {route} /\ detail.row \in {route, NoRow}
    /\ map.phase # "closed" => map.world = WorldOf[detail.row]

IInv == TypeOK /\ Grid!IInv /\ Map!IInv /\ DetailOK
=============================================================================

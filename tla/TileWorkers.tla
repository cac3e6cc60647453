---------------------------- MODULE TileWorkers -----------------------------
(***************************************************************************)
(* The map of a seed and the web workers that compute its tiles.  The      *)
(* workers, the table of pending tiles and the current seed belong to the  *)
(* page and outlive the map; a map that is opened for another seed ends    *)
(* the workers and starts new ones, a map for the same seed uses those     *)
(* there are, even if they are still starting.  Messages between the page  *)
(* and a worker arrive in order; ending a worker discards them.            *)
(*                                                                         *)
(* A worker that is loading its module goes on receiving messages, and     *)
(* drops the tiles among them.  The page listens for tiles only after all  *)
(* workers have said that they are ready.                                  *)
(***************************************************************************)
EXTENDS Integers, Sequences, FiniteSets

CONSTANTS
    Worlds,      \* the seeds, each with its size of biomes
    NoWorld,     \* currentSeed before the first map
    Tiles,       \* the tiles a map asks for
    NumWorkers,  \* number of workers; hardwareConcurrency - 1, at most 4
    MaxEvents    \* bound: see SeedGrid; here, workers that cannot load their module

Workers == 1 .. NumWorkers

VARIABLES
    current,     \* currentSeed and currentLargeBiomes
    workers,     \* the workers, or <<>>
    nextWorker,  \* nextWorker, modulo the number of workers
    listening,   \* the workers have the listener for tiles
    requestId,   \* requestId
    pending,     \* pending: for each id the tile and the map that asked
    map,         \* the map that is shown
    broken,      \* a worker could not load its module (history)
    events       \* how many of the events that MaxEvents bounds have happened

pageVars == <<current, nextWorker, requestId>>
vars == <<pageVars, workers, listening, pending, map, broken, events>>

\* No map is shown.  inst numbers the maps; early says that a map was opened while
\* its workers were starting (history).
Closed(inst) ==
    [phase |-> "closed", inst |-> inst, world |-> NoWorld, early |-> FALSE,
     asked |-> {}, shown |-> {}]

Init ==
    /\ current = NoWorld
    /\ workers = <<>>
    /\ nextWorker = 0
    /\ listening = FALSE
    /\ requestId = 0
    /\ pending = {}
    /\ map = Closed(0)
    /\ broken = FALSE
    /\ events = 0

-----------------------------------------------------------------------------
(* SeedMap and initCubiomes *)

\* Mutant: workers are kept whatever their seed.
UsableAlways(w) == workers # <<>>

\* The early return of initCubiomes.
Usable(w) == current = w /\ workers # <<>>

\* Messages carry their type and, for a tile, the id of the request.
Msg(type, id) == [type |-> type, id |-> id]

NewWorker(w) == [world |-> w, inbox |-> <<Msg("init", 0)>>, state |-> "new", out |-> <<>>, greeted |-> FALSE]

\* The effect of SeedMap, which cancels the map that was there.
MountMap(w) ==
    /\ map' = [Closed(map.inst + 1) EXCEPT !.world = w,
                                           !.phase = IF Usable(w) THEN "open" ELSE "starting",
                                           !.early = Usable(w) /\ ~listening]
    /\ IF Usable(w)
         THEN UNCHANGED <<current, workers, nextWorker, listening, pending>>
         ELSE /\ current' = w
              /\ workers' = [i \in Workers |-> NewWorker(w)]
              /\ nextWorker' = 0
              /\ listening' = FALSE
              /\ pending' = {}
    /\ UNCHANGED <<requestId, broken>>

UnmountMap ==
    /\ map' = Closed(map.inst)
    /\ UNCHANGED <<pageVars, workers, listening, pending, broken>>

\* sampleTile, called by the map for a tile in view: the next worker gets it.
SampleTile(t) ==
    /\ map.phase = "open" /\ t \notin map.asked
    /\ requestId' = requestId + 1
    /\ pending' = pending \cup {[id |-> requestId', tile |-> t, inst |-> map.inst]}
    /\ workers' = [workers EXCEPT ![nextWorker + 1].inbox = Append(@, Msg("tile", requestId'))]
    /\ nextWorker' = (nextWorker + 1) % NumWorkers
    /\ map' = [map EXCEPT !.asked = @ \cup {t}]
    /\ UNCHANGED <<current, listening, broken, events>>

-----------------------------------------------------------------------------
(* worker.ts *)

Step(i, w) == workers' = [workers EXCEPT ![i] = w]

\* A worker takes its next message.
WorkerTakes(i) ==
    /\ i \in DOMAIN workers /\ workers[i].inbox # <<>>
    /\ LET m == Head(workers[i].inbox)
           w == [workers[i] EXCEPT !.inbox = Tail(@)]
       IN  Step(i, CASE m.type = "init"   -> [w EXCEPT !.state = "loading"]
                     [] w.state = "ready" -> [w EXCEPT !.out = Append(@, m)]
                     [] OTHER             -> w)
    /\ UNCHANGED <<pageVars, listening, pending, map, broken, events>>

WorkerLoaded(i) ==
    /\ i \in DOMAIN workers /\ workers[i].state = "loading"
    /\ Step(i, [workers[i] EXCEPT !.state = "ready", !.out = Append(@, Msg("ready", 0))])
    /\ UNCHANGED <<pageVars, listening, pending, map, broken, events>>

\* The module cannot be loaded: the handler ends with an exception.
WorkerBreaks(i) ==
    /\ i \in DOMAIN workers /\ workers[i].state = "loading"
    /\ events < MaxEvents
    /\ events' = events + 1
    /\ broken' = TRUE
    /\ Step(i, [workers[i] EXCEPT !.state = "broken"])
    /\ UNCHANGED <<pageVars, listening, pending, map>>

-----------------------------------------------------------------------------
(* The messages of the workers *)

HasMessage(i, type) ==
    i \in DOMAIN workers /\ workers[i].out # <<>> /\ Head(workers[i].out).type = type

\* Mutant: the first worker that is ready is enough.
ReceiveFirstReady(i) ==
    /\ HasMessage(i, "ready")
    /\ Step(i, [workers[i] EXCEPT !.out = Tail(@), !.greeted = TRUE])
    /\ listening' = TRUE
    /\ map' = IF map.phase = "starting" THEN [map EXCEPT !.phase = "open"] ELSE map
    /\ UNCHANGED <<pageVars, pending, broken, events>>

\* The last worker is ready: the listeners are added, and the map that waits for
\* its workers is opened, unless it is gone.
ReceiveReady(i) ==
    /\ HasMessage(i, "ready")
    /\ Step(i, [workers[i] EXCEPT !.out = Tail(@), !.greeted = TRUE])
    /\ listening' = \A j \in Workers : workers'[j].greeted
    /\ map' = IF listening' /\ map.phase = "starting" THEN [map EXCEPT !.phase = "open"] ELSE map
    /\ UNCHANGED <<pageVars, pending, broken, events>>

\* A tile arrives.  Before the listeners are there it is lost, and a map that is
\* cancelled does not draw it.
ReceiveTile(i) ==
    /\ HasMessage(i, "tile")
    /\ Step(i, [workers[i] EXCEPT !.out = Tail(@)])
    /\ LET mine == {p \in pending : listening /\ p.id = Head(workers[i].out).id} IN
          /\ pending' = pending \ mine
          /\ map' = [map EXCEPT !.shown = @ \cup
                        {[tile |-> p.tile, world |-> workers[i].world] :
                            p \in {q \in mine : q.inst = map.inst /\ map.phase = "open"}}]
    /\ UNCHANGED <<pageVars, listening, broken, events>>

WorkerStep(i) ==
    WorkerTakes(i) \/ WorkerLoaded(i) \/ ReceiveReady(i) \/ ReceiveTile(i)

Next ==
    \/ \E t \in Tiles : SampleTile(t)
    \/ \E i \in Workers : WorkerStep(i) \/ WorkerBreaks(i)

ShownTiles == {s.tile : s \in map.shown}

-----------------------------------------------------------------------------
(* The inductive invariant *)

Messages == [type : {"init", "tile", "ready"}, id : Nat]

WorkerStates ==
    [world : Worlds, inbox : Seq(Messages), state : {"new", "loading", "ready", "broken"},
     out : Seq(Messages), greeted : BOOLEAN]

MapStates ==
    [phase : {"closed", "starting", "open"}, inst : Nat, world : Worlds \cup {NoWorld},
     early : BOOLEAN, asked : SUBSET Tiles, shown : SUBSET [tile : Tiles, world : Worlds]]

TypeOK ==
    /\ current \in Worlds \cup {NoWorld}
    /\ workers \in Seq(WorkerStates)
    /\ nextWorker \in Nat
    /\ requestId \in Nat
    /\ map \in MapStates
    /\ pending \subseteq [id : Nat, tile : Tiles, inst : Nat]

\* The workers are for the seed that was current last, and so are the map that is
\* open and its tiles.
WorldsOK ==
    /\ \A i \in DOMAIN workers : workers[i].world = current
    /\ map.phase # "closed" => map.world = current
    /\ map.phase = "closed" => map.shown = {}
    /\ \A s \in map.shown : s.world = current

IInv == TypeOK /\ WorldsOK
=============================================================================

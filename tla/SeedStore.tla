----------------------------- MODULE SeedStore ------------------------------
(***************************************************************************)
(* The backend of the seed viewer and the uploader that posts to it.  A    *)
(* seed is a row of the database and, once rendered, a thumbnail file that *)
(* is named after the key of the row and not after its id.  Requests run   *)
(* on the threads of a pool; a post answers first and renders afterwards,  *)
(* on a pool thread too, and one more thread goes through the rows without *)
(* a thumbnail after each start.  render_lock covers the look at the file  *)
(* and the rendering, but neither the row nor the removal of the file.     *)
(*                                                                         *)
(* A statement with its commit is a step, and so is the acquisition of     *)
(* render_lock with the look at the file that follows it.  A crash of the  *)
(* process leaves the rows and the files, and the container is restarted.  *)
(***************************************************************************)
EXTENDS Integers, Sequences, FiniteSets, SequencesExt

CONSTANTS
    Keys,        \* the finds: seed, x and z
    Old,         \* the keys earlier sessions have stored and not rendered
    Broken,      \* the keys whose rendering always fails
    Workers,     \* the threads of the pool
    Starter,     \* the thread that runs _batch_render_pending
    Nobody,      \* the holder of a free lock
    NoKey,       \* no upload under way
    Limit,       \* rows taken at a time by _batch_render_pending; 50 in the code
    MaxDeletes,  \* bound: no deletion begins when so many rows are gone
    MaxFaults    \* bound: timeouts, crashes, exceptions and transient failures together

Procs == Workers \cup {Starter}

ASSUME StoreAssumption ==
    /\ Old \subseteq Keys /\ Broken \subseteq Keys
    /\ IsFiniteSet(Old)
    /\ Cardinality(Broken) < Limit
    /\ Limit \in Nat \ {0}
    /\ {MaxDeletes, MaxFaults} \subseteq Nat
    /\ Starter \notin Workers /\ Nobody \notin Procs
    /\ NoKey \notin Keys

VARIABLES
    rows,      \* the table seeds
    nextId,    \* its AUTOINCREMENT counter
    files,     \* files[k]: the thumbnail of k is absent, half written or whole
    holder,    \* who holds render_lock
    proc,      \* proc[p]: what thread p does
    todo,      \* the rows the starter has still to go through
    waiting,   \* the keys in the uploader's queue
    posting,   \* the key the uploader waits for an answer about, or NoKey
    net,       \* posts that have not reached the backend
    faults,    \* what has gone wrong so far
    died,      \* an exception has ended the starter (history)
    acked,     \* keys the uploader got a 200 for (history)
    stored,    \* keys that were ever inserted (history)
    refused,   \* keys whose insertion raised an exception (history)
    failed,    \* keys whose rendering or update raised one (history)
    torn,      \* keys whose thumbnail a crash cut off (history)
    unlinked   \* keys whose thumbnail was removed after it was last written (history)

dbVars == <<rows, nextId>>
upVars == <<waiting, posting, net, acked>>
history == <<stored, refused, failed, died, torn, unlinked>>
vars == <<dbVars, files, holder, proc, todo, upVars, faults, history>>

Idle == [pc |-> "idle"]

\* A thread that is about to render the thumbnail of row r for operation op.
Rendering(op, r) == [pc |-> "lock", op |-> op, id |-> r.id, key |-> r.key]

Init ==
    /\ \E ids \in SetToSeqs(Old) :
          rows = {[id |-> i, key |-> ids[i], thumb |-> FALSE] : i \in DOMAIN ids}
    /\ nextId = Cardinality(Old) + 1
    /\ files = [k \in Keys |-> "none"]
    /\ holder = Nobody
    /\ proc = [p \in Procs |-> IF p = Starter THEN [pc |-> "select"] ELSE Idle]
    /\ todo = <<>>
    /\ waiting = Keys \ Old /\ posting = NoKey /\ net = {}
    /\ faults = 0
    /\ acked = {} /\ stored = Old /\ refused = {} /\ failed = {} /\ torn = {} /\ unlinked = {}
    /\ died = FALSE

At(p, pc) == proc[p].pc = pc
Go(p, state) == proc' = [proc EXCEPT ![p] = state]
Goto(p, pc) == proc' = [proc EXCEPT ![p].pc = pc]

\* The starter goes on with the rows of list, or with another round.
GoThrough(list) ==
    /\ Go(Starter, IF list = <<>> THEN [pc |-> "select"] ELSE Rendering("batch", Head(list)))
    /\ todo' = IF list = <<>> THEN <<>> ELSE Tail(list)

\* Thread p is done with a row.
DoneWithRow(p) == IF p = Starter THEN GoThrough(todo) ELSE Go(p, Idle) /\ UNCHANGED todo

-----------------------------------------------------------------------------
(* The uploader and the connection *)

Send(k) ==
    /\ posting = NoKey
    /\ k \in waiting
    /\ posting' = k
    /\ waiting' = waiting \ {k}
    /\ net' = net \cup {[key |-> k, live |-> TRUE]}
    /\ UNCHANGED <<dbVars, files, holder, proc, todo, acked, faults, history>>

\* Mutant: no answer counts as an answer.
TimeOutAsSuccess ==
    /\ posting # NoKey
    /\ faults < MaxFaults
    /\ faults' = faults + 1
    /\ acked' = acked \cup {posting}
    /\ posting' = NoKey
    /\ net' = {[q EXCEPT !.live = FALSE] : q \in net}
    /\ proc' = [p \in Procs |-> IF At(p, "answer")
                                  THEN [proc[p] EXCEPT !.live = FALSE] ELSE proc[p]]
    /\ UNCHANGED <<dbVars, files, holder, todo, waiting, history>>

\* No answer came within 5 seconds, or the connection broke: the item goes back
\* to the queue, and the request may have been handled or be handled later.
TimeOut ==
    /\ posting # NoKey
    /\ faults < MaxFaults
    /\ faults' = faults + 1
    /\ waiting' = waiting \cup {posting}
    /\ posting' = NoKey
    /\ net' = {[q EXCEPT !.live = FALSE] : q \in net}
    /\ proc' = [p \in Procs |-> IF At(p, "answer")
                                  THEN [proc[p] EXCEPT !.live = FALSE] ELSE proc[p]]
    /\ UNCHANGED <<dbVars, files, holder, todo, acked, history>>

\* A request never arrives, or gets lost with a crash of the backend.
Lose(q) ==
    /\ q \in net
    /\ net' = net \ {q}
    /\ UNCHANGED <<dbVars, files, holder, proc, todo, waiting, posting, acked, faults, history>>

-----------------------------------------------------------------------------
(* add_single_seed and _render_one *)

\* The row is inserted and committed, or UNIQUE(seed, x, z) finds it there.
Insert(w, q) ==
    /\ At(w, "idle") /\ q \in net
    /\ net' = net \ {q}
    /\ IF \E r \in rows : r.key = q.key
         THEN /\ Go(w, [pc |-> "answer", key |-> q.key, live |-> q.live])
              /\ UNCHANGED <<dbVars, stored>>
         ELSE /\ Go(w, [pc |-> "answer", key |-> q.key, live |-> q.live, id |-> nextId])
              /\ rows' = rows \cup {[id |-> nextId, key |-> q.key, thumb |-> FALSE]}
              /\ nextId' = nextId + 1
              /\ stored' = stored \cup {q.key}
    /\ UNCHANGED <<files, holder, todo, waiting, posting, acked, faults, refused, failed, died,
                   torn, unlinked>>

\* Any other exception, a database that stays locked for 30 seconds or a full
\* disk, is answered like a row that is there already.
InsertFails(w, q) ==
    /\ At(w, "idle") /\ q \in net
    /\ faults < MaxFaults
    /\ faults' = faults + 1
    /\ net' = net \ {q}
    /\ refused' = refused \cup {q.key}
    /\ Go(w, [pc |-> "answer", key |-> q.key, live |-> q.live])
    /\ UNCHANGED <<dbVars, files, holder, todo, waiting, posting, acked, stored, failed, died,
                   torn, unlinked>>

\* The answer is a 200 in every case.  It counts if the uploader still waits for
\* it.  The thread goes on with _render_one if it inserted the row.
Answer(w) ==
    /\ At(w, "answer")
    /\ IF proc[w].live
         THEN acked' = acked \cup {posting} /\ posting' = NoKey
         ELSE UNCHANGED <<acked, posting>>
    /\ Go(w, IF "id" \in DOMAIN proc[w] THEN Rendering("task", proc[w]) ELSE Idle)
    /\ UNCHANGED <<dbVars, files, holder, todo, waiting, net, faults, history>>

-----------------------------------------------------------------------------
(* render_thumb under render_lock, the same for all its callers *)

\* Mutant: the caller does not take the lock.
LockWithoutWaiting(p) ==
    /\ At(p, "lock")
    /\ IF files[proc[p].key] # "none"
         THEN Goto(p, "update") /\ UNCHANGED holder
         ELSE Goto(p, "render") /\ holder' = p
    /\ UNCHANGED <<dbVars, files, todo, upVars, faults, history>>

\* The lock is taken.  If the file exists, whole or not, nothing is rendered
\* and the lock is released at once.
Lock(p) ==
    /\ At(p, "lock")
    /\ holder = Nobody
    /\ IF files[proc[p].key] # "none"
         THEN Goto(p, "update") /\ UNCHANGED holder
         ELSE Goto(p, "render") /\ holder' = p
    /\ UNCHANGED <<dbVars, files, todo, upVars, faults, history>>

\* The renderer has written its ppm file and _ppm_to_png opens the thumbnail.
StartSave(p) ==
    /\ At(p, "render")
    /\ proc[p].key \notin Broken
    /\ files' = [files EXCEPT ![proc[p].key] = "partial"]
    /\ Goto(p, "save")
    /\ UNCHANGED <<dbVars, holder, todo, upVars, faults, history>>

\* A file that delete_seed has unlinked meanwhile is completed without a name.
FinishSave(p) ==
    /\ At(p, "save")
    /\ LET k == proc[p].key IN
       IF files[k] = "partial"
         THEN /\ files' = [files EXCEPT ![k] = "whole"]
              /\ unlinked' = unlinked \ {k}
         ELSE UNCHANGED <<files, unlinked>>
    /\ holder' = Nobody
    /\ Goto(p, "update")
    /\ UNCHANGED <<dbVars, todo, upVars, faults, stored, refused, failed, died, torn>>

\* Mutant: the result of render_thumb is not looked at.
RenderFailsUnseen(p) ==
    /\ At(p, "render")
    /\ proc[p].key \in Broken
    /\ holder' = Nobody
    /\ Goto(p, "update")
    /\ UNCHANGED <<dbVars, files, todo, upVars, faults, history>>

\* The renderer fails for this key, now and always.
RenderFails(p) ==
    /\ At(p, "render")
    /\ proc[p].key \in Broken
    /\ holder' = Nobody
    /\ DoneWithRow(p)
    /\ UNCHANGED <<dbVars, files, upVars, faults, history>>

\* The renderer takes more than 60 seconds, or the thumbnail cannot be saved:
\* Image.save then removes the file it has created.
RenderStumbles(p) ==
    /\ proc[p].pc \in {"render", "save"}
    /\ faults < MaxFaults
    /\ faults' = faults + 1
    /\ failed' = failed \cup {proc[p].key}
    /\ files' = IF At(p, "save") THEN [files EXCEPT ![proc[p].key] = "none"] ELSE files
    /\ holder' = Nobody
    /\ DoneWithRow(p)
    /\ UNCHANGED <<dbVars, upVars, stored, refused, died, torn, unlinked>>

\* _render_one sets has_thumb by key, the other two by id.
Update(p) ==
    /\ At(p, "update")
    /\ LET Hit(r) == IF proc[p].op = "task" THEN r.key = proc[p].key ELSE r.id = proc[p].id
       IN  rows' = {IF Hit(r) THEN [r EXCEPT !.thumb = TRUE] ELSE r : r \in rows}
    /\ DoneWithRow(p)
    /\ UNCHANGED <<nextId, files, holder, upVars, faults, history>>

\* An exception of the database ends the task or the request, and the starter.
UpdateFails(p) ==
    /\ At(p, "update")
    /\ faults < MaxFaults
    /\ faults' = faults + 1
    /\ failed' = failed \cup {proc[p].key}
    /\ died' = (died \/ p = Starter)
    /\ Go(p, IF p = Starter THEN [pc |-> "over"] ELSE Idle)
    /\ UNCHANGED <<dbVars, files, holder, todo, upVars, stored, refused, torn, unlinked>>

-----------------------------------------------------------------------------
(* _batch_render_pending *)

Pending == {r \in rows : ~r.thumb}

\* The first rows without a thumbnail: fewer than Limit of them come before.
FirstPending == {r \in Pending : Cardinality({s \in Pending : s.id < r.id}) < Limit}

\* The rows come in the order of their ids.
Select ==
    /\ At(Starter, "select")
    /\ IF Pending = {}
         THEN Go(Starter, [pc |-> "over"]) /\ UNCHANGED todo
         ELSE \E list \in SetToSeqs(FirstPending) :
                 /\ \A i, j \in DOMAIN list : i < j => list[i].id < list[j].id
                 /\ GoThrough(list)
    /\ UNCHANGED <<dbVars, files, holder, upVars, faults, history>>

-----------------------------------------------------------------------------
(* get_thumb and delete_seed, on request of a visitor *)

\* A thumbnail that exists is sent as it is, without a look at the lock.
GetThumb(w, r) ==
    /\ At(w, "idle") /\ r \in rows
    /\ files[r.key] = "none"
    /\ Go(w, Rendering("thumb", r))
    /\ UNCHANGED <<dbVars, files, holder, todo, upVars, faults, history>>

DeleteSeed(w, r) ==
    /\ At(w, "idle") /\ r \in rows
    /\ nextId - 1 - Cardinality(rows) < MaxDeletes
    /\ Go(w, [pc |-> "unlink", id |-> r.id, key |-> r.key])
    /\ UNCHANGED <<dbVars, files, holder, todo, upVars, faults, history>>

\* The file goes first, whoever is writing it, and the row after it.
Unlink(w) ==
    /\ At(w, "unlink")
    /\ files' = [files EXCEPT ![proc[w].key] = "none"]
    /\ unlinked' = unlinked \cup {proc[w].key}
    /\ Goto(w, "erase")
    /\ UNCHANGED <<dbVars, holder, todo, upVars, faults, stored, refused, failed, died, torn>>

Erase(w) ==
    /\ At(w, "erase")
    /\ rows' = {r \in rows : r.id # proc[w].id}
    /\ Go(w, Idle)
    /\ UNCHANGED <<nextId, files, holder, todo, upVars, faults, history>>

EraseFails(w) ==
    /\ At(w, "erase")
    /\ faults < MaxFaults
    /\ faults' = faults + 1
    /\ Go(w, Idle)
    /\ UNCHANGED <<dbVars, files, holder, todo, upVars, history>>

-----------------------------------------------------------------------------
\* Mutant: the rows without a thumbnail are not looked for after a restart.
RestartWithoutStarter ==
    /\ faults < MaxFaults
    /\ faults' = faults + 1
    /\ proc' = [p \in Procs |-> IF p = Starter THEN [pc |-> "over"] ELSE Idle]
    /\ holder' = Nobody
    /\ todo' = <<>>
    /\ torn' = torn \cup {k \in Keys : files[k] = "partial"}
    /\ failed' = {} /\ died' = FALSE
    /\ UNCHANGED <<dbVars, files, upVars, stored, refused, unlinked>>

\* The process ends anywhere and is started again; requests on their way to it
\* may still arrive, the uploader runs into its timeout for the others.
Restart ==
    /\ faults < MaxFaults
    /\ faults' = faults + 1
    /\ proc' = [p \in Procs |-> IF p = Starter THEN [pc |-> "select"] ELSE Idle]
    /\ holder' = Nobody
    /\ todo' = <<>>
    /\ torn' = torn \cup {k \in Keys : files[k] = "partial"}
    /\ failed' = {} /\ died' = FALSE
    /\ UNCHANGED <<dbVars, files, upVars, stored, refused, unlinked>>

Uploader == TimeOut \/ \E k \in Keys : Send(k)

Render(p) == Lock(p) \/ StartSave(p) \/ FinishSave(p) \/ RenderFails(p) \/ Update(p)

Handle(w) == Answer(w) \/ Unlink(w) \/ Erase(w)

Visit(w) == \E r \in rows : GetThumb(w, r) \/ DeleteSeed(w, r)

Errors ==
    \/ \E w \in Workers : EraseFails(w) \/ \E q \in net : InsertFails(w, q)
    \/ \E p \in Procs : RenderStumbles(p) \/ UpdateFails(p)

Next ==
    \/ Uploader
    \/ \E q \in net : Lose(q) \/ \E w \in Workers : Insert(w, q)
    \/ \E w \in Workers : Handle(w) \/ Visit(w)
    \/ \E p \in Procs : Render(p)
    \/ Select
    \/ Errors
    \/ Restart

Spec == Init /\ [][Next]_vars

(***************************************************************************)
(* Fairness.  A thread that has something to do goes on; rendering ends    *)
(* because the renderer is stopped after 60 seconds.  render_lock is taken *)
(* again and again by others, hence the strong fairness of Lock.  Nothing  *)
(* is assumed of the uploader, the visitors, the errors and the crashes.   *)
(***************************************************************************)
Goes(p) ==
    \/ StartSave(p) \/ FinishSave(p) \/ RenderFails(p) \/ Update(p)
    \/ p \in Workers /\ Handle(p)
    \/ p = Starter /\ Select

Fairness == \A p \in Procs : SF_vars(Lock(p)) /\ WF_vars(Goes(p))

FairSpec == Spec /\ Fairness

-----------------------------------------------------------------------------
(* Properties *)

Row == [id : Nat, key : Keys, thumb : BOOLEAN]

\* What a thread can be at: nothing or the loop of the starter, an answer (with
\* the id of the row it inserted, if it did), a rendering, a deletion.
Resting == [pc : {"idle", "select", "over"}]
Answering == [pc : {"answer"}, key : Keys, live : BOOLEAN]
                \cup [pc : {"answer"}, key : Keys, live : BOOLEAN, id : Nat]
RenderPcs == {"lock", "render", "save", "update"}
Working == [pc : RenderPcs, op : {"task", "batch", "thumb"}, id : Nat, key : Keys]
Deleting == [pc : {"unlink", "erase"}, id : Nat, key : Keys]
ProcState == Resting \cup Answering \cup Working \cup Deleting

\* Rows are unique by id and by key, and an id is never given again.
RowsOK ==
    /\ rows \subseteq Row /\ IsFiniteSet(rows)
    /\ \A r, s \in rows : r.id = s.id \/ r.key = s.key => r = s
    /\ nextId \in Nat
    /\ \A r \in rows : r.id < nextId

\* The variables keep their types, and whoever renders holds render_lock.
TypeOK ==
    /\ RowsOK
    /\ files \in [Keys -> {"none", "partial", "whole"}]
    /\ holder \in Procs \cup {Nobody}
    /\ proc \in [Procs -> ProcState]
    /\ \A p \in Procs : proc[p].pc \in {"render", "save"} <=> holder = p
    /\ todo \in Seq(Row)
    /\ waiting \subseteq Keys /\ acked \subseteq Keys
    /\ posting \in Keys \cup {NoKey}
    /\ net \subseteq [key : Keys, live : BOOLEAN]

\* A find the uploader takes off its queue has been in the database, through
\* timeouts, late requests, retries that meet their own row and crashes between
\* the commit and the answer.  Only an exception of its insertion, which is
\* answered with 200 as well, can make an exception.
UploadedIsStored == acked \ stored \subseteq refused

\* The same without the exception: what the backend answers with ok or with
\* duplicate is stored.
AnsweredIsStored == acked \subseteq stored

\* A thumbnail is written by one thread at a time: while somebody saves it,
\* nobody else has completed it, and a half written file that nobody is working
\* on was left by a crash.
SavedByOne ==
    \A k \in Keys :
        LET savers == {p \in Procs : At(p, "save") /\ proc[p].key = k} IN
        /\ Cardinality(savers) <= 1
        /\ savers # {} => files[k] # "whole"
        /\ files[k] = "partial" => savers # {} \/ k \in torn

\* has_thumb means what it says, although it is set after render_lock has been
\* released, by three callers, and by key or by id: the thumbnail is there and
\* whole, unless it was deleted after it was written or torn by a crash.
FlaggedHasThumb ==
    \A r \in rows : r.thumb => \/ files[r.key] = "whole"
                               \/ r.key \in unlinked \cup torn

\* The row of k waits for a thumbnail, and no exception has stood in its way.
Unrendered(k) == k \notin failed /\ \E r \in rows : r.key = k /\ ~r.thumb

\* Every row that can be rendered gets its thumbnail, also if the process ends
\* after the row was committed and before its task has run, and although the
\* rows that cannot be rendered come back in every round: at the latest the
\* starter of the next start sees to it, unless an exception has ended it.
StoredGetsThumb ==
    \A k \in Keys \ Broken : []<>(~Unrendered(k) \/ died)

-----------------------------------------------------------------------------
(* The inductive invariant *)

\* At most one request can still be answered to the uploader, the last it has
\* sent: it is under way or a thread is about to answer it.
OneLive ==
    /\ \A q \in net : q.live =>
          /\ q.key = posting
          /\ \A p \in Procs : ~(At(p, "answer") /\ proc[p].live)
    /\ \A p \in Procs : At(p, "answer") /\ proc[p].live =>
          /\ proc[p].key = posting
          /\ \A o \in Procs : At(o, "answer") /\ proc[o].live => o = p

\* What is answered is in the table, or was, or its insertion has failed.
AnswersKnown ==
    /\ \A r \in rows : r.key \in stored
    /\ \A p \in Procs : At(p, "answer") => proc[p].key \in stored \cup refused

\* An id belongs to one key for ever: has_thumb, set by id, is set for the key
\* whose thumbnail was rendered, or for no row at all.
IdOf(x) == x.id < nextId /\ \A r \in rows : r.id = x.id => r.key = x.key
IdsStable ==
    /\ \A p \in Procs : proc[p].pc \in RenderPcs /\ proc[p].op # "task" => IdOf(proc[p])
    /\ \A i \in DOMAIN todo : IdOf(todo[i])

\* How the file of a key goes with the thread that renders it, and with those
\* that are about to set has_thumb.
FilesOK ==
    /\ \A p \in Procs : At(p, "render") => files[proc[p].key] = "none"
    /\ \A p \in Procs : At(p, "save") =>
          /\ files[proc[p].key] # "whole"
          /\ files[proc[p].key] = "none" => proc[p].key \in unlinked
    /\ \A k \in Keys : files[k] = "partial" =>
          k \in torn \/ \E p \in Procs : At(p, "save") /\ proc[p].key = k
    /\ \A p \in Procs : At(p, "update") =>
          files[proc[p].key] = "whole" \/ proc[p].key \in unlinked \cup torn

IInv ==
    /\ TypeOK
    /\ OneLive
    /\ AnswersKnown
    /\ UploadedIsStored
    /\ IdsStable
    /\ FilesOK
    /\ FlaggedHasThumb
=============================================================================

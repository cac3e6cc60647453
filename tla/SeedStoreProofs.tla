--------------------------- MODULE SeedStoreProofs --------------------------
(***************************************************************************)
(* What the backend keeps, for any number of finds, threads, rows per      *)
(* round, deletions, timeouts, failures and crashes: IInv is an invariant  *)
(* of SeedStore.  One lemma per action shows that the action keeps IInv,   *)
(* with the lemmas above it on what a step of one thread cannot disturb.   *)
(***************************************************************************)
EXTENDS SeedStore, TLAPS, FiniteSetTheorems

\* The pc of a thread tells which of the records it is: the fields a handler
\* reads are there whenever it reads them.
LEMMA Shapes ==
    ASSUME NEW s \in ProcState
    PROVE  /\ s.pc \in RenderPcs => s \in Working
           /\ s.pc = "answer" => s \in Answering
           /\ s.pc \in {"unlink", "erase"} => s \in Deleting
           /\ s.pc \in {"idle", "select", "over"} => s \in Resting
BY DEF ProcState, Resting, Answering, Working, Deleting, RenderPcs

\* Going on within a rendering keeps the row that is rendered.
LEMMA MoveWorking ==
    ASSUME NEW s \in Working, NEW x \in RenderPcs
    PROVE  LET t == [s EXCEPT !.pc = x]
           IN  t \in Working /\ t.pc = x /\ t.op = s.op /\ t.id = s.id /\ t.key = s.key
BY DEF Working

\* delete_seed goes on from the file to the row with the same id and key.
LEMMA MoveDeleting ==
    ASSUME NEW s \in Deleting
    PROVE  LET t == [s EXCEPT !.pc = "erase"]
           IN  t \in Deleting /\ t.pc = "erase" /\ t.id = s.id /\ t.key = s.key
BY DEF Deleting

\* An answer nobody waits for any more is still an answer about the same key.
LEMMA GiveUp ==
    ASSUME NEW s \in Answering
    PROVE  LET t == [s EXCEPT !.live = FALSE]
           IN  t \in Answering /\ t.pc = "answer" /\ ~t.live /\ t.key = s.key
BY DEF Answering

\* Goto within a rendering: only the pc of one thread changes.
LEMMA GotoWorking ==
    ASSUME TypeOK, NEW p \in Procs, NEW x \in RenderPcs, proc[p].pc \in RenderPcs, Goto(p, x)
    PROVE  /\ proc' \in [Procs -> ProcState]
           /\ proc'[p] \in Working
           /\ proc'[p].pc = x
           /\ proc'[p].op = proc[p].op
           /\ proc'[p].id = proc[p].id
           /\ proc'[p].key = proc[p].key
           /\ \A o \in Procs \ {p} : proc'[o] = proc[o]
<1>1. proc[p] \in Working  BY Shapes DEF TypeOK
<1>2. proc' = [proc EXCEPT ![p] = [proc[p] EXCEPT !.pc = x]]  BY DEF TypeOK, Goto
<1>. QED  BY <1>1, <1>2, MoveWorking DEF TypeOK, ProcState

\* Go: one thread changes, the others stay as they are.
LEMMA GoEffect ==
    ASSUME TypeOK, NEW p \in Procs, NEW s \in ProcState, Go(p, s)
    PROVE  /\ proc' \in [Procs -> ProcState]
           /\ proc'[p] = s
           /\ \A o \in Procs \ {p} : proc'[o] = proc[o]
BY DEF TypeOK, Go

\* The starter goes on with a row of the list, or looks for rows again.
LEMMA GoThroughEffect ==
    ASSUME TypeOK, NEW list \in Seq(Row), GoThrough(list)
    PROVE  /\ proc' \in [Procs -> ProcState]
           /\ \A o \in Procs \ {Starter} : proc'[o] = proc[o]
           /\ proc'[Starter].pc \in {"select", "lock"}
           /\ proc'[Starter].pc = "lock" =>
                 \E i \in DOMAIN list : proc'[Starter].id = list[i].id /\ proc'[Starter].key = list[i].key
           /\ todo' \in Seq(Row)
           /\ \A i \in DOMAIN todo' : \E j \in DOMAIN list : todo'[i] = list[j]
<1>1. Starter \in Procs  BY DEF Procs
<1>2. CASE list = <<>>
  <2>1. [pc |-> "select"] \in ProcState  BY DEF ProcState, Resting
  <2>2. Go(Starter, [pc |-> "select"]) /\ todo' = <<>>  BY <1>2 DEF GoThrough
  <2>. QED  BY <1>1, <2>1, <2>2, GoEffect
<1>3. CASE list # <<>>
  <2>1. /\ Head(list) \in Row /\ Head(list) = list[1] /\ 1 \in DOMAIN list
        /\ Tail(list) \in Seq(Row)
        /\ DOMAIN list = 1 .. Len(list) /\ Len(list) \in Nat
        /\ DOMAIN Tail(list) = 1 .. Len(list) - 1
        /\ \A i \in 1 .. Len(list) - 1 : Tail(list)[i] = list[i + 1] /\ i + 1 \in 1 .. Len(list)
    BY <1>3
  <2>2. Rendering("batch", Head(list)) \in Working
    BY <2>1 DEF Rendering, Working, RenderPcs, Row
  <2>3. Go(Starter, Rendering("batch", Head(list))) /\ todo' = Tail(list)  BY <1>3 DEF GoThrough
  <2>4. /\ proc' \in [Procs -> ProcState]
        /\ proc'[Starter] = Rendering("batch", Head(list))
        /\ \A o \in Procs \ {Starter} : proc'[o] = proc[o]
    BY <1>1, <2>2, <2>3, GoEffect DEF ProcState
  <2>5. /\ proc'[Starter].pc = "lock"
        /\ proc'[Starter].id = list[1].id /\ proc'[Starter].key = list[1].key
    BY <2>1, <2>4 DEF Rendering
  <2>6. \A i \in DOMAIN todo' : \E j \in DOMAIN list : todo'[i] = list[j]
    BY <2>1, <2>3
  <2>. QED  BY <2>1, <2>3, <2>4, <2>5, <2>6
<1>. QED  BY <1>2, <1>3

\* A thread that is done with a row is idle, or it is the starter and goes on
\* with a row it has selected.
LEMMA DoneWithRowEffect ==
    ASSUME TypeOK, NEW p \in Procs, DoneWithRow(p)
    PROVE  /\ proc' \in [Procs -> ProcState]
           /\ \A o \in Procs \ {p} : proc'[o] = proc[o]
           /\ proc'[p].pc \in {"idle", "select", "lock"}
           /\ proc'[p].pc = "lock" =>
                 \E i \in DOMAIN todo : proc'[p].id = todo[i].id /\ proc'[p].key = todo[i].key
           /\ todo' \in Seq(Row)
           /\ \A i \in DOMAIN todo' : \E j \in DOMAIN todo : todo'[i] = todo[j]
<1>1. CASE p = Starter
  <2>1. todo \in Seq(Row) /\ GoThrough(todo)  BY <1>1 DEF DoneWithRow, TypeOK
  <2>. QED  BY <1>1, <2>1, GoThroughEffect
<1>2. CASE p # Starter
  <2>1. Go(p, Idle) /\ todo' = todo  BY <1>2 DEF DoneWithRow
  <2>2. Idle \in ProcState /\ Idle.pc = "idle"  BY DEF Idle, ProcState, Resting
  <2>. QED  BY <2>1, <2>2, GoEffect DEF TypeOK
<1>. QED  BY <1>1, <1>2

(***************************************************************************)
(* What a step of one thread leaves alone                                  *)
(***************************************************************************)

\* A thread that neither was about to answer nor is: the uploader's part of the
\* invariant stays, if rows are at most taken away or flagged.
LEMMA AnswersKept ==
    ASSUME IInv, NEW p \in Procs, proc[p].pc # "answer", proc'[p].pc # "answer",
           \A o \in Procs \ {p} : proc'[o] = proc[o],
           UNCHANGED <<net, posting, acked, stored, refused>>,
           \A r \in rows' : \E s \in rows : r.key = s.key
    PROVE  OneLive' /\ AnswersKnown' /\ UploadedIsStored'
<1>1. \A o \in Procs : At(o, "answer")' => At(o, "answer") /\ proc'[o] = proc[o]
  BY DEF At
<1>2. \A o \in Procs : At(o, "answer") => At(o, "answer")' /\ proc'[o] = proc[o]
  BY DEF At
<1>3. OneLive'  BY <1>1, <1>2 DEF IInv, OneLive
<1>4. AnswersKnown'  BY <1>1 DEF IInv, AnswersKnown
<1>. QED  BY <1>3, <1>4 DEF IInv, UploadedIsStored

\* Ids keep their keys if rows are at most taken away or flagged, and the
\* thread goes on with an id that is known.
LEMMA IdsKept ==
    ASSUME IInv, NEW p \in Procs,
           proc' \in [Procs -> ProcState],
           \A o \in Procs \ {p} : proc'[o] = proc[o],
           nextId' \in {nextId, nextId + 1},
           \A r \in rows' : r.id < nextId => \E s \in rows : r.id = s.id /\ r.key = s.key,
           proc'[p].pc \in RenderPcs /\ proc'[p].op # "task" => IdOf(proc'[p]),
           todo' \in Seq(Row),
           \A i \in DOMAIN todo' : IdOf(todo'[i])
    PROVE  IdsStable'
<1>1. ASSUME NEW x, x.id \in Nat, IdOf(x)
      PROVE  x.id < nextId' /\ \A r \in rows' : r.id = x.id => r.key = x.key
  <2>1. nextId \in Nat  BY DEF IInv, TypeOK, RowsOK
  <2>2. x.id < nextId /\ \A r \in rows : r.id = x.id => r.key = x.key  BY <1>1 DEF IdOf
  <2>3. x.id < nextId'  BY <1>1, <2>1, <2>2
  <2>4. \A r \in rows' : r.id = x.id => r.key = x.key
    <3>1. TAKE r \in rows'
    <3>2. HAVE r.id = x.id
    <3>3. PICK s \in rows : r.id = s.id /\ r.key = s.key  BY <2>2, <3>2
    <3>. QED  BY <2>2, <3>2, <3>3
  <2>. QED  BY <2>3, <2>4
<1>2. ASSUME NEW o \in Procs, proc'[o].pc \in RenderPcs, proc'[o].op # "task"
      PROVE  IdOf(proc[o])'
  <2>1. IdOf(proc'[o])
    <3>1. CASE o = p  BY <1>2, <3>1
    <3>2. CASE o # p
      <4>1. proc'[o] = proc[o]  BY <3>2
      <4>2. IdOf(proc[o])  BY <1>2, <4>1 DEF IInv, IdsStable
      <4>. QED  BY <4>1, <4>2
    <3>. QED  BY <3>1, <3>2
  <2>2. proc'[o] \in Working  BY <1>2, Shapes
  <2>3. proc'[o].id \in Nat  BY <2>2 DEF Working
  <2>. QED  BY <1>1, <2>1, <2>3 DEF IdOf
<1>3. ASSUME NEW i \in DOMAIN todo' PROVE IdOf(todo[i])'
  <2>1. todo'[i] \in Row  BY <1>3
  <2>2. todo'[i].id \in Nat  BY <2>1 DEF Row
  <2>3. IdOf(todo'[i])  BY <1>3
  <2>. QED  BY <1>1, <2>2, <2>3 DEF IdOf
<1>. QED  BY <1>2, <1>3 DEF IdsStable

\* The files stay as they are and nobody starts or ends writing one.
LEMMA FilesKept ==
    ASSUME IInv, NEW p \in Procs, proc[p].pc # "save", proc'[p].pc # "save",
           \A o \in Procs \ {p} : proc'[o] = proc[o],
           UNCHANGED <<files, torn, unlinked>>,
           proc'[p].pc = "render" => files[proc'[p].key] = "none",
           proc'[p].pc = "update" =>
               files[proc'[p].key] = "whole" \/ proc'[p].key \in unlinked \cup torn
    PROVE  FilesOK'
<1>1. \A o \in Procs : At(o, "save") <=> At(o, "save")'  BY DEF At
<1>2. \A o \in Procs : At(o, "save")' => proc'[o] = proc[o]  BY DEF At
<1>3. \A k \in Keys : files'[k] = "partial" =>
          k \in torn' \/ \E o \in Procs : At(o, "save")' /\ proc'[o].key = k
  BY <1>1, <1>2 DEF IInv, FilesOK
<1>4. \A o \in Procs : At(o, "render")' => files'[proc'[o].key] = "none"
  BY DEF IInv, FilesOK, At
<1>5. \A o \in Procs : At(o, "update")' =>
          files'[proc'[o].key] = "whole" \/ proc'[o].key \in unlinked' \cup torn'
  BY DEF IInv, FilesOK, At
<1>6. \A o \in Procs : At(o, "save")' =>
          /\ files'[proc'[o].key] # "whole"
          /\ files'[proc'[o].key] = "none" => proc'[o].key \in unlinked'
  BY <1>1, <1>2 DEF IInv, FilesOK
<1>. QED  BY <1>3, <1>4, <1>5, <1>6 DEF FilesOK

\* Rows that are flagged were flagged before.
LEMMA FlagsKept ==
    ASSUME IInv, UNCHANGED <<files, torn, unlinked>>,
           \A r \in rows' : r.thumb => \E s \in rows : s.thumb /\ s.key = r.key
    PROVE  FlaggedHasThumb'
BY DEF IInv, FlaggedHasThumb

(***************************************************************************)
(* The types of a step of one thread                                       *)
(***************************************************************************)

\* One thread takes a step that keeps render_lock as it is, takes it when it is
\* free, or gives it back.
LEMMA ThreadTypes ==
    ASSUME TypeOK, NEW p \in Procs,
           proc' \in [Procs -> ProcState],
           \A o \in Procs \ {p} : proc'[o] = proc[o],
           \/ /\ holder' = holder
              /\ proc'[p].pc \in {"render", "save"} <=> proc[p].pc \in {"render", "save"}
           \/ holder = Nobody /\ holder' = p /\ proc'[p].pc \in {"render", "save"}
           \/ holder = p /\ holder' = Nobody /\ proc'[p].pc \notin {"render", "save"},
           files' \in [Keys -> {"none", "partial", "whole"}],
           todo' \in Seq(Row),
           RowsOK',
           net' \subseteq net, waiting' = waiting, posting' \in {posting, NoKey},
           acked' \subseteq acked \cup {posting}, posting' # posting => posting \in Keys,
           posting' = posting => acked' = acked
    PROVE  TypeOK'
<1>1. \A o \in Procs : o # Nobody  BY StoreAssumption
<1>2. \A o \in Procs : proc'[o].pc \in {"render", "save"} <=> holder' = o
  <2>1. \A o \in Procs : proc[o].pc \in {"render", "save"} <=> holder = o  BY DEF TypeOK
  <2>2. \A o \in Procs \ {p} : proc'[o].pc = proc[o].pc  OBVIOUS
  <2>. QED  BY <1>1, <2>1, <2>2
<1>3. holder' \in Procs \cup {Nobody}  BY DEF TypeOK
<1>4. net' \subseteq [key : Keys, live : BOOLEAN] /\ acked' \subseteq Keys
      /\ waiting' \subseteq Keys /\ posting' \in Keys \cup {NoKey}
  BY DEF TypeOK
<1>. QED  BY <1>2, <1>3, <1>4 DEF TypeOK

(***************************************************************************)
(* The uploader                                                            *)
(***************************************************************************)

\* A post is sent: no other request can be answered to the uploader, because it
\* waited for none.
LEMMA SendKeeps == ASSUME IInv, NEW k \in Keys, Send(k) PROVE IInv'
<1>. USE DEF Send, dbVars, history
<1>1. TypeOK'
  <2>1. [key |-> k, live |-> TRUE] \in [key : Keys, live : BOOLEAN]  OBVIOUS
  <2>2. net' \subseteq [key : Keys, live : BOOLEAN]  BY <2>1 DEF IInv, TypeOK
  <2>3. waiting' \subseteq Keys /\ posting' \in Keys \cup {NoKey}  BY DEF IInv, TypeOK
  <2>4. UNCHANGED <<rows, nextId, files, holder, proc, todo, acked>>  OBVIOUS
  <2>. QED  BY <2>2, <2>3, <2>4 DEF IInv, TypeOK, RowsOK
<1>2. OneLive'
  <2>1. \A q \in net : ~q.live  BY StoreAssumption DEF IInv, OneLive, TypeOK
  <2>2. \A p \in Procs : ~(At(p, "answer") /\ proc[p].live)
    <3>1. \A p \in Procs : At(p, "answer") => proc[p].key \in Keys
      BY Shapes DEF IInv, TypeOK, At, Answering
    <3>. QED  BY <3>1, StoreAssumption DEF IInv, OneLive
  <2>3. \A q \in net' : q.live => q.key = posting'  BY <2>1
  <2>. QED  BY <2>2, <2>3 DEF OneLive, At
<1>3. AnswersKnown' /\ UploadedIsStored' /\ IdsStable' /\ FilesOK' /\ FlaggedHasThumb'
  BY DEF IInv, AnswersKnown, UploadedIsStored, IdsStable, IdOf, FilesOK, FlaggedHasThumb, At
<1>. QED  BY <1>1, <1>2, <1>3 DEF IInv

\* The uploader gives up: no request and no thread can be answered to it now.
LEMMA TimeOutKeeps == ASSUME IInv, TimeOut PROVE IInv'
<1>. USE DEF TimeOut, dbVars, history
<1>1. \A p \in Procs : /\ proc'[p] \in ProcState
                       /\ proc'[p].pc = proc[p].pc
                       /\ proc[p].pc # "answer" => proc'[p] = proc[p]
                       /\ proc[p].pc = "answer" => ~proc'[p].live /\ proc'[p].key = proc[p].key
  <2>1. ASSUME NEW p \in Procs, proc[p].pc = "answer"
        PROVE  proc'[p] \in ProcState /\ proc'[p].pc = "answer" /\ ~proc'[p].live
                   /\ proc'[p].key = proc[p].key
    <3>1. proc[p] \in Answering  BY <2>1, Shapes DEF IInv, TypeOK
    <3>2. proc'[p] = [proc[p] EXCEPT !.live = FALSE]  BY <2>1 DEF At
    <3>. QED  BY <3>1, <3>2, GiveUp DEF ProcState
  <2>2. ASSUME NEW p \in Procs, proc[p].pc # "answer" PROVE proc'[p] = proc[p]
    BY <2>2 DEF At
  <2>3. \A p \in Procs : proc[p] \in ProcState  BY DEF IInv, TypeOK
  <2>4. ASSUME NEW p \in Procs
        PROVE  /\ proc'[p] \in ProcState
               /\ proc'[p].pc = proc[p].pc
               /\ proc[p].pc # "answer" => proc'[p] = proc[p]
               /\ proc[p].pc = "answer" => ~proc'[p].live /\ proc'[p].key = proc[p].key
    <3>1. CASE proc[p].pc = "answer"  BY <2>1, <3>1
    <3>2. CASE proc[p].pc # "answer"  BY <2>2, <2>3, <3>2
    <3>. QED  BY <3>1, <3>2
  <2>. QED  BY <2>4
<1>2. TypeOK'
  <2>1. proc' \in [Procs -> ProcState]  BY <1>1
  <2>2. \A q \in net : [q EXCEPT !.live = FALSE] \in [key : Keys, live : BOOLEAN]
    BY DEF IInv, TypeOK
  <2>3. net' \subseteq [key : Keys, live : BOOLEAN]  BY <2>2
  <2>4. \A p \in Procs : proc'[p].pc \in {"render", "save"} <=> holder' = p
    BY <1>1 DEF IInv, TypeOK
  <2>. QED  BY <2>1, <2>3, <2>4 DEF IInv, TypeOK, RowsOK
<1>3. OneLive'
  <2>1. \A q \in net : ~[q EXCEPT !.live = FALSE].live  BY DEF IInv, TypeOK
  <2>2. \A q \in net' : ~q.live  BY <2>1
  <2>. QED  BY <1>1, <2>2 DEF OneLive, At
<1>4. AnswersKnown' /\ UploadedIsStored'
  BY <1>1 DEF IInv, AnswersKnown, UploadedIsStored, At
<1>5. IdsStable'  BY <1>1 DEF IInv, IdsStable, IdOf, RenderPcs
<1>6. FilesOK' /\ FlaggedHasThumb'
  <2>1. \A p \in Procs : /\ At(p, "render")' => At(p, "render") /\ proc'[p] = proc[p]
                         /\ At(p, "save")' => At(p, "save") /\ proc'[p] = proc[p]
                         /\ At(p, "update")' => At(p, "update") /\ proc'[p] = proc[p]
    BY <1>1 DEF At
  <2>2. \A p \in Procs : At(p, "save") => At(p, "save")' /\ proc'[p] = proc[p]
    BY <1>1 DEF At
  <2>3. UNCHANGED <<rows, files, torn, unlinked>>  OBVIOUS
  <2>. HIDE DEF TimeOut
  <2>4. \A k \in Keys : files'[k] = "partial" =>
            k \in torn' \/ \E o \in Procs : At(o, "save")' /\ proc'[o].key = k
    BY <2>2, <2>3 DEF IInv, FilesOK
  <2>5. \A o \in Procs : At(o, "render")' => files'[proc'[o].key] = "none"
    BY <2>1, <2>3 DEF IInv, FilesOK
  <2>6. \A o \in Procs : At(o, "update")' =>
            files'[proc'[o].key] = "whole" \/ proc'[o].key \in unlinked' \cup torn'
    BY <2>1, <2>3 DEF IInv, FilesOK
  <2>7. \A o \in Procs : At(o, "save")' =>
            /\ files'[proc'[o].key] # "whole"
            /\ files'[proc'[o].key] = "none" => proc'[o].key \in unlinked'
    BY <2>1, <2>3 DEF IInv, FilesOK
  <2>8. FilesOK'  BY <2>4, <2>5, <2>6, <2>7 DEF FilesOK
  <2>9. FlaggedHasThumb'  BY <2>3 DEF IInv, FlaggedHasThumb
  <2>. QED  BY <2>8, <2>9
<1>. QED  BY <1>2, <1>3, <1>4, <1>5, <1>6 DEF IInv

\* A request that gets lost disturbs nothing.
LEMMA LoseKeeps == ASSUME IInv, NEW q \in net, Lose(q) PROVE IInv'
<1>. USE DEF Lose, dbVars, history
<1>1. TypeOK'  BY DEF IInv, TypeOK, RowsOK
<1>2. OneLive'  BY DEF IInv, OneLive, At
<1>3. AnswersKnown' /\ UploadedIsStored' /\ IdsStable' /\ FilesOK' /\ FlaggedHasThumb'
  BY DEF IInv, AnswersKnown, UploadedIsStored, IdsStable, IdOf, FilesOK, FlaggedHasThumb, At
<1>. QED  BY <1>1, <1>2, <1>3 DEF IInv

(***************************************************************************)
(* Posts                                                                   *)
(***************************************************************************)

\* A thread takes a request: its answer is known, and it counts exactly if the
\* request did.
LEMMA TakeKeeps ==
    ASSUME IInv, NEW w \in Workers, NEW q \in net, At(w, "idle"),
           NEW s \in Answering, Go(w, s), s.key = q.key, s.live = q.live,
           net' = net \ {q}, q.key \in stored' \cup refused',
           stored \subseteq stored', refused \subseteq refused',
           \A r \in rows' : r.key \in stored',
           UNCHANGED <<posting, acked>>
    PROVE  OneLive' /\ AnswersKnown' /\ UploadedIsStored'
<1>1. w \in Procs /\ s \in ProcState /\ s.pc = "answer"  BY DEF Procs, ProcState, Answering
<1>2. proc'[w] = s /\ \A o \in Procs \ {w} : proc'[o] = proc[o]
  BY <1>1, GoEffect DEF IInv
<1>3. OneLive'
  <2>1. CASE q.live
    <3>1. q.key = posting /\ \A p \in Procs : ~(At(p, "answer") /\ proc[p].live)
      BY <2>1 DEF IInv, OneLive
    <3>2. \A x \in net' : ~x.live
      <4>1. \A x \in net : x.live => x.key = q.key /\ x.live = q.live
        BY <2>1, <3>1 DEF IInv, OneLive, TypeOK
      <4>2. \A x \in net : x.key = q.key /\ x.live = q.live => x = q
        BY DEF IInv, TypeOK
      <4>. QED  BY <4>1, <4>2
    <3>3. \A o \in Procs : At(o, "answer")' /\ proc'[o].live => o = w
      BY <1>2, <3>1 DEF At
    <3>. QED  BY <1>2, <3>1, <3>2, <3>3 DEF OneLive
  <2>2. CASE ~q.live
    <3>1. \A o \in Procs : At(o, "answer")' /\ proc'[o].live
              => o # w /\ At(o, "answer") /\ proc'[o] = proc[o]
      BY <1>1, <1>2, <2>2 DEF At
    <3>. QED  BY <3>1 DEF IInv, OneLive
  <2>. QED  BY <2>1, <2>2
<1>4. AnswersKnown'  BY <1>1, <1>2 DEF IInv, AnswersKnown, At
<1>. QED  BY <1>3, <1>4 DEF IInv, UploadedIsStored

\* The row is there before the answer is: either it was, or it is inserted with
\* an id above all known ones.
LEMMA InsertKeeps ==
    ASSUME IInv, NEW w \in Workers, NEW q \in net, Insert(w, q)
    PROVE  IInv'
<1>1. /\ w \in Procs /\ At(w, "idle") /\ q.key \in Keys /\ q.live \in BOOLEAN
      /\ net' = net \ {q} /\ nextId \in Nat
      /\ UNCHANGED <<files, holder, todo, waiting, posting, acked, faults, refused, failed, died,
                      torn, unlinked>>
  BY DEF Insert, IInv, TypeOK, RowsOK, Procs
<1>2. PICK s \in Answering :
          /\ Go(w, s) /\ s.key = q.key /\ s.live = q.live
          /\ \/ (\E r \in rows : r.key = q.key) /\ UNCHANGED <<dbVars, stored>>
             \/ /\ ~\E r \in rows : r.key = q.key
                /\ rows' = rows \cup {[id |-> nextId, key |-> q.key, thumb |-> FALSE]}
                /\ nextId' = nextId + 1
                /\ stored' = stored \cup {q.key}
  <2>1. CASE \E r \in rows : r.key = q.key
    <3>1. [pc |-> "answer", key |-> q.key, live |-> q.live] \in Answering
      BY <1>1 DEF Answering
    <3>. QED  BY <2>1, <3>1 DEF Insert
  <2>2. CASE ~\E r \in rows : r.key = q.key
    <3>1. [pc |-> "answer", key |-> q.key, live |-> q.live, id |-> nextId] \in Answering
      BY <1>1 DEF Answering
    <3>. QED  BY <2>2, <3>1 DEF Insert
  <2>. QED  BY <2>1, <2>2
<1>3. /\ s \in ProcState /\ s.pc = "answer" /\ proc'[w] = s
      /\ proc' \in [Procs -> ProcState]
      /\ \A o \in Procs \ {w} : proc'[o] = proc[o]
  <2>1. s \in ProcState /\ s.pc = "answer"  BY DEF ProcState, Answering
  <2>. QED  BY <1>1, <1>2, <2>1, GoEffect DEF IInv
<1>4. RowsOK'
  <2>1. CASE UNCHANGED dbVars  BY <2>1 DEF IInv, TypeOK, RowsOK, dbVars
  <2>2. CASE /\ ~\E r \in rows : r.key = q.key
             /\ rows' = rows \cup {[id |-> nextId, key |-> q.key, thumb |-> FALSE]}
             /\ nextId' = nextId + 1
    <3>. DEFINE new == [id |-> nextId, key |-> q.key, thumb |-> FALSE]
    <3>1. new \in Row /\ new.id = nextId /\ new.key = q.key  BY <1>1 DEF Row
    <3>2. rows' = rows \cup {new} /\ IsFiniteSet(rows') /\ rows' \subseteq Row
      BY <2>2, <3>1, FS_AddElement DEF IInv, TypeOK, RowsOK
    <3>3. \A r \in rows : r.id \in Nat /\ r.id < nextId /\ r.key # new.key
      BY <2>2, <3>1 DEF IInv, TypeOK, RowsOK, Row
    <3>. HIDE DEF new
    <3>4. \A r, t \in rows' : r.id = t.id \/ r.key = t.key => r = t
      BY <1>1, <3>1, <3>2, <3>3 DEF IInv, TypeOK, RowsOK
    <3>5. \A r \in rows' : r.id < nextId'
      BY <1>1, <2>2, <3>1, <3>2, <3>3
    <3>. QED  BY <1>1, <2>2, <3>2, <3>4, <3>5 DEF RowsOK
  <2>. QED  BY <1>2, <2>1, <2>2
<1>5. TypeOK'
  BY <1>1, <1>3, <1>4, ThreadTypes DEF IInv, TypeOK, At
<1>6. OneLive' /\ AnswersKnown' /\ UploadedIsStored'
  <2>1. q.key \in stored' /\ stored \subseteq stored' /\ \A r \in rows' : r.key \in stored'
    <3>1. \A r \in rows : r.key \in stored  BY DEF IInv, AnswersKnown
    <3>. QED  BY <1>2, <3>1 DEF dbVars
  <2>. QED  BY <1>1, <1>2, <2>1, TakeKeeps
<1>7. IdsStable'
  <2>1. nextId' \in {nextId, nextId + 1}  BY <1>2 DEF dbVars
  <2>2. \A r \in rows' : r.id < nextId => \E t \in rows : r.id = t.id /\ r.key = t.key
    BY <1>1, <1>2 DEF dbVars
  <2>3. \A i \in DOMAIN todo' : IdOf(todo'[i])  BY <1>1 DEF IInv, IdsStable
  <2>4. todo' \in Seq(Row)  BY <1>1 DEF IInv, TypeOK
  <2>. QED  BY <1>1, <1>3, <2>1, <2>2, <2>3, <2>4, IdsKept DEF RenderPcs
<1>8. FilesOK'  BY <1>1, <1>3, FilesKept DEF At
<1>9. FlaggedHasThumb'
  <2>1. \A r \in rows' : r.thumb => \E t \in rows : t.thumb /\ t.key = r.key
    BY <1>2 DEF dbVars
  <2>. QED  BY <1>1, <2>1, FlagsKept
<1>. QED  BY <1>5, <1>6, <1>7, <1>8, <1>9 DEF IInv

\* A failed insertion is answered like a stored row, and remembered in refused.
LEMMA InsertFailsKeeps ==
    ASSUME IInv, NEW w \in Workers, NEW q \in net, InsertFails(w, q)
    PROVE  IInv'
<1>. DEFINE s == [pc |-> "answer", key |-> q.key, live |-> q.live]
<1>1. /\ w \in Procs /\ At(w, "idle") /\ q.key \in Keys /\ q.live \in BOOLEAN
      /\ net' = net \ {q} /\ Go(w, s)
      /\ refused' = refused \cup {q.key}
      /\ UNCHANGED <<rows, nextId, files, holder, todo, waiting, posting, acked, stored, torn,
                      unlinked>>
  BY DEF InsertFails, IInv, TypeOK, Procs, dbVars
<1>2. s \in Answering /\ s.pc = "answer" /\ s.key = q.key /\ s.live = q.live
  BY <1>1 DEF Answering
<1>. HIDE DEF s
<1>3. /\ proc'[w] = s
      /\ proc' \in [Procs -> ProcState]
      /\ \A o \in Procs \ {w} : proc'[o] = proc[o]
  BY <1>1, <1>2, GoEffect DEF IInv, ProcState
<1>4. RowsOK'  BY <1>1 DEF IInv, TypeOK, RowsOK
<1>5. TypeOK'
  BY <1>1, <1>2, <1>3, <1>4, ThreadTypes DEF IInv, TypeOK, At
<1>6. OneLive' /\ AnswersKnown' /\ UploadedIsStored'
  <2>1. \A r \in rows' : r.key \in stored'  BY <1>1 DEF IInv, AnswersKnown
  <2>. QED  BY <1>1, <1>2, <2>1, TakeKeeps
<1>7. IdsStable'
  <2>1. \A r \in rows' : r.id < nextId => \E t \in rows : r.id = t.id /\ r.key = t.key
    BY <1>1
  <2>2. \A i \in DOMAIN todo' : IdOf(todo'[i])  BY <1>1 DEF IInv, IdsStable
  <2>3. todo' \in Seq(Row)  BY <1>1 DEF IInv, TypeOK
  <2>. QED  BY <1>1, <1>2, <1>3, <2>1, <2>2, <2>3, IdsKept DEF RenderPcs
<1>8. FilesOK'  BY <1>1, <1>2, <1>3, FilesKept DEF At
<1>9. FlaggedHasThumb'  BY <1>1, FlagsKept
<1>. QED  BY <1>5, <1>6, <1>7, <1>8, <1>9 DEF IInv

\* The answer takes the key off the uploader's hands: it is stored or refused.
LEMMA AnswerKeeps ==
    ASSUME IInv, NEW w \in Workers, Answer(w)
    PROVE  IInv'
<1>1. /\ w \in Procs /\ proc[w].pc = "answer"
      /\ UNCHANGED <<rows, nextId, files, holder, todo, waiting, net, stored, refused, torn,
                      unlinked>>
  BY DEF Answer, At, Procs, dbVars, history
<1>2. proc[w] \in Answering  BY <1>1, Shapes DEF IInv, TypeOK
<1>3. PICK s \in ProcState :
          /\ Go(w, s) /\ s.pc \in {"idle", "lock"}
          /\ s.pc = "lock" => s.op = "task"
  <2>1. CASE "id" \in DOMAIN proc[w]
    <3>1. proc[w].id \in Nat /\ proc[w].key \in Keys  BY <1>2, <2>1 DEF Answering
    <3>2. Rendering("task", proc[w]) \in Working  BY <3>1 DEF Rendering, Working, RenderPcs
    <3>3. Rendering("task", proc[w]).pc = "lock" /\ Rendering("task", proc[w]).op = "task"
      BY DEF Rendering
    <3>. QED  BY <2>1, <3>2, <3>3 DEF Answer, ProcState
  <2>2. CASE "id" \notin DOMAIN proc[w]
    BY <2>2 DEF Answer, Idle, ProcState, Resting
  <2>. QED  BY <2>1, <2>2
<1>4. /\ proc'[w] = s
      /\ proc' \in [Procs -> ProcState]
      /\ \A o \in Procs \ {w} : proc'[o] = proc[o]
  BY <1>1, <1>3, GoEffect DEF IInv
<1>5. /\ proc[w].key \in Keys /\ proc[w].key \in stored \cup refused
      /\ proc[w].live \in BOOLEAN
      /\ proc[w].live => posting = proc[w].key
  <2>1. proc[w].key \in Keys /\ proc[w].live \in BOOLEAN  BY <1>2 DEF Answering
  <2>2. proc[w].live => posting = proc[w].key  BY <1>1 DEF IInv, OneLive, At
  <2>3. proc[w].key \in stored \cup refused  BY <1>1 DEF IInv, AnswersKnown, At
  <2>. QED  BY <2>1, <2>2, <2>3
<1>6. \/ proc[w].live /\ acked' = acked \cup {posting} /\ posting' = NoKey
      \/ ~proc[w].live /\ acked' = acked /\ posting' = posting
  BY <1>5 DEF Answer
<1>7. TypeOK'
  <2>1. RowsOK'  BY <1>1 DEF IInv, TypeOK, RowsOK
  <2>2. posting' \in {posting, NoKey} /\ acked' \subseteq acked \cup {posting}
    BY <1>6
  <2>3. posting' # posting => posting \in Keys  BY <1>5, <1>6
  <2>4. posting' = posting => acked' = acked  BY <1>5, <1>6, StoreAssumption
  <2>5. proc'[w].pc \notin {"render", "save"}  BY <1>3, <1>4
  <2>6. todo' \in Seq(Row) /\ files' \in [Keys -> {"none", "partial", "whole"}]
    BY <1>1 DEF IInv, TypeOK
  <2>. QED  BY <1>1, <1>4, <2>1, <2>2, <2>3, <2>4, <2>5, <2>6, ThreadTypes DEF IInv
<1>8. OneLive'
  <2>1. \A o \in Procs : At(o, "answer")' => o # w /\ At(o, "answer") /\ proc'[o] = proc[o]
    BY <1>3, <1>4 DEF At
  <2>2. CASE proc[w].live
    <3>1. \A q \in net : ~q.live  BY <1>1, <2>2 DEF IInv, OneLive, At
    <3>2. \A o \in Procs : At(o, "answer") /\ proc[o].live => o = w
      BY <1>1, <2>2 DEF IInv, OneLive, At
    <3>. QED  BY <1>1, <2>1, <3>1, <3>2 DEF OneLive
  <2>3. CASE ~proc[w].live
    <3>1. posting' = posting  BY <1>6, <2>3
    <3>. QED  BY <1>1, <2>1, <3>1 DEF IInv, OneLive
  <2>. QED  BY <2>2, <2>3
<1>9. AnswersKnown'
  <2>1. \A o \in Procs : At(o, "answer")' => At(o, "answer") /\ proc'[o] = proc[o]
    BY <1>3, <1>4 DEF At
  <2>. QED  BY <1>1, <2>1 DEF IInv, AnswersKnown
<1>10. UploadedIsStored'  BY <1>1, <1>5, <1>6 DEF IInv, UploadedIsStored
<1>11. IdsStable'
  <2>1. \A r \in rows' : r.id < nextId => \E t \in rows : r.id = t.id /\ r.key = t.key
    BY <1>1
  <2>2. \A i \in DOMAIN todo' : IdOf(todo'[i])  BY <1>1 DEF IInv, IdsStable
  <2>3. todo' \in Seq(Row)  BY <1>1 DEF IInv, TypeOK
  <2>4. proc'[w].pc \in RenderPcs => proc'[w].op = "task"  BY <1>3, <1>4 DEF RenderPcs
  <2>. QED  BY <1>1, <1>4, <2>1, <2>2, <2>3, <2>4, IdsKept
<1>12. FilesOK'  BY <1>1, <1>3, <1>4, FilesKept
<1>13. FlaggedHasThumb'  BY <1>1, FlagsKept
<1>. QED  BY <1>7, <1>8, <1>9, <1>10, <1>11, <1>12, <1>13 DEF IInv

(***************************************************************************)
(* Rendering                                                               *)
(***************************************************************************)

\* A thread goes on within a rendering: what concerns the uploader and the ids
\* stays.
LEMMA RenderingGoesOn ==
    ASSUME IInv, NEW p \in Procs, proc[p].pc \in RenderPcs,
           NEW x \in RenderPcs, Goto(p, x),
           UNCHANGED <<rows, nextId, todo, posting, net, acked, stored, refused>>
    PROVE  OneLive' /\ AnswersKnown' /\ UploadedIsStored' /\ IdsStable'
<1>1. /\ proc' \in [Procs -> ProcState]
      /\ proc'[p].pc = x /\ proc'[p].op = proc[p].op
      /\ proc'[p].id = proc[p].id /\ proc'[p].key = proc[p].key
      /\ \A o \in Procs \ {p} : proc'[o] = proc[o]
  BY GotoWorking DEF IInv
<1>2. OneLive' /\ AnswersKnown' /\ UploadedIsStored'
  BY <1>1, AnswersKept DEF RenderPcs
<1>3. IdsStable'
  <2>1. \A r \in rows' : r.id < nextId => \E t \in rows : r.id = t.id /\ r.key = t.key
    OBVIOUS
  <2>2. \A i \in DOMAIN todo' : IdOf(todo'[i])  BY DEF IInv, IdsStable
  <2>3. todo' \in Seq(Row)  BY DEF IInv, TypeOK
  <2>4. proc'[p].op # "task" => IdOf(proc'[p])  BY <1>1 DEF IInv, IdsStable, IdOf
  <2>. QED  BY <1>1, <2>1, <2>2, <2>3, <2>4, IdsKept
<1>. QED  BY <1>2, <1>3

\* The same for a thread that is done with a row, also if the row is flagged.
LEMMA RenderingEnds ==
    ASSUME IInv, NEW p \in Procs, proc[p].pc \in RenderPcs, DoneWithRow(p),
           UNCHANGED <<nextId, posting, net, acked, stored, refused>>,
           \A r \in rows' : \E s \in rows : r.id = s.id /\ r.key = s.key
    PROVE  OneLive' /\ AnswersKnown' /\ UploadedIsStored' /\ IdsStable'
<1>1. /\ proc' \in [Procs -> ProcState]
      /\ \A o \in Procs \ {p} : proc'[o] = proc[o]
      /\ proc'[p].pc \in {"idle", "select", "lock"}
      /\ proc'[p].pc = "lock" =>
            \E i \in DOMAIN todo : proc'[p].id = todo[i].id /\ proc'[p].key = todo[i].key
      /\ todo' \in Seq(Row)
      /\ \A i \in DOMAIN todo' : \E j \in DOMAIN todo : todo'[i] = todo[j]
  BY DoneWithRowEffect DEF IInv
<1>2. OneLive' /\ AnswersKnown' /\ UploadedIsStored'
  <2>1. \A r \in rows' : \E s \in rows : r.key = s.key  OBVIOUS
  <2>. QED  BY <1>1, <2>1, AnswersKept DEF RenderPcs
<1>3. IdsStable'
  <2>1. \A i \in DOMAIN todo : IdOf(todo[i])  BY DEF IInv, IdsStable
  <2>2. \A i \in DOMAIN todo' : IdOf(todo'[i])  BY <1>1, <2>1
  <2>3. proc'[p].pc \in RenderPcs => IdOf(proc'[p])
    <3>1. CASE proc'[p].pc = "lock"
      <4>1. PICK i \in DOMAIN todo : proc'[p].id = todo[i].id /\ proc'[p].key = todo[i].key
        BY <1>1, <3>1
      <4>. QED  BY <2>1, <4>1 DEF IdOf
    <3>2. CASE proc'[p].pc # "lock"  BY <1>1, <3>2 DEF RenderPcs
    <3>. QED  BY <3>1, <3>2
  <2>. QED  BY <1>1, <2>2, <2>3, IdsKept
<1>. QED  BY <1>2, <1>3

\* Only one thread is between the look at a file and its completion.
LEMMA OneHolder ==
    ASSUME TypeOK, NEW p \in Procs, proc[p].pc \in {"render", "save"}
    PROVE  holder = p /\ \A o \in Procs \ {p} : ~At(o, "render") /\ ~At(o, "save")
BY DEF TypeOK, At

\* The look at the file under the lock: a file that is there is whole, or a crash
\* has torn it, since nobody can be writing it.
LEMMA LockKeeps ==
    ASSUME IInv, NEW p \in Procs, Lock(p)
    PROVE  IInv'
<1>1. /\ proc[p].pc = "lock" /\ holder = Nobody
      /\ UNCHANGED <<rows, nextId, files, todo, waiting, posting, net, acked, stored, refused,
                      torn, unlinked>>
  BY DEF Lock, At, dbVars, upVars, history
<1>2. proc[p] \in Working /\ proc[p].key \in Keys
  BY <1>1, Shapes DEF IInv, TypeOK, RenderPcs, Working
<1>3. PICK x \in {"render", "update"} :
          /\ Goto(p, x)
          /\ x = "render" => files[proc[p].key] = "none" /\ holder' = p
          /\ x = "update" => files[proc[p].key] # "none" /\ holder' = holder
  BY DEF Lock
<1>4. /\ proc' \in [Procs -> ProcState]
      /\ proc'[p].pc = x /\ proc'[p].key = proc[p].key
      /\ \A o \in Procs \ {p} : proc'[o] = proc[o]
  BY <1>1, <1>3, GotoWorking DEF IInv, RenderPcs
<1>5. TypeOK'
  <2>1. RowsOK' /\ todo' \in Seq(Row) /\ files' \in [Keys -> {"none", "partial", "whole"}]
    BY <1>1 DEF IInv, TypeOK, RowsOK
  <2>. QED  BY <1>1, <1>3, <1>4, <2>1, ThreadTypes DEF IInv
<1>6. OneLive' /\ AnswersKnown' /\ UploadedIsStored' /\ IdsStable'
  BY <1>1, <1>3, RenderingGoesOn DEF RenderPcs
<1>7. FilesOK'
  <2>1. x = "update" => files[proc[p].key] = "whole" \/ proc[p].key \in torn
    <3>1. \A o \in Procs : ~At(o, "save")  BY <1>1, StoreAssumption DEF IInv, TypeOK, At
    <3>2. files[proc[p].key] \in {"none", "partial", "whole"}  BY <1>2 DEF IInv, TypeOK
    <3>3. files[proc[p].key] = "partial" => proc[p].key \in torn
      BY <1>2, <3>1 DEF IInv, FilesOK
    <3>. QED  BY <1>3, <3>2, <3>3
  <2>. QED  BY <1>1, <1>3, <1>4, <2>1, FilesKept
<1>8. FlaggedHasThumb'  BY <1>1, FlagsKept
<1>. QED  BY <1>5, <1>6, <1>7, <1>8 DEF IInv

\* The thumbnail is opened: it did not exist, so nobody relied on it unless it had
\* been unlinked or torn.
LEMMA StartSaveKeeps ==
    ASSUME IInv, NEW p \in Procs, StartSave(p)
    PROVE  IInv'
<1>. DEFINE k == proc[p].key
<1>1. /\ proc[p].pc = "render" /\ Goto(p, "save")
      /\ files' = [files EXCEPT ![k] = "partial"]
      /\ UNCHANGED <<rows, nextId, holder, todo, waiting, posting, net, acked, stored, refused,
                      torn, unlinked>>
  BY DEF StartSave, At, dbVars, upVars, history
<1>2. k \in Keys
  <2>1. proc[p] \in Working  BY <1>1, Shapes DEF IInv, TypeOK, RenderPcs
  <2>. QED  BY <2>1 DEF Working
<1>3. /\ proc' \in [Procs -> ProcState]
      /\ proc'[p].pc = "save" /\ proc'[p].key = k
      /\ \A o \in Procs \ {p} : proc'[o] = proc[o]
  BY <1>1, GotoWorking DEF IInv, RenderPcs
<1>4. files \in [Keys -> {"none", "partial", "whole"}]  BY DEF IInv, TypeOK
<1>5. TypeOK'
  <2>1. RowsOK' /\ todo' \in Seq(Row)  BY <1>1 DEF IInv, TypeOK, RowsOK
  <2>2. files' \in [Keys -> {"none", "partial", "whole"}]  BY <1>1, <1>4
  <2>. QED  BY <1>1, <1>3, <2>1, <2>2, ThreadTypes DEF IInv
<1>6. OneLive' /\ AnswersKnown' /\ UploadedIsStored' /\ IdsStable'
  BY <1>1, RenderingGoesOn DEF RenderPcs
<1>7. \A o \in Procs \ {p} : ~At(o, "render")' /\ ~At(o, "save")'
  BY <1>1, <1>3, OneHolder DEF IInv, At
<1>8. files[k] = "none"  BY <1>1 DEF IInv, FilesOK, At
<1>. HIDE DEF k
<1>9. /\ files'[k] = "partial" /\ \A l \in Keys \ {k} : files'[l] = files[l]
      /\ \A l \in Keys : files[l] = "whole" => files'[l] = "whole"
  BY <1>1, <1>2, <1>4, <1>8
<1>10. FilesOK'
  <2>1. \A o \in Procs : ~At(o, "render")'  BY <1>3, <1>7 DEF At
  <2>2. \A o \in Procs : At(o, "save")' => o = p  BY <1>7
  <2>3. \A l \in Keys : files'[l] = "partial" =>
            l \in torn' \/ \E o \in Procs : At(o, "save")' /\ proc'[o].key = l
    <3>1. TAKE l \in Keys
    <3>2. CASE l = k  BY <1>3, <3>2 DEF At
    <3>3. CASE l # k
      <4>1. \A o \in Procs : ~At(o, "save")  BY <1>1, OneHolder DEF IInv, At
      <4>. QED  BY <1>1, <1>9, <3>3, <4>1 DEF IInv, FilesOK
    <3>. QED  BY <3>2, <3>3
  <2>4. \A o \in Procs : At(o, "update")' =>
            files'[proc'[o].key] = "whole" \/ proc'[o].key \in unlinked' \cup torn'
    <3>1. TAKE o \in Procs
    <3>2. HAVE At(o, "update")'
    <3>3. o # p /\ proc'[o] = proc[o]  BY <1>3, <3>2 DEF At
    <3>4. proc[o].pc = "update"  BY <3>2, <3>3 DEF At
    <3>5. proc[o] \in Working  BY <3>4, Shapes DEF IInv, TypeOK, RenderPcs
    <3>6. proc[o].key \in Keys  BY <3>5 DEF Working
    <3>7. files[proc[o].key] = "whole" \/ proc[o].key \in unlinked \cup torn
      BY <3>4 DEF IInv, FilesOK, At
    <3>. QED  BY <1>1, <1>9, <3>3, <3>6, <3>7
  <2>. QED  BY <1>3, <1>9, <2>1, <2>2, <2>3, <2>4 DEF FilesOK
<1>11. FlaggedHasThumb'
  <2>1. \A r \in rows : r.key \in Keys  BY DEF IInv, TypeOK, RowsOK, Row
  <2>. QED  BY <1>1, <1>9, <2>1 DEF IInv, FlaggedHasThumb
<1>. QED  BY <1>5, <1>6, <1>10, <1>11 DEF IInv

\* The thumbnail is complete, or it was unlinked while it was written.
LEMMA FinishSaveKeeps ==
    ASSUME IInv, NEW p \in Procs, FinishSave(p)
    PROVE  IInv'
<1>. DEFINE k == proc[p].key
<1>1. /\ proc[p].pc = "save" /\ Goto(p, "update") /\ holder' = Nobody
      /\ UNCHANGED <<rows, nextId, todo, waiting, posting, net, acked, stored, refused, torn>>
      /\ IF files[k] = "partial"
           THEN files' = [files EXCEPT ![k] = "whole"] /\ unlinked' = unlinked \ {k}
           ELSE files' = files /\ unlinked' = unlinked
  BY DEF FinishSave, At, dbVars, upVars
<1>2. k \in Keys
  <2>1. proc[p] \in Working  BY <1>1, Shapes DEF IInv, TypeOK, RenderPcs
  <2>. QED  BY <2>1 DEF Working
<1>3. /\ proc' \in [Procs -> ProcState]
      /\ proc'[p].pc = "update" /\ proc'[p].key = k
      /\ \A o \in Procs \ {p} : proc'[o] = proc[o]
  BY <1>1, GotoWorking DEF IInv, RenderPcs
<1>4. files \in [Keys -> {"none", "partial", "whole"}]  BY DEF IInv, TypeOK
<1>5. OneLive' /\ AnswersKnown' /\ UploadedIsStored' /\ IdsStable'
  BY <1>1, RenderingGoesOn DEF RenderPcs
<1>6. holder = p /\ \A o \in Procs \ {p} : ~At(o, "render") /\ ~At(o, "save")
  BY <1>1, OneHolder DEF IInv
<1>7. files[k] # "whole" /\ (files[k] = "none" => k \in unlinked)
  BY <1>1 DEF IInv, FilesOK, At
<1>. HIDE DEF k
<1>8. files' \in [Keys -> {"none", "partial", "whole"}]  BY <1>1, <1>4
<1>9. TypeOK'
  <2>1. RowsOK' /\ todo' \in Seq(Row)  BY <1>1 DEF IInv, TypeOK, RowsOK
  <2>. QED  BY <1>1, <1>3, <1>6, <1>8, <2>1, ThreadTypes DEF IInv
<1>10. /\ files'[k] = "whole" \/ k \in unlinked'
       /\ files'[k] # "partial"
       /\ \A l \in Keys \ {k} : files'[l] = files[l] /\ (l \in unlinked' <=> l \in unlinked)
  BY <1>1, <1>2, <1>4, <1>7
<1>11. FilesOK'
  <2>1. \A o \in Procs : ~At(o, "render")' /\ ~At(o, "save")'  BY <1>3, <1>6 DEF At
  <2>2. \A l \in Keys : files'[l] = "partial" => l \in torn'
    <3>1. TAKE l \in Keys
    <3>2. HAVE files'[l] = "partial"
    <3>3. l # k /\ files[l] = "partial"  BY <1>10, <3>2
    <3>4. \A o \in Procs : At(o, "save") => proc[o].key = k  BY <1>6 DEF k
    <3>. QED  BY <1>1, <3>3, <3>4 DEF IInv, FilesOK
  <2>3. \A o \in Procs : At(o, "update")' =>
            files'[proc'[o].key] = "whole" \/ proc'[o].key \in unlinked' \cup torn'
    <3>1. TAKE o \in Procs
    <3>2. HAVE At(o, "update")'
    <3>3. CASE proc'[o].key = k  BY <1>10, <3>3
    <3>4. CASE proc'[o].key # k
      <4>1. o # p /\ proc'[o] = proc[o]  BY <1>3, <3>4
      <4>2. proc[o].pc = "update"  BY <3>2, <4>1 DEF At
      <4>3. proc[o] \in Working  BY <4>2, Shapes DEF IInv, TypeOK, RenderPcs
      <4>4. proc[o].key \in Keys  BY <4>3 DEF Working
      <4>5. files[proc[o].key] = "whole" \/ proc[o].key \in unlinked \cup torn
        BY <4>2 DEF IInv, FilesOK, At
      <4>. QED  BY <1>1, <1>10, <3>4, <4>1, <4>4, <4>5
    <3>. QED  BY <3>3, <3>4
  <2>. QED  BY <2>1, <2>2, <2>3 DEF FilesOK
<1>12. FlaggedHasThumb'
  <2>1. \A r \in rows : r.key \in Keys  BY DEF IInv, TypeOK, RowsOK, Row
  <2>. QED  BY <1>1, <1>10, <2>1 DEF IInv, FlaggedHasThumb
<1>. QED  BY <1>5, <1>9, <1>11, <1>12 DEF IInv

\* A renderer that fails leaves no file behind.
LEMMA RenderFailsKeeps ==
    ASSUME IInv, NEW p \in Procs, RenderFails(p)
    PROVE  IInv'
<1>1. /\ proc[p].pc = "render" /\ DoneWithRow(p) /\ holder' = Nobody
      /\ UNCHANGED <<rows, nextId, files, waiting, posting, net, acked, stored, refused, torn,
                      unlinked>>
  BY DEF RenderFails, At, dbVars, upVars, history
<1>2. /\ proc' \in [Procs -> ProcState]
      /\ \A o \in Procs \ {p} : proc'[o] = proc[o]
      /\ proc'[p].pc \in {"idle", "select", "lock"}
      /\ todo' \in Seq(Row)
  BY <1>1, DoneWithRowEffect DEF IInv
<1>3. holder = p  BY <1>1, OneHolder DEF IInv
<1>4. TypeOK'
  <2>1. RowsOK' /\ files' \in [Keys -> {"none", "partial", "whole"}]
    BY <1>1 DEF IInv, TypeOK, RowsOK
  <2>. QED  BY <1>1, <1>2, <1>3, <2>1, ThreadTypes DEF IInv
<1>5. OneLive' /\ AnswersKnown' /\ UploadedIsStored' /\ IdsStable'
  BY <1>1, RenderingEnds DEF RenderPcs
<1>6. FilesOK'  BY <1>1, <1>2, FilesKept
<1>7. FlaggedHasThumb'  BY <1>1, FlagsKept
<1>. QED  BY <1>4, <1>5, <1>6, <1>7 DEF IInv

\* A save that fails removes a file that was not whole.
LEMMA RenderStumblesKeeps ==
    ASSUME IInv, NEW p \in Procs, RenderStumbles(p)
    PROVE  IInv'
<1>. DEFINE k == proc[p].key
<1>1. /\ proc[p].pc \in {"render", "save"} /\ DoneWithRow(p) /\ holder' = Nobody
      /\ files' = IF At(p, "save") THEN [files EXCEPT ![k] = "none"] ELSE files
      /\ UNCHANGED <<rows, nextId, waiting, posting, net, acked, stored, refused, torn, unlinked>>
  BY DEF RenderStumbles, dbVars, upVars
<1>2. /\ proc' \in [Procs -> ProcState]
      /\ \A o \in Procs \ {p} : proc'[o] = proc[o]
      /\ proc'[p].pc \in {"idle", "select", "lock"}
      /\ todo' \in Seq(Row)
  BY <1>1, DoneWithRowEffect DEF IInv
<1>3. holder = p /\ \A o \in Procs \ {p} : ~At(o, "render") /\ ~At(o, "save")
  BY <1>1, OneHolder DEF IInv
<1>4. k \in Keys
  <2>1. proc[p] \in Working  BY <1>1, Shapes DEF IInv, TypeOK, RenderPcs
  <2>. QED  BY <2>1 DEF Working
<1>5. files \in [Keys -> {"none", "partial", "whole"}]  BY DEF IInv, TypeOK
<1>6. files[k] # "whole"  BY <1>1 DEF IInv, FilesOK, At
<1>7. OneLive' /\ AnswersKnown' /\ UploadedIsStored' /\ IdsStable'
  BY <1>1, RenderingEnds DEF RenderPcs
<1>8. \A l \in Keys : files'[l] = "partial" => files[l] = "partial" /\ (At(p, "save") => l # k)
  BY <1>1, <1>4, <1>5
<1>. HIDE DEF k
<1>9. \A l \in Keys : files[l] = "whole" => files'[l] = "whole"
  BY <1>1, <1>4, <1>5, <1>6
<1>10. TypeOK'
  <2>1. RowsOK'  BY <1>1 DEF IInv, TypeOK, RowsOK
  <2>2. files' \in [Keys -> {"none", "partial", "whole"}]  BY <1>1, <1>5
  <2>. QED  BY <1>1, <1>2, <1>3, <2>1, <2>2, ThreadTypes DEF IInv
<1>11. FilesOK'
  <2>1. \A o \in Procs : ~At(o, "render")' /\ ~At(o, "save")'  BY <1>2, <1>3 DEF At
  <2>2. \A l \in Keys : files'[l] = "partial" => l \in torn'
    <3>1. TAKE l \in Keys
    <3>2. HAVE files'[l] = "partial"
    <3>3. files[l] = "partial" /\ (At(p, "save") => l # k)  BY <1>8, <3>2
    <3>4. \A o \in Procs : At(o, "save") => o = p /\ proc[o].key = k  BY <1>3 DEF k
    <3>. QED  BY <1>1, <3>3, <3>4 DEF IInv, FilesOK
  <2>3. \A o \in Procs : At(o, "update")' =>
            files'[proc'[o].key] = "whole" \/ proc'[o].key \in unlinked' \cup torn'
    <3>1. TAKE o \in Procs
    <3>2. HAVE At(o, "update")'
    <3>3. o # p /\ proc'[o] = proc[o]  BY <1>2, <3>2 DEF At
    <3>4. proc[o].pc = "update"  BY <3>2, <3>3 DEF At
    <3>5. proc[o] \in Working  BY <3>4, Shapes DEF IInv, TypeOK, RenderPcs
    <3>6. proc[o].key \in Keys  BY <3>5 DEF Working
    <3>7. files[proc[o].key] = "whole" \/ proc[o].key \in unlinked \cup torn
      BY <3>4 DEF IInv, FilesOK, At
    <3>. QED  BY <1>1, <1>9, <3>3, <3>6, <3>7
  <2>. QED  BY <2>1, <2>2, <2>3 DEF FilesOK
<1>12. FlaggedHasThumb'
  <2>1. \A r \in rows : r.key \in Keys  BY DEF IInv, TypeOK, RowsOK, Row
  <2>. QED  BY <1>1, <1>9, <2>1 DEF IInv, FlaggedHasThumb
<1>. QED  BY <1>7, <1>10, <1>11, <1>12 DEF IInv

\* has_thumb is set for the key whose thumbnail was looked at or rendered, by key
\* or by id, although render_lock is free again.
LEMMA UpdateKeeps ==
    ASSUME IInv, NEW p \in Procs, Update(p)
    PROVE  IInv'
<1>. DEFINE Hit(r) == IF proc[p].op = "task" THEN r.key = proc[p].key ELSE r.id = proc[p].id
            Flag(r) == IF Hit(r) THEN [r EXCEPT !.thumb = TRUE] ELSE r
<1>1. /\ proc[p].pc = "update" /\ DoneWithRow(p)
      /\ rows' = {Flag(r) : r \in rows}
      /\ UNCHANGED <<nextId, files, holder, waiting, posting, net, acked, stored, refused, torn,
                      unlinked>>
  BY DEF Update, At, upVars, history
<1>2. /\ proc' \in [Procs -> ProcState]
      /\ \A o \in Procs \ {p} : proc'[o] = proc[o]
      /\ proc'[p].pc \in {"idle", "select", "lock"}
      /\ todo' \in Seq(Row)
  BY <1>1, DoneWithRowEffect DEF IInv
<1>3. \A r \in rows : /\ Flag(r) \in Row /\ Flag(r).id = r.id /\ Flag(r).key = r.key
                      /\ Flag(r).thumb => r.thumb \/ Hit(r)
  BY DEF IInv, TypeOK, RowsOK, Row
<1>4. \A r \in rows : Hit(r) => r.key = proc[p].key
  <2>1. proc[p].op # "task" => IdOf(proc[p])  BY <1>1 DEF IInv, IdsStable, RenderPcs
  <2>. QED  BY <2>1 DEF IdOf
<1>5. IsFiniteSet(rows')
  <2>1. IsFiniteSet(rows)  BY DEF IInv, TypeOK, RowsOK
  <2>. HIDE DEF Flag
  <2>2. [r \in rows |-> Flag(r)] \in Surjection(rows, {Flag(r) : r \in rows})
    BY DEF Surjection
  <2>3. IsFiniteSet({Flag(r) : r \in rows})  BY <2>1, <2>2, FS_Surjection
  <2>. QED  BY <1>1, <2>3
<1>. HIDE DEF Flag, Hit
<1>6. \A r \in rows' : /\ r \in Row
                       /\ \E s \in rows : /\ r = Flag(s) /\ r.id = s.id /\ r.key = s.key
                                          /\ r.thumb => s.thumb \/ s.key = proc[p].key
  BY <1>1, <1>3, <1>4
<1>7. RowsOK'
  <2>1. \A r, s \in rows' : r.id = s.id \/ r.key = s.key => r = s
    <3>1. TAKE r, s \in rows'
    <3>2. PICK a \in rows : r = Flag(a) /\ r.id = a.id /\ r.key = a.key  BY <1>6
    <3>3. PICK b \in rows : s = Flag(b) /\ s.id = b.id /\ s.key = b.key  BY <1>6
    <3>4. a.id = b.id \/ a.key = b.key => a = b  BY DEF IInv, TypeOK, RowsOK
    <3>. QED  BY <3>2, <3>3, <3>4
  <2>2. \A r \in rows' : r.id < nextId'  BY <1>1, <1>6 DEF IInv, TypeOK, RowsOK
  <2>3. nextId' \in Nat  BY <1>1 DEF IInv, TypeOK, RowsOK
  <2>. QED  BY <1>5, <1>6, <2>1, <2>2, <2>3 DEF RowsOK
<1>8. TypeOK'
  <2>1. files' \in [Keys -> {"none", "partial", "whole"}]  BY <1>1 DEF IInv, TypeOK
  <2>. QED  BY <1>1, <1>2, <1>7, <2>1, ThreadTypes DEF IInv
<1>9. OneLive' /\ AnswersKnown' /\ UploadedIsStored' /\ IdsStable'
  BY <1>1, <1>6, RenderingEnds DEF RenderPcs
<1>10. FilesOK'  BY <1>1, <1>2, FilesKept
<1>11. FlaggedHasThumb'
  <2>1. files[proc[p].key] = "whole" \/ proc[p].key \in unlinked \cup torn
    BY <1>1 DEF IInv, FilesOK, At
  <2>2. \A s \in rows : s.thumb => files[s.key] = "whole" \/ s.key \in unlinked \cup torn
    BY DEF IInv, FlaggedHasThumb
  <2>. QED  BY <1>1, <1>6, <2>1, <2>2 DEF FlaggedHasThumb
<1>. QED  BY <1>8, <1>9, <1>10, <1>11 DEF IInv

(***************************************************************************)
(* Steps that change neither files nor flags                               *)
(***************************************************************************)

\* A thread without render_lock that is not about to answer goes to a state of
\* this kind again, with an id it knows if it is going to render; rows are at
\* most taken away.
LEMMA QuietKeeps ==
    ASSUME IInv, NEW p \in Procs, NEW s \in ProcState, Go(p, s),
           proc[p].pc \notin {"answer", "render", "save"},
           s.pc \notin {"answer", "render", "save", "update"},
           s.pc \in RenderPcs => IdOf(s),
           todo' \in Seq(Row), \A i \in DOMAIN todo' : IdOf(todo'[i]),
           rows' \subseteq rows,
           UNCHANGED <<nextId, files, holder, waiting, posting, net, acked, stored, refused, torn,
                       unlinked>>
    PROVE  IInv'
<1>1. /\ proc' \in [Procs -> ProcState]
      /\ proc'[p] = s
      /\ \A o \in Procs \ {p} : proc'[o] = proc[o]
  BY GoEffect DEF IInv
<1>2. RowsOK'
  <2>1. IsFiniteSet(rows')  BY FS_Subset DEF IInv, TypeOK, RowsOK
  <2>. QED  BY <2>1 DEF IInv, TypeOK, RowsOK
<1>3. TypeOK'
  <2>1. files' \in [Keys -> {"none", "partial", "whole"}]  BY DEF IInv, TypeOK
  <2>. QED  BY <1>1, <1>2, <2>1, ThreadTypes DEF IInv
<1>4. OneLive' /\ AnswersKnown' /\ UploadedIsStored'  BY <1>1, AnswersKept
<1>5. IdsStable'  BY <1>1, IdsKept
<1>6. FilesOK'  BY <1>1, FilesKept
<1>7. FlaggedHasThumb'  BY FlagsKept
<1>. QED  BY <1>3, <1>4, <1>5, <1>6, <1>7 DEF IInv

\* An exception of the database leaves the row as it was.
LEMMA UpdateFailsKeeps ==
    ASSUME IInv, NEW p \in Procs, UpdateFails(p)
    PROVE  IInv'
<1>1. /\ proc[p].pc = "update"
      /\ Go(p, IF p = Starter THEN [pc |-> "over"] ELSE Idle)
      /\ UNCHANGED <<rows, nextId, files, holder, todo, waiting, posting, net, acked, stored,
                      refused, torn, unlinked>>
  BY DEF UpdateFails, At, dbVars, upVars
<1>2. PICK s \in ProcState : Go(p, s) /\ s.pc \in {"idle", "over"}
  BY <1>1 DEF Idle, ProcState, Resting
<1>3. todo' \in Seq(Row) /\ \A i \in DOMAIN todo' : IdOf(todo'[i])
  BY <1>1 DEF IInv, TypeOK, IdsStable
<1>. QED  BY <1>1, <1>2, <1>3, QuietKeeps DEF RenderPcs

\* The starter takes rows with the ids they have in the table.
LEMMA SelectKeeps ==
    ASSUME IInv, Select
    PROVE  IInv'
<1>1. /\ Starter \in Procs /\ proc[Starter].pc = "select"
      /\ UNCHANGED <<rows, nextId, files, holder, waiting, posting, net, acked, stored, refused,
                      torn, unlinked>>
  BY DEF Select, At, Procs, dbVars, upVars, history
<1>2. \A r \in rows : IdOf(r)  BY DEF IInv, TypeOK, RowsOK, IdOf
<1>3. CASE Pending = {}
  <2>1. Go(Starter, [pc |-> "over"]) /\ todo' = todo  BY <1>3 DEF Select
  <2>2. [pc |-> "over"] \in ProcState  BY DEF ProcState, Resting
  <2>3. todo' \in Seq(Row) /\ \A i \in DOMAIN todo' : IdOf(todo'[i])
    BY <2>1 DEF IInv, TypeOK, IdsStable
  <2>. QED  BY <1>1, <2>1, <2>2, <2>3, QuietKeeps DEF RenderPcs
<1>4. CASE Pending # {}
  <2>1. PICK list \in SetToSeqs(FirstPending) : GoThrough(list)  BY <1>4 DEF Select
  <2>2. FirstPending \subseteq rows  BY DEF FirstPending, Pending
  <2>3. Cardinality(FirstPending) \in Nat
    BY <2>2, FS_Subset, FS_CardinalityType DEF IInv, TypeOK, RowsOK
  <2>4. list \in [1 .. Cardinality(FirstPending) -> FirstPending]  BY DEF SetToSeqs
  <2>5. list \in Seq(Row) /\ \A i \in DOMAIN list : list[i] \in rows
    BY SMTT(40), <2>2, <2>3, <2>4 DEF IInv, TypeOK, RowsOK
  <2>6. /\ proc' \in [Procs -> ProcState]
        /\ \A o \in Procs \ {Starter} : proc'[o] = proc[o]
        /\ proc'[Starter].pc \in {"select", "lock"}
        /\ proc'[Starter].pc = "lock" =>
              \E i \in DOMAIN list : proc'[Starter].id = list[i].id /\ proc'[Starter].key = list[i].key
        /\ todo' \in Seq(Row)
        /\ \A i \in DOMAIN todo' : \E j \in DOMAIN list : todo'[i] = list[j]
    BY <2>1, <2>5, GoThroughEffect DEF IInv
  <2>7. \A i \in DOMAIN todo' : IdOf(todo'[i])  BY <1>2, <2>5, <2>6
  <2>8. proc'[Starter].pc \in RenderPcs => IdOf(proc'[Starter])
    <3>1. CASE proc'[Starter].pc = "lock"
      <4>1. PICK i \in DOMAIN list :
                proc'[Starter].id = list[i].id /\ proc'[Starter].key = list[i].key
        BY <2>6, <3>1
      <4>2. IdOf(list[i])  BY <1>2, <2>5
      <4>. QED  BY <4>1, <4>2 DEF IdOf
    <3>2. CASE proc'[Starter].pc # "lock"  BY <2>6, <3>2 DEF RenderPcs
    <3>. QED  BY <3>1, <3>2
  <2>9. Go(Starter, proc'[Starter])  BY <1>1, <2>6 DEF Go, IInv, TypeOK
  <2>10. proc'[Starter] \in ProcState  BY <1>1, <2>6
  <2>. QED  BY <1>1, <2>6, <2>7, <2>8, <2>9, <2>10, QuietKeeps
<1>. QED  BY <1>3, <1>4

(***************************************************************************)
(* Visitors and crashes                                                    *)
(***************************************************************************)

\* A visitor asks for a thumbnail that is missing.
LEMMA GetThumbKeeps ==
    ASSUME IInv, NEW w \in Workers, NEW r \in rows, GetThumb(w, r)
    PROVE  IInv'
<1>1. /\ w \in Procs /\ proc[w].pc = "idle" /\ Go(w, Rendering("thumb", r))
      /\ UNCHANGED <<rows, nextId, files, holder, todo, waiting, posting, net, acked, stored,
                      refused, torn, unlinked>>
  BY DEF GetThumb, At, Procs, dbVars, upVars, history
<1>2. r \in Row /\ IdOf(r)  BY DEF IInv, TypeOK, RowsOK, IdOf
<1>3. Rendering("thumb", r) \in ProcState
  BY <1>2 DEF Rendering, ProcState, Working, RenderPcs, Row
<1>4. Rendering("thumb", r).pc = "lock" /\ IdOf(Rendering("thumb", r))
  BY <1>2 DEF Rendering, IdOf
<1>5. todo' \in Seq(Row) /\ \A i \in DOMAIN todo' : IdOf(todo'[i])
  BY <1>1 DEF IInv, TypeOK, IdsStable
<1>. QED  BY <1>1, <1>3, <1>4, <1>5, QuietKeeps

\* A visitor asks for a deletion.
LEMMA DeleteSeedKeeps ==
    ASSUME IInv, NEW w \in Workers, NEW r \in rows, DeleteSeed(w, r)
    PROVE  IInv'
<1>. DEFINE s == [pc |-> "unlink", id |-> r.id, key |-> r.key]
<1>1. /\ w \in Procs /\ proc[w].pc = "idle" /\ Go(w, s)
      /\ UNCHANGED <<rows, nextId, files, holder, todo, waiting, posting, net, acked, stored,
                      refused, torn, unlinked>>
  BY DEF DeleteSeed, At, Procs, dbVars, upVars, history
<1>2. s \in ProcState /\ s.pc = "unlink"
  BY DEF ProcState, Deleting, IInv, TypeOK, RowsOK, Row
<1>3. todo' \in Seq(Row) /\ \A i \in DOMAIN todo' : IdOf(todo'[i])
  BY <1>1 DEF IInv, TypeOK, IdsStable
<1>. QED  BY <1>1, <1>2, <1>3, QuietKeeps DEF RenderPcs

\* The file goes, whoever is writing it or about to set has_thumb for it.
LEMMA UnlinkKeeps ==
    ASSUME IInv, NEW w \in Workers, Unlink(w)
    PROVE  IInv'
<1>. DEFINE k == proc[w].key
            s == [proc[w] EXCEPT !.pc = "erase"]
<1>1. /\ w \in Procs /\ proc[w].pc = "unlink" /\ Goto(w, "erase")
      /\ files' = [files EXCEPT ![k] = "none"]
      /\ unlinked' = unlinked \cup {k}
      /\ UNCHANGED <<rows, nextId, holder, todo, waiting, posting, net, acked, stored, refused,
                      torn>>
  BY DEF Unlink, At, Procs, dbVars, upVars
<1>2. proc[w] \in Deleting  BY <1>1, Shapes DEF IInv, TypeOK
<1>3. k \in Keys  BY <1>2 DEF Deleting
<1>4. s \in ProcState /\ s.pc = "erase"  BY <1>2, MoveDeleting DEF ProcState
<1>5. Go(w, s)  BY <1>1 DEF Go, Goto, IInv, TypeOK
<1>. HIDE DEF k, s
<1>6. /\ proc' \in [Procs -> ProcState]
      /\ proc'[w].pc = "erase"
      /\ \A o \in Procs \ {w} : proc'[o] = proc[o]
  BY <1>1, <1>4, <1>5, GoEffect DEF IInv
<1>7. files \in [Keys -> {"none", "partial", "whole"}]  BY DEF IInv, TypeOK
<1>8. \A l \in Keys : files'[l] = IF l = k THEN "none" ELSE files[l]  BY <1>1, <1>3, <1>7
<1>9. TypeOK'
  <2>1. RowsOK' /\ todo' \in Seq(Row)  BY <1>1 DEF IInv, TypeOK, RowsOK
  <2>2. files' \in [Keys -> {"none", "partial", "whole"}]  BY <1>1, <1>7
  <2>. QED  BY <1>1, <1>6, <2>1, <2>2, ThreadTypes DEF IInv
<1>10. OneLive' /\ AnswersKnown' /\ UploadedIsStored'  BY <1>1, <1>6, AnswersKept
<1>11. IdsStable'
  <2>1. todo' \in Seq(Row) /\ \A i \in DOMAIN todo' : IdOf(todo'[i])
    BY <1>1 DEF IInv, TypeOK, IdsStable
  <2>. QED  BY <1>1, <1>6, <2>1, IdsKept DEF RenderPcs
<1>12. FilesOK'
  <2>1. \A o \in Procs : proc'[o].pc \in RenderPcs
            => o # w /\ proc'[o] = proc[o] /\ proc[o].key \in Keys
    <3>1. TAKE o \in Procs
    <3>2. HAVE proc'[o].pc \in RenderPcs
    <3>3. o # w  BY <1>6, <3>2 DEF RenderPcs
    <3>4. proc'[o] = proc[o]  BY <1>6, <3>3
    <3>5. proc[o] \in Working  BY <3>2, <3>4, Shapes DEF IInv, TypeOK
    <3>. QED  BY <3>3, <3>4, <3>5 DEF Working
  <2>2. \A o \in Procs : At(o, "render")' => files'[proc'[o].key] = "none"
    BY <1>8, <2>1 DEF IInv, FilesOK, At, RenderPcs
  <2>3. \A o \in Procs : At(o, "save")' =>
            /\ files'[proc'[o].key] # "whole"
            /\ files'[proc'[o].key] = "none" => proc'[o].key \in unlinked'
    BY <1>1, <1>8, <2>1 DEF IInv, FilesOK, At, RenderPcs
  <2>4. \A l \in Keys : files'[l] = "partial" =>
            l \in torn' \/ \E o \in Procs : At(o, "save")' /\ proc'[o].key = l
    <3>1. TAKE l \in Keys
    <3>2. HAVE files'[l] = "partial"
    <3>3. files[l] = "partial"  BY <1>8, <3>2
    <3>4. l \in torn \/ \E o \in Procs : At(o, "save") /\ proc[o].key = l
      BY <3>3 DEF IInv, FilesOK
    <3>5. \A o \in Procs : At(o, "save") => At(o, "save")' /\ proc'[o] = proc[o]
      BY <1>1, <1>6 DEF At
    <3>. QED  BY <1>1, <3>4, <3>5
  <2>5. \A o \in Procs : At(o, "update")' =>
            files'[proc'[o].key] = "whole" \/ proc'[o].key \in unlinked' \cup torn'
    BY <1>1, <1>8, <2>1 DEF IInv, FilesOK, At, RenderPcs
  <2>. QED  BY <2>2, <2>3, <2>4, <2>5 DEF FilesOK
<1>13. FlaggedHasThumb'
  <2>1. \A r \in rows : r.key \in Keys  BY DEF IInv, TypeOK, RowsOK, Row
  <2>. QED  BY <1>1, <1>8, <2>1 DEF IInv, FlaggedHasThumb
<1>. QED  BY <1>9, <1>10, <1>11, <1>12, <1>13 DEF IInv

\* The row goes, or an exception leaves it.
LEMMA EraseKeeps ==
    ASSUME IInv, NEW w \in Workers, Erase(w) \/ EraseFails(w)
    PROVE  IInv'
<1>1. /\ w \in Procs /\ proc[w].pc = "erase" /\ Go(w, Idle) /\ rows' \subseteq rows
      /\ UNCHANGED <<nextId, files, holder, todo, waiting, posting, net, acked, stored,
                      refused, torn, unlinked>>
  BY DEF Erase, EraseFails, At, Procs, dbVars, upVars, history
<1>2. Idle \in ProcState /\ Idle.pc = "idle"  BY DEF ProcState, Resting, Idle
<1>3. todo' \in Seq(Row) /\ \A i \in DOMAIN todo' : IdOf(todo'[i])
  BY <1>1 DEF IInv, TypeOK, IdsStable
<1>. QED  BY <1>1, <1>2, <1>3, QuietKeeps DEF RenderPcs

\* A crash at any point: half written files are torn, everything else that was
\* under way is forgotten, and requests on their way stay.
LEMMA RestartKeeps ==
    ASSUME IInv, Restart
    PROVE  IInv'
<1>1. /\ proc' = [p \in Procs |-> IF p = Starter THEN [pc |-> "select"] ELSE Idle]
      /\ holder' = Nobody /\ todo' = <<>>
      /\ torn' = torn \cup {k \in Keys : files[k] = "partial"}
      /\ UNCHANGED <<rows, nextId, files, waiting, posting, net, acked, stored, refused, unlinked>>
  BY DEF Restart, dbVars, upVars
<1>2. \A p \in Procs : proc'[p] \in ProcState /\ proc'[p].pc \in {"idle", "select"}
  BY <1>1 DEF Idle, ProcState, Resting
<1>3. TypeOK'
  <2>1. proc' \in [Procs -> ProcState]  BY <1>1, <1>2
  <2>2. \A p \in Procs : proc'[p].pc \in {"render", "save"} <=> holder' = p
    BY <1>1, <1>2, StoreAssumption
  <2>3. RowsOK' /\ holder' \in Procs \cup {Nobody} /\ todo' \in Seq(Row)
    BY <1>1 DEF IInv, TypeOK, RowsOK
  <2>. QED  BY <1>1, <2>1, <2>2, <2>3 DEF IInv, TypeOK
<1>4. OneLive'
  <2>1. \A q \in net' : q.live => q.key = posting'  BY <1>1 DEF IInv, OneLive
  <2>. QED  BY <1>2, <2>1 DEF OneLive, At
<1>5. AnswersKnown' /\ UploadedIsStored'
  BY <1>1, <1>2 DEF IInv, AnswersKnown, UploadedIsStored, At
<1>6. IdsStable'
  <2>1. DOMAIN todo' = {}  BY <1>1
  <2>. QED  BY <1>2, <2>1 DEF IdsStable, RenderPcs
<1>7. FilesOK'  BY <1>1, <1>2 DEF FilesOK, At
<1>8. FlaggedHasThumb'  BY <1>1 DEF IInv, FlaggedHasThumb
<1>. QED  BY <1>3, <1>4, <1>5, <1>6, <1>7, <1>8 DEF IInv

(***************************************************************************)
(* The invariant and what follows from it                                  *)
(***************************************************************************)

\* The rows of earlier sessions have the ids 1, 2, ... and no thumbnail.
LEMMA InitIInv == Init => IInv
<1>. SUFFICES ASSUME Init PROVE IInv  OBVIOUS
<1>1. PICK ids \in SetToSeqs(Old) :
          rows = {[id |-> i, key |-> ids[i], thumb |-> FALSE] : i \in DOMAIN ids}
  BY DEF Init
<1>. DEFINE n == Cardinality(Old)
            New(i) == [id |-> i, key |-> ids[i], thumb |-> FALSE]
<1>2. n \in Nat  BY StoreAssumption, FS_CardinalityType
<1>3. /\ ids \in [1 .. n -> Old]
      /\ \A i, j \in 1 .. n : ids[i] = ids[j] => i = j
  BY DEF SetToSeqs
<1>. HIDE DEF n
<1>4. /\ rows = {New(i) : i \in 1 .. n}
      /\ \A i \in 1 .. n : /\ New(i) \in Row /\ New(i).id = i /\ New(i).key = ids[i]
                           /\ New(i).key \in Old /\ ~New(i).thumb
  BY <1>1, <1>2, <1>3, StoreAssumption DEF Row
<1>5. IsFiniteSet(rows)
  <2>1. IsFiniteSet(1 .. n)  BY <1>2, FS_Interval
  <2>. HIDE DEF New
  <2>2. [i \in 1 .. n |-> New(i)] \in Surjection(1 .. n, {New(i) : i \in 1 .. n})
    BY DEF Surjection
  <2>3. IsFiniteSet({New(i) : i \in 1 .. n})  BY <2>1, <2>2, FS_Surjection
  <2>. QED  BY <1>4, <2>3
<1>. HIDE DEF New
<1>6. \A r \in rows : /\ r \in Row /\ r.key \in Old /\ ~r.thumb
                      /\ \E i \in 1 .. n : r = New(i) /\ r.id = i /\ r.key = ids[i]
  BY <1>4
<1>7. RowsOK
  <2>1. nextId = n + 1  BY DEF Init, n
  <2>2. \A r, s \in rows : r.id = s.id \/ r.key = s.key => r = s  BY <1>3, <1>6
  <2>3. \A r \in rows : r.id < nextId  BY <1>2, <1>6, <2>1
  <2>. QED  BY <1>2, <1>5, <1>6, <2>1, <2>2, <2>3 DEF RowsOK
<1>8. \A p \in Procs : proc[p] \in ProcState /\ proc[p].pc \in {"idle", "select"}
  BY DEF Init, Idle, ProcState, Resting
<1>9. TypeOK
  <2>1. proc \in [Procs -> ProcState]  BY <1>8 DEF Init
  <2>2. \A p \in Procs : proc[p].pc \in {"render", "save"} <=> holder = p
    BY <1>8, StoreAssumption DEF Init
  <2>3. /\ files \in [Keys -> {"none", "partial", "whole"}]
        /\ holder \in Procs \cup {Nobody} /\ todo \in Seq(Row)
        /\ waiting \subseteq Keys /\ acked \subseteq Keys
        /\ posting \in Keys \cup {NoKey} /\ net \subseteq [key : Keys, live : BOOLEAN]
    BY DEF Init
  <2>. QED  BY <1>7, <2>1, <2>2, <2>3 DEF TypeOK
<1>10. OneLive /\ AnswersKnown /\ UploadedIsStored
  BY <1>6, <1>8 DEF Init, OneLive, AnswersKnown, UploadedIsStored, At
<1>11. IdsStable
  <2>1. DOMAIN todo = {}  BY DEF Init
  <2>. QED  BY <1>8, <2>1 DEF IdsStable, RenderPcs
<1>12. FilesOK
  <2>1. \A k \in Keys : files[k] = "none"  BY DEF Init
  <2>. QED  BY <1>8, <2>1 DEF FilesOK, At
<1>13. FlaggedHasThumb  BY <1>6 DEF FlaggedHasThumb
<1>. QED  BY <1>9, <1>10, <1>11, <1>12, <1>13 DEF IInv

\* Every step keeps the invariant.
LEMMA NextIInv == IInv /\ [Next]_vars => IInv'
<1>. SUFFICES ASSUME IInv, [Next]_vars PROVE IInv'  OBVIOUS
<1>1. CASE UNCHANGED vars
  <2>1. UNCHANGED <<rows, nextId, files, holder, proc, todo, waiting, posting, net, acked, stored,
                    refused, torn, unlinked>>
    BY <1>1 DEF vars, dbVars, upVars, history
  <2>. QED  BY <2>1 DEF IInv, TypeOK, RowsOK, OneLive, AnswersKnown, UploadedIsStored, IdsStable,
                        IdOf, FilesOK, FlaggedHasThumb, At
<1>2. CASE Uploader  BY <1>2, TimeOutKeeps, SendKeeps DEF Uploader
<1>3. CASE \E q \in net : Lose(q) \/ \E w \in Workers : Insert(w, q)
  BY <1>3, LoseKeeps, InsertKeeps
<1>4. ASSUME NEW w \in Workers, Handle(w) \/ Visit(w) PROVE IInv'
  BY <1>4, AnswerKeeps, UnlinkKeeps, EraseKeeps, GetThumbKeeps, DeleteSeedKeeps
     DEF Handle, Visit
<1>5. ASSUME NEW p \in Procs, Render(p) PROVE IInv'
  BY <1>5, LockKeeps, StartSaveKeeps, FinishSaveKeeps, RenderFailsKeeps, UpdateKeeps DEF Render
<1>6. CASE Select  BY <1>6, SelectKeeps
<1>7. CASE Errors
  BY <1>7, EraseKeeps, InsertFailsKeeps, RenderStumblesKeeps, UpdateFailsKeeps DEF Errors
<1>8. CASE Restart  BY <1>8, RestartKeeps
<1>. QED  BY <1>1, <1>2, <1>3, <1>4, <1>5, <1>6, <1>7, <1>8 DEF Next

\* The inductive invariant of the store holds in every state it can reach.
THEOREM Invariance == Spec => []IInv
BY InitIInv, NextIInv, PTL DEF Spec

\* The variables keep their types, rows are unique by id and by key, ids are never
\* given again, and whoever renders holds render_lock.
THEOREM TypeCorrect == Spec => []TypeOK
<1>1. IInv => TypeOK  BY DEF IInv
<1>. QED  BY <1>1, Invariance, PTL

\* What the uploader takes off its queue was stored, or its insertion raised an
\* exception that the backend answered with 200 all the same.
THEOREM UploadCorrect == Spec => []UploadedIsStored
<1>1. IInv => UploadedIsStored  BY DEF IInv
<1>. QED  BY <1>1, Invariance, PTL

\* A thumbnail is written by one thread at a time, and one that is half written
\* without a writer was left by a crash.
THEOREM SaveCorrect == Spec => []SavedByOne
<1>1. IInv => SavedByOne
  <2>. SUFFICES ASSUME IInv, NEW k \in Keys,
                       NEW savers, savers = {p \in Procs : At(p, "save") /\ proc[p].key = k}
                PROVE  /\ Cardinality(savers) <= 1
                       /\ savers # {} => files[k] # "whole"
                       /\ files[k] = "partial" => savers # {} \/ k \in torn
    BY DEF SavedByOne
  <2>1. \A p, o \in savers : p = o  BY OneHolder DEF IInv, At
  <2>2. Cardinality(savers) <= 1
    <3>1. CASE savers = {}  BY <3>1, FS_EmptySet
    <3>2. CASE savers # {}
      <4>1. PICK p \in savers : TRUE  BY <3>2
      <4>2. savers = {p}  BY <2>1, <4>1
      <4>3. Cardinality({p}) = 1  BY FS_Singleton
      <4>. QED  BY <4>2, <4>3
    <3>. QED  BY <3>1, <3>2
  <2>3. savers # {} => files[k] # "whole"  BY DEF IInv, FilesOK
  <2>4. files[k] = "partial" => savers # {} \/ k \in torn  BY DEF IInv, FilesOK
  <2>. QED  BY <2>2, <2>3, <2>4
<1>. QED  BY <1>1, Invariance, PTL

\* A row with has_thumb has a whole thumbnail, unless it was unlinked after it was
\* written or torn by a crash.
THEOREM FlagCorrect == Spec => []FlaggedHasThumb
<1>1. IInv => FlaggedHasThumb  BY DEF IInv
<1>. QED  BY <1>1, Invariance, PTL
=============================================================================

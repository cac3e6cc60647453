--------------------------- MODULE ReportBarrier ---------------------------
(***************************************************************************)
(* GlobalReportAggregator and the part of GpuThread::run that feeds it.    *)
(* Each GPU thread counts the batches it has done; every Interval batches  *)
(* it hands in a snapshot and waits on a condition variable until the last *)
(* thread of the round has printed the combined report.  The printing      *)
(* thread releases the aggregator's mutex while it prints.                 *)
(*                                                                         *)
(* The critical sections of the aggregator's mutex do not block inside, so *)
(* each of them is a step; outputs_mutex is held while a thread waits for  *)
(* gpu_outputs.mutex and is a variable.                                    *)
(***************************************************************************)
EXTENDS Integers, Sequences, FiniteSets

CONSTANTS
    Gpus,       \* the GPU threads; gpu_thread_count is their number
    Interval,   \* PRINT_INTERVAL
    MaxRounds   \* bound: rounds each thread takes part in

ASSUME GpusAssumption == IsFiniteSet(Gpus) /\ Gpus # {}
ASSUME BoundsAssumption == Interval \in Nat \ {0} /\ MaxRounds \in Nat

NoThread == "none"
ASSUME NoThreadAssumption == NoThread \notin Gpus

VARIABLES
    pc,          \* what a GPU thread does next
    i,           \* its loop counter, up to multiples of Interval
    stats,       \* batches in its StageStats since the last reset
    round,       \* snapshots it has handed in (history)
    myGen,       \* my_generation
    asleep,      \* the threads blocked in cv.wait
    snapshots,   \* GlobalReportAggregator::snapshots
    generation,  \* GlobalReportAggregator::generation
    printing,    \* GlobalReportAggregator::printing
    sorted,      \* the copy print_combined works on
    outputsLock, \* the thread that holds outputs_mutex
    sizeOf,      \* the round in which outputs_queue_size was set last
    reports      \* what was printed (history)

vars == <<pc, i, stats, round, myGen, asleep, snapshots, generation, printing, sorted,
          outputsLock, sizeOf, reports>>

Steps == {"batch", "lockSize", "size", "submit", "wait", "copy", "printSize", "finish", "reset"}

Init ==
    /\ pc = [g \in Gpus |-> "batch"]
    /\ i = [g \in Gpus |-> 0]
    /\ stats = [g \in Gpus |-> 0]
    /\ round = [g \in Gpus |-> 0]
    /\ myGen = [g \in Gpus |-> 0]
    /\ asleep = {}
    /\ snapshots = <<>>
    /\ generation = 0
    /\ printing = FALSE
    /\ sorted = <<>>
    /\ outputsLock = NoThread
    /\ sizeOf = 0
    /\ reports = <<>>

Goto(g, step) == pc' = [pc EXCEPT ![g] = step]

\* One batch, added to the statistics; every Interval-th one is followed by a report.
DoBatch(g) ==
    /\ pc[g] = "batch"
    /\ round[g] < MaxRounds
    /\ stats' = [stats EXCEPT ![g] = @ + 1]
    /\ i' = [i EXCEPT ![g] = IF @ + 1 = Interval THEN 0 ELSE @ + 1]
    /\ Goto(g, IF i[g] + 1 = Interval THEN "lockSize" ELSE "batch")
    /\ UNCHANGED <<round, myGen, asleep, snapshots, generation, printing, sorted, outputsLock,
                   sizeOf, reports>>

\* outputs_mutex is taken first, gpu_outputs.mutex second.
LockSize(g) ==
    /\ pc[g] = "lockSize"
    /\ outputsLock = NoThread
    /\ outputsLock' = g
    /\ Goto(g, "size")
    /\ UNCHANGED <<i, stats, round, myGen, asleep, snapshots, generation, printing, sorted,
                   sizeOf, reports>>

\* outputs_queue_size = outputs.queue.size(), and both mutexes are released.
RecordSize(g) ==
    /\ pc[g] = "size"
    /\ sizeOf' = round[g] + 1
    /\ outputsLock' = NoThread
    /\ Goto(g, "submit")
    /\ UNCHANGED <<i, stats, round, myGen, asleep, snapshots, generation, printing, sorted, reports>>

Snapshot(g) == [device |-> g, batches |-> stats[g], round |-> round[g] + 1]

\* Mutant: the round is over one snapshot too early.
SubmitEarly(g) ==
    /\ pc[g] = "submit"
    /\ snapshots' = Append(snapshots, Snapshot(g))
    /\ round' = [round EXCEPT ![g] = @ + 1]
    /\ IF Len(snapshots) + 2 < Cardinality(Gpus)
         THEN /\ myGen' = [myGen EXCEPT ![g] = generation]
              /\ asleep' = asleep \cup {g}
              /\ Goto(g, "wait")
              /\ UNCHANGED printing
         ELSE /\ printing' = TRUE
              /\ Goto(g, "copy")
              /\ UNCHANGED <<myGen, asleep>>
    /\ UNCHANGED <<i, stats, generation, sorted, outputsLock, sizeOf, reports>>

\* submit, up to cv.wait or to the unlock before print_combined.
Submit(g) ==
    /\ pc[g] = "submit"
    /\ snapshots' = Append(snapshots, Snapshot(g))
    /\ round' = [round EXCEPT ![g] = @ + 1]
    /\ IF Len(snapshots) + 1 < Cardinality(Gpus)
         THEN /\ myGen' = [myGen EXCEPT ![g] = generation]
              /\ asleep' = asleep \cup {g}
              /\ Goto(g, "wait")
              /\ UNCHANGED printing
         ELSE /\ printing' = TRUE
              /\ Goto(g, "copy")
              /\ UNCHANGED <<myGen, asleep>>
    /\ UNCHANGED <<i, stats, generation, sorted, outputsLock, sizeOf, reports>>

\* A condition variable may wake a thread without a notification.
WakeSpuriously(g) ==
    /\ g \in asleep
    /\ asleep' = asleep \ {g}
    /\ UNCHANGED <<pc, i, stats, round, myGen, snapshots, generation, printing, sorted,
                   outputsLock, sizeOf, reports>>

\* Mutant: cv.wait without a predicate.
RecheckBlind(g) ==
    /\ pc[g] = "wait"
    /\ g \notin asleep
    /\ IF TRUE
         THEN Goto(g, "reset") /\ UNCHANGED asleep
         ELSE asleep' = asleep \cup {g} /\ UNCHANGED pc
    /\ UNCHANGED <<i, stats, round, myGen, snapshots, generation, printing, sorted, outputsLock,
                   sizeOf, reports>>

\* A woken thread looks at the predicate of cv.wait.
Recheck(g) ==
    /\ pc[g] = "wait"
    /\ g \notin asleep
    /\ IF generation # myGen[g]
         THEN Goto(g, "reset") /\ UNCHANGED asleep
         ELSE asleep' = asleep \cup {g} /\ UNCHANGED pc
    /\ UNCHANGED <<i, stats, round, myGen, snapshots, generation, printing, sorted, outputsLock,
                   sizeOf, reports>>

\* Mutant: the report is printed from an older copy.
CopyNothing(g) ==
    /\ pc[g] = "copy"
    /\ sorted' = sorted
    /\ Goto(g, "printSize")
    /\ UNCHANGED <<i, stats, round, myGen, asleep, snapshots, generation, printing, outputsLock,
                   sizeOf, reports>>

\* print_combined copies the snapshots under the mutex and sums them up.
CopySnapshots(g) ==
    /\ pc[g] = "copy"
    /\ sorted' = snapshots
    /\ Goto(g, "printSize")
    /\ UNCHANGED <<i, stats, round, myGen, asleep, snapshots, generation, printing, outputsLock,
                   sizeOf, reports>>

\* The size of gpu_outputs is read under outputs_mutex and the report is out.
PrintReport(g) ==
    /\ pc[g] = "printSize"
    /\ outputsLock = NoThread
    /\ reports' = Append(reports, [snaps |-> sorted, sizeOf |-> sizeOf])
    /\ Goto(g, "finish")
    /\ UNCHANGED <<i, stats, round, myGen, asleep, snapshots, generation, printing, sorted,
                   outputsLock, sizeOf>>

\* Mutant: notify_all is missing.
FinishQuietly(g) ==
    /\ pc[g] = "finish"
    /\ snapshots' = <<>>
    /\ printing' = FALSE
    /\ generation' = generation + 1
    /\ Goto(g, "reset")
    /\ UNCHANGED <<asleep, i, stats, round, myGen, sorted, outputsLock, sizeOf, reports>>

\* The end of submit: clear, next generation, notify_all.
Finish(g) ==
    /\ pc[g] = "finish"
    /\ snapshots' = <<>>
    /\ printing' = FALSE
    /\ generation' = generation + 1
    /\ asleep' = {}
    /\ Goto(g, "reset")
    /\ UNCHANGED <<i, stats, round, myGen, sorted, outputsLock, sizeOf, reports>>

\* Mutant: the statistics go on after a report.
ResetNothing(g) ==
    /\ pc[g] = "reset"
    /\ stats' = stats
    /\ Goto(g, "batch")
    /\ UNCHANGED <<i, round, myGen, asleep, snapshots, generation, printing, sorted, outputsLock,
                   sizeOf, reports>>

\* Back in GpuThread::run.
ResetStats(g) ==
    /\ pc[g] = "reset"
    /\ stats' = [stats EXCEPT ![g] = 0]
    /\ Goto(g, "batch")
    /\ UNCHANGED <<i, round, myGen, asleep, snapshots, generation, printing, sorted, outputsLock,
                   sizeOf, reports>>

\* Not in the code: all threads have reached the bound on rounds.
Stopped ==
    /\ \A g \in Gpus : pc[g] = "batch" /\ round[g] = MaxRounds
    /\ UNCHANGED vars

Step(g) ==
    \/ DoBatch(g) \/ LockSize(g) \/ RecordSize(g) \/ Submit(g) \/ Recheck(g)
    \/ CopySnapshots(g) \/ PrintReport(g) \/ Finish(g) \/ ResetStats(g)

Next == (\E g \in Gpus : Step(g) \/ WakeSpuriously(g)) \/ Stopped

Spec == Init /\ [][Next]_vars

\* Every thread goes on whenever it can; outputs_mutex is held for an instant
\* every Interval batches, so that a thread that waits for it gets it.
Fairness ==
    \A g \in Gpus :
        /\ WF_vars(DoBatch(g) \/ RecordSize(g) \/ Submit(g) \/ CopySnapshots(g))
        /\ WF_vars(Recheck(g)) /\ WF_vars(Finish(g)) /\ WF_vars(ResetStats(g))
        /\ SF_vars(LockSize(g)) /\ SF_vars(PrintReport(g))

FairSpec == Spec /\ Fairness

-----------------------------------------------------------------------------
(* Properties *)

Snapshots == [device : Gpus, batches : Nat, round : Nat]

TypeOK ==
    /\ pc \in [Gpus -> Steps]
    /\ i \in [Gpus -> 0 .. Interval - 1]
    /\ stats \in [Gpus -> Nat]
    /\ round \in [Gpus -> Nat]
    /\ myGen \in [Gpus -> Nat]
    /\ asleep \subseteq Gpus
    /\ snapshots \in Seq(Snapshots)
    /\ generation \in Nat
    /\ printing \in BOOLEAN
    /\ sorted \in Seq(Snapshots)
    /\ outputsLock \in Gpus \cup {NoThread}
    /\ sizeOf \in Nat
    /\ reports \in Seq([snaps : Seq(Snapshots), sizeOf : Nat])

\* A combined report adds up exactly one snapshot of each GPU, all of the same
\* round, each over Interval batches, so that no batch is counted in two
\* reports or in none; and the queue size it shows was recorded in its round.
ReportsComplete ==
    \A r \in DOMAIN reports :
        LET snaps == reports[r].snaps IN
        /\ Len(snaps) = Cardinality(Gpus)
        /\ \A g \in Gpus : \E n \in DOMAIN snaps :
              snaps[n] = [device |-> g, batches |-> Interval, round |-> r]
        /\ reports[r].sizeOf = r

\* The barrier: no thread is more than one round ahead of any other, and none
\* leaves a round that has not been printed.
NoLapping ==
    \A g \in Gpus :
        /\ round[g] \in {generation, generation + 1}
        /\ round[g] = generation + 1 => pc[g] \in {"wait", "copy", "printSize", "finish"}

(* The inductive invariant of ReportBarrierProofs. *)

PrinterSteps == {"copy", "printSize", "finish"}

\* The threads whose snapshot of the current round is in.
Arrived == {g \in Gpus : round[g] = generation + 1}

\* Where a thread is tells whether it has handed in its snapshot.  A thread
\* that still waits although its round is over finds the generation changed.
PhaseOK ==
    \A g \in Gpus :
        /\ pc[g] = "wait" => \/ g \in Arrived /\ myGen[g] = generation
                             \/ round[g] = generation /\ myGen[g] < generation
        /\ pc[g] \in PrinterSteps => Arrived = Gpus
        /\ pc[g] \notin {"wait"} \cup PrinterSteps => round[g] = generation

OnePrinter ==
    \A g, h \in Gpus : pc[g] \in PrinterSteps /\ pc[h] \in PrinterSteps => g = h

\* One snapshot for each thread that has arrived.
SnapshotsOK ==
    /\ Len(snapshots) = Cardinality(Arrived)
    /\ \A g \in Arrived : \E n \in DOMAIN snapshots :
          snapshots[n] = [device |-> g, batches |-> Interval, round |-> generation + 1]

\* The statistics hold the batches since the last report.
StatsOK ==
    \A g \in Gpus : IF pc[g] = "batch" THEN stats[g] = i[g]
                                       ELSE stats[g] = Interval /\ i[g] = 0

\* The queue size on record is of the current round as soon as one thread of
\* the round has recorded it.
SizeOK ==
    \A g \in Gpus : pc[g] = "submit" \/ g \in Arrived => sizeOf = generation + 1

PrintOK ==
    /\ \A g \in Gpus : pc[g] \in {"printSize", "finish"} => sorted = snapshots
    /\ Len(reports) = IF \E g \in Gpus : pc[g] = "finish" THEN generation + 1 ELSE generation

IInv ==
    /\ TypeOK
    /\ NoLapping
    /\ PhaseOK
    /\ OnePrinter
    /\ SnapshotsOK
    /\ StatsOK
    /\ SizeOK
    /\ PrintOK
    /\ ReportsComplete

\* While the mutex is released for printing, nobody touches the snapshots: the
\* clear at the end drops only what was printed.
PrintedBeforeCleared ==
    [][\A g \in Gpus : Finish(g) => snapshots = sorted /\ Len(reports) = generation + 1]_vars

\* Threads never wait for each other for ever: a submitted snapshot is printed
\* and the thread goes back to its batches.
SubmitReturns == \A g \in Gpus : (pc[g] = "submit") ~> (pc[g] = "batch")

\* The aggregator implements the rounds of ReportRounds.
Rounds == INSTANCE ReportRounds WITH handedIn <- round, printed <- generation
RoundsSpec == Rounds!Spec
=============================================================================

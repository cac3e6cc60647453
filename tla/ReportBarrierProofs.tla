------------------------ MODULE ReportBarrierProofs ------------------------
(***************************************************************************)
(* The combined report is complete, and the aggregator implements the      *)
(* abstract rounds, for any number of GPU threads and any interval.        *)
(***************************************************************************)
EXTENDS ReportBarrier, FiniteSetTheorems, TLAPS

\* Before any batch there is nothing to report.
LEMMA InitInv == Init => IInv
<1>. SUFFICES ASSUME Init PROVE IInv
  OBVIOUS
<1>1. TypeOK
  <2>1. 0 \in 0 .. Interval - 1  BY BoundsAssumption
  <2>2. <<>> \in Seq(Snapshots) /\ <<>> \in Seq([snaps : Seq(Snapshots), sizeOf : Nat])
    OBVIOUS
  <2>3. FALSE \in BOOLEAN  OBVIOUS
  <2>. QED  BY <2>1, <2>2, <2>3 DEF Init, TypeOK, Steps
<1>2. Arrived = {} /\ Cardinality({}) = 0
  BY FS_EmptySet DEF Init, Arrived
<1>3. SnapshotsOK
  BY <1>2 DEF Init, SnapshotsOK
<1>. QED
  BY <1>1, <1>2, <1>3 DEF Init, IInv, NoLapping, PhaseOK, OnePrinter, PrinterSteps, StatsOK, SizeOK,
     PrintOK, ReportsComplete

\* A step that hands in no snapshot and prints no report keeps what is on record.
LEMMA SameRound ==
    ASSUME UNCHANGED <<round, generation>>
    PROVE  Arrived' = Arrived
BY DEF Arrived

\* The counter reaches Interval together with the statistics.
LEMMA BatchInv ==
    ASSUME IInv, NEW g \in Gpus, DoBatch(g)
    PROVE  IInv'
<1>. USE DEF IInv
<1>0. /\ UNCHANGED <<round, myGen, asleep, snapshots, generation, printing, sorted, outputsLock,
                     sizeOf, reports>>
      /\ pc[g] = "batch"
      /\ Arrived' = Arrived
  BY SameRound DEF DoBatch
<1>1. /\ pc' = [pc EXCEPT ![g] = IF i[g] + 1 = Interval THEN "lockSize" ELSE "batch"]
      /\ i' = [i EXCEPT ![g] = IF i[g] + 1 = Interval THEN 0 ELSE i[g] + 1]
      /\ stats' = [stats EXCEPT ![g] = stats[g] + 1]
  BY DEF DoBatch, Goto
<1>2. TypeOK'
  <2>1. i' \in [Gpus -> 0 .. Interval - 1]
    <3>1. i[g] \in 0 .. Interval - 1  BY DEF TypeOK
    <3>2. (IF i[g] + 1 = Interval THEN 0 ELSE i[g] + 1) \in 0 .. Interval - 1
      BY <3>1, BoundsAssumption
    <3>. QED  BY <1>1, <3>2 DEF TypeOK
  <2>2. pc' \in [Gpus -> Steps] /\ stats' \in [Gpus -> Nat]
    BY <1>1 DEF TypeOK, Steps
  <2>. QED  BY <1>0, <2>1, <2>2 DEF TypeOK
<1>3. \A h \in Gpus : pc'[h] = pc[h] \/ (h = g /\ pc'[h] \in {"lockSize", "batch"})
  BY <1>1 DEF TypeOK
<1>4. NoLapping' /\ PhaseOK' /\ OnePrinter'
  BY <1>0, <1>3 DEF NoLapping, PhaseOK, OnePrinter, PrinterSteps
<1>5. StatsOK'
  BY <1>0, <1>1, BoundsAssumption DEF StatsOK, TypeOK
<1>6. SnapshotsOK' /\ SizeOK' /\ PrintOK' /\ ReportsComplete'
  <2>1. (\E h \in Gpus : pc'[h] = "finish") <=> (\E h \in Gpus : pc[h] = "finish")
    BY <1>0, <1>3
  <2>. QED  BY <1>0, <1>3, <2>1 DEF SnapshotsOK, SizeOK, PrintOK, ReportsComplete
<1>. QED  BY <1>2, <1>4, <1>5, <1>6

\* The steps that only take outputs_mutex, wake up or reset.
LEMMA QuietInv ==
    ASSUME IInv, NEW g \in Gpus,
           LockSize(g) \/ WakeSpuriously(g) \/ ResetStats(g) \/ Recheck(g)
    PROVE  IInv'
<1>. USE DEF IInv
<1>0. /\ UNCHANGED <<round, myGen, snapshots, generation, printing, sorted, sizeOf, reports, i>>
      /\ Arrived' = Arrived
  BY SameRound DEF LockSize, WakeSpuriously, ResetStats, Recheck
<1>1. \/ pc' = pc /\ stats' = stats
      \/ pc[g] = "lockSize" /\ pc' = [pc EXCEPT ![g] = "size"] /\ stats' = stats
      \/ /\ pc[g] = "wait" /\ pc' = [pc EXCEPT ![g] = "reset"] /\ stats' = stats
         /\ generation # myGen[g]
      \/ /\ pc[g] = "reset" /\ pc' = [pc EXCEPT ![g] = "batch"]
         /\ stats' = [stats EXCEPT ![g] = 0]
  BY DEF LockSize, WakeSpuriously, ResetStats, Recheck, Goto
<1>2. TypeOK'
  <2>1. asleep' \subseteq Gpus /\ outputsLock' \in Gpus \cup {NoThread}
    BY DEF LockSize, WakeSpuriously, ResetStats, Recheck, TypeOK
  <2>2. pc \in [Gpus -> Steps] /\ stats \in [Gpus -> Nat]
    BY DEF TypeOK
  <2>3. pc' \in [Gpus -> Steps]
    <3>1. {"size", "reset", "batch"} \subseteq Steps  BY DEF Steps
    <3>2. \/ pc' = pc
          \/ \E s \in {"size", "reset", "batch"} : pc' = [pc EXCEPT ![g] = s]
      BY <1>1
    <3>. QED  BY <2>2, <3>1, <3>2
  <2>4. stats' \in [Gpus -> Nat]
    <3>1. stats' = stats \/ stats' = [stats EXCEPT ![g] = 0]  BY <1>1
    <3>. QED  BY <2>2, <3>1
  <2>. QED  BY <1>0, <2>1, <2>3, <2>4 DEF TypeOK
<1>3. \A h \in Gpus : \/ pc'[h] = pc[h]
                      \/ h = g /\ pc[g] = "lockSize" /\ pc'[g] = "size"
                      \/ h = g /\ pc[g] = "reset" /\ pc'[g] = "batch"
                      \/ h = g /\ pc[g] = "wait" /\ pc'[g] = "reset" /\ generation # myGen[g]
  BY <1>1 DEF TypeOK
<1>4. pc[g] = "wait" /\ generation # myGen[g] => round[g] = generation
  BY DEF PhaseOK, Arrived
<1>5. NoLapping'
  <2>1. generation # generation + 1  BY DEF TypeOK
  <2>. QED  BY <1>0, <1>3, <1>4, <2>1 DEF NoLapping
<1>6. PhaseOK' /\ OnePrinter'
  BY <1>0, <1>3, <1>4 DEF PhaseOK, OnePrinter, PrinterSteps
<1>7. StatsOK'
  BY <1>0, <1>1 DEF StatsOK, TypeOK
<1>8. SnapshotsOK' /\ SizeOK' /\ PrintOK' /\ ReportsComplete'
  <2>1. (\E h \in Gpus : pc'[h] = "finish") <=> (\E h \in Gpus : pc[h] = "finish")
    BY <1>3
  <2>. QED  BY <1>0, <1>3, <2>1 DEF SnapshotsOK, SizeOK, PrintOK, ReportsComplete
<1>. QED  BY <1>2, <1>5, <1>6, <1>7, <1>8

\* The recorded size is of the round the thread is about to hand in for.
LEMMA SizeInv ==
    ASSUME IInv, NEW g \in Gpus, RecordSize(g)
    PROVE  IInv'
<1>. USE DEF IInv
<1>0. /\ UNCHANGED <<i, stats, round, myGen, asleep, snapshots, generation, printing, sorted, reports>>
      /\ pc[g] = "size" /\ pc' = [pc EXCEPT ![g] = "submit"]
      /\ sizeOf' = round[g] + 1 /\ outputsLock' = NoThread
      /\ Arrived' = Arrived
  BY SameRound DEF RecordSize, Goto
<1>1. round[g] = generation
  BY <1>0 DEF PhaseOK, PrinterSteps
<1>2. TypeOK'
  BY SMTT(40), <1>0 DEF TypeOK, Steps
<1>3. \A h \in Gpus : pc'[h] = pc[h] \/ (h = g /\ pc'[h] = "submit")
  BY <1>0 DEF TypeOK
<1>4. NoLapping' /\ PhaseOK' /\ OnePrinter'
  BY <1>0, <1>3 DEF NoLapping, PhaseOK, OnePrinter, PrinterSteps
<1>5. StatsOK' /\ SizeOK'
  BY <1>0, <1>1, <1>3 DEF StatsOK, SizeOK
<1>6. SnapshotsOK' /\ PrintOK' /\ ReportsComplete'
  <2>1. (\E h \in Gpus : pc'[h] = "finish") <=> (\E h \in Gpus : pc[h] = "finish")
    BY <1>0, <1>3
  <2>. QED  BY <1>0, <1>3, <2>1 DEF SnapshotsOK, PrintOK, ReportsComplete
<1>. QED  BY <1>2, <1>4, <1>5, <1>6

\* Handing in adds the thread to those that arrived; it is the last one exactly
\* if it is the one that goes on to print.
LEMMA SubmitRound ==
    ASSUME IInv, NEW g \in Gpus, Submit(g)
    PROVE  /\ round[g] = generation
           /\ round' = [round EXCEPT ![g] = generation + 1]
           /\ g \notin Arrived
           /\ Arrived' = Arrived \cup {g}
           /\ Cardinality(Arrived') = Cardinality(Arrived) + 1
           /\ Len(snapshots) + 1 >= Cardinality(Gpus) => Arrived' = Gpus
           /\ \A h \in Gpus : pc[h] \notin PrinterSteps
<1>1. /\ round[g] = generation /\ generation \in Nat
      /\ round \in [Gpus -> Nat] /\ UNCHANGED generation
      /\ round' = [round EXCEPT ![g] = generation + 1]
  <2>1. round[g] = generation
    BY DEF IInv, PhaseOK, PrinterSteps, Submit
  <2>. QED  BY <2>1 DEF IInv, TypeOK, Submit
<1>2. g \notin Arrived /\ Arrived' = Arrived \cup {g} /\ Arrived \subseteq Gpus
  BY <1>1 DEF Arrived
<1>3. /\ IsFiniteSet(Arrived) /\ IsFiniteSet(Arrived')
      /\ Cardinality(Arrived') = Cardinality(Arrived) + 1
  <2>1. IsFiniteSet(Arrived)  BY <1>2, FS_Subset, GpusAssumption
  <2>. QED  BY <1>2, <2>1, FS_AddElement
<1>4. Len(snapshots) + 1 >= Cardinality(Gpus) => Arrived' = Gpus
  <2>1. Len(snapshots) = Cardinality(Arrived)  BY DEF IInv, SnapshotsOK
  <2>2. Arrived' \subseteq Gpus  BY <1>2
  <2>3. /\ Cardinality(Arrived') <= Cardinality(Gpus)
        /\ Cardinality(Arrived') = Cardinality(Gpus) => Arrived' = Gpus
    BY <2>2, FS_Subset, GpusAssumption
  <2>4. Cardinality(Arrived') \in Nat /\ Cardinality(Gpus) \in Nat /\ Cardinality(Arrived) \in Nat
    BY <1>3, FS_CardinalityType, GpusAssumption
  <2>. QED  BY <1>3, <2>1, <2>3, <2>4
<1>5. \A h \in Gpus : pc[h] \notin PrinterSteps
  BY <1>2 DEF IInv, PhaseOK
<1>. QED  BY <1>1, <1>2, <1>3, <1>4, <1>5

\* A snapshot that is handed in is of the current round and over Interval batches.
LEMMA SubmitInv ==
    ASSUME IInv, NEW g \in Gpus, Submit(g)
    PROVE  IInv'
<1>. USE DEF IInv
<1>0. /\ pc[g] = "submit"
      /\ UNCHANGED <<i, stats, generation, sorted, outputsLock, sizeOf, reports>>
      /\ snapshots' = Append(snapshots, Snapshot(g))
  BY DEF Submit
<1>1. /\ round[g] = generation /\ generation \in Nat /\ stats[g] = Interval
      /\ Snapshot(g) = [device |-> g, batches |-> Interval, round |-> generation + 1]
      /\ Snapshot(g) \in Snapshots
  <2>1. round[g] = generation /\ generation \in Nat /\ stats[g] = Interval
    BY <1>0, SubmitRound DEF StatsOK, TypeOK
  <2>. QED  BY <2>1, BoundsAssumption DEF Snapshot, Snapshots
<1>2. /\ \/ /\ pc' = [pc EXCEPT ![g] = "wait"]
            /\ myGen' = [myGen EXCEPT ![g] = generation]
            /\ asleep' = asleep \cup {g} /\ printing' = printing
         \/ /\ pc' = [pc EXCEPT ![g] = "copy"]
            /\ myGen' = myGen /\ asleep' = asleep /\ printing' = TRUE
            /\ Len(snapshots) + 1 >= Cardinality(Gpus)
  <2>1. Len(snapshots) \in Nat /\ Cardinality(Gpus) \in Nat
    BY FS_CardinalityType, GpusAssumption DEF TypeOK
  <2>. QED  BY <2>1 DEF Submit, Goto
<1>3. /\ \A h \in Gpus : h # g => pc'[h] = pc[h] /\ myGen'[h] = myGen[h] /\ round'[h] = round[h]
      /\ round'[g] = generation + 1
      /\ \/ pc'[g] = "wait" /\ myGen'[g] = generation
         \/ pc'[g] = "copy" /\ Arrived' = Gpus
  BY <1>2, SubmitRound DEF TypeOK
<1>4. TypeOK'
  <2>1. pc' \in [Gpus -> Steps] /\ myGen' \in [Gpus -> Nat]
    <3>1. pc \in [Gpus -> Steps] /\ myGen \in [Gpus -> Nat]  BY DEF TypeOK
    <3>2. {"wait", "copy"} \subseteq Steps  BY DEF Steps
    <3>3. \E s \in {"wait", "copy"} : pc' = [pc EXCEPT ![g] = s]  BY <1>2
    <3>4. myGen' = myGen \/ myGen' = [myGen EXCEPT ![g] = generation]  BY <1>2
    <3>5. pc' \in [Gpus -> Steps]  BY <3>1, <3>2, <3>3
    <3>. QED  BY <1>1, <3>1, <3>4, <3>5
  <2>2. round' \in [Gpus -> Nat] /\ snapshots' \in Seq(Snapshots)
    <3>1. round \in [Gpus -> Nat] /\ snapshots \in Seq(Snapshots)  BY DEF TypeOK
    <3>2. round' = [round EXCEPT ![g] = generation + 1]  BY SubmitRound
    <3>3. round' \in [Gpus -> Nat]  BY <1>1, <3>1, <3>2
    <3>4. snapshots' \in Seq(Snapshots)  BY <1>0, <1>1, <3>1
    <3>. QED  BY <3>3, <3>4
  <2>3. asleep' \subseteq Gpus /\ printing' \in BOOLEAN
    BY <1>2 DEF TypeOK
  <2>. QED  BY <1>0, <2>1, <2>2, <2>3 DEF TypeOK
<1>5. NoLapping'
  <2>1. ASSUME NEW h \in Gpus
        PROVE  /\ round'[h] \in {generation, generation + 1}
               /\ round'[h] = generation + 1 => pc'[h] \in {"wait", "copy", "printSize", "finish"}
    BY <1>3 DEF NoLapping
  <2>. QED  BY <1>0, <2>1 DEF NoLapping
<1>6. PhaseOK'
  <2>1. ASSUME NEW h \in Gpus
        PROVE  /\ pc'[h] = "wait" => \/ h \in Arrived' /\ myGen'[h] = generation
                                     \/ round'[h] = generation /\ myGen'[h] < generation
               /\ pc'[h] \in PrinterSteps => Arrived' = Gpus
               /\ pc'[h] \notin {"wait"} \cup PrinterSteps => round'[h] = generation
    <3>1. CASE h = g
      BY <1>3, <3>1, SubmitRound DEF PrinterSteps
    <3>2. CASE h # g
      BY <1>3, <3>2, SubmitRound DEF PhaseOK
    <3>. QED  BY <3>1, <3>2
  <2>. QED  BY <1>0, <2>1 DEF PhaseOK
<1>7. OnePrinter'
  BY <1>3, SubmitRound DEF OnePrinter
<1>8. SnapshotsOK'
  <2>1. /\ Len(snapshots') = Len(snapshots) + 1
        /\ DOMAIN snapshots' = DOMAIN snapshots \cup {Len(snapshots) + 1}
        /\ \A n \in DOMAIN snapshots : snapshots'[n] = snapshots[n]
        /\ snapshots'[Len(snapshots) + 1] = Snapshot(g)
    BY SMTT(40), <1>0, <1>1 DEF TypeOK
  <2>2. Len(snapshots') = Cardinality(Arrived')
    BY <2>1, SubmitRound DEF SnapshotsOK
  <2>3. ASSUME NEW h \in Arrived'
        PROVE  \E n \in DOMAIN snapshots' :
                  snapshots'[n] = [device |-> h, batches |-> Interval, round |-> generation + 1]
    <3>1. CASE h = g  BY <1>1, <2>1, <3>1
    <3>2. CASE h # g
      <4>1. h \in Arrived  BY <3>2, SubmitRound
      <4>2. PICK n \in DOMAIN snapshots :
               snapshots[n] = [device |-> h, batches |-> Interval, round |-> generation + 1]
        BY <4>1 DEF SnapshotsOK
      <4>. QED  BY <2>1, <4>2
    <3>. QED  BY <3>1, <3>2
  <2>. QED  BY <1>0, <2>2, <2>3 DEF SnapshotsOK
<1>9. StatsOK'
  <2>1. i[g] = 0  BY <1>0 DEF StatsOK
  <2>. QED  BY <1>0, <1>1, <1>3, <2>1 DEF StatsOK
<1>10. SizeOK'
  <2>1. sizeOf = generation + 1  BY <1>0 DEF SizeOK
  <2>. QED  BY <1>0, <2>1 DEF SizeOK
<1>11. PrintOK'
  <2>1. \A h \in Gpus : pc'[h] \notin {"printSize", "finish"} /\ pc[h] # "finish"
    BY <1>3, SubmitRound DEF PrinterSteps
  <2>. QED  BY <1>0, <2>1 DEF PrintOK
<1>12. ReportsComplete'
  BY <1>0 DEF ReportsComplete
<1>. QED
  BY <1>4, <1>5, <1>6, <1>7, <1>8, <1>9, <1>10, <1>11, <1>12

\* The printing thread copies the snapshots of a complete round.
LEMMA CopyInv ==
    ASSUME IInv, NEW g \in Gpus, CopySnapshots(g)
    PROVE  IInv'
<1>. USE DEF IInv
<1>0. /\ pc[g] = "copy" /\ pc' = [pc EXCEPT ![g] = "printSize"]
      /\ sorted' = snapshots
      /\ UNCHANGED <<i, stats, round, myGen, asleep, snapshots, generation, printing,
                     outputsLock, sizeOf, reports>>
      /\ Arrived' = Arrived
  BY SameRound DEF CopySnapshots, Goto
<1>1. \A h \in Gpus : pc'[h] = IF h = g THEN "printSize" ELSE pc[h]
  BY <1>0 DEF TypeOK
<1>2. TypeOK'
  BY <1>0 DEF TypeOK, Steps
<1>3. NoLapping' /\ PhaseOK' /\ OnePrinter'
  BY <1>0, <1>1 DEF NoLapping, PhaseOK, OnePrinter, PrinterSteps
<1>4. SnapshotsOK' /\ StatsOK' /\ SizeOK' /\ ReportsComplete'
  BY <1>0, <1>1 DEF SnapshotsOK, StatsOK, SizeOK, ReportsComplete
<1>5. PrintOK'
  <2>1. (\E h \in Gpus : pc'[h] = "finish") <=> (\E h \in Gpus : pc[h] = "finish")
    BY <1>0, <1>1
  <2>. QED  BY <1>0, <1>1, <2>1 DEF PrintOK
<1>. QED  BY <1>2, <1>3, <1>4, <1>5

\* The report that is printed is complete.
LEMMA PrintInv ==
    ASSUME IInv, NEW g \in Gpus, PrintReport(g)
    PROVE  IInv'
<1>. USE DEF IInv
<1>0. /\ pc[g] = "printSize" /\ pc' = [pc EXCEPT ![g] = "finish"]
      /\ reports' = Append(reports, [snaps |-> sorted, sizeOf |-> sizeOf])
      /\ UNCHANGED <<i, stats, round, myGen, asleep, snapshots, generation, printing, sorted,
                     outputsLock, sizeOf>>
      /\ Arrived' = Arrived
  BY SameRound DEF PrintReport, Goto
<1>1. \A h \in Gpus : pc'[h] = IF h = g THEN "finish" ELSE pc[h]
  BY <1>0 DEF TypeOK
<1>2. [snaps |-> sorted, sizeOf |-> sizeOf] \in [snaps : Seq(Snapshots), sizeOf : Nat]
  BY DEF TypeOK
<1>3. TypeOK'
  <2>1. pc' \in [Gpus -> Steps]  BY <1>0 DEF TypeOK, Steps
  <2>2. reports' \in Seq([snaps : Seq(Snapshots), sizeOf : Nat])  BY <1>0, <1>2 DEF TypeOK
  <2>. QED  BY <1>0, <2>1, <2>2 DEF TypeOK
<1>4. NoLapping' /\ PhaseOK' /\ OnePrinter'
  BY <1>0, <1>1 DEF NoLapping, PhaseOK, OnePrinter, PrinterSteps
<1>5. SnapshotsOK' /\ StatsOK' /\ SizeOK'
  BY <1>0, <1>1 DEF SnapshotsOK, StatsOK, SizeOK
<1>6. \A h \in Gpus : pc[h] # "finish"
  BY <1>0 DEF OnePrinter, PrinterSteps
<1>7. /\ Len(reports) = generation
      /\ Len(reports') = generation + 1
      /\ DOMAIN reports' = DOMAIN reports \cup {generation + 1}
      /\ \A r \in DOMAIN reports : reports'[r] = reports[r]
      /\ reports'[generation + 1] = [snaps |-> sorted, sizeOf |-> sizeOf]
  <2>1. Len(reports) = generation  BY <1>6 DEF PrintOK
  <2>2. reports \in Seq([snaps : Seq(Snapshots), sizeOf : Nat])  BY DEF TypeOK
  <2>. QED  BY <1>0, <1>2, <2>1, <2>2
<1>8. PrintOK'
  <2>1. \E h \in Gpus : pc'[h] = "finish"  BY <1>1
  <2>2. sorted = snapshots  BY <1>0 DEF PrintOK
  <2>. QED  BY <1>0, <1>7, <2>1, <2>2 DEF PrintOK
<1>9. ReportsComplete'
  <2>1. /\ Arrived = Gpus /\ sorted = snapshots
    BY <1>0 DEF PhaseOK, PrinterSteps, PrintOK
  <2>2. /\ Len(sorted) = Cardinality(Gpus)
        /\ \A h \in Gpus : \E n \in DOMAIN sorted :
              sorted[n] = [device |-> h, batches |-> Interval, round |-> generation + 1]
    BY <2>1 DEF SnapshotsOK
  <2>3. sizeOf = generation + 1  BY <2>1 DEF SizeOK
  <2>4. ASSUME NEW r \in DOMAIN reports'
        PROVE  /\ Len(reports'[r].snaps) = Cardinality(Gpus)
               /\ \A h \in Gpus : \E n \in DOMAIN reports'[r].snaps :
                     reports'[r].snaps[n] = [device |-> h, batches |-> Interval, round |-> r]
               /\ reports'[r].sizeOf = r
    <3>1. CASE r \in DOMAIN reports
      <4>1. reports'[r] = reports[r]  BY <1>7, <3>1
      <4>. QED  BY <3>1, <4>1 DEF ReportsComplete
    <3>2. CASE r = generation + 1
      <4>1. reports'[r].snaps = sorted /\ reports'[r].sizeOf = sizeOf  BY <1>7, <3>2
      <4>. QED  BY <2>2, <2>3, <3>2, <4>1
    <3>. QED  BY <1>7, <3>1, <3>2
  <2>. QED  BY <2>4 DEF ReportsComplete
<1>. QED  BY <1>3, <1>4, <1>5, <1>8, <1>9

\* The next generation starts with no snapshots and with everybody released.
LEMMA FinishInv ==
    ASSUME IInv, NEW g \in Gpus, Finish(g)
    PROVE  IInv'
<1>. USE DEF IInv
<1>0. /\ pc[g] = "finish" /\ pc' = [pc EXCEPT ![g] = "reset"]
      /\ snapshots' = <<>> /\ printing' = FALSE /\ asleep' = {}
      /\ generation' = generation + 1
      /\ UNCHANGED <<i, stats, round, myGen, sorted, outputsLock, sizeOf, reports>>
  BY DEF Finish, Goto
<1>1. \A h \in Gpus : pc'[h] = IF h = g THEN "reset" ELSE pc[h]
  BY <1>0 DEF TypeOK
<1>2. generation \in Nat  BY DEF TypeOK
<1>3. TypeOK'
  <2>1. pc' \in [Gpus -> Steps]  BY <1>0 DEF TypeOK, Steps
  <2>2. printing' \in BOOLEAN  BY <1>0, Zenon
  <2>3. snapshots' \in Seq(Snapshots)
    <3>1. <<>> \in Seq(Snapshots)  OBVIOUS
    <3>. QED  BY <1>0, <3>1
  <2>4. generation' \in Nat /\ asleep' \subseteq Gpus  BY <1>0, <1>2
  <2>. QED  BY <1>0, <2>1, <2>2, <2>3, <2>4 DEF TypeOK
<1>4. \A h \in Gpus : round[h] = generation + 1
  BY <1>0 DEF PhaseOK, PrinterSteps, Arrived
<1>5. Arrived' = {}
  BY <1>0, <1>2, <1>4 DEF Arrived
<1>6. \A h \in Gpus : h # g => pc[h] = "wait" /\ myGen[h] = generation
  <2>1. \A h \in Gpus : h # g => pc[h] = "wait"
    BY <1>0, <1>4 DEF NoLapping, OnePrinter, PrinterSteps
  <2>. QED  BY <1>2, <1>4, <2>1 DEF PhaseOK
<1>7. NoLapping'
  BY <1>0, <1>2, <1>4 DEF NoLapping
<1>8. PhaseOK' /\ OnePrinter'
  BY <1>0, <1>1, <1>2, <1>4, <1>6 DEF PhaseOK, OnePrinter, PrinterSteps
<1>9. SnapshotsOK'
  <2>1. Cardinality({}) = 0  BY FS_EmptySet
  <2>. QED  BY <1>0, <1>5, <2>1 DEF SnapshotsOK
<1>10. StatsOK'
  BY <1>0, <1>1 DEF StatsOK
<1>11. SizeOK'
  BY <1>1, <1>5, <1>6 DEF SizeOK
<1>12. PrintOK'
  <2>1. \A h \in Gpus : pc'[h] \notin {"printSize", "finish"}  BY <1>1, <1>6
  <2>2. Len(reports) = generation + 1  BY <1>0 DEF PrintOK
  <2>. QED  BY <1>0, <2>1, <2>2 DEF PrintOK
<1>13. ReportsComplete'
  BY <1>0 DEF ReportsComplete
<1>. QED
  BY <1>3, <1>7, <1>8, <1>9, <1>10, <1>11, <1>12, <1>13

\* A step that changes no variable keeps the invariant.
LEMMA StutterInv ==
    ASSUME IInv, UNCHANGED vars PROVE IInv'
<1>0. UNCHANGED <<pc, i, stats, round, myGen, asleep, snapshots, generation, printing, sorted,
                  outputsLock, sizeOf, reports>>
  BY DEF vars
<1>1. Arrived' = Arrived  BY <1>0, SameRound
<1>2. TypeOK'  BY <1>0 DEF IInv, TypeOK
<1>3. NoLapping' /\ PhaseOK' /\ OnePrinter'
  BY <1>0, <1>1 DEF IInv, NoLapping, PhaseOK, OnePrinter
<1>4. SnapshotsOK' /\ StatsOK' /\ SizeOK'
  BY <1>0, <1>1 DEF IInv, SnapshotsOK, StatsOK, SizeOK
<1>5. PrintOK' /\ ReportsComplete'
  BY <1>0 DEF IInv, PrintOK, ReportsComplete
<1>. QED  BY <1>2, <1>3, <1>4, <1>5 DEF IInv

\* Every reachable state satisfies the inductive invariant.
THEOREM Invariance == Spec => []IInv
<1>1. IInv /\ [Next]_vars => IInv'
  BY BatchInv, QuietInv, SizeInv, SubmitInv, CopyInv, PrintInv, FinishInv, StutterInv
     DEF Next, Step, Stopped
<1>. QED  BY InitInv, <1>1, PTL DEF Spec

\* Every combined report is made of one snapshot per GPU, all of its round and
\* over Interval batches, and shows a queue size recorded in its round.
THEOREM ReportsAreComplete == Spec => []ReportsComplete
BY Invariance, PTL DEF IInv

\* No thread starts a round before the one it is in was printed.
THEOREM BarrierHolds == Spec => []NoLapping
BY Invariance, PTL DEF IInv

\* The end of submit clears snapshots that are exactly the printed ones.
THEOREM ClearsWhatWasPrinted == Spec => PrintedBeforeCleared
<1>1. IInv /\ [Next]_vars =>
        [\A g \in Gpus : Finish(g) => snapshots = sorted /\ Len(reports) = generation + 1]_vars
  BY DEF IInv, PrintOK, Finish
<1>. QED  BY Invariance, <1>1, PTL DEF Spec, PrintedBeforeCleared

\* The mutex, the condition variable and the generation counter implement the
\* abstract rounds: submitting is handing in, the end of the printing thread's
\* submit is the end of the round, and everything else is invisible.
THEOREM ImplementsRounds == Spec => RoundsSpec
<1>1. Init => Rounds!Init
  BY DEF Init, Rounds!Init
<1>2. IInv /\ [Next]_vars => [Rounds!Next]_Rounds!vars
  <2>. SUFFICES ASSUME IInv, [Next]_vars PROVE [Rounds!Next]_Rounds!vars
    OBVIOUS
  <2>1. ASSUME NEW g \in Gpus, Submit(g) PROVE Rounds!HandIn(g)
    BY <2>1, SubmitRound DEF Rounds!HandIn, Submit
  <2>2. ASSUME NEW g \in Gpus, Finish(g) PROVE Rounds!PrintRound
    <3>1. \A h \in Gpus : round[h] = generation + 1
      BY <2>2 DEF IInv, PhaseOK, PrinterSteps, Arrived, Finish
    <3>. QED  BY <2>2, <3>1 DEF Rounds!PrintRound, Finish
  <2>3. ASSUME NEW g \in Gpus,
               \/ DoBatch(g) \/ LockSize(g) \/ RecordSize(g) \/ Recheck(g) \/ CopySnapshots(g)
               \/ PrintReport(g) \/ ResetStats(g) \/ WakeSpuriously(g)
        PROVE  UNCHANGED Rounds!vars
    BY <2>3 DEF DoBatch, LockSize, RecordSize, Recheck, CopySnapshots, PrintReport, ResetStats,
       WakeSpuriously, Rounds!vars
  <2>4. CASE Stopped \/ UNCHANGED vars
    BY <2>4 DEF Stopped, vars, Rounds!vars
  <2>. QED  BY <2>1, <2>2, <2>3, <2>4 DEF Next, Step, Rounds!Next
<1>. QED  BY Invariance, <1>1, <1>2, PTL DEF Spec, RoundsSpec, Rounds!Spec
=============================================================================

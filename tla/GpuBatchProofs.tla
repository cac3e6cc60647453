--------------------------- MODULE GpuBatchProofs ---------------------------
(***************************************************************************)
(* The chain of kernels on one device, for any batches, any number of      *)
(* warps, any capacities of the buffers and whatever the filters let       *)
(* through: IInv is an invariant of GpuBatch.  From the seeds on, a step   *)
(* finds candidates of this batch in its input, and unless a buffer was    *)
(* too small, the late kernels have computed the noise it samples.  On top *)
(* of it CountInv counts the candidates: unless one was dropped or torn, a *)
(* buffer holds each as often as the filters before it lead there.         *)
(***************************************************************************)
EXTENDS GpuBatch, Numbers, FiniteSetTheorems, TLAPS

(***************************************************************************)
(* The program                                                             *)
(***************************************************************************)

\* The order of the kernels of a batch.
LEMMA LongProgram ==
    ~Origin => /\ DOMAIN Program = 1 .. 16 /\ Len(Program) = 16
               /\ Program[1] = "seeds" /\ Program[2] = "init" /\ Program[3] = "gradvecs1"
               /\ Program[4] = "filter0a" /\ Program[5] = "gradvecs2" /\ Program[6] = "filter0b"
               /\ Program[7] = "clearFlags" /\ Program[8] = "late1" /\ Program[9] = "filter2a"
               /\ Program[10] = "late2" /\ Program[11] = "filter2b" /\ Program[12] = "late3"
               /\ Program[13] = "filter2c" /\ Program[14] = "late4" /\ Program[15] = "filter2d"
               /\ Program[16] = "collect"
BY DEF Program

\* The same with --origin.
LEMMA ShortProgram ==
    Origin => /\ DOMAIN Program = 1 .. 4 /\ Len(Program) = 4
              /\ Program[1] = "seeds" /\ Program[2] = "initFull" /\ Program[3] = "origin"
              /\ Program[4] = "collect"
BY DEF Program

\* Filter 0B and the end of a batch.
LEMMA LongPlaceOf ==
    ASSUME ~Origin, NEW q \in DOMAIN Program
    PROVE  (Program[q] = "filter0b" => q = 6) /\ (Program[q] = "collect" => q = 16)
<1>1. q \in 1 .. 16  BY LongProgram
<1>. QED  BY <1>1, LongProgram

\* The place of each step.
LEMMA LongPlaces ==
    ASSUME ~Origin, pc \in Nat
    PROVE  /\ At("seeds") <=> pc = 1
           /\ At("init") <=> pc = 2
           /\ At("gradvecs1") <=> pc = 3
           /\ At("filter0a") <=> pc = 4
           /\ At("gradvecs2") <=> pc = 5
           /\ At("filter0b") <=> pc = 6
           /\ At("clearFlags") <=> pc = 7
           /\ At("late1") <=> pc = 8
           /\ At("filter2a") <=> pc = 9
           /\ At("late2") <=> pc = 10
           /\ At("filter2b") <=> pc = 11
           /\ At("late3") <=> pc = 12
           /\ At("filter2c") <=> pc = 13
           /\ At("late4") <=> pc = 14
           /\ At("filter2d") <=> pc = 15
           /\ At("collect") <=> pc = 16
           /\ ~At("initFull") /\ ~At("origin")
<1>1. pc \in 1 .. 16 \/ pc \notin DOMAIN Program  BY LongProgram
<1>2. CASE pc \notin DOMAIN Program
  <2>1. pc \notin 1 .. 16  BY <1>2, LongProgram
  <2>. QED  BY <1>2, <2>1 DEF At
<1>3. CASE pc \in 1 .. 16  BY <1>3, LongProgram DEF At
<1>. QED  BY <1>1, <1>2, <1>3

\* The same with --origin.
LEMMA ShortPlaces ==
    ASSUME Origin, pc \in Nat
    PROVE  /\ At("seeds") <=> pc = 1
           /\ At("initFull") <=> pc = 2
           /\ At("origin") <=> pc = 3
           /\ At("collect") <=> pc = 4
           /\ \A step \in DOMAIN Reads \cup {"init", "gradvecs1"} : ~At(step)
<1>1. pc \in 1 .. 4 \/ pc \notin DOMAIN Program  BY ShortProgram
<1>2. CASE pc \notin DOMAIN Program
  <2>1. pc \notin 1 .. 4  BY <1>2, ShortProgram
  <2>. QED  BY <1>2, <2>1 DEF At
<1>3. CASE pc \in 1 .. 4  BY <1>3, ShortProgram DEF At, Reads
<1>. QED  BY <1>1, <1>2, <1>3

(***************************************************************************)
(* What a kernel reads and writes                                          *)
(***************************************************************************)

\* The settings of a run of the thread.
LEMMA Settings ==
    ASSUME TypeOK
    PROVE  /\ Origin \in BOOLEAN
           /\ Cap \in [{1, 2} -> Nat]
           /\ Batches \in Seq(SUBSET Seeds)
           /\ \A b \in DOMAIN Batches :
                 /\ Batches[b] \subseteq Seeds
                 /\ IsFiniteSet(Batches[b]) /\ Cardinality(Batches[b]) <= SeedsCap
<1>1. setup \in Setups  BY DEF TypeOK
<1>2. /\ Origin \in BOOLEAN /\ Cap \in [{1, 2} -> Nat] /\ Batches \in Seq(SUBSET Seeds)
  BY <1>1, SetupsAssumption DEF Origin, Cap, Batches
<1>3. \A b \in DOMAIN Batches : IsFiniteSet(Batches[b]) /\ Cardinality(Batches[b]) <= SeedsCap
  BY <1>1, SeedsFit DEF Batches, Range
<1>4. \A b \in DOMAIN Batches : Batches[b] \subseteq Seeds  BY <1>2
<1>. QED  BY <1>2, <1>3, <1>4

\* A filter writes one of the two buffers.
LEMMA Buffers ==
    ASSUME TypeOK, NEW f \in Filters
    PROVE  /\ OutBuf[f] \in {1, 2} /\ Cap[OutBuf[f]] \in Nat /\ lens[f] \in Nat
           /\ mem[OutBuf[f]] \in Seq(Items) /\ Len(mem[OutBuf[f]]) <= Cap[OutBuf[f]]
<1>1. OutBuf[f] \in {1, 2}  BY DEF OutBuf
<1>. QED  BY <1>1, Settings DEF TypeOK

\* A place of the tables belongs to a seed of the batch only if it is in them.
LEMMA SeedPlaces == ASSUME TypeOK PROVE SeedIdx \subseteq Index /\ Junk \subseteq Items
<1>1. SeedIdx \subseteq Index  BY SetupsAssumption DEF TypeOK, SeedIdx, Index
<1>. QED  BY <1>1 DEF Junk, Items

\* There are finitely many candidates.
LEMMA ItemsFinite == IsFiniteSet(Items)
<1>1. IsFiniteSet(Index)
  <2>1. 1 \in Int /\ SeedsCap \in Int  BY SetupsAssumption
  <2>. QED  BY <2>1, FS_Interval DEF Index
<1>2. IsFiniteSet(Index \X Positions)  BY <1>1, EmitAssumption, FS_Product
<1>. DEFINE g == [t \in Index \X Positions |-> [idx |-> t[1], at |-> t[2]]]
<1>3. g \in Surjection(Index \X Positions, Items)
  <2>1. g \in [Index \X Positions -> Items]  BY DEF Items
  <2>2. ASSUME NEW c \in Items PROVE \E t \in Index \X Positions : g[t] = c
    <3>1. <<c.idx, c.at>> \in Index \X Positions /\ c = [idx |-> c.idx, at |-> c.at]  BY DEF Items
    <3>2. g[<<c.idx, c.at>>] = [idx |-> c.idx, at |-> c.at]  BY <3>1
    <3>. QED  BY <3>1, <3>2
  <2>. QED  BY <2>1, <2>2 DEF Surjection
<1>. HIDE DEF g
<1>. QED  BY <1>2, <1>3, FS_Surjection

\* An enumeration of a finite set.
LEMMA SeqsAre ==
    ASSUME NEW E, IsFiniteSet(E), NEW s \in SetToSeqs(E)
    PROVE  \E m \in Nat : /\ m = Cardinality(E) /\ Len(s) = m /\ s \in [1 .. m -> E]
                          /\ \A a, b \in 1 .. m : s[a] = s[b] => a = b
                          /\ \A e \in E : \E k \in 1 .. m : s[k] = e
<1>1. PICK m \in Nat : m = Cardinality(E)  BY FS_CardinalityType
<1>2. s \in [1 .. m -> E] /\ \A a, b \in 1 .. m : a # b => s[a] # s[b]  BY <1>1 DEF SetToSeqs
<1>3. Len(s) = m  BY <1>1, <1>2
<1>4. s \in Injection(1 .. m, E)  BY <1>2 DEF Injection, IsInjective
<1>5. 1 \in Int /\ m \in Int /\ (1 > m => m = 0)  BY <1>1
<1>6. Cardinality(1 .. m) = m  BY <1>5, FS_Interval
<1>7. s \in Surjection(1 .. m, E)  BY <1>1, <1>4, <1>6, FS_Injection
<1>. QED  BY <1>1, <1>2, <1>3, <1>7 DEF Surjection

\* A place a filter moves a candidate to is a place.
LEMMA Emits == \A f \in Filters, s \in Seeds, p \in Positions : Emit[f][s][p] \subseteq Positions
BY EmitAssumption

\* A filter emits finitely many candidates, of the seeds of its inputs.
LEMMA EmissionsFinite ==
    ASSUME TypeOK, \A k \in SeedIdx : seeds[k] \in Seeds,
           NEW f \in Filters, NEW in \in Seq(Junk)
    PROVE  /\ IsFiniteSet(Emissions(f, in))
           /\ \A e \in Emissions(f, in) : /\ e \in (1 .. Len(in)) \X Items
                                          /\ \E m \in DOMAIN in : e[2].idx = in[m].idx
<1>. DEFINE E == Emissions(f, in)
<1>1. ASSUME NEW e \in E
      PROVE  /\ e \in (1 .. Len(in)) \X Items
             /\ \E m \in DOMAIN in : e[2].idx = in[m].idx
  <2>0. PICK m \in DOMAIN in : e \in {<<m, i>> : i \in Emitted(f, in[m])}  BY DEF Emissions
  <2>1. PICK i \in Emitted(f, in[m]) : e = <<m, i>>  BY <2>0
  <2>2. in[m] \in Junk /\ m \in 1 .. Len(in)  OBVIOUS
  <2>3. in[m].idx \in SeedIdx /\ in[m].at \in Positions  BY <2>2 DEF Junk
  <2>4. PICK p \in Emit[f][seeds[in[m].idx]][in[m].at] : i = [idx |-> in[m].idx, at |-> p]
    BY DEF Emitted
  <2>5. p \in Positions /\ in[m].idx \in Index  BY <2>3, SeedPlaces, Emits
  <2>6. i \in Items /\ i.idx = in[m].idx  BY <2>4, <2>5 DEF Items
  <2>. QED  BY <2>1, <2>2, <2>6
<1>2. IsFiniteSet(E)
  <2>1. Len(in) \in Int /\ 1 \in Int  OBVIOUS
  <2>2. IsFiniteSet(1 .. Len(in))  BY <2>1, FS_Interval
  <2>3. IsFiniteSet((1 .. Len(in)) \X Items)  BY <2>2, ItemsFinite, FS_Product
  <2>4. E \in SUBSET ((1 .. Len(in)) \X Items)  BY <1>1
  <2>. QED  BY <2>3, <2>4, FS_Subset
<1>. QED  BY <1>1, <1>2

\* What a filter emits, in whatever order: candidates of seeds of its input.
LEMMA EmissionsType ==
    ASSUME TypeOK, \A k \in SeedIdx : seeds[k] \in Seeds,
           NEW f \in Filters, NEW in \in Seq(Junk), NEW s \in SetToSeqs(Emissions(f, in))
    PROVE  /\ DOMAIN s = 1 .. Len(s) /\ Len(s) \in Nat
           /\ \A n \in 1 .. Len(s) :
                 /\ s[n][2] \in Items
                 /\ \E m \in DOMAIN in : s[n][2].idx = in[m].idx
<1>. DEFINE E == Emissions(f, in)
<1>1. /\ IsFiniteSet(E)
      /\ \A e \in E : e \in (1 .. Len(in)) \X Items /\ \E m \in DOMAIN in : e[2].idx = in[m].idx
  BY EmissionsFinite
<1>. HIDE DEF E
<1>2. PICK m \in Nat : Len(s) = m /\ s \in [1 .. m -> E]  BY <1>1, SeqsAre DEF E
<1>3. \A n \in 1 .. m : s[n] \in E  BY <1>2
<1>. QED  BY <1>1, <1>2, <1>3

\* What a kernel finds in the output of f: candidates of the batch, and if
\* nothing was dropped, just those that f has left.
LEMMA OutputsType ==
    ASSUME TypeOK, NEW f \in Filters, NEW parts \in Nat, SourceOK(f, parts),
           NEW in \in OutputsOf(f)
    PROVE  /\ in \in Seq(Junk)
           /\ ~overflow => \A n \in DOMAIN in : flags[in[n].idx] >= parts
           /\ ~overflow => /\ DOMAIN in = 1 .. lens[f]
                           /\ \A n \in 1 .. lens[f] : in[n] = mem[OutBuf[f]][n]
<1>. DEFINE buffer == mem[OutBuf[f]]
            kept == SubSeq(buffer, 1, Smaller(lens[f], Cap[OutBuf[f]]))
<1>1. /\ buffer \in Seq(Items) /\ lens[f] \in Nat /\ Cap[OutBuf[f]] \in Nat  BY Buffers
<1>2. PICK k \in Nat : k = Smaller(lens[f], Cap[OutBuf[f]]) /\ k <= lens[f]
  BY <1>1 DEF Smaller
<1>3. \A n \in 1 .. k : n \in DOMAIN buffer /\ buffer[n].idx \in SeedIdx
  BY <1>2 DEF SourceOK, InBuffer
<1>4. k <= Len(buffer)
  <2>1. CASE k = 0  BY <1>1, <2>1
  <2>2. CASE k > 0  BY <1>1, <1>3, <2>2
  <2>. QED  BY <1>2, <2>1, <2>2
<1>. HIDE DEF buffer
<1>5. /\ kept \in Seq(Items) /\ Len(kept) = k
      /\ \A n \in 1 .. k : kept[n] = buffer[n]
  BY <1>1, <1>2, <1>4
<1>6. PICK junk \in [1 .. lens[f] - k -> Junk] : in = kept \o junk
  BY <1>5 DEF OutputsOf, buffer
<1>. HIDE DEF kept
<1>7. \A n \in 1 .. k : kept[n] \in Junk
  <2>1. SUFFICES ASSUME NEW n \in 1 .. k PROVE kept[n] \in Junk  OBVIOUS
  <2>2. kept[n] \in Items /\ kept[n].idx \in SeedIdx  BY <1>3, <1>5
  <2>. QED  BY <2>2 DEF Items, Junk
<1>8. kept \in Seq(Junk)  BY <1>5, <1>7
<1>9. junk \in Seq(Junk) /\ Len(junk) = lens[f] - k
  <2>1. lens[f] - k \in Nat  BY <1>1, <1>2
  <2>. QED  BY <2>1
<1>10. in \in Seq(Junk)  BY <1>6, <1>8, <1>9
<1>11. ASSUME ~overflow
       PROVE  /\ \A n \in DOMAIN in : flags[in[n].idx] >= parts
              /\ DOMAIN in = 1 .. lens[f] /\ \A n \in 1 .. lens[f] : in[n] = buffer[n]
  <2>1. lens[f] <= Cap[OutBuf[f]]  BY <1>11 DEF SourceOK
  <2>2. k = lens[f]  BY <1>1, <1>2, <2>1 DEF Smaller
  <2>3. DOMAIN in = 1 .. k /\ \A n \in 1 .. k : in[n] = kept[n]
    BY <1>1, <1>2, <1>5, <1>6, <1>8, <1>9, <2>2
  <2>4. \A n \in 1 .. k : flags[buffer[n].idx] >= parts
    BY <1>2, <1>11 DEF SourceOK, InBuffer, buffer
  <2>. QED  BY <1>5, <2>2, <2>3, <2>4
<1>. QED  BY <1>10, <1>11 DEF buffer

\* How much of its seeds' noise is there when a filter runs.
InputParts(f) == IF f \in {"gradvecs1", "origin"} THEN 0 ELSE Computed[f]

\* The seeds in the table, once filter_seeds has run.
LEMMA SeedsType == ASSUME IInv, pc > 1 PROVE \A k \in SeedIdx : seeds[k] \in Seeds
<1>1. batch \in DOMAIN Batches /\ \A k \in SeedIdx : seeds[k] \in Batches[batch]
  BY DEF IInv, NoiseOK
<1>2. Batches[batch] \subseteq Seeds  BY <1>1, Settings DEF IInv
<1>. QED  BY <1>1, <1>2

\* When each filter runs.
LEMMA FilterPlaces ==
    ASSUME TypeOK, NEW f \in Filters, At(f)
    PROVE  /\ pc \in Nat /\ pc > 2
           /\ f = "origin" => Origin /\ pc = 3
           /\ f # "origin" => ~Origin
           /\ f = "gradvecs1" => pc = 3
           /\ f = "filter0a" => pc = 4
           /\ f = "gradvecs2" => pc = 5
           /\ f = "filter0b" => pc = 6
           /\ f = "filter2a" => pc = 9
           /\ f = "filter2b" => pc = 11
           /\ f = "filter2c" => pc = 13
           /\ f = "filter2d" => pc = 15
<1>1. pc \in Nat  BY DEF TypeOK
<1>2. CASE Origin
  <2>1. f = "origin"  BY <1>1, <1>2, ShortPlaces DEF Filters, Reads
  <2>. QED  BY <1>1, <1>2, <2>1, ShortPlaces
<1>3. CASE ~Origin
  <2>1. f # "origin"  BY <1>1, <1>3, LongPlaces
  <2>. QED  BY <1>1, <1>3, <2>1, LongPlaces DEF Filters
<1>. QED  BY <1>2, <1>3

\* The candidates a filter gets are of seeds of the batch, and unless something
\* was dropped, the noise it samples is that of these seeds.
LEMMA InputsType ==
    ASSUME IInv, NEW f \in Filters \ {"filter0b"}, At(f), NEW in \in Inputs(f)
    PROVE  /\ in \in Seq(Junk)
           /\ ~overflow => \A n \in DOMAIN in :
                              ~Stale(f, in[n]) /\ flags[in[n].idx] >= InputParts(f)
<1>0. TypeOK /\ SourcesOK /\ NoiseOK  BY DEF IInv
<1>1. pc \in Nat /\ pc > 2  BY <1>0, FilterPlaces
<1>2. CASE f \in {"gradvecs1", "origin"}
  <2>1. in = [k \in SeedIdx |-> [idx |-> k, at |-> 0]]  BY <1>2 DEF Inputs
  <2>2. seedsLen \in Nat  BY <1>0, SetupsAssumption DEF TypeOK
  <2>3. \A k \in SeedIdx : [idx |-> k, at |-> 0] \in Junk  BY EmitAssumption DEF Junk
  <2>4. in \in Seq(Junk) /\ DOMAIN in = SeedIdx /\ \A k \in SeedIdx : in[k].idx = k
    BY <2>1, <2>2, <2>3 DEF SeedIdx
  <2>5. \A k \in SeedIdx : flags[k] \in Nat
    BY <1>0, SeedPlaces DEF TypeOK, Parts
  <2>6. ASSUME NEW n \in DOMAIN in PROVE ~Stale(f, in[n]) /\ flags[in[n].idx] >= InputParts(f)
    <3>1. n \in SeedIdx /\ in[n].idx = n  BY <2>4
    <3>2. CASE f = "gradvecs1"
      <4>1. Needs[f] = {0}  BY <3>2 DEF Needs, Filters
      <4>. QED  BY <1>0, <1>1, <1>2, <2>5, <3>1, <4>1 DEF Stale, NoiseOK, InputParts
    <3>3. CASE f = "origin"
      <4>1. Origin  BY <1>0, <3>3, FilterPlaces
      <4>2. Needs[f] = Parts  BY <3>3 DEF Needs, Filters, Parts
      <4>. QED  BY <1>0, <1>1, <1>2, <2>5, <3>1, <4>1, <4>2 DEF Stale, NoiseOK, InputParts
    <3>. QED  BY <1>2, <3>2, <3>3
  <2>. QED  BY <2>4, <2>6
<1>3. CASE f \notin {"gradvecs1", "origin"}
  <2>1. f \in DOMAIN Reads /\ f \in DOMAIN Source /\ Reads[f] = Source[f] /\ Source[f] \in Filters
    BY <1>3 DEF Filters, Reads, Source
  <2>2. Computed[f] \in Nat /\ InputParts(f) = Computed[f]
    BY <1>3 DEF Filters, Computed, InputParts
  <2>3. in \in OutputsOf(Source[f]) /\ SourceOK(Source[f], Computed[f])
    BY <1>0, <1>3, <2>1 DEF Inputs, SourcesOK
  <2>4. /\ in \in Seq(Junk)
        /\ ~overflow => \A n \in DOMAIN in : flags[in[n].idx] >= Computed[f]
    BY <1>0, <2>1, <2>2, <2>3, OutputsType
  <2>5. ASSUME ~overflow, NEW n \in DOMAIN in PROVE ~Stale(f, in[n])
    <3>1. in[n] \in Junk  BY <2>4
    <3>2. in[n].idx \in SeedIdx /\ flags[in[n].idx] \in Nat
      <4>1. in[n].idx \in SeedIdx  BY <3>1 DEF Junk
      <4>2. flags \in [Index -> Parts]  BY <1>0 DEF TypeOK
      <4>3. flags[in[n].idx] \in Parts  BY <1>0, <4>1, <4>2, SeedPlaces
      <4>. QED  BY <4>1, <4>3 DEF Parts
    <3>3. flags[in[n].idx] >= Computed[f]  BY <2>4, <2>5
    <3>4. noise[in[n].idx][0] = seeds[in[n].idx]  BY <1>0, <1>1, <3>2 DEF NoiseOK
    <3>5. CASE f \in {"filter0a", "gradvecs2"}
      <4>1. Needs[f] = {0}  BY <3>5 DEF Needs, Filters
      <4>. QED  BY <3>4, <4>1 DEF Stale
    <3>6. CASE f \in {"filter2a", "filter2b", "filter2c", "filter2d"}
      <4>1. Needs[f] = 0 .. Computed[f]
        <5>1. CASE f = "filter2a"  BY <5>1 DEF Needs, Filters, Computed
        <5>2. CASE f = "filter2b"  BY <5>2 DEF Needs, Filters, Computed
        <5>3. CASE f = "filter2c"  BY <5>3 DEF Needs, Filters, Computed
        <5>4. CASE f = "filter2d"  BY <5>4 DEF Needs, Filters, Computed
        <5>. QED  BY <3>6, <5>1, <5>2, <5>3, <5>4
      <4>2. pc > 7 /\ ~Origin  BY <1>0, <3>6, FilterPlaces
      <4>3. \A p \in 1 .. flags[in[n].idx] : noise[in[n].idx][p] = seeds[in[n].idx]
        BY <1>0, <3>2, <4>2 DEF NoiseOK
      <4>4. \A p \in 0 .. Computed[f] : p = 0 \/ p \in 1 .. flags[in[n].idx]
        BY <2>2, <3>2, <3>3
      <4>. QED  BY <3>4, <4>1, <4>3, <4>4 DEF Stale
    <3>. QED  BY <1>3, <3>5, <3>6 DEF Filters
  <2>. QED  BY <2>2, <2>4, <2>5
<1>. QED  BY <1>2, <1>3

\* A buffer after a kernel has written its front.
LEMMA OverwriteType ==
    ASSUME NEW s \in Seq(Items), NEW t \in Seq(Items), NEW cap \in Nat, Len(s) <= cap, Len(t) <= cap
    PROVE  /\ Overwrite(s, t) \in Seq(Items) /\ Len(Overwrite(s, t)) <= cap
           /\ \A n \in 1 .. Len(t) : n \in DOMAIN Overwrite(s, t) /\ Overwrite(s, t)[n] = t[n]
<1>. DEFINE r == SubSeq(s, Len(t) + 1, Len(s))
<1>1. r \in Seq(Items) /\ Len(r) = IF Len(t) < Len(s) THEN Len(s) - Len(t) ELSE 0  OBVIOUS
<1>. HIDE DEF r
<1>2. /\ t \o r \in Seq(Items) /\ Len(t \o r) = Len(t) + Len(r)
      /\ \A n \in 1 .. Len(t) : n \in DOMAIN (t \o r) /\ (t \o r)[n] = t[n]
  BY <1>1
<1>3. Len(t) + Len(r) <= cap  BY <1>1
<1>. QED  BY <1>2, <1>3 DEF Overwrite, r

\* What a filter with separate input and output memory does to the device.
LEMMA FilterWrites ==
    ASSUME IInv, NEW f \in Filters \ {"filter0b"}, RunFilter(f)
    PROVE  /\ mem' \in [{1, 2} -> Seq(Items)] /\ \A n \in {1, 2} : Len(mem'[n]) <= Cap[n]
           /\ lens' \in [Filters -> Nat] /\ \A g \in Filters \ {f} : lens'[g] = lens[g]
           /\ \A n \in 1 .. Smaller(lens'[f], Cap[OutBuf[f]]) :
                 /\ n \in DOMAIN mem'[OutBuf[f]] /\ mem'[OutBuf[f]][n].idx \in SeedIdx
                 /\ ~overflow => flags[mem'[OutBuf[f]][n].idx] >= InputParts(f)
           /\ stale' \in BOOLEAN /\ overflow' \in BOOLEAN
           /\ ~overflow' => ~overflow /\ lens'[f] <= Cap[OutBuf[f]]
           /\ ~overflow /\ ~stale => ~stale'
<1>0. TypeOK /\ At(f)  BY DEF IInv, RunFilter
<1>. DEFINE b == OutBuf[f]
<1>a. PICK in \in Inputs(f) : \E s \in SetToSeqs(Emissions(f, in)) :
         LET out == [n \in 1 .. Smaller(Len(s), Cap[b]) |-> s[n][2]] IN
         /\ mem' = [mem EXCEPT ![b] = Overwrite(@, out)]
         /\ lens' = [lens EXCEPT ![f] = Len(s)]
         /\ overflow' = (overflow \/ Len(s) > Cap[b])
         /\ stale' = (stale \/ \E n \in DOMAIN in : Stale(f, in[n]))
  BY DEF RunFilter
<1>1. PICK s \in SetToSeqs(Emissions(f, in)) :
         LET out == [n \in 1 .. Smaller(Len(s), Cap[b]) |-> s[n][2]] IN
         /\ mem' = [mem EXCEPT ![b] = Overwrite(@, out)]
         /\ lens' = [lens EXCEPT ![f] = Len(s)]
         /\ overflow' = (overflow \/ Len(s) > Cap[b])
         /\ stale' = (stale \/ \E n \in DOMAIN in : Stale(f, in[n]))
  BY <1>a
<1>2. /\ in \in Seq(Junk)
      /\ ~overflow => \A n \in DOMAIN in :
                         ~Stale(f, in[n]) /\ flags[in[n].idx] >= InputParts(f)
  BY <1>0, InputsType
<1>3. \A k \in SeedIdx : seeds[k] \in Seeds
  <2>1. pc > 1  BY <1>0, FilterPlaces
  <2>. QED  BY <2>1, SeedsType
<1>4. /\ Len(s) \in Nat
      /\ \A n \in 1 .. Len(s) : /\ s[n][2] \in Items
                                /\ \E m \in DOMAIN in : s[n][2].idx = in[m].idx
  BY <1>0, <1>2, <1>3, EmissionsType
<1>5. /\ b \in {1, 2} /\ Cap[b] \in Nat /\ mem[b] \in Seq(Items) /\ Len(mem[b]) <= Cap[b]
  BY <1>0, Buffers
<1>6. PICK k \in Nat : k = Smaller(Len(s), Cap[b]) /\ k <= Len(s) /\ k <= Cap[b]
  BY <1>4, <1>5 DEF Smaller
<1>. DEFINE out == [n \in 1 .. k |-> s[n][2]]
<1>7. out \in Seq(Items) /\ Len(out) = k /\ \A n \in 1 .. k : out[n] = s[n][2]
  BY <1>4, <1>6
<1>. HIDE DEF out, b
<1>8. /\ Overwrite(mem[b], out) \in Seq(Items) /\ Len(Overwrite(mem[b], out)) <= Cap[b]
      /\ \A n \in 1 .. k : /\ n \in DOMAIN Overwrite(mem[b], out)
                           /\ Overwrite(mem[b], out)[n] = out[n]
  BY <1>5, <1>6, <1>7, OverwriteType
<1>9. mem \in [{1, 2} -> Seq(Items)] /\ \A n \in {1, 2} : Len(mem[n]) <= Cap[n]
  BY <1>0 DEF TypeOK
<1>10. mem' = [mem EXCEPT ![b] = Overwrite(mem[b], out)]  BY <1>1, <1>6, <1>9 DEF out
<1>11. mem'[b] = Overwrite(mem[b], out)  BY <1>5, <1>9, <1>10
<1>12. mem' \in [{1, 2} -> Seq(Items)] /\ \A n \in {1, 2} : Len(mem'[n]) <= Cap[n]
  <2>1. mem' \in [{1, 2} -> Seq(Items)]  BY <1>5, <1>8, <1>9, <1>10
  <2>2. \A n \in {1, 2} : n # b => mem'[n] = mem[n]  BY <1>9, <1>10
  <2>. QED  BY <1>8, <1>9, <1>11, <2>1, <2>2
<1>13. lens' \in [Filters -> Nat] /\ lens'[f] = Len(s) /\ \A g \in Filters \ {f} : lens'[g] = lens[g]
  <2>1. lens \in [Filters -> Nat]  BY <1>0 DEF TypeOK
  <2>. QED  BY <1>1, <1>4, <2>1
<1>14. ASSUME NEW n \in 1 .. k
       PROVE  /\ n \in DOMAIN mem'[b] /\ mem'[b][n].idx \in SeedIdx
              /\ ~overflow => flags[mem'[b][n].idx] >= InputParts(f)
  <2>1. n \in 1 .. Len(s)  BY <1>4, <1>6
  <2>2. PICK m \in DOMAIN in : s[n][2].idx = in[m].idx  BY <1>4, <2>1
  <2>3. mem'[b][n] = s[n][2] /\ n \in DOMAIN mem'[b]  BY <1>7, <1>8, <1>11
  <2>4. in[m].idx \in SeedIdx
    <3>1. in[m] \in Junk  BY <1>2
    <3>. QED  BY <3>1 DEF Junk
  <2>. QED  BY <1>2, <2>2, <2>3, <2>4
<1>15. stale \in BOOLEAN /\ overflow \in BOOLEAN  BY <1>0 DEF TypeOK
<1>16. stale' \in BOOLEAN /\ (~overflow /\ ~stale => ~stale')  BY <1>1, <1>2, <1>15
<1>17. overflow' \in BOOLEAN
  <2>1. overflow' = (overflow \/ Len(s) > Cap[b])  BY <1>1 DEF b
  <2>2. (Len(s) > Cap[b]) \in BOOLEAN  BY <1>4, <1>5
  <2>. QED  BY <1>15, <2>1, <2>2
<1>18. ~overflow' => ~overflow /\ lens'[f] <= Cap[b]
  <2>1. ~overflow' => ~overflow /\ ~(Len(s) > Cap[b])  BY <1>1 DEF b
  <2>2. ~(Len(s) > Cap[b]) => Len(s) <= Cap[b]  BY <1>4, <1>5
  <2>. QED  BY <1>13, <2>1, <2>2
<1>. QED  BY <1>6, <1>12, <1>13, <1>14, <1>16, <1>17, <1>18 DEF b

(***************************************************************************)
(* Steps                                                                   *)
(***************************************************************************)

\* The settings of a run do not change.
LEMMA SameSettings ==
    ASSUME setup' = setup
    PROVE  /\ Origin' = Origin /\ Cap' = Cap /\ Batches' = Batches
           /\ Program' = Program /\ Final' = Final
BY DEF Origin, Cap, Batches, Program, Final

\* Where the stream is after a step.
LEMMA NextPlace ==
    ASSUME setup' = setup, NEW step
    PROVE  At(step)' <=> pc' \in DOMAIN Program /\ Program[pc'] = step
BY SameSettings DEF At

\* The program has a length, and a step is in it.
LEMMA ProgramLength ==
    ASSUME TypeOK
    PROVE  /\ Len(Program) \in {4, 16} /\ DOMAIN Program = 1 .. Len(Program)
           /\ \A step : At(step) => pc \in 1 .. Len(Program)
<1>1. Len(Program) \in {4, 16} /\ DOMAIN Program = 1 .. Len(Program)
  BY Settings, LongProgram, ShortProgram
<1>. QED  BY <1>1 DEF At

\* Inputs of filter 0B can be counted.
LEMMA CountedFinite ==
    ASSUME NEW n \in Nat
    PROVE  \A S \in SUBSET (1 .. n) :
               IsFiniteSet(S) /\ Cardinality(S) \in Nat /\ Cardinality(S) <= n
<1>1. 1 \in Int /\ n \in Int  OBVIOUS
<1>2. IsFiniteSet(1 .. n) /\ Cardinality(1 .. n) = IF 1 > n THEN 0 ELSE n - 1 + 1
  BY <1>1, FS_Interval
<1>3. Cardinality(1 .. n) = n  BY <1>2
<1>. QED  BY <1>2, <1>3, FS_Subset, FS_CardinalityType

\* The step after a filter reads what the filter wrote.
LEMMA FilterNext ==
    ASSUME TypeOK, NEW f \in Filters \ {"filter0b"}, At(f), pc' = pc + 1, setup' = setup
    PROVE  /\ \A step \in DOMAIN Reads :
                 At(step)' => Reads[step] = f /\ Computed[step] = InputParts(f)
           /\ At("collect")' => Final = f
           /\ At("filter0b")' => f = "gradvecs2"
<1>1. pc \in 1 .. Len(Program) /\ Len(Program) \in {4, 16} /\ DOMAIN Program = 1 .. Len(Program)
  BY ProgramLength
<1>2. ASSUME NEW step \in DOMAIN Reads, At(step)'
      PROVE  Reads[step] = f /\ Computed[step] = InputParts(f)
  <2>1. pc + 1 \in DOMAIN Program /\ Program[pc + 1] = step  BY <1>2, NextPlace
  <2>2. CASE Origin
    <3>1. pc = 3  BY <2>2, FilterPlaces
    <3>. QED  BY <1>2, <2>1, <2>2, <3>1, ShortProgram DEF Reads
  <2>3. CASE ~Origin
    <3>1. CASE f \in {"gradvecs1", "filter0a", "gradvecs2"}
      BY <2>1, <2>3, <3>1, FilterPlaces, LongProgram DEF Reads, Computed, InputParts
    <3>2. CASE f \in {"filter2a", "filter2b", "filter2c"}
      BY <2>1, <2>3, <3>2, FilterPlaces, LongProgram DEF Reads, Computed, InputParts
    <3>3. CASE f = "filter2d"
      BY <1>2, <2>1, <2>3, <3>3, FilterPlaces, LongProgram DEF Reads
    <3>4. f # "origin"  BY <2>3, FilterPlaces
    <3>. QED  BY <3>1, <3>2, <3>3, <3>4 DEF Filters
  <2>. QED  BY <2>2, <2>3
<1>3. ASSUME At("collect")' PROVE Final = f
  <2>1. pc + 1 \in DOMAIN Program /\ Program[pc + 1] = "collect"  BY <1>3, NextPlace
  <2>2. CASE Origin  BY <2>2, FilterPlaces DEF Final
  <2>3. CASE ~Origin
    <3>1. pc = 15
      <4>1. pc + 1 = 16  BY <2>1, <2>3, LongPlaceOf
      <4>. QED  BY <1>1, <4>1
    <3>2. f = "filter2d"  BY <2>3, <3>1, FilterPlaces DEF Filters
    <3>. QED  BY <2>3, <3>2 DEF Final
  <2>. QED  BY <2>2, <2>3
<1>4. At("filter0b")' => f = "gradvecs2"
  <2>1. "filter0b" \in DOMAIN Reads /\ Reads["filter0b"] = "gradvecs2"  BY DEF Reads
  <2>. QED  BY <1>2, <2>1
<1>. QED  BY <1>2, <1>3, <1>4

\* A filter leaves its output where the next step looks for it.
LEMMA RunFilterKeeps ==
    ASSUME IInv, NEW f \in Filters \ {"filter0b"}, RunFilter(f) PROVE IInv'
<1>0. TypeOK /\ At(f)  BY DEF IInv, RunFilter
<1>1. /\ pc' = pc + 1
      /\ reading' = [w \in 1 .. Warps |-> IF f = "gradvecs2" THEN w ELSE 0]
      /\ UNCHANGED <<seeds, seedsLen, noise, flags, held, storing, raced, setup, batch,
                     reported, pushed>>
  BY DEF RunFilter, hostVars
<1>2. /\ mem' \in [{1, 2} -> Seq(Items)] /\ \A n \in {1, 2} : Len(mem'[n]) <= Cap[n]
      /\ lens' \in [Filters -> Nat] /\ \A g \in Filters \ {f} : lens'[g] = lens[g]
      /\ \A n \in 1 .. Smaller(lens'[f], Cap[OutBuf[f]]) :
            /\ n \in DOMAIN mem'[OutBuf[f]] /\ mem'[OutBuf[f]][n].idx \in SeedIdx
            /\ ~overflow => flags[mem'[OutBuf[f]][n].idx] >= InputParts(f)
      /\ stale' \in BOOLEAN /\ overflow' \in BOOLEAN
      /\ ~overflow' => ~overflow /\ lens'[f] <= Cap[OutBuf[f]]
      /\ ~overflow /\ ~stale => ~stale'
  BY FilterWrites
<1>3. Origin' = Origin /\ Cap' = Cap /\ Batches' = Batches /\ Program' = Program /\ Final' = Final
  BY <1>1, SameSettings
<1>4. pc \in 1 .. Len(Program) /\ Len(Program) \in {4, 16} /\ DOMAIN Program = 1 .. Len(Program)
  BY <1>0, ProgramLength
<1>5. TypeOK'
  <2>1. pc' \in 0 .. Len(Program') + 1  BY <1>1, <1>3, <1>4
  <2>2. reading' \in [1 .. Warps -> Nat]  BY <1>1
  <2>3. {raced', stale', overflow', reported'} \subseteq BOOLEAN  BY <1>0, <1>1, <1>2 DEF TypeOK
  <2>4. mem' \in [{1, 2} -> Seq(Items)] /\ \A n \in {1, 2} : Len(mem'[n]) <= Cap'[n]
    BY <1>2, <1>3
  <2>. QED  BY <1>0, <1>1, <1>2, <1>3, <2>1, <2>2, <2>3, <2>4 DEF TypeOK
<1>6. SeedIdx' = SeedIdx  BY <1>1 DEF SeedIdx
<1>7. ASSUME NEW parts, ~overflow' => parts = InputParts(f) \/ parts = 0 PROVE SourceOK(f, parts)'
  <2>1. ASSUME NEW n \in 1 .. Smaller(lens'[f], Cap[OutBuf[f]]), ~overflow'
        PROVE  flags[mem'[OutBuf[f]][n].idx] >= parts
    <3>1. ~overflow  BY <1>2, <2>1
    <3>2. flags[mem'[OutBuf[f]][n].idx] >= InputParts(f)  BY <1>2, <2>1, <3>1
    <3>3. mem'[OutBuf[f]][n].idx \in SeedIdx  BY <1>2, <2>1
    <3>4. flags[mem'[OutBuf[f]][n].idx] \in Parts
      <4>1. flags \in [Index -> Parts]  BY <1>0 DEF TypeOK
      <4>. QED  BY <1>0, <3>3, <4>1, SeedPlaces
    <3>5. flags[mem'[OutBuf[f]][n].idx] >= 0  BY <3>4 DEF Parts
    <3>. QED  BY <1>7, <2>1, <3>2, <3>5
  <2>. QED  BY <1>1, <1>2, <1>3, <1>6, <2>1 DEF SourceOK, InBuffer
<1>8. SourcesOK'
  <2>1. \A step \in DOMAIN Reads : At(step)' => Reads[step] = f /\ Computed[step] = InputParts(f)
    BY <1>0, <1>1, FilterNext
  <2>2. At("collect")' => Final = f  BY <1>0, <1>1, FilterNext
  <2>3. \A step \in DOMAIN Reads : At(step)' => SourceOK(Reads[step], Computed[step])'
    BY <1>7, <2>1
  <2>4. At("collect")' => SourceOK(Final, 0)'  BY <1>3, <1>7, <2>2
  <2>. QED  BY <1>3, <2>3, <2>4 DEF SourcesOK
<1>9. NoiseOK'
  <2>1. pc > 2 /\ pc # 7 /\ pc \in Nat  BY <1>0, FilterPlaces DEF Filters
  <2>2. pc > 1 /\ (pc + 1 > 7 => pc > 7)  BY <2>1
  <2>. QED  BY <1>1, <1>3, <1>6, <2>1, <2>2 DEF IInv, NoiseOK
<1>10. WarpsOK'
  <2>1. ~At("filter0b") /\ pc # 0
    <3>1. pc > 2 /\ pc \in Nat  BY <1>0, FilterPlaces
    <3>2. Program[pc] = f  BY <1>0 DEF At
    <3>. QED  BY <3>1, <3>2 DEF At
  <2>2. \A w \in 1 .. Warps : held'[w] = NoItem /\ storing'[w] = 0
    BY <1>1, <2>1 DEF IInv, WarpsOK
  <2>3. lens'["filter0b"] = lens["filter0b"]  BY <1>2 DEF Filters
  <2>4. pc' \in 2 .. 6 => lens'["filter0b"] = 0
    <3>1. pc \in Nat /\ pc > 2  BY <1>0, FilterPlaces
    <3>2. pc' \in 2 .. 6 => pc \in 2 .. 5  BY <1>1, <3>1
    <3>. QED  BY <2>3, <3>2 DEF IInv, WarpsOK
  <2>5. ASSUME At("filter0b")'
        PROVE  /\ lens'["filter0b"] <= Cardinality(Counted')
               /\ \A w \in 1 .. Warps : reading'[w] > 0 /\ reading'[w] % Warps = w % Warps
    <3>1. f = "gradvecs2"  BY <1>0, <1>1, <2>5, FilterNext
    <3>2. pc = 5  BY <1>0, <3>1, FilterPlaces
    <3>3. lens'["filter0b"] = 0  BY <1>1, <2>4, <3>2
    <3>4. lens'["gradvecs2"] \in Nat  BY <1>2 DEF Filters
    <3>5. Counted' \in SUBSET (1 .. lens'["gradvecs2"])  BY DEF Counted, InputLen0B
    <3>6. Cardinality(Counted') \in Nat  BY <3>4, <3>5, CountedFinite
    <3>. QED  BY <1>1, <3>1, <3>3, <3>6
  <2>. QED  BY <2>2, <2>4, <2>5 DEF WarpsOK
<1>11. OctavesFresh'
  <2>1. overflow \/ ~stale  BY DEF IInv, OctavesFresh
  <2>. QED  BY <1>2, <2>1 DEF OctavesFresh
<1>12. PushedOfBatch'
  <2>1. pc + 1 <= Len(Program)
    <3>1. CASE Origin
      <4>1. Len(Program) = 4 /\ f = "origin"  BY <1>0, <3>1, FilterPlaces, ShortProgram
      <4>2. pc = 3  BY <1>0, <4>1, FilterPlaces
      <4>. QED  BY <4>1, <4>2
    <3>2. CASE ~Origin
      <4>1. Len(Program) = 16 /\ f # "origin"  BY <1>0, <3>2, FilterPlaces, LongProgram
      <4>2. pc \in Nat /\ pc <= 15  BY <1>0, <4>1, FilterPlaces DEF Filters
      <4>. QED  BY <4>1, <4>2
    <3>. QED  BY <3>1, <3>2
  <2>2. ~(pc' > Len(Program'))  BY <1>1, <1>3, <1>4, <2>1
  <2>. QED  BY <2>2 DEF PushedOfBatch, Collected
<1>. QED  BY <1>5, <1>8, <1>9, <1>10, <1>11, <1>12 DEF IInv

\* filter_seeds puts seeds of the batch into the table, and clears the lengths.
LEMMA FilterSeedsKeeps == ASSUME IInv, FilterSeeds PROVE IInv'
<1>0. TypeOK /\ At("seeds") /\ batch \in DOMAIN Batches  BY DEF IInv, FilterSeeds
<1>1. PICK s \in SetToSeqs(Batches[batch]) :
          /\ seeds' = [k \in Index |-> IF k <= Len(s) THEN s[k] ELSE seeds[k]]
          /\ seedsLen' = Len(s)
  BY DEF FilterSeeds
<1>2. /\ lens' = [f \in Filters |-> 0] /\ pc' = pc + 1
      /\ reported' = FALSE /\ raced' = FALSE /\ stale' = FALSE /\ overflow' = FALSE
      /\ UNCHANGED <<setup, batch, mem, noise, flags, reading, held, storing, pushed>>
  BY DEF FilterSeeds
<1>3. Origin' = Origin /\ Cap' = Cap /\ Batches' = Batches /\ Program' = Program
  BY <1>2, SameSettings
<1>4. pc = 1 /\ Len(Program) \in {4, 16} /\ Origin \in BOOLEAN
  <2>1. pc \in Nat  BY <1>0 DEF TypeOK
  <2>. QED  BY <1>0, <2>1, Settings, LongPlaces, ShortPlaces, ProgramLength
<1>5. /\ Batches[batch] \subseteq Seeds /\ IsFiniteSet(Batches[batch])
      /\ Cardinality(Batches[batch]) <= SeedsCap
  BY <1>0, Settings
<1>6. PICK m \in Nat : m = Cardinality(Batches[batch]) /\ m <= SeedsCap
  BY <1>5, FS_CardinalityType
<1>7. s \in [1 .. m -> Batches[batch]]  BY <1>6 DEF SetToSeqs
<1>8. Len(s) = m /\ \A k \in 1 .. m : s[k] \in Batches[batch]  BY <1>6, <1>7
<1>9. TypeOK'
  <2>1. pc' \in 0 .. Len(Program') + 1
    <3>1. PICK n \in {4, 16} : n = Len(Program') /\ pc' = 2  BY <1>2, <1>3, <1>4
    <3>. QED  BY SMTT(40), <3>1
  <2>2. seedsLen' \in 0 .. SeedsCap  BY <1>1, <1>6, <1>8, SetupsAssumption
  <2>3. seeds' \in [Index -> Seeds \cup {0}]
    <3>1. \A k \in Index : k <= Len(s) => s[k] \in Seeds
      BY <1>5, <1>6, <1>8, SetupsAssumption DEF Index
    <3>2. \A k \in Index : seeds[k] \in Seeds \cup {0}  BY <1>0 DEF TypeOK
    <3>. QED  BY <1>1, <3>1, <3>2
  <2>4. lens' \in [Filters -> Nat]  BY <1>2
  <2>5. {raced', stale', overflow', reported'} \subseteq BOOLEAN  BY <1>2
  <2>. QED  BY <1>0, <1>2, <1>3, <2>1, <2>2, <2>3, <2>4, <2>5 DEF TypeOK
<1>10. SourcesOK' /\ ~At("filter0b")'
  <2>1. \A step : At(step)' => step = Program[2]  BY <1>2, <1>4, NextPlace
  <2>2. Program[2] \in {"init", "initFull"}  BY <1>4, LongProgram, ShortProgram
  <2>. QED  BY <2>1, <2>2 DEF SourcesOK, Reads
<1>11. NoiseOK'
  <2>1. \A k \in SeedIdx' : seeds'[k] \in Batches[batch]
    <3>1. SUFFICES ASSUME NEW k \in 1 .. m PROVE seeds'[k] \in Batches[batch]
      BY <1>1, <1>8 DEF SeedIdx
    <3>2. k \in Index  BY <1>6, SetupsAssumption DEF Index
    <3>. QED  BY <1>1, <1>6, <1>8, <3>2
  <2>2. pc' = 2  BY <1>2, <1>4
  <2>. QED  BY <1>0, <1>2, <1>3, <2>1, <2>2 DEF NoiseOK
<1>12. WarpsOK'
  <2>1. ~At("filter0b") /\ pc # 0  BY <1>4, LongPlaces, ShortPlaces DEF Reads
  <2>2. lens'["filter0b"] = 0  BY <1>2 DEF Filters
  <2>. QED  BY <1>2, <1>10, <2>1, <2>2 DEF IInv, WarpsOK
<1>13. OctavesFresh' /\ PushedOfBatch'
  <2>1. PICK n \in {4, 16} : n = Len(Program') /\ pc' = 2  BY <1>2, <1>3, <1>4
  <2>2. ~(pc' > Len(Program'))  BY <2>1
  <2>. QED  BY <1>2, <2>2 DEF OctavesFresh, PushedOfBatch, Collected
<1>. QED  BY <1>9, <1>10, <1>11, <1>12, <1>13 DEF IInv

\* KernelSeed1 computes the first octaves, or all of them with --origin.
LEMMA InitNoiseKeeps == ASSUME IInv, InitNoise PROVE IInv'
<1>0. TypeOK /\ (At("init") \/ At("initFull"))  BY DEF IInv, InitNoise
<1>1. /\ noise' = [k \in Index |->
                     IF k \in SeedIdx
                       THEN [p \in Parts |-> IF p = 0 \/ At("initFull") THEN seeds[k] ELSE noise[k][p]]
                       ELSE noise[k]]
      /\ pc' = pc + 1
      /\ UNCHANGED <<seeds, seedsLen, mem, lens, flags, reading, held, storing, raced, setup, batch,
                     reported, pushed, stale, overflow>>
  BY DEF InitNoise, warpVars, hostVars
<1>2. Origin' = Origin /\ Cap' = Cap /\ Batches' = Batches /\ Program' = Program
  BY <1>1, SameSettings
<1>3. pc = 2 /\ Len(Program) \in {4, 16} /\ Origin \in BOOLEAN /\ (At("initFull") <=> Origin)
  <2>1. pc \in Nat  BY <1>0 DEF TypeOK
  <2>. QED  BY <1>0, <2>1, Settings, LongPlaces, ShortPlaces, ProgramLength
<1>4. TypeOK'
  <2>1. pc' \in 0 .. Len(Program') + 1  BY <1>1, <1>2, <1>3
  <2>2. noise \in [Index -> [Parts -> Seeds \cup {0}]] /\ seeds \in [Index -> Seeds \cup {0}]
    BY <1>0 DEF TypeOK
  <2>3. noise' \in [Index -> [Parts -> Seeds \cup {0}]]  BY <1>1, <2>2
  <2>. QED  BY <1>0, <1>1, <1>2, <2>1, <2>3 DEF TypeOK
<1>5. SourcesOK' /\ ~At("filter0b")'
  <2>1. \A step : At(step)' => step = Program[3]  BY <1>1, <1>3, NextPlace
  <2>2. Program[3] \in {"gradvecs1", "origin"}  BY <1>3, LongProgram, ShortProgram
  <2>. QED  BY <2>1, <2>2 DEF SourcesOK, Reads
<1>6. NoiseOK'
  <2>1. SeedIdx' = SeedIdx /\ SeedIdx \subseteq Index  BY <1>0, <1>1, SeedPlaces DEF SeedIdx
  <2>2. \A k \in SeedIdx : noise'[k][0] = seeds[k]  BY <1>1, <2>1 DEF Parts
  <2>3. Origin => \A k \in SeedIdx : \A p \in Parts : noise'[k][p] = seeds[k]  BY <1>1, <1>3, <2>1
  <2>4. pc' = 3 /\ pc > 1 /\ ~(pc' > 7)  BY <1>1, <1>3
  <2>5. batch' \in DOMAIN Batches' /\ \A k \in SeedIdx : seeds'[k] \in Batches'[batch']
    BY <1>1, <1>2, <2>4 DEF IInv, NoiseOK
  <2>. QED  BY <1>1, <1>2, <2>1, <2>2, <2>3, <2>4, <2>5 DEF NoiseOK
<1>7. WarpsOK'
  <2>1. ~At("filter0b") /\ pc # 0  BY <1>3, LongPlaces, ShortPlaces DEF Reads
  <2>2. pc \in 2 .. 5  BY <1>3
  <2>. QED  BY <1>1, <1>5, <2>1, <2>2 DEF IInv, WarpsOK
<1>8. OctavesFresh' /\ PushedOfBatch'
  <2>1. PICK n \in {4, 16} : n = Len(Program') /\ pc' = 3  BY <1>1, <1>2, <1>3
  <2>2. ~(3 > n)  OBVIOUS
  <2>3. ~(pc' > Len(Program'))  BY <2>1, <2>2
  <2>. QED  BY <1>1, <2>3 DEF IInv, OctavesFresh, PushedOfBatch, Collected
<1>. QED  BY <1>4, <1>5, <1>6, <1>7, <1>8 DEF IInv

\* After the flags are cleared no part of the late noise counts as computed.
LEMMA ClearFlagsKeeps == ASSUME IInv, ClearFlags PROVE IInv'
<1>0. TypeOK /\ At("clearFlags")  BY DEF IInv, ClearFlags
<1>1. /\ flags' = [k \in Index |-> 0] /\ pc' = pc + 1
      /\ UNCHANGED <<seeds, seedsLen, mem, lens, noise, reading, held, storing, raced, setup, batch,
                     reported, pushed, stale, overflow>>
  BY DEF ClearFlags, warpVars, hostVars
<1>2. Origin' = Origin /\ Cap' = Cap /\ Batches' = Batches /\ Program' = Program
  BY <1>1, SameSettings
<1>3. pc = 7 /\ ~Origin /\ Len(Program) = 16
  <2>1. pc \in Nat  BY <1>0 DEF TypeOK
  <2>2. ~Origin  BY <1>0, <2>1, ShortPlaces DEF Reads
  <2>. QED  BY <1>0, <2>1, <2>2, LongPlaces, LongProgram
<1>4. TypeOK'
  <2>1. pc' \in 0 .. Len(Program') + 1  BY <1>1, <1>2, <1>3
  <2>2. flags' \in [Index -> Parts]  BY <1>1 DEF Parts
  <2>. QED  BY <1>0, <1>1, <1>2, <2>1, <2>2 DEF TypeOK
<1>5. SeedIdx' = SeedIdx /\ SeedIdx \subseteq Index  BY <1>0, <1>1, SeedPlaces DEF SeedIdx
<1>6. SourceOK("filter0b", 0)'
  <2>1. SourceOK("filter0b", 0)  BY <1>0 DEF IInv, SourcesOK, Reads, Computed
  <2>2. \A k \in SeedIdx : flags'[k] = 0  BY <1>1, <1>5
  <2>3. \A k \in SeedIdx : flags'[k] >= 0  BY <2>2
  <2>. QED  BY <1>1, <1>2, <1>5, <2>1, <2>3 DEF SourceOK, InBuffer
<1>7. SourcesOK' /\ ~At("filter0b")'
  <2>1. \A step : At(step)' => step = "late1"  BY <1>1, <1>3, NextPlace, LongProgram
  <2>2. Reads["late1"] = "filter0b" /\ Computed["late1"] = 0  BY DEF Reads, Computed
  <2>. QED  BY <1>6, <2>1, <2>2 DEF SourcesOK
<1>8. NoiseOK'
  <2>1. \A k \in SeedIdx : 1 .. flags'[k] = {}  BY <1>1, <1>5
  <2>2. pc > 2  BY <1>3
  <2>. QED  BY <1>1, <1>2, <1>3, <1>5, <2>1, <2>2 DEF IInv, NoiseOK
<1>9. WarpsOK'
  <2>1. ~At("filter0b") /\ pc # 0 /\ pc' = 8  BY <1>1, <1>3, LongPlaces
  <2>. QED  BY <1>1, <1>7, <2>1 DEF IInv, WarpsOK
<1>10. OctavesFresh' /\ PushedOfBatch'
  BY <1>1, <1>2, <1>3 DEF IInv, OctavesFresh, PushedOfBatch, Collected
<1>. QED  BY <1>4, <1>7, <1>8, <1>9, <1>10 DEF IInv

\* When each late kernel runs, what it reads, and which filter runs after it.
LEMMA LatePlaces ==
    ASSUME TypeOK, NEW l \in DOMAIN LateStage, At(l)
    PROVE  /\ ~Origin /\ pc \in {8, 10, 12, 14}
           /\ LateSource[l] \in Filters /\ LateStage[l] \in 1 .. 4
           /\ l \in DOMAIN Reads /\ Reads[l] = LateSource[l] /\ Computed[l] = LateStage[l] - 1
           /\ Program[pc + 1] \in DOMAIN Reads /\ Program[pc + 1] # "filter0b"
           /\ Reads[Program[pc + 1]] = LateSource[l] /\ Computed[Program[pc + 1]] = LateStage[l]
<1>1. pc \in Nat  BY DEF TypeOK
<1>2. l \in {"late1", "late2", "late3", "late4"}  BY DEF LateStage
<1>3. ~Origin
  <2>1. l \in DOMAIN Reads  BY <1>2 DEF Reads
  <2>. QED  BY <1>1, <2>1, ShortPlaces
<1>4. CASE l = "late1"
  <2>1. pc = 8 /\ Program[9] = "filter2a"  BY <1>1, <1>3, <1>4, LongPlaces, LongProgram
  <2>. QED  BY <1>3, <1>4, <2>1 DEF Filters, Reads, Computed, LateSource, LateStage
<1>5. CASE l = "late2"
  <2>1. pc = 10 /\ Program[11] = "filter2b"  BY <1>1, <1>3, <1>5, LongPlaces, LongProgram
  <2>. QED  BY <1>3, <1>5, <2>1 DEF Filters, Reads, Computed, LateSource, LateStage
<1>6. CASE l = "late3"
  <2>1. pc = 12 /\ Program[13] = "filter2c"  BY <1>1, <1>3, <1>6, LongPlaces, LongProgram
  <2>. QED  BY <1>3, <1>6, <2>1 DEF Filters, Reads, Computed, LateSource, LateStage
<1>7. CASE l = "late4"
  <2>1. pc = 14 /\ Program[15] = "filter2d"  BY <1>1, <1>3, <1>7, LongPlaces, LongProgram
  <2>. QED  BY <1>3, <1>7, <2>1 DEF Filters, Reads, Computed, LateSource, LateStage
<1>. QED  BY <1>2, <1>4, <1>5, <1>6, <1>7

\* A late kernel computes the next part of the noise for every seed that has a
\* candidate left, although it touches each seed's noise only once.
LEMMA LateInitKeeps == ASSUME IInv, NEW l \in DOMAIN LateStage, LateInit(l) PROVE IInv'
<1>0. TypeOK /\ At(l) /\ NoiseOK  BY DEF IInv, LateInit
<1>. DEFINE f == LateSource[l]
            L == LateStage[l]
            todoFor(in) == {k \in Index : flags[k] = L - 1 /\ \E n \in DOMAIN in : in[n].idx = k}
<1>1. PICK in \in OutputsOf(f) :
         /\ flags' = [k \in Index |-> IF k \in todoFor(in) THEN L ELSE flags[k]]
         /\ noise' = [k \in Index |-> IF k \in todoFor(in) THEN [noise[k] EXCEPT ![L] = seeds[k]]
                                                           ELSE noise[k]]
  BY DEF LateInit
<1>2. /\ pc' = pc + 1
      /\ UNCHANGED <<seeds, seedsLen, mem, lens, reading, held, storing, raced, setup, batch,
                     reported, pushed, stale, overflow>>
  BY DEF LateInit, warpVars, hostVars
<1>3. Origin' = Origin /\ Cap' = Cap /\ Batches' = Batches /\ Program' = Program
  BY <1>2, SameSettings
<1>4. /\ ~Origin /\ pc \in {8, 10, 12, 14} /\ f \in Filters /\ L \in 1 .. 4
      /\ Reads[l] = f /\ Computed[l] = L - 1 /\ l \in DOMAIN Reads
      /\ Program[pc + 1] \in DOMAIN Reads /\ Program[pc + 1] # "filter0b"
      /\ Reads[Program[pc + 1]] = f /\ Computed[Program[pc + 1]] = L
  BY <1>0, LatePlaces
<1>. DEFINE todo == todoFor(in)
<1>5. /\ todo \subseteq Index
      /\ \A k \in Index : k \in todo <=> flags[k] = L - 1 /\ \E n \in DOMAIN in : in[n].idx = k
  OBVIOUS
<1>6. /\ flags' = [k \in Index |-> IF k \in todo THEN L ELSE flags[k]]
      /\ noise' = [k \in Index |-> IF k \in todo THEN [noise[k] EXCEPT ![L] = seeds[k]] ELSE noise[k]]
  BY <1>1
<1>. HIDE DEF f, L, todo, todoFor
<1>7. L \in Nat /\ L - 1 \in Nat /\ L \in Parts /\ L # 0  BY <1>4 DEF Parts
<1>8. SourceOK(f, L - 1)  BY <1>0, <1>4 DEF IInv, SourcesOK
<1>9. ~overflow => \A n \in 1 .. lens[f] : n \in DOMAIN in /\ in[n] = mem[OutBuf[f]][n]
  BY <1>0, <1>4, <1>7, <1>8, OutputsType
<1>10. noise \in [Index -> [Parts -> Seeds \cup {0}]] /\ seeds \in [Index -> Seeds \cup {0}]
       /\ flags \in [Index -> Parts]
  BY <1>0 DEF TypeOK
<1>11. SeedIdx' = SeedIdx /\ SeedIdx \subseteq Index  BY <1>0, <1>2, SeedPlaces DEF SeedIdx
<1>12. TypeOK'
  <2>1. pc' \in 0 .. Len(Program') + 1
    <3>1. Len(Program') = 16  BY <1>3, <1>4, LongProgram
    <3>. QED  BY <1>2, <1>4, <3>1
  <2>2. flags' \in [Index -> Parts]  BY <1>6, <1>7, <1>10
  <2>3. noise' \in [Index -> [Parts -> Seeds \cup {0}]]
    <3>1. SUFFICES ASSUME NEW k \in Index
                   PROVE  (IF k \in todo THEN [noise[k] EXCEPT ![L] = seeds[k]] ELSE noise[k])
                              \in [Parts -> Seeds \cup {0}]
      BY <1>6
    <3>2. noise[k] \in [Parts -> Seeds \cup {0}] /\ seeds[k] \in Seeds \cup {0}  BY <1>10
    <3>. QED  BY <3>2
  <2>. QED  BY <1>0, <1>2, <1>3, <2>1, <2>2, <2>3 DEF TypeOK
<1>13. SourceOK(f, L)'
  <2>1. ASSUME NEW n \in InBuffer(f), ~overflow PROVE flags'[mem[OutBuf[f]][n].idx] >= L
    <3>. DEFINE k == mem[OutBuf[f]][n].idx
    <3>1. k \in SeedIdx /\ flags[k] >= L - 1  BY <1>8, <2>1 DEF SourceOK
    <3>2. k \in Index /\ flags[k] \in Parts  BY <1>10, <1>11, <3>1
    <3>3. n \in 1 .. lens[f]
      <4>1. lens[f] \in Nat /\ Cap[OutBuf[f]] \in Nat  BY <1>0, <1>4, Buffers
      <4>. QED  BY <4>1 DEF InBuffer, Smaller
    <3>4. \E m \in DOMAIN in : in[m].idx = k  BY <1>9, <2>1, <3>3
    <3>. HIDE DEF k
    <3>5. CASE flags[k] = L - 1
      <4>1. flags'[k] = L  BY <1>5, <1>6, <3>2, <3>4, <3>5
      <4>. QED  BY <1>7, <4>1 DEF k
    <3>6. CASE flags[k] # L - 1
      <4>1. flags'[k] = flags[k]  BY <1>5, <1>6, <3>2, <3>6
      <4>2. flags[k] \in Nat  BY <3>2 DEF Parts
      <4>3. flags[k] >= L  BY <1>7, <3>1, <3>6, <4>2
      <4>. QED  BY <4>1, <4>3 DEF k
    <3>. QED  BY <3>5, <3>6
  <2>2. InBuffer(f)' = InBuffer(f)  BY <1>2, <1>3 DEF InBuffer
  <2>. QED  BY <1>2, <1>3, <1>8, <1>11, <2>1, <2>2 DEF SourceOK
<1>14. SourcesOK' /\ ~At("filter0b")'
  <2>1. \A step : At(step)' => step = Program[pc + 1]  BY <1>2, NextPlace
  <2>2. "collect" \notin DOMAIN Reads  BY DEF Reads
  <2>3. \A step \in DOMAIN Reads : At(step)' => SourceOK(Reads[step], Computed[step])'
    BY <1>4, <1>13, <2>1
  <2>. QED  BY <1>4, <2>1, <2>2, <2>3 DEF SourcesOK
<1>15. NoiseOK'
  <2>1. pc > 1 /\ pc > 2 /\ pc > 7  BY <1>4
  <2>2. \A k \in SeedIdx : noise[k][0] = seeds[k] /\ \A p \in 1 .. flags[k] : noise[k][p] = seeds[k]
    BY <1>0, <1>4, <2>1 DEF NoiseOK
  <2>3. ASSUME NEW k \in SeedIdx
        PROVE  noise'[k][0] = seeds[k] /\ \A p \in 1 .. flags'[k] : noise'[k][p] = seeds[k]
    <3>1. k \in Index /\ noise[k] \in [Parts -> Seeds \cup {0}]  BY <1>10, <1>11
    <3>2. CASE k \in todo
      <4>1. flags'[k] = L /\ noise'[k] = [noise[k] EXCEPT ![L] = seeds[k]] /\ flags[k] = L - 1
        BY <1>5, <1>6, <3>1, <3>2
      <4>2. noise'[k][L] = seeds[k] /\ \A p \in Parts : p # L => noise'[k][p] = noise[k][p]
        BY <1>7, <3>1, <4>1
      <4>3. \A p \in 1 .. L : p \in Parts /\ (p = L \/ p \in 1 .. L - 1)  BY <1>4 DEF Parts
      <4>4. 0 \in Parts /\ 0 # L  BY <1>7 DEF Parts
      <4>. QED  BY <2>2, <4>1, <4>2, <4>3, <4>4
    <3>3. CASE k \notin todo
      <4>1. flags'[k] = flags[k] /\ noise'[k] = noise[k]  BY <1>6, <3>1, <3>3
      <4>. QED  BY <2>2, <4>1
    <3>. QED  BY <3>2, <3>3
  <2>4. batch \in DOMAIN Batches /\ \A k \in SeedIdx : seeds[k] \in Batches[batch]
    BY <1>0, <2>1 DEF NoiseOK
  <2>. QED  BY <1>2, <1>3, <1>4, <1>11, <2>3, <2>4 DEF NoiseOK
<1>16. WarpsOK'
  <2>1. pc # 0 /\ pc + 1 \notin 2 .. 5 /\ pc # 6  BY <1>4
  <2>2. ~At("filter0b")  BY <1>4, <2>1, LongPlaces
  <2>. QED  BY <1>2, <1>14, <2>1, <2>2 DEF IInv, WarpsOK
<1>17. OctavesFresh' /\ PushedOfBatch'
  <2>1. Len(Program') = 16 /\ pc' = pc + 1  BY <1>2, <1>3, <1>4, LongProgram
  <2>2. ~(pc' > 16)  BY <1>4, <2>1
  <2>. QED  BY <1>2, <2>1, <2>2 DEF IInv, OctavesFresh, PushedOfBatch, Collected
<1>. QED  BY <1>12, <1>14, <1>15, <1>16, <1>17 DEF IInv

\* What the host takes from the last filter's buffer is of seeds of the batch.
LEMMA CollectKeeps == ASSUME IInv, Collect PROVE IInv'
<1>0. TypeOK /\ At("collect") /\ NoiseOK  BY DEF IInv, Collect
<1>. DEFINE k == Smaller(lens[Final], Cap[OutBuf[Final]])
            final == SubSeq(mem[OutBuf[Final]], 1, k)
<1>1. /\ pushed' = [n \in DOMAIN final |-> [seed |-> seeds[final[n].idx], at |-> final[n].at * 4]]
      /\ reported' \in BOOLEAN
  <2>1. Final \in Filters  BY DEF Final, Filters
  <2>. QED  BY <2>1 DEF Collect
<1>2. /\ pc' = pc + 1
      /\ UNCHANGED <<setup, batch, seeds, seedsLen, mem, lens, noise, flags, reading, held, storing,
                     raced, stale, overflow>>
  BY DEF Collect, devVars, warpVars
<1>3. Origin' = Origin /\ Cap' = Cap /\ Batches' = Batches /\ Program' = Program
  BY <1>2, SameSettings
<1>4. pc = Len(Program) /\ (Origin => pc = 4) /\ (~Origin => pc = 16)
  <2>1. pc \in Nat  BY <1>0 DEF TypeOK
  <2>2. CASE Origin  BY <1>0, <2>1, <2>2, ShortPlaces, ShortProgram
  <2>3. CASE ~Origin  BY <1>0, <2>1, <2>3, LongPlaces, LongProgram
  <2>. QED  BY <2>2, <2>3
<1>5. pc \in {4, 16} /\ Origin \in BOOLEAN  BY <1>0, <1>4, Settings
<1>6. \A step : ~At(step)'
  <2>1. DOMAIN Program = 1 .. pc  BY <1>0, <1>4, ProgramLength
  <2>2. pc + 1 \notin 1 .. pc  BY <1>5
  <2>. QED  BY <1>2, <2>1, <2>2, NextPlace
<1>7. SeedIdx' = SeedIdx  BY <1>2 DEF SeedIdx
<1>8. TypeOK'
  <2>1. pc' \in 0 .. Len(Program') + 1  BY <1>2, <1>3, <1>4, <1>5
  <2>2. {raced', stale', overflow', reported'} \subseteq BOOLEAN  BY <1>0, <1>1, <1>2 DEF TypeOK
  <2>. QED  BY <1>0, <1>2, <1>3, <2>1, <2>2 DEF TypeOK
<1>9. SourcesOK'  BY <1>6 DEF SourcesOK
<1>10. NoiseOK'
  <2>1. pc > 1 /\ pc > 2 /\ (~Origin => pc > 7)  BY <1>4, <1>5
  <2>. QED  BY <1>0, <1>2, <1>3, <1>7, <2>1 DEF NoiseOK
<1>11. WarpsOK'
  <2>1. pc # 0 /\ ~At("filter0b")
    <3>1. Program[pc] = "collect"  BY <1>0 DEF At
    <3>. QED  BY <1>5, <3>1 DEF At
  <2>2. \A w \in 1 .. Warps : held'[w] = NoItem /\ storing'[w] = 0
    BY <1>2, <2>1 DEF IInv, WarpsOK
  <2>3. pc' \in 2 .. 5 => lens'["filter0b"] = 0
    <3>1. pc' \in 2 .. 5 => pc \in 2 .. 5  BY <1>2, <1>5
    <3>. QED  BY <1>2, <3>1 DEF IInv, WarpsOK
  <2>. QED  BY <1>6, <2>2, <2>3 DEF WarpsOK
<1>12. OctavesFresh'  BY <1>2 DEF IInv, OctavesFresh
<1>13. PushedOfBatch'
  <2>1. SourceOK(Final, 0) /\ Final \in Filters  BY <1>0 DEF IInv, SourcesOK, Final, Filters
  <2>2. /\ lens[Final] \in Nat /\ Cap[OutBuf[Final]] \in Nat /\ mem[OutBuf[Final]] \in Seq(Items)
    BY <1>0, <2>1, Buffers
  <2>3. PICK m \in Nat : m = k  BY <2>2 DEF Smaller
  <2>4. \A n \in 1 .. m : n \in DOMAIN mem[OutBuf[Final]] /\ mem[OutBuf[Final]][n].idx \in SeedIdx
    BY <2>1, <2>3 DEF SourceOK, InBuffer
  <2>5. m <= Len(mem[OutBuf[Final]])
    <3>1. CASE m = 0  BY <2>2, <3>1
    <3>2. CASE m > 0  BY <2>2, <2>4, <3>2
    <3>. QED  BY <2>3, <3>1, <3>2
  <2>6. DOMAIN final = 1 .. m /\ \A n \in 1 .. m : final[n] = mem[OutBuf[Final]][n]
    BY <2>2, <2>3, <2>5
  <2>7. \A j \in SeedIdx : seeds[j] \in Batches[batch]
    <3>1. pc > 1  BY <1>5
    <3>. QED  BY <1>0, <3>1 DEF NoiseOK
  <2>. HIDE DEF final
  <2>8. \A n \in DOMAIN pushed' : pushed'[n].seed \in Batches[batch]
    <3>1. SUFFICES ASSUME NEW n \in 1 .. m PROVE pushed'[n].seed \in Batches[batch]  BY <1>1, <2>6
    <3>2. pushed'[n].seed = seeds[final[n].idx]  BY <1>1, <2>6
    <3>3. final[n].idx \in SeedIdx  BY <2>4, <2>6
    <3>. QED  BY <2>7, <3>2, <3>3
  <2>. QED  BY <1>2, <1>3, <2>8 DEF PushedOfBatch
<1>. QED  BY <1>8, <1>9, <1>10, <1>11, <1>12, <1>13 DEF IInv

\* After a fault nothing runs any more.
LEMMA FaultKeeps == ASSUME IInv, Fault PROVE IInv'
<1>0. TypeOK  BY DEF IInv
<1>1. /\ pc' = 0
      /\ UNCHANGED <<setup, batch, seeds, seedsLen, mem, lens, noise, flags, reading, held, storing,
                     raced, reported, pushed, stale, overflow>>
  BY DEF Fault, devVars, warpVars, hostVars
<1>2. Origin' = Origin /\ Cap' = Cap /\ Batches' = Batches /\ Program' = Program
  BY <1>1, SameSettings
<1>3. PICK n \in {4, 16} : n = Len(Program') /\ DOMAIN Program = 1 .. n
  BY <1>0, <1>2, ProgramLength
<1>4. TypeOK'
  <2>1. 0 \in 0 .. n + 1  OBVIOUS
  <2>2. pc' \in 0 .. Len(Program') + 1  BY <1>1, <1>3, <2>1
  <2>. QED  BY <1>0, <1>1, <1>2, <2>2 DEF TypeOK
<1>5. \A step : ~At(step)'
  <2>1. 0 \notin 1 .. n  OBVIOUS
  <2>. QED  BY <1>1, <1>3, <2>1, NextPlace
<1>6. NoiseOK'  BY <1>1 DEF NoiseOK
<1>7. WarpsOK'  BY <1>1, <1>5 DEF IInv, WarpsOK
<1>8. OctavesFresh' /\ PushedOfBatch'
  <2>1. ~(0 > n)  OBVIOUS
  <2>. QED  BY <1>1, <1>3, <2>1 DEF IInv, OctavesFresh, PushedOfBatch, Collected
<1>. QED  BY <1>4, <1>5, <1>6, <1>7, <1>8 DEF IInv, SourcesOK

\* The next batch starts with whatever this one left in memory.
LEMMA NextBatchKeeps == ASSUME IInv, NextBatch PROVE IInv'
<1>0. TypeOK /\ pc > Len(Program) /\ batch \in DOMAIN Batches  BY DEF IInv, NextBatch
<1>1. /\ pc' = 1 /\ batch' = batch + 1
      /\ UNCHANGED <<setup, seeds, seedsLen, mem, lens, noise, flags, reading, held, storing,
                     raced, reported, pushed, stale, overflow>>
  BY DEF NextBatch, devVars, warpVars
<1>2. Origin' = Origin /\ Cap' = Cap /\ Batches' = Batches /\ Program' = Program
  BY <1>1, SameSettings
<1>3. PICK n \in {4, 16} : n = Len(Program) /\ DOMAIN Program = 1 .. n /\ pc > n
  BY <1>0, ProgramLength
<1>4. pc \in Nat  BY <1>0 DEF TypeOK
<1>5. TypeOK'
  <2>1. 1 \in 0 .. n + 1  OBVIOUS
  <2>2. pc' \in 0 .. Len(Program') + 1  BY <1>1, <1>2, <1>3, <2>1
  <2>3. batch' \in 1 .. Len(Batches') + 1
    <3>1. Len(Batches) \in Nat /\ batch \in 1 .. Len(Batches)
      <4>1. Batches \in Seq(SUBSET Seeds)  BY <1>0, Settings
      <4>. QED  BY <1>0, <4>1
    <3>2. batch + 1 \in 1 .. Len(Batches) + 1  BY <3>1
    <3>. QED  BY <1>1, <1>2, <3>2
  <2>. QED  BY <1>0, <1>1, <1>2, <2>2, <2>3 DEF TypeOK
<1>6. \A step : At(step)' => step = "seeds"
  <2>1. Program[1] = "seeds"  BY LongProgram, ShortProgram
  <2>. QED  BY <1>1, <2>1, NextPlace
<1>7. SourcesOK'  BY <1>6 DEF SourcesOK, Reads
<1>8. NoiseOK'  BY <1>1 DEF NoiseOK
<1>9. WarpsOK'
  <2>1. pc # 0 /\ ~At("filter0b")
    <3>1. pc \notin 1 .. n /\ pc # 0  BY <1>3, <1>4
    <3>. QED  BY <1>3, <3>1 DEF At
  <2>. QED  BY <1>1, <1>6, <2>1 DEF IInv, WarpsOK
<1>10. OctavesFresh' /\ PushedOfBatch'
  <2>1. ~(1 > n)  OBVIOUS
  <2>. QED  BY <1>1, <1>2, <1>3, <2>1 DEF IInv, OctavesFresh, PushedOfBatch, Collected
<1>. QED  BY <1>5, <1>7, <1>8, <1>9, <1>10 DEF IInv

\* Nothing happens.
LEMMA StutterKeeps == ASSUME IInv, UNCHANGED vars PROVE IInv'
<1>1. UNCHANGED <<setup, batch, pc, seeds, seedsLen, mem, lens, noise, flags, reading, held, storing,
                  raced, reported, pushed, stale, overflow>>
  BY DEF vars, devVars, warpVars, hostVars
<1>2. Origin' = Origin /\ Cap' = Cap /\ Batches' = Batches /\ Program' = Program /\ Final' = Final
  BY <1>1, SameSettings
<1>3. (\A step : At(step)' <=> At(step)) /\ SeedIdx' = SeedIdx  BY <1>1, <1>2 DEF At, SeedIdx
<1>4. TypeOK'  BY <1>1, <1>2 DEF IInv, TypeOK
<1>5. SourcesOK'
  <2>1. \A f, parts : SourceOK(f, parts)' <=> SourceOK(f, parts)
    BY <1>1, <1>2, <1>3 DEF SourceOK, InBuffer
  <2>. QED  BY <1>2, <1>3, <2>1 DEF IInv, SourcesOK
<1>6. NoiseOK'  BY <1>1, <1>2, <1>3 DEF IInv, NoiseOK
<1>7. WarpsOK'
  <2>1. Counted' = Counted /\ InputLen0B' = InputLen0B  BY <1>1 DEF Counted, InputLen0B
  <2>. QED  BY <1>1, <1>3, <2>1 DEF IInv, WarpsOK
<1>8. OctavesFresh' /\ PushedOfBatch'
  BY <1>1, <1>2 DEF IInv, OctavesFresh, PushedOfBatch, Collected
<1>. QED  BY <1>4, <1>5, <1>6, <1>7, <1>8 DEF IInv

(***************************************************************************)
(* Filter 0B                                                               *)
(***************************************************************************)

\* Two warps have no input in common.
LEMMA WarpsDistinct ==
    ASSUME NEW v \in 1 .. Warps, NEW w \in 1 .. Warps, v % Warps = w % Warps
    PROVE  v = w
<1>1. Warps \in Nat /\ Warps > 0 /\ v \in Nat /\ w \in Nat  BY SetupsAssumption
<1>2. CASE v < w
  <2>1. w < v + Warps  BY <1>1
  <2>. QED  BY <1>1, <1>2, <2>1, ModDistinct
<1>3. CASE w < v
  <2>1. v < w + Warps  BY <1>1
  <2>. QED  BY <1>1, <1>3, <2>1, ModDistinct
<1>. QED  BY <1>1, <1>2, <1>3

\* What no warp changes.
LEMMA WarpFrame ==
    ASSUME IInv, UNCHANGED <<setup, batch, pc, seeds, seedsLen, noise, flags, pushed, overflow>>
    PROVE  /\ Origin' = Origin /\ Cap' = Cap /\ Batches' = Batches /\ Program' = Program
           /\ \A step : At(step)' <=> At(step)
           /\ SeedIdx' = SeedIdx /\ Junk' = Junk /\ NoiseOK' /\ PushedOfBatch'
<1>1. Origin' = Origin /\ Cap' = Cap /\ Batches' = Batches /\ Program' = Program
  BY SameSettings
<1>2. (\A step : At(step)' <=> At(step)) /\ SeedIdx' = SeedIdx  BY <1>1 DEF At, SeedIdx
<1>3. Junk' = Junk  BY <1>2 DEF Junk
<1>4. NoiseOK'  BY <1>1, <1>2 DEF IInv, NoiseOK
<1>5. PushedOfBatch'  BY <1>1 DEF IInv, PushedOfBatch, Collected
<1>. QED  BY <1>1, <1>2, <1>3, <1>4, <1>5

\* Where the stream is when a warp of filter 0B runs.
LEMMA WarpPlace ==
    ASSUME TypeOK, At("filter0b")
    PROVE  ~Origin /\ pc = 6 /\ \A step : At(step) => step = "filter0b"
<1>1. "filter0b" \in Filters  BY DEF Filters
<1>. QED  BY <1>1, FilterPlaces DEF At

\* While filter 0B runs, its input is the only thing the invariant says of the buffers.
LEMMA WarpSources ==
    ASSUME IInv, At("filter0b")
    PROVE  SourceOK("gradvecs2", 0) /\ OutBuf["gradvecs2"] = 2 /\ lens["gradvecs2"] \in Nat
           /\ Cap[2] \in Nat /\ mem[2] \in Seq(Items)
<1>1. "gradvecs2" \in Filters /\ OutBuf["gradvecs2"] = 2  BY DEF Filters, OutBuf
<1>2. SourceOK("gradvecs2", 0)  BY DEF IInv, SourcesOK, Reads, Computed
<1>3. TypeOK  BY DEF IInv
<1>. QED  BY <1>1, <1>2, <1>3, Buffers

\* What a warp reads is of a seed of the batch, also when it reads parts of two
\* candidates or beyond the buffer.
LEMMA WarpReadKeeps == ASSUME IInv, NEW w \in 1 .. Warps, WarpRead(w) PROVE IInv'
<1>0. TypeOK /\ At("filter0b") /\ held[w] = NoItem /\ reading[w] <= InputLen0B
  BY DEF IInv, WarpRead
<1>. DEFINE n == reading[w]
            there == IF n <= Cap[2]
                       THEN {mem[2][n]} \cup {held[v] : v \in {u \in 1 .. Warps : storing[u] = n}}
                       ELSE Junk
<1>1. PICK i \in {c.idx : c \in there}, p \in {c.at : c \in there} :
         held' = [held EXCEPT ![w] = [idx |-> i, at |-> p]]
  BY DEF WarpRead
<1>2. /\ raced' = (raced \/ n <= lens["filter0b"])
      /\ UNCHANGED <<setup, batch, pc, seeds, seedsLen, mem, lens, noise, flags, reading, storing,
                     reported, pushed, stale, overflow>>
  BY DEF WarpRead, devVars, hostVars
<1>3. /\ Origin' = Origin /\ Cap' = Cap /\ Batches' = Batches /\ Program' = Program
      /\ \A step : At(step)' <=> At(step)
      /\ SeedIdx' = SeedIdx /\ Junk' = Junk /\ NoiseOK' /\ PushedOfBatch'
  BY <1>2, WarpFrame
<1>4. /\ pc = 6 /\ \A step : At(step) => step = "filter0b"  BY <1>0, WarpPlace
<1>5. /\ SourceOK("gradvecs2", 0) /\ OutBuf["gradvecs2"] = 2 /\ lens["gradvecs2"] \in Nat
      /\ Cap[2] \in Nat /\ mem[2] \in Seq(Items)
  BY <1>0, WarpSources
<1>6. /\ held \in [1 .. Warps -> Items \cup {NoItem}] /\ lens \in [Filters -> Nat]
      /\ reading \in [1 .. Warps -> Nat]
  BY <1>0 DEF TypeOK
<1>7. /\ \A v \in 1 .. Warps : held[v] = NoItem => storing[v] = 0
      /\ \A v \in 1 .. Warps : held[v] # NoItem => held[v].idx \in SeedIdx
      /\ n > 0 /\ n \in Nat
  BY <1>0, <1>6 DEF IInv, WarpsOK
<1>8. \A c \in there : c \in Junk
  <2>1. CASE n <= Cap[2]
    <3>1. n \in InBuffer("gradvecs2")
      BY <1>0, <1>5, <1>7, <2>1 DEF InBuffer, Smaller, InputLen0B
    <3>2. n \in DOMAIN mem[2] /\ mem[2][n].idx \in SeedIdx  BY <1>5, <3>1 DEF SourceOK
    <3>3. mem[2][n] \in Items  BY <1>5, <3>2
    <3>4. ASSUME NEW v \in 1 .. Warps, storing[v] = n PROVE held[v] \in Items /\ held[v].idx \in SeedIdx
      <4>1. held[v] # NoItem  BY <1>7, <3>4
      <4>. QED  BY <1>6, <1>7, <4>1
    <3>5. \A c \in there : c \in Items /\ c.idx \in SeedIdx  BY <2>1, <3>2, <3>3, <3>4
    <3>. QED  BY <3>5 DEF Items, Junk
  <2>2. CASE ~(n <= Cap[2])  BY <2>2
  <2>. QED  BY <2>1, <2>2
<1>. HIDE DEF there
<1>9. i \in SeedIdx /\ p \in Positions
  <2>1. PICK c \in there : i = c.idx  OBVIOUS
  <2>2. PICK d \in there : p = d.at  OBVIOUS
  <2>3. c \in Junk /\ d \in Junk  BY <1>8
  <2>. QED  BY <2>1, <2>2, <2>3 DEF Junk
<1>10. [idx |-> i, at |-> p] \in Items /\ [idx |-> i, at |-> p].idx \in SeedIdx
  BY <1>0, <1>9, SeedPlaces DEF Items
<1>11. held' \in [1 .. Warps -> Items \cup {NoItem}] /\ held'[w].idx \in SeedIdx
       /\ \A v \in 1 .. Warps : v # w => held'[v] = held[v]
  BY <1>1, <1>6, <1>10
<1>12. TypeOK'
  <2>1. raced \in BOOLEAN /\ stale \in BOOLEAN /\ overflow \in BOOLEAN /\ reported \in BOOLEAN
    BY <1>0 DEF TypeOK
  <2>2. {raced', stale', overflow', reported'} \subseteq BOOLEAN
    <3>1. (n <= lens["filter0b"]) \in BOOLEAN  BY <1>6, <1>7 DEF Filters
    <3>. QED  BY <1>2, <2>1, <3>1
  <2>. QED  BY <1>0, <1>2, <1>3, <1>11, <2>2 DEF TypeOK
<1>13. SourcesOK'
  <2>1. SourceOK("gradvecs2", 0)'  BY <1>2, <1>3, <1>5 DEF SourceOK, InBuffer
  <2>. QED  BY <1>3, <1>4, <2>1 DEF SourcesOK, Reads, Computed
<1>14. WarpsOK'
  <2>1. Counted' = Counted /\ InputLen0B' = InputLen0B  BY <1>2 DEF Counted, InputLen0B
  <2>2. lens["filter0b"] <= Cardinality(Counted)  BY <1>0 DEF IInv, WarpsOK
  <2>3. ASSUME NEW v \in 1 .. Warps
        PROVE  /\ held'[v] = NoItem => storing'[v] = 0
               /\ reading'[v] > 0 /\ reading'[v] % Warps = v % Warps
               /\ held'[v] # NoItem => held'[v].idx \in SeedIdx /\ reading'[v] <= InputLen0B
    <3>1. CASE v = w  BY <1>0, <1>2, <1>7, <1>11, <3>1 DEF IInv, WarpsOK
    <3>2. CASE v # w  BY <1>0, <1>2, <1>7, <1>11, <3>2 DEF IInv, WarpsOK
    <3>. QED  BY <3>1, <3>2
  <2>4. pc' \notin 2 .. 5  BY <1>2, <1>4
  <2>. QED  BY <1>0, <1>2, <1>3, <2>1, <2>2, <2>3, <2>4 DEF WarpsOK
<1>15. OctavesFresh'  BY <1>2 DEF IInv, OctavesFresh
<1>. QED  BY <1>3, <1>12, <1>13, <1>14, <1>15 DEF IInv

\* A warp moves on to its next input, and what was counted stays counted.
LEMMA CountedGrows ==
    ASSUME TypeOK, NEW w \in 1 .. Warps, lens'["gradvecs2"] = lens["gradvecs2"],
           reading' = [reading EXCEPT ![w] = @ + Warps],
           \A v \in 1 .. Warps : v # w => storing'[v] = storing[v]
    PROVE  Counted \subseteq Counted'
<1>1. reading \in [1 .. Warps -> Nat] /\ Warps \in Nat /\ Warps > 0
  BY SMTT(40), SetupsAssumption DEF TypeOK
<1>2. ASSUME NEW n \in Counted PROVE n \in Counted'
  <2>1. /\ n \in 1 .. lens["gradvecs2"]
        /\ \E v \in 1 .. Warps : /\ n % Warps = v % Warps
                                 /\ n < reading[v] \/ (n = reading[v] /\ storing[v] # 0)
    BY DEF Counted, InputLen0B
  <2>2. PICK v \in 1 .. Warps : /\ n % Warps = v % Warps
                                /\ n < reading[v] \/ (n = reading[v] /\ storing[v] # 0)
    BY <2>1
  <2>3. n < reading'[v] \/ (n = reading'[v] /\ storing'[v] # 0)
    <3>1. CASE v = w
      <4>1. reading'[v] = reading[v] + Warps /\ reading[v] \in Nat  BY <1>1, <3>1
      <4>2. n \in Int  BY <2>1
      <4>. QED  BY <1>1, <2>2, <4>1, <4>2
    <3>2. CASE v # w  BY <1>1, <2>2, <3>2
    <3>. QED  BY <3>1, <3>2
  <2>. QED  BY <2>1, <2>2, <2>3 DEF Counted, InputLen0B
<1>. QED  BY <1>2

\* The inputs that were counted can be counted.
LEMMA CountedType ==
    ASSUME TypeOK PROVE IsFiniteSet(Counted) /\ Cardinality(Counted) \in Nat
                        /\ Cardinality(Counted) <= lens["gradvecs2"]
<1>1. lens["gradvecs2"] \in Nat  BY DEF TypeOK, Filters
<1>2. Counted \in SUBSET (1 .. lens["gradvecs2"])  BY DEF Counted, InputLen0B
<1>. QED  BY <1>1, <1>2, CountedFinite

\* The same after a step that leaves the input's length alone.
LEMMA CountedNext ==
    ASSUME TypeOK, lens'["gradvecs2"] = lens["gradvecs2"]
    PROVE  IsFiniteSet(Counted') /\ Cardinality(Counted') \in Nat
<1>1. lens["gradvecs2"] \in Nat  BY DEF TypeOK, Filters
<1>2. Counted' \in SUBSET (1 .. lens["gradvecs2"])  BY DEF Counted, InputLen0B
<1>. QED  BY <1>1, <1>2, CountedFinite

\* A warp that drops its candidate, or takes a place for it: a place is taken for
\* each input once, so that the output never has more places than the input.
LEMMA WarpCountKeeps == ASSUME IInv, NEW w \in 1 .. Warps, WarpCount(w) PROVE IInv'
<1>0. TypeOK /\ At("filter0b") /\ held[w] # NoItem /\ storing[w] = 0
  BY DEF IInv, WarpCount
<1>1. /\ stale' = (stale \/ Stale("filter0b", held[w]))
      /\ UNCHANGED <<setup, batch, pc, seeds, seedsLen, mem, noise, flags, raced, reported, pushed,
                     overflow>>
  BY DEF WarpCount, hostVars
<1>2. \/ /\ held' = [held EXCEPT ![w] = NoItem]
         /\ reading' = [reading EXCEPT ![w] = @ + Warps]
         /\ lens' = lens /\ storing' = storing
      \/ /\ lens' = [lens EXCEPT !["filter0b"] = @ + 1]
         /\ storing' = [storing EXCEPT ![w] = lens["filter0b"] + 1]
         /\ held' = held /\ reading' = reading
  BY DEF WarpCount
<1>3. /\ Origin' = Origin /\ Cap' = Cap /\ Batches' = Batches /\ Program' = Program
      /\ \A step : At(step)' <=> At(step)
      /\ SeedIdx' = SeedIdx /\ Junk' = Junk /\ NoiseOK' /\ PushedOfBatch'
  BY <1>1, WarpFrame
<1>4. /\ pc = 6 /\ \A step : At(step) => step = "filter0b"  BY <1>0, WarpPlace
<1>5. SourceOK("gradvecs2", 0)  BY <1>0, WarpSources
<1>6. /\ held \in [1 .. Warps -> Items \cup {NoItem}] /\ lens \in [Filters -> Nat]
      /\ reading \in [1 .. Warps -> Nat] /\ storing \in [1 .. Warps -> Nat]
      /\ Warps \in Nat /\ Warps > 0 /\ lens["filter0b"] \in Nat
  <2>1. Warps \in Nat /\ Warps > 0  BY SetupsAssumption
  <2>2. /\ held \in [1 .. Warps -> Items \cup {NoItem}] /\ lens \in [Filters -> Nat]
        /\ reading \in [1 .. Warps -> Nat] /\ storing \in [1 .. Warps -> Nat]
    BY <1>0 DEF TypeOK
  <2>3. lens["filter0b"] \in Nat  BY <2>2 DEF Filters
  <2>. QED  BY <2>1, <2>2, <2>3
<1>7. /\ \A v \in 1 .. Warps : held[v] = NoItem => storing[v] = 0
      /\ \A v \in 1 .. Warps : /\ reading[v] > 0 /\ reading[v] % Warps = v % Warps
                               /\ held[v] # NoItem => held[v].idx \in SeedIdx /\ reading[v] <= InputLen0B
      /\ lens["filter0b"] <= Cardinality(Counted)
  BY <1>0 DEF IInv, WarpsOK
<1>8. ~Stale("filter0b", held[w])
  <2>1. held[w].idx \in SeedIdx  BY <1>0, <1>7
  <2>2. noise[held[w].idx][0] = seeds[held[w].idx]
    <3>1. pc > 2  BY <1>4
    <3>. QED  BY <2>1, <3>1 DEF IInv, NoiseOK
  <2>3. Needs["filter0b"] = {0}  BY DEF Needs, Filters
  <2>. QED  BY <2>2, <2>3 DEF Stale
<1>9. stale' = stale
  <2>1. stale \in BOOLEAN  BY <1>0 DEF TypeOK
  <2>. QED  BY <1>1, <1>8, <2>1
<1>10. lens'["gradvecs2"] = lens["gradvecs2"] /\ InputLen0B' = InputLen0B
  <2>1. lens'["gradvecs2"] = lens["gradvecs2"]  BY <1>2, <1>6 DEF Filters
  <2>. QED  BY <2>1 DEF InputLen0B
<1>11. TypeOK'
  <2>1. held' \in [1 .. Warps -> Items \cup {NoItem}]  BY <1>2, <1>6
  <2>2. lens' \in [Filters -> Nat]
    <3>1. lens["filter0b"] + 1 \in Nat  BY <1>6
    <3>. QED  BY <1>2, <1>6, <3>1
  <2>3. storing' \in [1 .. Warps -> Nat]
    <3>1. lens["filter0b"] + 1 \in Nat  BY <1>6
    <3>. QED  BY <1>2, <1>6, <3>1
  <2>4. reading' \in [1 .. Warps -> Nat]  BY SMTT(40), <1>2, <1>6
  <2>. QED  BY <1>0, <1>1, <1>3, <1>9, <2>1, <2>2, <2>3, <2>4 DEF TypeOK
<1>12. SourcesOK'
  <2>1. SourceOK("gradvecs2", 0)'  BY <1>1, <1>3, <1>5, <1>10 DEF SourceOK, InBuffer
  <2>. QED  BY <1>3, <1>4, <2>1 DEF SourcesOK, Reads, Computed
<1>13. WarpsOK'
  <2>1. pc' \notin 2 .. 5  BY <1>1, <1>4
  <2>2. CASE /\ held' = [held EXCEPT ![w] = NoItem]
             /\ reading' = [reading EXCEPT ![w] = @ + Warps]
             /\ lens' = lens /\ storing' = storing
    <3>1. Counted \subseteq Counted'  BY <1>0, <1>10, <2>2, CountedGrows
    <3>2. /\ IsFiniteSet(Counted') /\ Cardinality(Counted') \in Nat /\ Cardinality(Counted) \in Nat
      BY <1>0, <1>10, CountedType, CountedNext
    <3>3. Cardinality(Counted) <= Cardinality(Counted')  BY <3>1, <3>2, FS_Subset
    <3>4. lens'["filter0b"] <= Cardinality(Counted')  BY SMTT(40), <1>6, <1>7, <2>2, <3>2, <3>3
    <3>5. ASSUME NEW v \in 1 .. Warps
          PROVE  /\ held'[v] = NoItem => storing'[v] = 0
                 /\ reading'[v] > 0 /\ reading'[v] % Warps = v % Warps
                 /\ held'[v] # NoItem => held'[v].idx \in SeedIdx /\ reading'[v] <= InputLen0B
      <4>1. CASE v = w
        <5>1. held'[w] = NoItem /\ reading'[w] = reading[w] + Warps /\ storing'[w] = 0
          BY <1>0, <1>6, <2>2
        <5>2. reading[w] \in Nat  BY <1>6
        <5>3. (reading[w] + Warps) % Warps = reading[w] % Warps  BY <1>6, <5>2, ModTurn
        <5>4. reading[w] + Warps > 0  BY <1>6, <5>2
        <5>. QED  BY <1>7, <4>1, <5>1, <5>3, <5>4
      <4>2. CASE v # w
        <5>1. held'[v] = held[v] /\ reading'[v] = reading[v] /\ storing'[v] = storing[v]
          BY <1>6, <2>2, <4>2
        <5>. QED  BY <1>7, <5>1
      <4>. QED  BY <4>1, <4>2
    <3>. QED  BY <1>0, <1>3, <1>10, <2>1, <3>4, <3>5 DEF WarpsOK
  <2>3. CASE /\ lens' = [lens EXCEPT !["filter0b"] = @ + 1]
             /\ storing' = [storing EXCEPT ![w] = lens["filter0b"] + 1]
             /\ held' = held /\ reading' = reading
    <3>. DEFINE r == reading[w]
    <3>1. r \in Nat /\ r > 0 /\ r <= InputLen0B /\ r % Warps = w % Warps  BY <1>0, <1>6, <1>7
    <3>2. r \notin Counted
      <4>1. SUFFICES ASSUME NEW v \in 1 .. Warps, r % Warps = v % Warps,
                            r < reading[v] \/ (r = reading[v] /\ storing[v] # 0)
                     PROVE  FALSE
        BY DEF Counted
      <4>2. v = w  BY <3>1, <4>1, WarpsDistinct
      <4>. QED  BY <1>0, <3>1, <4>1, <4>2
    <3>3. storing'[w] = lens["filter0b"] + 1 /\ storing'[w] # 0
          /\ \A v \in 1 .. Warps : v # w => storing'[v] = storing[v]
      <4>1. lens["filter0b"] + 1 # 0  BY <1>6
      <4>. QED  BY <1>6, <2>3, <4>1
    <3>4. lens["gradvecs2"] \in Nat /\ r \in 1 .. lens["gradvecs2"]
      <4>1. lens["gradvecs2"] \in Nat  BY <1>6 DEF Filters
      <4>. QED  BY <3>1, <4>1 DEF InputLen0B
    <3>5. Counted \cup {r} \subseteq Counted'
      <4>1. r \in Counted'  BY <1>10, <2>3, <3>1, <3>3, <3>4 DEF Counted, InputLen0B
      <4>2. ASSUME NEW n \in Counted PROVE n \in Counted'
        <5>1. PICK v \in 1 .. Warps :
                /\ n % Warps = v % Warps
                /\ n < reading[v] \/ (n = reading[v] /\ storing[v] # 0)
          BY DEF Counted
        <5>2. n < reading'[v] \/ (n = reading'[v] /\ storing'[v] # 0)
          BY <2>3, <3>3, <5>1
        <5>3. n \in 1 .. InputLen0B'  BY <1>10 DEF Counted
        <5>. QED  BY <5>1, <5>2, <5>3 DEF Counted
      <4>. QED  BY <4>1, <4>2
    <3>6. /\ IsFiniteSet(Counted') /\ Cardinality(Counted') \in Nat
          /\ IsFiniteSet(Counted) /\ Cardinality(Counted) \in Nat
      BY <1>0, <1>10, CountedType, CountedNext
    <3>7. Cardinality(Counted \cup {r}) = Cardinality(Counted) + 1
      BY <3>2, <3>6, FS_AddElement
    <3>8. Cardinality(Counted \cup {r}) <= Cardinality(Counted')  BY <3>5, <3>6, FS_Subset
    <3>9. lens'["filter0b"] = lens["filter0b"] + 1  BY <1>6, <2>3 DEF Filters
    <3>10. lens'["filter0b"] <= Cardinality(Counted')
      <4>1. PICK c \in Nat, d \in Nat, x \in Nat :
              c = Cardinality(Counted) /\ d = Cardinality(Counted') /\ x = lens["filter0b"]
        BY <1>6, <3>6
      <4>2. x <= c /\ c + 1 <= d  BY <1>7, <3>7, <3>8, <4>1
      <4>3. x + 1 <= d  BY <4>2
      <4>. QED  BY <3>9, <4>1, <4>3
    <3>11. \A v \in 1 .. Warps :
              /\ held'[v] = NoItem => storing'[v] = 0
              /\ reading'[v] > 0 /\ reading'[v] % Warps = v % Warps
              /\ held'[v] # NoItem => held'[v].idx \in SeedIdx /\ reading'[v] <= InputLen0B
      BY <1>0, <1>7, <2>3, <3>3
    <3>. QED  BY <1>0, <1>3, <1>10, <2>1, <3>10, <3>11 DEF WarpsOK
  <2>. QED  BY <1>2, <2>2, <2>3
<1>14. OctavesFresh'  BY <1>1, <1>9 DEF IInv, OctavesFresh
<1>. QED  BY <1>3, <1>11, <1>12, <1>13, <1>14 DEF IInv

\* A warp stores its candidate in the memory the other warps still read from:
\* one candidate of the batch takes the place of another.
LEMMA WarpStoreKeeps == ASSUME IInv, NEW w \in 1 .. Warps, WarpStore(w) PROVE IInv'
<1>0. TypeOK /\ storing[w] # 0  BY DEF IInv, WarpStore
<1>1. /\ mem' = IF storing[w] <= Cap[2] THEN [mem EXCEPT ![2][storing[w]] = held[w]] ELSE mem
      /\ held' = [held EXCEPT ![w] = NoItem]
      /\ storing' = [storing EXCEPT ![w] = 0]
      /\ reading' = [reading EXCEPT ![w] = @ + Warps]
      /\ UNCHANGED <<setup, batch, pc, seeds, seedsLen, lens, noise, flags, raced, reported, pushed,
                     stale, overflow>>
  BY DEF WarpStore, hostVars
<1>2. /\ Origin' = Origin /\ Cap' = Cap /\ Batches' = Batches /\ Program' = Program
      /\ \A step : At(step)' <=> At(step)
      /\ SeedIdx' = SeedIdx /\ Junk' = Junk /\ NoiseOK' /\ PushedOfBatch'
  BY <1>1, WarpFrame
<1>3. Warps \in Nat /\ Warps > 0  BY SetupsAssumption
<1>4. /\ held \in [1 .. Warps -> Items \cup {NoItem}]
      /\ reading \in [1 .. Warps -> Nat] /\ storing \in [1 .. Warps -> Nat]
      /\ mem \in [{1, 2} -> Seq(Items)] /\ \A n \in {1, 2} : Len(mem[n]) <= Cap[n]
  BY <1>0 DEF TypeOK
<1>5. held[w] # NoItem /\ held[w] \in Items  BY <1>0, <1>4 DEF IInv, WarpsOK
<1>6. At("filter0b") \/ pc = 0  BY <1>5 DEF IInv, WarpsOK
<1>7. /\ mem' \in [{1, 2} -> Seq(Items)] /\ \A n \in {1, 2} : Len(mem'[n]) = Len(mem[n])
      /\ \A n \in DOMAIN mem[2] : n \in DOMAIN mem'[2] /\ mem'[2][n] \in {mem[2][n], held[w]}
  <2>1. CASE storing[w] <= Cap[2]
    <3>. DEFINE s == mem[2]
                t == [s EXCEPT ![storing[w]] = held[w]]
    <3>1. s \in Seq(Items)  BY <1>4
    <3>2. mem' = [mem EXCEPT ![2] = t]  BY <1>1, <2>1
    <3>3. t \in Seq(Items) /\ Len(t) = Len(s) /\ DOMAIN t = DOMAIN s
          /\ \A n \in DOMAIN s : t[n] \in {s[n], held[w]}
      <4>1. PICK k \in Nat : k = Len(s) /\ s \in [1 .. k -> Items]  BY <3>1
      <4>2. t \in [1 .. k -> Items] /\ DOMAIN s = 1 .. k  BY <1>5, <4>1
      <4>3. t \in Seq(Items) /\ Len(t) = k /\ DOMAIN t = 1 .. k  BY <4>1, <4>2
      <4>4. \A n \in 1 .. k : t[n] \in {s[n], held[w]}  BY <4>2
      <4>. QED  BY <4>1, <4>2, <4>3, <4>4
    <3>. HIDE DEF t
    <3>4. mem'[2] = t /\ mem'[1] = mem[1]  BY <1>4, <3>2
    <3>5. mem' \in [{1, 2} -> Seq(Items)]  BY <1>4, <3>2, <3>3
    <3>. QED  BY <3>3, <3>4, <3>5
  <2>2. CASE ~(storing[w] <= Cap[2])  BY <1>1, <1>4, <2>2
  <2>. QED  BY <2>1, <2>2
<1>8. TypeOK'
  <2>1. held' \in [1 .. Warps -> Items \cup {NoItem}]  BY <1>1, <1>4
  <2>2. reading' \in [1 .. Warps -> Nat]  BY SMTT(40), <1>1, <1>3, <1>4
  <2>3. storing' \in [1 .. Warps -> Nat]  BY <1>1, <1>4
  <2>4. \A n \in {1, 2} : Len(mem'[n]) <= Cap'[n]  BY <1>2, <1>4, <1>7
  <2>. QED  BY <1>0, <1>1, <1>2, <1>7, <2>1, <2>2, <2>3, <2>4 DEF TypeOK
<1>9. SourcesOK'
  <2>1. CASE At("filter0b")
    <3>1. /\ SourceOK("gradvecs2", 0) /\ OutBuf["gradvecs2"] = 2 /\ lens["gradvecs2"] \in Nat
          /\ Cap[2] \in Nat /\ mem[2] \in Seq(Items)
      BY <2>1, WarpSources
    <3>2. held[w].idx \in SeedIdx  BY <1>5, <2>1 DEF IInv, WarpsOK
    <3>3. InBuffer("gradvecs2")' = InBuffer("gradvecs2")  BY <1>1, <1>2 DEF InBuffer
    <3>4. \A n \in InBuffer("gradvecs2") : n \in DOMAIN mem'[2] /\ mem'[2][n].idx \in SeedIdx
      BY <1>7, <3>1, <3>2 DEF SourceOK
    <3>5. \A k \in SeedIdx : flags'[k] >= 0
      <4>1. flags \in [Index -> Parts]  BY <1>0 DEF TypeOK
      <4>2. \A k \in SeedIdx : flags[k] \in Parts  BY <1>0, <4>1, SeedPlaces
      <4>. QED  BY <1>1, <4>2 DEF Parts
    <3>6. SourceOK("gradvecs2", 0)'
      BY <1>1, <1>2, <3>1, <3>3, <3>4, <3>5 DEF SourceOK
    <3>7. \A step : At(step) => step = "filter0b"  BY <1>0, <2>1, WarpPlace
    <3>. QED  BY <1>2, <3>6, <3>7 DEF SourcesOK, Reads, Computed
  <2>2. CASE pc = 0
    <3>1. \A step : ~At(step)
      <4>1. PICK n \in {4, 16} : DOMAIN Program = 1 .. n  BY <1>0, ProgramLength
      <4>2. 0 \notin 1 .. n  OBVIOUS
      <4>. QED  BY <2>2, <4>1, <4>2 DEF At
    <3>. QED  BY <1>2, <3>1 DEF SourcesOK
  <2>. QED  BY <1>6, <2>1, <2>2
<1>10. WarpsOK'
  <2>1. held'[w] = NoItem /\ storing'[w] = 0 /\ reading'[w] = reading[w] + Warps /\ reading[w] \in Nat
        /\ \A v \in 1 .. Warps :
              v # w => held'[v] = held[v] /\ storing'[v] = storing[v] /\ reading'[v] = reading[v]
    BY <1>1, <1>4
  <2>2. \A v \in 1 .. Warps : held'[v] = NoItem => storing'[v] = 0  BY <2>1 DEF IInv, WarpsOK
  <2>3. lens' = lens /\ InputLen0B' = InputLen0B  BY <1>1 DEF InputLen0B
  <2>4. CASE At("filter0b")
    <3>1. pc' \notin 2 .. 5  BY <1>0, <1>1, <2>4, WarpPlace
    <3>2. /\ \A v \in 1 .. Warps :
                /\ reading[v] > 0 /\ reading[v] % Warps = v % Warps
                /\ held[v] # NoItem => held[v].idx \in SeedIdx /\ reading[v] <= InputLen0B
          /\ lens["filter0b"] <= Cardinality(Counted)
      BY <2>4 DEF IInv, WarpsOK
    <3>3. Counted \subseteq Counted'  BY <1>0, <1>1, <2>1, <2>3, CountedGrows
    <3>4. /\ IsFiniteSet(Counted') /\ Cardinality(Counted') \in Nat /\ Cardinality(Counted) \in Nat
      BY <1>0, <2>3, CountedType, CountedNext
    <3>5. Cardinality(Counted) <= Cardinality(Counted')  BY <3>3, <3>4, FS_Subset
    <3>6. lens["filter0b"] \in Nat  BY <1>0 DEF TypeOK, Filters
    <3>7. lens'["filter0b"] <= Cardinality(Counted')  BY <2>3, <3>2, <3>4, <3>5, <3>6
    <3>8. (reading[w] + Warps) % Warps = reading[w] % Warps  BY <1>3, <2>1, ModTurn
    <3>9. reading[w] + Warps > 0  BY <1>3, <2>1
    <3>10. ASSUME NEW v \in 1 .. Warps
           PROVE  /\ reading'[v] > 0 /\ reading'[v] % Warps = v % Warps
                  /\ held'[v] # NoItem => held'[v].idx \in SeedIdx /\ reading'[v] <= InputLen0B
      <4>1. CASE v = w  BY <2>1, <3>2, <3>8, <3>9, <4>1
      <4>2. CASE v # w  BY <2>1, <3>2, <4>2
      <4>. QED  BY <4>1, <4>2
    <3>. QED  BY <1>2, <2>2, <2>3, <2>4, <3>1, <3>7, <3>10 DEF WarpsOK
  <2>5. CASE pc = 0 /\ ~At("filter0b")  BY <1>1, <1>2, <2>2, <2>5 DEF WarpsOK
  <2>. QED  BY <1>6, <2>4, <2>5
<1>11. OctavesFresh'  BY <1>1 DEF IInv, OctavesFresh
<1>. QED  BY <1>2, <1>8, <1>9, <1>10, <1>11 DEF IInv

\* The output of filter 0B is no longer than its input, and lies in the same
\* memory: what was not overwritten there is a candidate of the batch too.
LEMMA EndFilter0BKeeps == ASSUME IInv, EndFilter0B PROVE IInv'
<1>0. TypeOK /\ At("filter0b") /\ \A w \in 1 .. Warps : held[w] = NoItem  BY DEF IInv, EndFilter0B
<1>1. /\ pc' = pc + 1 /\ reading' = [w \in 1 .. Warps |-> 0]
      /\ UNCHANGED <<setup, batch, seeds, seedsLen, mem, lens, noise, flags, held, storing, raced,
                     reported, pushed, stale, overflow>>
  BY DEF EndFilter0B, devVars, hostVars
<1>2. Origin' = Origin /\ Cap' = Cap /\ Batches' = Batches /\ Program' = Program
  BY <1>1, SameSettings
<1>3. ~Origin /\ pc = 6 /\ pc' = 7 /\ Len(Program') = 16
  <2>1. ~Origin /\ pc = 6  BY <1>0, WarpPlace
  <2>. QED  BY <1>1, <1>2, <2>1, LongProgram
<1>4. SeedIdx' = SeedIdx  BY <1>1 DEF SeedIdx
<1>5. TypeOK'
  <2>1. pc' \in 0 .. Len(Program') + 1  BY <1>3
  <2>2. reading' \in [1 .. Warps -> Nat]  BY <1>1
  <2>. QED  BY <1>0, <1>1, <1>2, <2>1, <2>2 DEF TypeOK
<1>6. SourceOK("filter0b", 0)'
  <2>1. /\ SourceOK("gradvecs2", 0) /\ OutBuf["gradvecs2"] = 2 /\ lens["gradvecs2"] \in Nat
        /\ Cap[2] \in Nat
    BY <1>0, WarpSources
  <2>2. OutBuf["filter0b"] = 2 /\ lens["filter0b"] \in Nat  BY <1>0 DEF OutBuf, Filters, TypeOK
  <2>3. lens["filter0b"] <= lens["gradvecs2"]
    <3>1. Cardinality(Counted) \in Nat /\ Cardinality(Counted) <= lens["gradvecs2"]
      BY <1>0, CountedType
    <3>2. lens["filter0b"] <= Cardinality(Counted)  BY <1>0 DEF IInv, WarpsOK
    <3>. QED  BY <2>1, <2>2, <3>1, <3>2
  <2>4. \A n \in 1 .. Smaller(lens["filter0b"], Cap[2]) : n \in 1 .. Smaller(lens["gradvecs2"], Cap[2])
    BY <2>1, <2>2, <2>3 DEF Smaller
  <2>5. lens["gradvecs2"] <= Cap[2] => lens["filter0b"] <= Cap[2]  BY <2>1, <2>2, <2>3
  <2>. QED  BY <1>1, <1>2, <1>4, <2>1, <2>2, <2>4, <2>5 DEF SourceOK, InBuffer
<1>7. SourcesOK' /\ ~At("filter0b")'
  <2>1. \A step : At(step)' => step = "clearFlags"  BY <1>1, <1>3, NextPlace, LongProgram
  <2>2. Reads["clearFlags"] = "filter0b" /\ Computed["clearFlags"] = 0  BY DEF Reads, Computed
  <2>. QED  BY <1>6, <2>1, <2>2 DEF SourcesOK
<1>8. NoiseOK'
  <2>1. pc > 2 /\ pc > 1 /\ ~(pc' > 7)  BY <1>3
  <2>. QED  BY <1>1, <1>2, <1>3, <1>4, <2>1 DEF IInv, NoiseOK
<1>9. WarpsOK'
  <2>1. pc' \notin 2 .. 5  BY <1>3
  <2>. QED  BY <1>0, <1>1, <1>7, <2>1 DEF IInv, WarpsOK
<1>10. OctavesFresh' /\ PushedOfBatch'
  <2>1. ~(pc' > Len(Program'))  BY <1>3
  <2>. QED  BY <1>1, <2>1 DEF IInv, OctavesFresh, PushedOfBatch, Collected
<1>. QED  BY <1>5, <1>7, <1>8, <1>9, <1>10 DEF IInv

(***************************************************************************)
(* The invariant                                                           *)
(***************************************************************************)

\* Before the first batch.
LEMMA InitIInv == Init => IInv
<1>. SUFFICES ASSUME Init PROVE IInv  OBVIOUS
<1>1. setup \in Setups /\ pc = 1 /\ batch = 1  BY DEF Init
<1>2. Origin \in BOOLEAN /\ Cap \in [{1, 2} -> Nat] /\ Batches \in Seq(SUBSET Seeds)
  BY <1>1, SetupsAssumption DEF Origin, Cap, Batches
<1>3. PICK n \in {4, 16} : n = Len(Program)  BY <1>2, LongProgram, ShortProgram
<1>4. TypeOK
  <2>1. pc \in 0 .. Len(Program) + 1
    <3>1. 1 \in 0 .. n + 1  OBVIOUS
    <3>. QED  BY <1>1, <1>3, <3>1
  <2>2. batch \in 1 .. Len(Batches) + 1
    <3>1. Len(Batches) \in Nat  BY <1>2
    <3>. QED  BY <1>1, <3>1
  <2>3. mem \in [{1, 2} -> Seq(Items)] /\ \A k \in {1, 2} : Len(mem[k]) <= Cap[k]
    <3>1. \A k \in {1, 2} : mem[k] = <<>> /\ Cap[k] \in Nat  BY <1>2 DEF Init
    <3>2. Len(<<>>) = 0 /\ <<>> \in Seq(Items)  OBVIOUS
    <3>3. mem \in [{1, 2} -> Seq(Items)]  BY <3>2 DEF Init
    <3>. QED  BY <3>1, <3>2, <3>3
  <2>4. /\ lens \in [Filters -> Nat] /\ flags \in [Index -> Parts]
        /\ noise \in [Index -> [Parts -> Seeds \cup {0}]] /\ seeds \in [Index -> Seeds \cup {0}]
    BY DEF Init, Parts
  <2>5. /\ held \in [1 .. Warps -> Items \cup {NoItem}] /\ storing \in [1 .. Warps -> Nat]
        /\ reading \in [1 .. Warps -> Nat] /\ {raced, stale, overflow, reported} \subseteq BOOLEAN
    BY DEF Init
  <2>6. seedsLen \in 0 .. SeedsCap  BY SetupsAssumption DEF Init
  <2>. QED  BY <1>1, <2>1, <2>2, <2>3, <2>4, <2>5, <2>6 DEF TypeOK
<1>5. \A step : At(step) => step = "seeds"  BY <1>1, LongProgram, ShortProgram DEF At
<1>6. SourcesOK  BY <1>5 DEF SourcesOK, Reads
<1>7. NoiseOK  BY <1>1 DEF NoiseOK
<1>8. WarpsOK
  <2>1. \A w \in 1 .. Warps : held[w] = NoItem /\ storing[w] = 0  BY DEF Init
  <2>. QED  BY <1>1, <1>5, <2>1 DEF WarpsOK
<1>9. OctavesFresh /\ PushedOfBatch
  <2>1. ~(1 > n)  OBVIOUS
  <2>. QED  BY <1>1, <1>3, <2>1 DEF Init, OctavesFresh, PushedOfBatch, Collected
<1>. QED  BY <1>4, <1>6, <1>7, <1>8, <1>9 DEF IInv

\* Every step keeps the invariant.
LEMMA NextIInv == IInv /\ [Next]_vars => IInv'
<1>. SUFFICES ASSUME IInv, [Next]_vars PROVE IInv'  OBVIOUS
<1>1. CASE FilterSeeds  BY <1>1, FilterSeedsKeeps
<1>2. CASE InitNoise  BY <1>2, InitNoiseKeeps
<1>3. CASE ClearFlags  BY <1>3, ClearFlagsKeeps
<1>4. CASE OriginCheck \/ GradVecs1 \/ Filter0A \/ GradVecs2 \/ Filter2
  <2>1. PICK f \in Filters \ {"filter0b"} : RunFilter(f)
    BY <1>4 DEF OriginCheck, GradVecs1, Filter0A, GradVecs2, Filter2, Filters
  <2>. QED  BY <2>1, RunFilterKeeps
<1>5. CASE EndFilter0B  BY <1>5, EndFilter0BKeeps
<1>6. CASE Collect  BY <1>6, CollectKeeps
<1>7. CASE Fault  BY <1>7, FaultKeeps
<1>8. CASE NextBatch  BY <1>8, NextBatchKeeps
<1>9. CASE Done \/ UNCHANGED vars
  <2>1. UNCHANGED vars  BY <1>9 DEF Done
  <2>. QED  BY <2>1, StutterKeeps
<1>10. ASSUME NEW l \in DOMAIN LateStage, LateInit(l) PROVE IInv'  BY <1>10, LateInitKeeps
<1>11. ASSUME NEW w \in 1 .. Warps, WarpRead(w) \/ WarpCount(w) \/ WarpStore(w) PROVE IInv'
  BY <1>11, WarpReadKeeps, WarpCountKeeps, WarpStoreKeeps
<1>. QED
  BY <1>1, <1>2, <1>3, <1>4, <1>5, <1>6, <1>7, <1>8, <1>9, <1>10, <1>11 DEF Next

\* IInv holds of every run of a GPU thread: between two kernels, what the next
\* one will read is of seeds of this batch, and if no buffer was too small, the
\* late kernels have computed the noise it will sample.
THEOREM Invariance == Spec => []IInv
<1>1. Init => IInv  BY InitIInv
<1>2. IInv /\ [Next]_vars => IInv'  BY NextIInv
<1>. QED  BY <1>1, <1>2, PTL DEF Spec

\* The buffers and tables keep their types, and no kernel of GpuThread::run
\* writes beyond the capacity of buffer_1 or buffer_2.
THEOREM TypeCorrect == Spec => []TypeOK
<1>1. IInv => TypeOK  BY DEF IInv
<1>. QED  BY <1>1, Invariance, PTL

\* With any batches, buffers and filters: unless a buffer was too small, no filter
\* samples noise that late_kernel has not computed for the seeds of this batch,
\* although the table of noises is not cleared and filter 0B races with itself.
THEOREM OctavesCorrect == Spec => []OctavesFresh
<1>1. IInv => OctavesFresh  BY DEF IInv
<1>. QED  BY <1>1, Invariance, PTL

\* Unless a buffer was too small, what GpuThread::run pushes on gpu_outputs is of
\* seeds that filter_seeds selected for this batch: neither the candidates that
\* earlier batches left in the buffers nor those the warps of filter 0B tear can
\* bring another seed in.
THEOREM PushedCorrect == Spec => []PushedOfBatch
<1>1. IInv => PushedOfBatch  BY DEF IInv
<1>. QED  BY <1>1, Invariance, PTL

(***************************************************************************)
(* Counting                                                                *)
(***************************************************************************)

\* One value of the function by which SumFunctionOnSet is defined.
Added(fun, g, T) ==
    IF T = {} THEN 0
    ELSE LET x == CHOOSE x \in T : TRUE IN fun[x] + g[T \ {x}]

\* The function exists.
LEMMA AddedExists ==
    ASSUME NEW S, IsFiniteSet(S), NEW fun
    PROVE  \E g : g = [T \in SUBSET S |-> Added(fun, g, T)]
<1>. DEFINE Small(m) == {T \in SUBSET S : Cardinality(T) <= m}
            Fits(m, g) == g = [T \in Small(m) |-> Added(fun, g, T)]
            N == {m \in 0 .. Cardinality(S) : \E g : Fits(m, g)}
<1>0. Cardinality(S) \in Nat  BY FS_CardinalityType
<1>a. \A T \in SUBSET S : IsFiniteSet(T) /\ Cardinality(T) \in Nat /\ Cardinality(T) <= Cardinality(S)
  BY FS_Subset, FS_CardinalityType
<1>b. \A T \in SUBSET S : T # {} =>
          LET x == CHOOSE x \in T : TRUE
          IN  T \ {x} \in SUBSET S /\ Cardinality(T \ {x}) = Cardinality(T) - 1
  <2>1. SUFFICES ASSUME NEW T \in SUBSET S, T # {}, NEW x, x = CHOOSE y \in T : TRUE
                 PROVE  T \ {x} \in SUBSET S /\ Cardinality(T \ {x}) = Cardinality(T) - 1
    OBVIOUS
  <2>2. x \in T  BY <2>1
  <2>. QED  BY <1>a, <2>2, FS_RemoveElement
<1>1. 0 \in N
  <2>1. \A T \in Small(0) : T = {}  BY <1>a, FS_EmptySet
  <2>2. Fits(0, [T \in Small(0) |-> 0])
    <3>. DEFINE g == [T \in Small(0) |-> 0]
    <3>1. \A T \in Small(0) : Added(fun, g, T) = 0  BY <2>1 DEF Added
    <3>. HIDE DEF Small
    <3>. QED  BY <3>1
  <2>. HIDE DEF Fits
  <2>. QED  BY <1>0, <2>2
<1>2. ASSUME NEW m \in 0 .. Cardinality(S) - 1, m \in N PROVE m + 1 \in N
  <2>1. PICK g : Fits(m, g)  BY <1>2
  <2>. DEFINE h == [T \in Small(m + 1) |-> Added(fun, g, T)]
  <2>2. \A T \in Small(m) : h[T] = g[T]
    <3>1. SUFFICES ASSUME NEW T \in Small(m) PROVE h[T] = g[T]  OBVIOUS
    <3>2. T \in Small(m + 1)  BY <1>0, <1>a
    <3>. HIDE DEF Small
    <3>3. h[T] = Added(fun, g, T)  BY <3>2
    <3>. QED  BY <2>1, <3>3
  <2>3. \A T \in Small(m + 1) : Added(fun, h, T) = Added(fun, g, T)
    <3>1. SUFFICES ASSUME NEW T \in Small(m + 1), T # {} PROVE Added(fun, h, T) = Added(fun, g, T)
      BY DEF Added
    <3>2. PICK x : x = CHOOSE y \in T : TRUE  OBVIOUS
    <3>3. T \ {x} \in SUBSET S /\ Cardinality(T \ {x}) = Cardinality(T) - 1  BY <1>b, <3>1, <3>2
    <3>4. T \ {x} \in Small(m)  BY <1>0, <1>a, <3>3
    <3>. HIDE DEF h, Small
    <3>. QED  BY <2>2, <3>2, <3>4 DEF Added
  <2>4. Fits(m + 1, h)
    <3>1. h = [T \in Small(m + 1) |-> Added(fun, g, T)]  OBVIOUS
    <3>. HIDE DEF h, Small
    <3>. QED  BY <2>3, <3>1
  <2>5. m + 1 \in 0 .. Cardinality(S)  BY <1>0
  <2>. HIDE DEF Fits, h
  <2>. QED  BY <2>4, <2>5
<1>3. Cardinality(S) \in N
  <2>. HIDE DEF N
  <2>1. 0 .. Cardinality(S) \subseteq N  BY <1>0, <1>1, <1>2, SetInduction
  <2>. QED  BY <1>0, <2>1
<1>4. Small(Cardinality(S)) = SUBSET S  BY <1>a
<1>. QED  BY <1>3, <1>4

\* The members of D with a key in T.
WithKey(D, key, T) == {n \in D : key[n] \in T}

\* The members of D are as many as those with each of their keys together.
LEMMA SumIs ==
    ASSUME NEW S, IsFiniteSet(S), NEW D, IsFiniteSet(D), NEW key, NEW fun,
           \A q \in S : fun[q] = Cardinality(WithKey(D, key, {q}))
    PROVE  SumFunctionOnSet(fun, S) = Cardinality(WithKey(D, key, S))
<1>. DEFINE f == CHOOSE g : g = [T \in SUBSET S |-> Added(fun, g, T)]
            With(T) == WithKey(D, key, T)
            P(n) == \A T \in SUBSET S : Cardinality(T) = n => f[T] = Cardinality(With(T))
            N == {n \in 0 .. Cardinality(S) : P(n)}
<1>1. SumFunctionOnSet(fun, S) = f[S]
  BY DEF SumFunctionOnSet, FoldFunctionOnSet, MapThenFoldSet, Added
<1>2. f = [T \in SUBSET S |-> Added(fun, f, T)]  BY AddedExists
<1>. HIDE DEF f
<1>3. Cardinality(S) \in Nat  BY FS_CardinalityType
<1>4. \A T \in SUBSET S : IsFiniteSet(T) /\ Cardinality(T) \in Nat  BY FS_Subset, FS_CardinalityType
<1>5. \A E \in SUBSET D : IsFiniteSet(E) /\ Cardinality(E) \in Nat  BY FS_Subset, FS_CardinalityType
<1>6. 0 \in N
  <2>1. f[{}] = 0  BY <1>2 DEF Added
  <2>2. Cardinality(With({})) = 0
    <3>1. With({}) = {}  BY DEF WithKey
    <3>. QED  BY <3>1, FS_EmptySet
  <2>3. P(0)
    <3>1. SUFFICES ASSUME NEW T \in SUBSET S, Cardinality(T) = 0 PROVE f[T] = Cardinality(With(T))
      OBVIOUS
    <3>2. T = {}  BY <1>4, <3>1, FS_EmptySet
    <3>. QED  BY <2>1, <2>2, <3>2
  <2>. HIDE DEF P
  <2>. QED  BY <1>3, <2>3
<1>7. ASSUME NEW n \in 0 .. Cardinality(S) - 1, n \in N PROVE n + 1 \in N
  <2>1. P(n)  BY <1>7
  <2>2. ASSUME NEW T \in SUBSET S, Cardinality(T) = n + 1 PROVE f[T] = Cardinality(With(T))
    <3>1. T # {}  BY <1>3, <1>4, <2>2, FS_EmptySet
    <3>2. PICK x : x = CHOOSE y \in T : TRUE  OBVIOUS
    <3>3. x \in T  BY <3>1, <3>2
    <3>4. Cardinality(T \ {x}) = Cardinality(T) - 1  BY <1>4, <3>3, FS_RemoveElement
    <3>5. f[T \ {x}] = Cardinality(With(T \ {x}))  BY <1>3, <2>1, <2>2, <3>4
    <3>6. f[T] = fun[x] + f[T \ {x}]  BY <1>2, <3>1, <3>2 DEF Added
    <3>. DEFINE A == WithKey(D, key, {x})
                B == With(T \ {x})
    <3>7. A \cup B = With(T) /\ A \cap B = {} /\ A \in SUBSET D /\ B \in SUBSET D  BY <3>3 DEF WithKey
    <3>8. fun[x] = Cardinality(A)  BY <3>3
    <3>. HIDE DEF A, B, With
    <3>9. IsFiniteSet(A) /\ IsFiniteSet(B) /\ Cardinality(A) \in Nat /\ Cardinality(B) \in Nat
      BY <1>5, <3>7
    <3>10. Cardinality(A \cup B) = Cardinality(A) + Cardinality(B) - Cardinality(A \cap B)
      BY <3>9, FS_Union
    <3>11. Cardinality(A \cap B) = 0  BY <3>7, FS_EmptySet
    <3>12. Cardinality(With(T)) = Cardinality(A) + Cardinality(B)  BY <3>7, <3>9, <3>10, <3>11
    <3>. QED  BY <3>5, <3>6, <3>8, <3>12 DEF B
  <2>3. n + 1 \in 0 .. Cardinality(S)  BY <1>3
  <2>. QED  BY <2>2, <2>3
<1>8. Cardinality(S) \in N
  <2>. HIDE DEF N
  <2>1. 0 .. Cardinality(S) \subseteq N  BY <1>3, <1>6, <1>7, SetInduction
  <2>. QED  BY <1>3, <2>1
<1>. QED  BY <1>1, <1>8

\* A one-to-one map between two sets.
LEMMA SameNumber ==
    ASSUME NEW S, NEW T, IsFiniteSet(S), NEW g \in [S -> T],
           \A a, b \in S : g[a] = g[b] => a = b, \A t \in T : \E a \in S : g[a] = t
    PROVE  Cardinality(S) = Cardinality(T)
<1>1. g \in Bijection(S, T)  BY DEF Bijection, Injection, Surjection, IsInjective
<1>. QED  BY <1>1, FS_Bijection DEF ExistsBijection

(***************************************************************************)
(* The ways through the filters                                            *)
(***************************************************************************)

\* One value of the function Ways.
Led(g, n) ==
    [s \in Seeds |-> [p \in Positions |->
        IF n = 0
          THEN IF p = 0 THEN 1 ELSE 0
          ELSE SumFunctionOnSet(g[n - 1][s], {q \in Positions : p \in Emit[Chain[n]][s][q]})]]

\* Ways is what its definition says.
LEMMA WaysAre ==
    ASSUME Len(Chain) \in Nat
    PROVE  \A n \in 0 .. Len(Chain) : Ways[n] = Led(Ways, n)
<1>. DEFINE Fits(m, g) == g = [n \in 0 .. m |-> Led(g, n)]
            S == {m \in 0 .. Len(Chain) : \E g : Fits(m, g)}
<1>1. 0 \in S
  <2>1. \A g, h : Led(g, 0) = Led(h, 0)  BY DEF Led
  <2>2. Fits(0, [n \in 0 .. 0 |-> Led(Ways, 0)])
    <3>. DEFINE g == [n \in 0 .. 0 |-> Led(Ways, 0)]
    <3>1. \A n \in 0 .. 0 : Led(g, n) = Led(Ways, 0)  BY <2>1
    <3>. QED  BY <3>1
  <2>. HIDE DEF Fits
  <2>. QED  BY <2>2
<1>2. ASSUME NEW m \in 0 .. Len(Chain) - 1, m \in S PROVE m + 1 \in S
  <2>1. PICK g : Fits(m, g)  BY <1>2
  <2>. DEFINE h == [n \in 0 .. m + 1 |-> Led(g, n)]
  <2>2. \A n \in 0 .. m : h[n] = g[n]
    <3>1. SUFFICES ASSUME NEW n \in 0 .. m PROVE h[n] = g[n]  OBVIOUS
    <3>2. n \in 0 .. m + 1  OBVIOUS
    <3>3. h[n] = Led(g, n)  BY <3>2
    <3>. QED  BY <2>1, <3>3
  <2>3. \A n \in 0 .. m + 1 : Led(h, n) = Led(g, n)
    <3>1. SUFFICES ASSUME NEW n \in 0 .. m + 1 PROVE Led(h, n) = Led(g, n)  OBVIOUS
    <3>. HIDE DEF h
    <3>2. CASE n = 0  BY <3>2 DEF Led
    <3>3. CASE n # 0
      <4>1. h[n - 1] = g[n - 1]
        <5>1. n - 1 \in 0 .. m  BY <3>3
        <5>. QED  BY <2>2, <5>1
      <4>. QED  BY <3>3, <4>1 DEF Led
    <3>. QED  BY <3>2, <3>3
  <2>4. Fits(m + 1, h)
    <3>1. h = [n \in 0 .. m + 1 |-> Led(g, n)]  OBVIOUS
    <3>. HIDE DEF h
    <3>. QED  BY <2>3, <3>1
  <2>5. m + 1 \in 0 .. Len(Chain)  OBVIOUS
  <2>. HIDE DEF Fits, h
  <2>. QED  BY <2>4, <2>5
<1>3. Len(Chain) \in S
  <2>. HIDE DEF S
  <2>1. 0 .. Len(Chain) \subseteq S  BY <1>1, <1>2, SetInduction
  <2>. QED  BY <2>1
<1>4. \E g : Fits(Len(Chain), g)  BY <1>3
<1>5. Fits(Len(Chain), Ways)  BY <1>4 DEF Ways, Led
<1>. QED  BY <1>5

\* The filters that a device runs, and their places.
LEMMA ChainPlaces ==
    ASSUME TypeOK
    PROVE  /\ Len(Chain) \in Nat /\ Rank[Final] = Len(Chain)
           /\ \A f \in Filters : (f = "origin" <=> Origin) =>
                  /\ Rank[f] \in 1 .. Len(Chain) /\ Rank[f] - 1 \in 0 .. Len(Chain) /\ Chain[Rank[f]] = f
                  /\ f \in DOMAIN Source => Rank[Source[f]] = Rank[f] - 1
                  /\ f \notin DOMAIN Source => Rank[f] = 1
<1>1. CASE Origin
  <2>1. Len(Chain) = 1 /\ Chain[1] = "origin"  BY <1>1 DEF Chain
  <2>. QED  BY <1>1, <2>1 DEF Rank, Final, Source
<1>2. CASE ~Origin
  <2>1. /\ Len(Chain) = 8 /\ Chain[1] = "gradvecs1" /\ Chain[2] = "filter0a"
        /\ Chain[3] = "gradvecs2" /\ Chain[4] = "filter0b" /\ Chain[5] = "filter2a"
        /\ Chain[6] = "filter2b" /\ Chain[7] = "filter2c" /\ Chain[8] = "filter2d"
    BY <1>2 DEF Chain
  <2>. QED  BY <1>2, <2>1 DEF Rank, Final, Source, Filters
<1>3. Origin \in BOOLEAN  BY Settings
<1>. QED  BY <1>1, <1>2, <1>3

\* The ways on to the next place, and to the first.
LEMMA NextWays ==
    ASSUME TypeOK, NEW f \in Filters, f = "origin" <=> Origin, NEW s \in Seeds
    PROVE  /\ \A p \in Positions :
                 /\ Ways[0][s][p] = IF p = 0 THEN 1 ELSE 0
                 /\ Ways[Rank[f]][s][p] =
                        SumFunctionOnSet(Ways[Rank[f] - 1][s], {q \in Positions : p \in Emit[f][s][q]})
<1>1. /\ Len(Chain) \in Nat /\ Rank[f] \in 1 .. Len(Chain) /\ Chain[Rank[f]] = f
  BY ChainPlaces
<1>2. Ways[0] = Led(Ways, 0) /\ Ways[Rank[f]] = Led(Ways, Rank[f])  BY <1>1, WaysAre
<1>3. Rank[f] # 0  BY <1>1
<1>. HIDE DEF Ways
<1>4. ASSUME NEW p \in Positions
      PROVE  /\ Led(Ways, 0)[s][p] = IF p = 0 THEN 1 ELSE 0
             /\ Led(Ways, Rank[f])[s][p] =
                    SumFunctionOnSet(Ways[Rank[f] - 1][s], {q \in Positions : p \in Emit[f][s][q]})
  BY <1>1, <1>3 DEF Led
<1>. QED  BY <1>2, <1>4

(***************************************************************************)
(* What a filter emits                                                     *)
(***************************************************************************)

\* A filter makes of n candidates of a kind n of each kind it emits for it,
\* whatever the order in which its threads take their places.
LEMMA EmissionsCounted ==
    ASSUME TypeOK, \A k \in SeedIdx : seeds[k] \in Seeds,
           NEW f \in Filters, NEW in \in Seq(Junk), NEW s \in SetToSeqs(Emissions(f, in)),
           NEW i \in SeedIdx, NEW p \in Positions, NEW fun,
           \A q \in Positions :
               fun[q] = Times(in, Len(in), i, q),
           NEW out, \A k \in 1 .. Len(s) : out[k] = s[k][2]
    PROVE  Times(out, Len(s), i, p) =
               SumFunctionOnSet(fun, {q \in Positions : p \in Emit[f][seeds[i]][q]})
<1>. DEFINE E == Emissions(f, in)
            Q == {q \in Positions : p \in Emit[f][seeds[i]][q]}
            D == {n \in 1 .. Len(in) : in[n].idx = i}
            key == [n \in D |-> in[n].at]
            A == {k \in 1 .. Len(s) : out[k] = [idx |-> i, at |-> p]}
            B == WithKey(D, key, Q)
            g == [k \in A |-> s[k][1]]
<1>1. /\ IsFiniteSet(E) /\ \A e \in E : e \in (1 .. Len(in)) \X Items
  BY EmissionsFinite
<1>2. DOMAIN in = 1 .. Len(in) /\ Len(in) \in Nat
      /\ \A n \in 1 .. Len(in) : in[n] = [idx |-> in[n].idx, at |-> in[n].at]
                                 /\ in[n].idx \in SeedIdx /\ in[n].at \in Positions
  <2>1. \A n \in 1 .. Len(in) : in[n] \in Junk  OBVIOUS
  <2>. QED  BY <2>1 DEF Junk
<1>3. ASSUME NEW n \in 1 .. Len(in), NEW e
      PROVE  <<n, e>> \in E <=> e \in Emitted(f, in[n])
  BY <1>2 DEF Emissions
<1>4. PICK m \in Nat : m = Cardinality(E)  BY <1>1, FS_CardinalityType
<1>5. s \in [1 .. m -> E] /\ \A a, b \in 1 .. m : a # b => s[a] # s[b]  BY <1>4 DEF SetToSeqs
<1>6. Len(s) = m  BY <1>4, <1>5
<1>7. \A e \in E : \E k \in 1 .. m : s[k] = e
  <2>1. s \in Injection(1 .. m, E)  BY <1>5 DEF Injection, IsInjective
  <2>2. 1 \in Int /\ m \in Int /\ (1 > m => m = 0)  BY <1>4
  <2>3. Cardinality(1 .. m) = m  BY <2>2, FS_Interval
  <2>4. s \in Surjection(1 .. m, E)  BY <1>1, <1>4, <2>1, <2>3, FS_Injection
  <2>. QED  BY <2>4 DEF Surjection
<1>8. IsFiniteSet(A)
  <2>1. 1 \in Int /\ m \in Int  BY <1>4
  <2>2. IsFiniteSet(1 .. m)  BY <2>1, FS_Interval
  <2>3. A \in SUBSET (1 .. m)  BY <1>6
  <2>. QED  BY <2>2, <2>3, FS_Subset
<1>9. IsFiniteSet(D) /\ IsFiniteSet(Q)
  <2>1. 1 \in Int /\ Len(in) \in Int  BY <1>2
  <2>2. IsFiniteSet(1 .. Len(in))  BY <2>1, FS_Interval
  <2>3. D \in SUBSET (1 .. Len(in)) /\ Q \in SUBSET Positions  OBVIOUS
  <2>. QED  BY <2>2, <2>3, FS_Subset, EmitAssumption
<1>10. ASSUME NEW k \in A
       PROVE  /\ s[k] \in E /\ s[k] = <<s[k][1], [idx |-> i, at |-> p]>> /\ g[k] = s[k][1]
              /\ g[k] \in B
  <2>1. s[k] \in E /\ s[k][2] = [idx |-> i, at |-> p]  BY <1>5, <1>6
  <2>2. s[k] = <<s[k][1], s[k][2]>> /\ s[k][1] \in 1 .. Len(in)  BY <1>1, <2>1
  <2>3. PICK n \in 1 .. Len(in) : n = s[k][1]  BY <2>2
  <2>4. [idx |-> i, at |-> p] \in Emitted(f, in[n])  BY <1>3, <2>1, <2>2, <2>3
  <2>5. PICK r \in Emit[f][seeds[in[n].idx]][in[n].at] :
           [idx |-> i, at |-> p] = [idx |-> in[n].idx, at |-> r]
    BY <2>4 DEF Emitted
  <2>6. in[n].idx = i /\ r = p  BY <2>5
  <2>7. n \in D /\ in[n].at \in Q  BY <1>2, <2>5, <2>6
  <2>8. g[k] = n  BY <2>3
  <2>9. g[k] \in B  BY <2>7, <2>8 DEF WithKey
  <2>. HIDE DEF D, Q, g, A, B
  <2>. QED  BY <2>1, <2>2, <2>3, <2>8, <2>9
<1>11. ASSUME NEW n \in B PROVE \E k \in A : g[k] = n
  <2>1. n \in 1 .. Len(in) /\ in[n].idx = i /\ p \in Emit[f][seeds[i]][in[n].at]  BY DEF WithKey
  <2>2. [idx |-> i, at |-> p] \in Emitted(f, in[n])  BY <2>1 DEF Emitted
  <2>3. PICK k \in 1 .. m : s[k] = <<n, [idx |-> i, at |-> p]>>  BY <1>3, <1>7, <2>1, <2>2
  <2>4. k \in A  BY <1>6, <2>3
  <2>. QED  BY <2>3, <2>4
<1>12. Cardinality(A) = Cardinality(B)
  <2>1. g \in [A -> B]  BY <1>10
  <2>2. \A a, b \in A : g[a] = g[b] => a = b
    <3>1. SUFFICES ASSUME NEW a \in A, NEW b \in A, g[a] = g[b] PROVE a = b  OBVIOUS
    <3>2. s[a] = s[b]  BY <1>10, <3>1
    <3>3. a \in 1 .. m /\ b \in 1 .. m  BY <1>6
    <3>. QED  BY <1>5, <3>2, <3>3
  <2>. HIDE DEF A, B, g
  <2>. QED  BY <1>8, <1>11, <2>1, <2>2, SameNumber
<1>13. SumFunctionOnSet(fun, Q) = Cardinality(B)
  <2>1. ASSUME NEW q \in Q PROVE fun[q] = Cardinality(WithKey(D, key, {q}))
    <3>1. \A n \in 1 .. Len(in) : in[n] = [idx |-> i, at |-> q] <=> in[n].idx = i /\ in[n].at = q
      BY <1>2
    <3>2. {n \in 1 .. Len(in) : in[n] = [idx |-> i, at |-> q]} = WithKey(D, key, {q})
      BY <3>1 DEF WithKey
    <3>. QED  BY <3>2 DEF Times
  <2>. HIDE DEF D, Q, key
  <2>. QED  BY <1>9, <2>1, SumIs
<1>. QED  BY <1>12, <1>13 DEF Times

(***************************************************************************)
(* The second invariant                                                    *)
(***************************************************************************)

\* Buffers with the same front.
LEMMA SameTimes ==
    ASSUME NEW a, NEW b, NEW n, \A k \in 1 .. n : a[k] = b[k], NEW i, NEW q
    PROVE  Times(a, n, i, q) = Times(b, n, i, q)
<1>1. {k \in 1 .. n : a[k] = [idx |-> i, at |-> q]} = {k \in 1 .. n : b[k] = [idx |-> i, at |-> q]}
  OBVIOUS
<1>. QED  BY <1>1 DEF Times

\* The ways do not change during a run.
LEMMA SameWays == ASSUME setup' = setup PROVE Ways' = Ways /\ Chain' = Chain
<1>1. Origin' = Origin  BY SameSettings
<1>2. Chain' = Chain  BY <1>1 DEF Chain
<1>3. Ways' = Ways  BY <1>2 DEF Ways
<1>. QED  BY <1>2, <1>3

\* The table of seeds is written once for a batch.
LEMMA TableKept ==
    ASSUME TableOK, UNCHANGED <<setup, seeds, seedsLen>>, batch' = batch \/ ~(pc' > 1),
           pc > 1 \/ ~(pc' > 1)
    PROVE  TableOK'
<1>1. Batches' = Batches /\ SeedIdx' = SeedIdx  BY SameSettings DEF SeedIdx
<1>. QED  BY <1>1 DEF TableOK

\* No batch is over before its last step.
LEMMA NotOver ==
    ASSUME TypeOK, setup' = setup, NEW step, At(step), step # "collect", pc' \in {pc, pc + 1}
    PROVE  BatchCorrect' /\ pc' > 0 /\ (pc > 1 \/ step = "seeds")
<1>1. Len(Program) \in {4, 16} /\ pc \in 1 .. Len(Program)  BY ProgramLength
<1>2. Program' = Program  BY SameSettings
<1>3. Program[Len(Program)] = "collect" /\ Program[1] = "seeds"
  BY Settings, LongProgram, ShortProgram
<1>4. pc # Len(Program) /\ (pc # 1 \/ step = "seeds")  BY <1>3 DEF At
<1>5. ~(pc' > Len(Program')) /\ pc' > 0  BY <1>1, <1>2, <1>4
<1>6. pc > 1 \/ step = "seeds"  BY <1>1, <1>4
<1>. QED  BY <1>5, <1>6 DEF BatchCorrect, Collected

\* A step that leaves the buffers alone, and the next step reads the same.
LEMMA ExactKept ==
    ASSUME ExactOK, UNCHANGED <<setup, seeds, seedsLen, mem, lens, overflow, raced>>,
           NEW r \in DOMAIN Reads \ {"filter0b"}, At(r),
           \A step : At(step)' => /\ step \in DOMAIN Reads \ {"filter0b"} /\ Reads[step] = Reads[r]
    PROVE  ExactOK'
<1>1. Ways' = Ways /\ SeedIdx' = SeedIdx  BY SameWays DEF SeedIdx
<1>2. "collect" \notin DOMAIN Reads /\ "filter0b" \in DOMAIN Reads  BY DEF Reads
<1>3. ASSUME ~overflow, ~raced, NEW f, f = Reads[r]
      PROVE  \A i \in SeedIdx, p \in Positions :
                Times(mem[OutBuf[f]], lens[f], i, p) = Ways[Rank[f]][seeds[i]][p]
  BY <1>3 DEF ExactOK, Exact
<1>4. ASSUME ~overflow', ~raced', NEW step \in DOMAIN Reads \ {"filter0b"}, At(step)',
             NEW f, f = Reads[step]
      PROVE  \A i \in SeedIdx', p \in Positions :
                Times(mem'[OutBuf[f]], lens'[f], i, p) = Ways'[Rank[f]][seeds'[i]][p]
  BY <1>1, <1>3, <1>4
<1>5. ~At("collect")' /\ ~At("filter0b")'  BY <1>2
<1>. QED  BY <1>4, <1>5 DEF ExactOK, Exact

\* filter_seeds puts each seed of the batch into one place of the table.
LEMMA FilterSeedsCounts == ASSUME IInv, FilterSeeds PROVE CountInv'
<1>0. TypeOK /\ At("seeds") /\ batch \in DOMAIN Batches  BY DEF IInv, FilterSeeds
<1>1. PICK s \in SetToSeqs(Batches[batch]) :
          /\ seeds' = [k \in Index |-> IF k <= Len(s) THEN s[k] ELSE seeds[k]]
          /\ seedsLen' = Len(s)
  BY DEF FilterSeeds
<1>2. pc' = pc + 1 /\ UNCHANGED <<setup, batch>>  BY DEF FilterSeeds
<1>3. Origin' = Origin /\ Batches' = Batches /\ Program' = Program  BY <1>2, SameSettings
<1>4. pc = 1 /\ Origin \in BOOLEAN
  <2>1. pc \in Nat  BY <1>0 DEF TypeOK
  <2>. QED  BY <1>0, <2>1, Settings, LongPlaces, ShortPlaces
<1>5. IsFiniteSet(Batches[batch]) /\ Cardinality(Batches[batch]) <= SeedsCap  BY <1>0, Settings
<1>6. PICK m \in Nat :
         /\ m = Cardinality(Batches[batch]) /\ Len(s) = m /\ s \in [1 .. m -> Batches[batch]]
         /\ \A a, b \in 1 .. m : s[a] = s[b] => a = b
         /\ \A e \in Batches[batch] : \E k \in 1 .. m : s[k] = e
  BY <1>5, SeqsAre
<1>7. SeedIdx' = 1 .. m /\ \A k \in 1 .. m : seeds'[k] = s[k]
  <2>1. \A k \in 1 .. m : k \in Index /\ k <= Len(s)  BY <1>5, <1>6, SetupsAssumption DEF Index
  <2>. QED  BY <1>1, <1>6, <2>1 DEF SeedIdx
<1>8. TableOK'
  <2>1. \A i, j \in 1 .. m : seeds'[i] = seeds'[j] => i = j  BY <1>6, <1>7
  <2>2. Batches[batch] \subseteq {seeds'[i] : i \in 1 .. m}
    <3>1. SUFFICES ASSUME NEW e \in Batches[batch] PROVE \E i \in 1 .. m : e = seeds'[i]  OBVIOUS
    <3>2. PICK k \in 1 .. m : s[k] = e  BY <1>6
    <3>. QED  BY <1>7, <3>2
  <2>. QED  BY <1>2, <1>3, <1>7, <2>1, <2>2 DEF TableOK
<1>9. ExactOK'
  <2>1. \A step : At(step)' => step = Program[2]  BY <1>2, <1>4, NextPlace
  <2>2. Program[2] \in {"init", "initFull"}  BY <1>4, LongProgram, ShortProgram
  <2>3. \A step : At(step)' => step \notin DOMAIN Reads \cup {"collect", "filter0b"}
    BY <2>1, <2>2 DEF Reads
  <2>. QED  BY <2>3 DEF ExactOK
<1>10. BatchCorrect'  BY <1>0, <1>2, NotOver
<1>. QED  BY <1>8, <1>9, <1>10 DEF CountInv

\* The first filter starts from the table.
LEMMA InitNoiseCounts == ASSUME IInv, CountInv, InitNoise PROVE CountInv'
<1>0. TypeOK /\ (At("init") \/ At("initFull"))  BY DEF IInv, InitNoise
<1>1. pc' = pc + 1 /\ UNCHANGED <<setup, batch, seeds, seedsLen>>  BY DEF InitNoise, hostVars
<1>2. pc = 2 /\ Origin \in BOOLEAN
  <2>1. pc \in Nat  BY <1>0 DEF TypeOK
  <2>. QED  BY <1>0, <2>1, Settings, LongPlaces, ShortPlaces
<1>3. TableOK'
  <2>1. pc > 1 /\ TableOK  BY <1>2 DEF CountInv
  <2>. QED  BY <1>1, <2>1, TableKept
<1>4. ExactOK'
  <2>1. \A step : At(step)' => step = Program[3]  BY <1>1, <1>2, NextPlace
  <2>2. Program[3] \in {"gradvecs1", "origin"}  BY <1>2, LongProgram, ShortProgram
  <2>3. \A step : At(step)' => step \notin DOMAIN Reads \cup {"collect", "filter0b"}
    BY <2>1, <2>2 DEF Reads
  <2>. QED  BY <2>3 DEF ExactOK
<1>5. BatchCorrect'  BY <1>0, <1>1, NotOver
<1>. QED  BY <1>3, <1>4, <1>5 DEF CountInv

\* Clearing the flags leaves the candidates alone.
LEMMA ClearFlagsCounts == ASSUME IInv, CountInv, ClearFlags PROVE CountInv'
<1>0. TypeOK /\ At("clearFlags")  BY DEF IInv, ClearFlags
<1>1. pc' = pc + 1 /\ UNCHANGED <<setup, batch, seeds, seedsLen, mem, lens, overflow, raced>>
  BY DEF ClearFlags, hostVars, warpVars
<1>2. pc = 7 /\ ~Origin
  <2>1. pc \in Nat  BY <1>0 DEF TypeOK
  <2>2. ~Origin  BY <1>0, <2>1, ShortPlaces DEF Reads
  <2>. QED  BY <1>0, <2>1, <2>2, LongPlaces
<1>3. TableOK'
  <2>1. pc > 1 /\ TableOK  BY <1>2 DEF CountInv
  <2>. QED  BY <1>1, <2>1, TableKept
<1>4. ExactOK'
  <2>1. \A step : At(step)' => step = "late1"  BY <1>1, <1>2, NextPlace, LongProgram
  <2>2. "clearFlags" \in DOMAIN Reads \ {"filter0b"} /\ "late1" \in DOMAIN Reads \ {"filter0b"}
        /\ Reads["late1"] = Reads["clearFlags"]
    BY DEF Reads
  <2>3. ExactOK  BY DEF CountInv
  <2>. QED  BY <1>0, <1>1, <2>1, <2>2, <2>3, ExactKept
<1>5. BatchCorrect'  BY <1>0, <1>1, NotOver
<1>. QED  BY <1>3, <1>4, <1>5 DEF CountInv

\* A late kernel leaves the candidates alone.
LEMMA LateInitCounts ==
    ASSUME IInv, CountInv, NEW l \in DOMAIN LateStage, LateInit(l) PROVE CountInv'
<1>0. TypeOK /\ At(l)  BY DEF IInv, LateInit
<1>1. pc' = pc + 1 /\ UNCHANGED <<setup, batch, seeds, seedsLen, mem, lens, overflow, raced>>
  BY DEF LateInit, hostVars, warpVars
<1>2. /\ ~Origin /\ pc \in {8, 10, 12, 14}
      /\ l \in DOMAIN Reads /\ Reads[l] = LateSource[l]
      /\ Program[pc + 1] \in DOMAIN Reads /\ Program[pc + 1] # "filter0b"
      /\ Reads[Program[pc + 1]] = LateSource[l]
  BY <1>0, LatePlaces
<1>3. l # "filter0b" /\ l # "collect"  BY DEF LateStage
<1>4. TableOK'
  <2>1. pc > 1 /\ TableOK  BY <1>2 DEF CountInv
  <2>. QED  BY <1>1, <2>1, TableKept
<1>5. ExactOK'
  <2>1. \A step : At(step)' => step = Program[pc + 1]  BY <1>1, NextPlace
  <2>2. ExactOK  BY DEF CountInv
  <2>. QED  BY <1>0, <1>1, <1>2, <1>3, <2>1, <2>2, ExactKept
<1>6. BatchCorrect'  BY <1>0, <1>1, <1>3, NotOver
<1>. QED  BY <1>4, <1>5, <1>6 DEF CountInv

\* After a fault nothing is pushed any more.
LEMMA FaultCounts == ASSUME IInv, CountInv, Fault PROVE CountInv'
<1>0. TypeOK  BY DEF IInv
<1>1. pc' = 0 /\ UNCHANGED <<setup, batch, seeds, seedsLen>>
  BY DEF Fault, devVars, warpVars, hostVars
<1>2. PICK n \in {4, 16} : n = Len(Program') /\ DOMAIN Program = 1 .. n
  BY <1>0, <1>1, SameSettings, ProgramLength
<1>3. ~(0 > n) /\ 0 \notin 1 .. n /\ ~(0 > 1)  OBVIOUS
<1>4. \A step : ~At(step)'  BY <1>1, <1>2, <1>3, NextPlace
<1>. QED  BY <1>1, <1>2, <1>3, <1>4 DEF CountInv, TableOK, ExactOK, BatchCorrect, Collected

\* The next batch starts with an empty table.
LEMMA NextBatchCounts == ASSUME IInv, CountInv, NextBatch PROVE CountInv'
<1>0. TypeOK  BY DEF IInv
<1>1. pc' = 1 /\ setup' = setup  BY DEF NextBatch
<1>2. PICK n \in {4, 16} : n = Len(Program') /\ DOMAIN Program = 1 .. n
  BY <1>0, <1>1, SameSettings, ProgramLength
<1>3. ~(1 > n) /\ ~(1 > 1)  OBVIOUS
<1>4. \A step : At(step)' => step = "seeds"
  <2>1. Program[1] = "seeds"  BY LongProgram, ShortProgram
  <2>. QED  BY <1>1, <2>1, NextPlace
<1>5. "seeds" \notin DOMAIN Reads \cup {"collect", "filter0b"}  BY DEF Reads
<1>. QED  BY <1>1, <1>2, <1>3, <1>4, <1>5 DEF CountInv, TableOK, ExactOK, BatchCorrect, Collected

\* What a filter is given is what the filters before it leave.
LEMMA InputsCounted ==
    ASSUME IInv, CountInv, NEW f \in Filters \ {"filter0b"}, At(f), NEW in \in Inputs(f),
           ~overflow, ~raced, NEW i \in SeedIdx, NEW q \in Positions
    PROVE  Ways[Rank[f] - 1][seeds[i]][q] = Times(in, Len(in), i, q)
<1>0. TypeOK /\ SourcesOK /\ ExactOK  BY DEF IInv, CountInv
<1>1. pc > 1 /\ (f = "origin" <=> Origin)  BY <1>0, FilterPlaces
<1>2. CASE f \in {"gradvecs1", "origin"}
  <2>1. Rank[f] - 1 = 0  BY <1>2 DEF Rank
  <2>2. seeds[i] \in Seeds  BY <1>1, SeedsType
  <2>3. Ways[0][seeds[i]][q] = IF q = 0 THEN 1 ELSE 0  BY <1>0, <1>1, <2>2, NextWays
  <2>4. in = [k \in SeedIdx |-> [idx |-> k, at |-> 0]]  BY <1>2 DEF Inputs
  <2>5. SeedIdx = 1 .. Len(in) /\ \A k \in SeedIdx : in[k] = [idx |-> k, at |-> 0]
    <3>1. seedsLen \in Nat  BY <1>0, SetupsAssumption DEF TypeOK
    <3>. QED  BY <2>4, <3>1 DEF SeedIdx
  <2>6. {k \in 1 .. Len(in) : in[k] = [idx |-> i, at |-> q]} = IF q = 0 THEN {i} ELSE {}
    <3>1. \A k \in SeedIdx : [idx |-> k, at |-> 0] = [idx |-> i, at |-> q] <=> k = i /\ q = 0
      OBVIOUS
    <3>2. \A k \in 1 .. Len(in) : in[k] = [idx |-> i, at |-> q] <=> k = i /\ q = 0  BY <2>5, <3>1
    <3>3. i \in 1 .. Len(in)  BY <2>5
    <3>. QED  BY <3>2, <3>3
  <2>7. Times(in, Len(in), i, q) = IF q = 0 THEN 1 ELSE 0
    BY <2>6, FS_EmptySet, FS_Singleton DEF Times
  <2>. QED  BY <2>1, <2>3, <2>7
<1>3. CASE f \notin {"gradvecs1", "origin"}
  <2>. DEFINE g == Source[f]
  <2>1. f \in DOMAIN Reads \ {"filter0b"} /\ f \in DOMAIN Source /\ Reads[f] = g /\ g \in Filters
        /\ Computed[f] \in Nat
    BY <1>3 DEF Filters, Reads, Source, Computed
  <2>2. Rank[g] = Rank[f] - 1  BY <1>0, <1>1, <2>1, ChainPlaces
  <2>3. in \in OutputsOf(g) /\ SourceOK(g, Computed[f])  BY <1>0, <1>3, <2>1 DEF Inputs, SourcesOK
  <2>. HIDE DEF g
  <2>4. in \in Seq(Junk) /\ DOMAIN in = 1 .. lens[g] /\ \A n \in 1 .. lens[g] : in[n] = mem[OutBuf[g]][n]
    BY <1>0, <2>1, <2>3, OutputsType
  <2>5. Len(in) = lens[g]
    <3>1. lens[g] \in Nat  BY <1>0, <2>1, Buffers
    <3>. QED  BY <2>4, <3>1
  <2>6. Times(mem[OutBuf[g]], lens[g], i, q) = Ways[Rank[g]][seeds[i]][q]
    <3>1. Exact(mem[OutBuf[g]], lens[g], g)  BY <1>0, <2>1 DEF ExactOK
    <3>. QED  BY <3>1 DEF Exact
  <2>7. Times(in, lens[g], i, q) = Times(mem[OutBuf[g]], lens[g], i, q)
    <3>1. PICK a : a = mem[OutBuf[g]]  OBVIOUS
    <3>2. \A n \in 1 .. lens[g] : in[n] = a[n]  BY <2>4, <3>1
    <3>3. Times(in, lens[g], i, q) = Times(a, lens[g], i, q)  BY <3>2, SameTimes
    <3>. QED  BY <3>1, <3>3
  <2>. QED  BY <2>2, <2>5, <2>6, <2>7
<1>. QED  BY <1>2, <1>3

\* What a filter leaves in its buffer, if the buffer is large enough.
LEMMA FilterCounts ==
    ASSUME IInv, CountInv, NEW f \in Filters \ {"filter0b"}, RunFilter(f), ~overflow', ~raced',
           NEW i \in SeedIdx, NEW p \in Positions
    PROVE  Times(mem'[OutBuf[f]], lens'[f], i, p) = Ways[Rank[f]][seeds[i]][p]
<1>0. TypeOK /\ At(f) /\ raced' = raced  BY DEF IInv, RunFilter
<1>. DEFINE b == OutBuf[f]
<1>1. PICK in \in Inputs(f) : \E s \in SetToSeqs(Emissions(f, in)) :
         LET out == [n \in 1 .. Smaller(Len(s), Cap[b]) |-> s[n][2]] IN
         /\ mem' = [mem EXCEPT ![b] = Overwrite(@, out)]
         /\ lens' = [lens EXCEPT ![f] = Len(s)]
         /\ overflow' = (overflow \/ Len(s) > Cap[b])
  BY DEF RunFilter
<1>2. PICK s \in SetToSeqs(Emissions(f, in)) :
         LET out == [n \in 1 .. Smaller(Len(s), Cap[b]) |-> s[n][2]] IN
         /\ mem' = [mem EXCEPT ![b] = Overwrite(@, out)]
         /\ lens' = [lens EXCEPT ![f] = Len(s)]
         /\ overflow' = (overflow \/ Len(s) > Cap[b])
  BY <1>1
<1>3. pc > 1 /\ (f = "origin" <=> Origin)  BY <1>0, FilterPlaces
<1>4. in \in Seq(Junk) /\ \A k \in SeedIdx : seeds[k] \in Seeds  BY <1>0, <1>3, InputsType, SeedsType
<1>5. PICK m \in Nat : m = Len(s) /\ \A n \in 1 .. m : s[n][2] \in Items
  BY <1>0, <1>4, EmissionsType
<1>6. /\ b \in {1, 2} /\ Cap[b] \in Nat /\ mem[b] \in Seq(Items) /\ Len(mem[b]) <= Cap[b]
      /\ lens \in [Filters -> Nat] /\ mem \in [{1, 2} -> Seq(Items)]
  BY <1>0, Buffers DEF TypeOK
<1>7. ~overflow /\ m <= Cap[b] /\ Smaller(m, Cap[b]) = m
  <2>1. ~(m > Cap[b]) /\ ~overflow  BY <1>2, <1>5
  <2>. QED  BY <1>5, <1>6, <2>1 DEF Smaller
<1>. DEFINE out == [n \in 1 .. m |-> s[n][2]]
<1>8. out \in Seq(Items) /\ Len(out) = m /\ \A n \in 1 .. m : out[n] = s[n][2]  BY <1>5
<1>9. mem' = [mem EXCEPT ![b] = Overwrite(mem[b], out)]  BY <1>2, <1>5, <1>6, <1>7
<1>. HIDE DEF out, b
<1>10. \A n \in 1 .. m : Overwrite(mem[b], out)[n] = out[n]
  BY <1>6, <1>7, <1>8, OverwriteType
<1>11. \A n \in 1 .. m : mem'[b][n] = s[n][2]  BY <1>6, <1>8, <1>9, <1>10
<1>12. lens'[f] = m  BY <1>2, <1>5, <1>6
<1>. DEFINE fun == Ways[Rank[f] - 1][seeds[i]]
<1>13. \A q \in Positions : fun[q] = Times(in, Len(in), i, q)
  BY <1>0, <1>7, InputsCounted
<1>. HIDE DEF fun
<1>14. Times(mem'[b], m, i, p) =
          SumFunctionOnSet(fun, {q \in Positions : p \in Emit[f][seeds[i]][q]})
  BY <1>0, <1>4, <1>5, <1>11, <1>13, EmissionsCounted
<1>15. seeds[i] \in Seeds  BY <1>4
<1>16. Ways[Rank[f]][seeds[i]][p] =
          SumFunctionOnSet(fun, {q \in Positions : p \in Emit[f][seeds[i]][q]})
  BY ZenonT(40), <1>0, <1>3, <1>15, NextWays DEF fun
<1>. QED  BY <1>12, <1>14, <1>16 DEF b

\* The warps of filter 0B start with what gradvecs_2 left.
LEMMA SharedFirst ==
    ASSUME IInv, CountInv, RunFilter("gradvecs2"), ~overflow', ~raced'
    PROVE  \E in \in [1 .. InputLen0B' -> Items] :
               \E from \in [1 .. lens'["filter0b"] -> 1 .. InputLen0B'] : SharedBy(in, from)'
<1>. DEFINE f == "gradvecs2"
<1>0. TypeOK /\ At(f) /\ f \in Filters \ {"filter0b"} /\ OutBuf[f] = 2 /\ setup' = setup
  BY DEF IInv, RunFilter, Filters, OutBuf, hostVars
<1>1. pc = 5 /\ ~Origin  BY <1>0, FilterPlaces
<1>2. /\ reading' = [w \in 1 .. Warps |-> w]
      /\ UNCHANGED <<seeds, seedsLen, held, storing>>
  BY DEF RunFilter, hostVars
<1>3. \A w \in 1 .. Warps : held'[w] = NoItem /\ storing'[w] = 0
  <2>1. ~At("filter0b") /\ pc # 0  BY <1>0, <1>1, LongPlaces
  <2>. QED  BY <1>2, <2>1 DEF IInv, WarpsOK
<1>4. /\ mem' \in [{1, 2} -> Seq(Items)] /\ lens' \in [Filters -> Nat]
      /\ lens'["filter0b"] = lens["filter0b"]
      /\ \A n \in 1 .. Smaller(lens'[f], Cap[2]) : n \in DOMAIN mem'[2]
      /\ lens'[f] <= Cap[2]
  <2>1. "filter0b" \in Filters \ {f}  BY DEF Filters
  <2>. QED  BY <1>0, <2>1, FilterWrites
<1>5. lens'["filter0b"] = 0
  <2>1. pc \in 2 .. 5  BY <1>1
  <2>. QED  BY <1>4, <2>1 DEF IInv, WarpsOK
<1>6. InputLen0B' = lens'[f] /\ lens'[f] \in Nat  BY <1>0, <1>4 DEF InputLen0B
<1>7. PICK in \in [1 .. InputLen0B' -> Items] : \A n \in 1 .. InputLen0B' : in[n] = mem'[2][n]
  <2>1. \A n \in 1 .. lens'[f] : n \in DOMAIN mem'[2]
    <3>1. Cap[2] \in Nat  BY <1>0, Buffers
    <3>. QED  BY <1>4, <1>6, <3>1 DEF Smaller
  <2>2. mem'[2] \in Seq(Items)  BY <1>4
  <2>3. [n \in 1 .. lens'[f] |-> mem'[2][n]] \in [1 .. lens'[f] -> Items]  BY <2>1, <2>2
  <2>. QED  BY <1>6, <2>3
<1>a. PICK from \in [1 .. lens'["filter0b"] -> 1 .. InputLen0B'] : from = [k \in {} |-> 0]
  <2>1. 1 .. lens'["filter0b"] = {}  BY <1>5
  <2>2. [k \in {} |-> 0] \in [{} -> 1 .. InputLen0B']  OBVIOUS
  <2>. QED  BY <2>1, <2>2
<1>8. Counted' = {}
  <2>1. SUFFICES ASSUME NEW n \in 1 .. InputLen0B', NEW w \in 1 .. Warps, n % Warps = w % Warps,
                        n < w
                 PROVE  FALSE
    BY <1>2, <1>3 DEF Counted
  <2>2. Warps \in Nat  BY SetupsAssumption
  <2>3. n \in 1 .. Warps  BY <1>6, <2>1, <2>2
  <2>4. n = w  BY <2>1, <2>3, WarpsDistinct
  <2>. QED  BY <2>1, <2>2, <2>4
<1>9. from \in Bijection(1 .. lens'["filter0b"], KeptOf(in)')
  <2>1. 1 .. lens'["filter0b"] = {} /\ KeptOf(in)' = {}  BY <1>5, <1>8 DEF KeptOf
  <2>2. from \in Bijection({}, {})
    <3>. DEFINE none == [k \in {} |-> 0]
    <3>1. none \in Bijection({}, {})
      BY DEF Bijection, Injection, Surjection, IsInjective
    <3>. QED  BY <1>a, <3>1
  <2>. QED  BY <2>1, <2>2
<1>10. Exact(in, InputLen0B, f)'
  <2>1. SUFFICES ASSUME NEW i \in SeedIdx, NEW p \in Positions
                 PROVE  Times(in, lens'[f], i, p) = Ways'[Rank[f]][seeds'[i]][p]
    <3>1. SeedIdx' = SeedIdx  BY <1>2 DEF SeedIdx
    <3>. QED  BY <1>6, <2>1, <3>1 DEF Exact
  <2>2. Times(mem'[2], lens'[f], i, p) = Ways[Rank[f]][seeds[i]][p]  BY <1>0, FilterCounts
  <2>3. PICK a : a = mem'[2]  OBVIOUS
  <2>4. Times(in, lens'[f], i, p) = Times(a, lens'[f], i, p)
    <3>1. {n \in 1 .. lens'[f] : in[n] = [idx |-> i, at |-> p]}
             = {n \in 1 .. lens'[f] : a[n] = [idx |-> i, at |-> p]}
      BY <1>6, <1>7, <2>3
    <3>. QED  BY <3>1 DEF Times
  <2>5. Ways' = Ways  BY <1>0, SameWays
  <2>. QED  BY <1>2, <2>2, <2>3, <2>4, <2>5
<1>11. \A n \in 1 .. InputLen0B' : mem'[2][n] = in[n]  BY <1>7
<1>12. 1 .. lens'["filter0b"] = {}  BY <1>5
<1>13. SharedBy(in, from)'  BY <1>3, <1>9, <1>10, <1>11, <1>12 DEF SharedBy
<1>. WITNESS in \in [1 .. InputLen0B' -> Items]
<1>. WITNESS from \in [1 .. lens'["filter0b"] -> 1 .. InputLen0B']
<1>. QED  BY <1>13

\* A filter with separate input and output memory.
LEMMA RunFilterCounts ==
    ASSUME IInv, CountInv, NEW f \in Filters \ {"filter0b"}, RunFilter(f) PROVE CountInv'
<1>0. TypeOK /\ At(f)  BY DEF IInv, RunFilter
<1>1. pc' = pc + 1 /\ UNCHANGED <<setup, batch, seeds, seedsLen>>  BY DEF RunFilter, hostVars
<1>2. /\ \A step \in DOMAIN Reads : At(step)' => Reads[step] = f
      /\ At("collect")' => Final = f
      /\ At("filter0b")' => f = "gradvecs2"
  BY <1>0, <1>1, FilterNext
<1>3. TableOK'
  <2>1. pc > 1 /\ TableOK  BY <1>0, FilterPlaces DEF CountInv
  <2>. QED  BY <1>1, <2>1, TableKept
<1>4. ASSUME ~overflow', ~raced' PROVE Exact(mem[OutBuf[f]], lens[f], f)'
  <2>1. Ways' = Ways /\ SeedIdx' = SeedIdx  BY <1>1, SameWays DEF SeedIdx
  <2>2. \A i \in SeedIdx, p \in Positions :
           Times(mem'[OutBuf[f]], lens'[f], i, p) = Ways[Rank[f]][seeds[i]][p]
    BY <1>4, FilterCounts
  <2>. QED  BY <1>1, <2>1, <2>2 DEF Exact
<1>5. ExactOK'
  <2>1. Final' = Final  BY <1>1, SameSettings
  <2>2. ASSUME ~overflow', ~raced', NEW step \in DOMAIN Reads \ {"filter0b"}, At(step)'
        PROVE  Exact(mem[OutBuf[Reads[step]]], lens[Reads[step]], Reads[step])'
    BY <1>2, <1>4, <2>2
  <2>3. ASSUME ~overflow', ~raced', At("collect")'
        PROVE  Exact(mem[OutBuf[Final]], lens[Final], Final)'
    BY <1>2, <1>4, <2>1, <2>3
  <2>4. ASSUME ~overflow', ~raced', At("filter0b")'
        PROVE  \E in \in [1 .. InputLen0B' -> Items] :
                   \E from \in [1 .. lens'["filter0b"] -> 1 .. InputLen0B'] : SharedBy(in, from)'
    BY <1>2, <2>4, SharedFirst
  <2>. QED  BY <2>2, <2>3, <2>4 DEF ExactOK
<1>6. BatchCorrect'
  <2>1. f # "collect"  BY DEF Filters
  <2>. QED  BY <1>0, <1>1, <2>1, NotOver
<1>. QED  BY <1>3, <1>5, <1>6 DEF CountInv

\* What the host pushes is what the last filter leaves.
LEMMA CollectCounts == ASSUME IInv, CountInv, Collect PROVE CountInv'
<1>0. TypeOK /\ At("collect") /\ NoiseOK /\ Final \in Filters
  BY DEF IInv, Collect, Final, Filters
<1>. DEFINE buffer == mem[OutBuf[Final]]
            k == Smaller(lens[Final], Cap[OutBuf[Final]])
            final == SubSeq(buffer, 1, k)
<1>1. pushed' = [n \in DOMAIN final |-> [seed |-> seeds[final[n].idx], at |-> final[n].at * 4]]
  BY <1>0 DEF Collect
<1>2. pc' = pc + 1 /\ UNCHANGED <<setup, batch, seeds, seedsLen, overflow, raced>>
  BY DEF Collect, devVars, warpVars
<1>3. Batches' = Batches /\ Program' = Program  BY <1>2, SameSettings
<1>4. pc = Len(Program) /\ pc \in {4, 16}
  <2>1. pc \in Nat /\ Origin \in BOOLEAN  BY <1>0, Settings DEF TypeOK
  <2>2. CASE Origin  BY <1>0, <2>1, <2>2, ShortPlaces, ShortProgram
  <2>3. CASE ~Origin  BY <1>0, <2>1, <2>3, LongPlaces, LongProgram
  <2>. QED  BY <2>1, <2>2, <2>3
<1>5. TableOK'
  <2>1. pc > 1 /\ TableOK  BY SMTT(40), <1>4 DEF CountInv
  <2>. QED  BY <1>2, <2>1, TableKept
<1>6. ExactOK'
  <2>1. DOMAIN Program = 1 .. pc  BY <1>0, <1>4, ProgramLength
  <2>2. pc + 1 \notin 1 .. pc  BY <1>4
  <2>3. \A step : ~At(step)'  BY <1>2, <2>1, <2>2, NextPlace
  <2>. QED  BY <2>3 DEF ExactOK
<1>7. ASSUME ~overflow, ~raced PROVE PushedSurvivors'
  <2>1. SourceOK(Final, 0) /\ lens[Final] <= Cap[OutBuf[Final]]
    BY <1>0, <1>7 DEF IInv, SourcesOK, SourceOK
  <2>2. lens[Final] \in Nat /\ Cap[OutBuf[Final]] \in Nat /\ buffer \in Seq(Items)
    BY <1>0, Buffers
  <2>3. PICK m \in Nat : m = lens[Final] /\ m = k  BY <2>1, <2>2 DEF Smaller
  <2>4. \A n \in 1 .. m : n \in DOMAIN buffer /\ buffer[n].idx \in SeedIdx
    BY <2>1, <2>3 DEF SourceOK, InBuffer
  <2>5. m <= Len(buffer)
    <3>1. CASE m = 0  BY <2>2, <3>1
    <3>2. CASE m > 0  BY <2>2, <2>4, <3>2
    <3>. QED  BY <2>3, <3>1, <3>2
  <2>. HIDE DEF k, buffer
  <2>6. DOMAIN final = 1 .. m /\ \A n \in 1 .. m : final[n] = buffer[n]  BY <2>2, <2>3, <2>5
  <2>. HIDE DEF final
  <2>7. /\ DOMAIN pushed' = 1 .. m
        /\ \A n \in 1 .. m : pushed'[n] = [seed |-> seeds[buffer[n].idx], at |-> buffer[n].at * 4]
    BY <1>1, <2>6
  <2>8. \A n \in 1 .. m : /\ buffer[n] = [idx |-> buffer[n].idx, at |-> buffer[n].at]
                          /\ buffer[n].idx \in SeedIdx /\ buffer[n].at \in Int
    <3>1. \A n \in 1 .. m : buffer[n] \in Items  BY <2>2, <2>4
    <3>. QED  BY <2>4, <3>1, EmitAssumption DEF Items
  <2>9. /\ \A i \in SeedIdx : seeds[i] \in Batches[batch]
        /\ \A i, j \in SeedIdx : seeds[i] = seeds[j] => i = j
        /\ Batches[batch] \subseteq {seeds[i] : i \in SeedIdx}
    <3>1. pc > 1  BY <1>4
    <3>. QED  BY <1>0, <3>1 DEF NoiseOK, CountInv, TableOK
  <2>10. ASSUME NEW s \in Seeds, NEW p \in Positions
         PROVE  Cardinality({n \in 1 .. m : pushed'[n] = [seed |-> s, at |-> p * 4]})
                    = IF s \in Batches[batch] THEN Ways[Rank[Final]][s][p] ELSE 0
    <3>1. p \in Int  BY EmitAssumption
    <3>2. CASE s \in Batches[batch]
      <4>1. PICK i \in SeedIdx : seeds[i] = s  BY <2>9, <3>2
      <4>2. ASSUME NEW n \in 1 .. m
            PROVE  pushed'[n] = [seed |-> s, at |-> p * 4] <=> buffer[n] = [idx |-> i, at |-> p]
        <5>1. pushed'[n] = [seed |-> s, at |-> p * 4]
                  <=> seeds[buffer[n].idx] = s /\ buffer[n].at * 4 = p * 4
          BY <2>7
        <5>2. buffer[n].at * 4 = p * 4 <=> buffer[n].at = p
          <6>1. PICK x \in Int : x = buffer[n].at  BY <2>8
          <6>. QED  BY <3>1, <6>1
        <5>3. seeds[buffer[n].idx] = s <=> buffer[n].idx = i  BY <2>8, <2>9, <4>1
        <5>4. buffer[n] = [idx |-> i, at |-> p] <=> buffer[n].idx = i /\ buffer[n].at = p  BY <2>8
        <5>. QED  BY <5>1, <5>2, <5>3, <5>4
      <4>3. {n \in 1 .. m : pushed'[n] = [seed |-> s, at |-> p * 4]}
                = {n \in 1 .. m : buffer[n] = [idx |-> i, at |-> p]}
        BY <4>2
      <4>4. Times(buffer, m, i, p) = Ways[Rank[Final]][seeds[i]][p]
        <5>1. Exact(buffer, m, Final)  BY <1>0, <1>7, <2>3 DEF CountInv, ExactOK, buffer
        <5>. QED  BY <5>1 DEF Exact
      <4>. QED  BY <3>2, <4>1, <4>3, <4>4 DEF Times
    <3>3. CASE s \notin Batches[batch]
      <4>1. ASSUME NEW n \in 1 .. m PROVE pushed'[n] # [seed |-> s, at |-> p * 4]
        <5>1. pushed'[n].seed = seeds[buffer[n].idx]  BY <2>7
        <5>2. seeds[buffer[n].idx] # s
          <6>1. buffer[n].idx \in SeedIdx  BY <2>8
          <6>2. seeds[buffer[n].idx] \in Batches[batch]  BY <2>9, <6>1
          <6>. QED  BY <3>3, <6>2
        <5>. QED  BY <5>1, <5>2
      <4>2. {n \in 1 .. m : pushed'[n] = [seed |-> s, at |-> p * 4]} = {}  BY <4>1
      <4>. QED  BY <3>3, <4>2, FS_EmptySet
    <3>. QED  BY <3>2, <3>3
  <2>11. Ways' = Ways /\ Chain' = Chain /\ Rank[Final] = Len(Chain)
    BY <1>0, <1>2, SameWays, ChainPlaces
  <2>. QED  BY <1>2, <1>3, <2>7, <2>10, <2>11 DEF PushedSurvivors, Survivors
<1>8. BatchCorrect'  BY <1>2, <1>7 DEF BatchCorrect
<1>. QED  BY <1>5, <1>6, <1>8 DEF CountInv

\* Nothing happens.
LEMMA StutterCounts == ASSUME IInv, CountInv, UNCHANGED vars PROVE CountInv'
<1>1. UNCHANGED <<setup, batch, pc, seeds, seedsLen, mem, lens, reading, held, storing,
                  raced, overflow, pushed>>
  BY DEF vars, devVars, warpVars, hostVars
<1>2. Final' = Final /\ Program' = Program /\ Batches' = Batches  BY <1>1, SameSettings
<1>3. Ways' = Ways /\ Chain' = Chain /\ SeedIdx' = SeedIdx /\ InputLen0B' = InputLen0B
      /\ Counted' = Counted /\ (\A step : At(step)' <=> At(step))
  BY <1>1, <1>2, SameWays DEF SeedIdx, InputLen0B, Counted, At
<1>4. TableOK'  BY <1>1, <1>2, <1>3 DEF CountInv, TableOK
<1>5. \A in, from : SharedBy(in, from)' <=> SharedBy(in, from)
  BY <1>1, <1>3 DEF SharedBy, Exact, KeptOf, Emitted
<1>6. \A a, n, f : (\A i \in SeedIdx', p \in Positions : Times(a, n, i, p) = Ways'[Rank[f]][seeds'[i]][p])
                     <=> (\A i \in SeedIdx, p \in Positions : Times(a, n, i, p) = Ways[Rank[f]][seeds[i]][p])
  BY <1>1, <1>3
<1>7. ExactOK'  BY <1>1, <1>2, <1>3, <1>5, <1>6 DEF CountInv, ExactOK, Exact
<1>8. BatchCorrect'
  BY <1>1, <1>2, <1>3 DEF CountInv, BatchCorrect, Collected, PushedSurvivors, Survivors
<1>. QED  BY <1>4, <1>7, <1>8 DEF CountInv

\* The candidates the warps of filter 0B share.
LEMMA WarpFacts ==
    ASSUME IInv, At("filter0b"), ~overflow
    PROVE  /\ InputLen0B \in Nat /\ InputLen0B = lens["gradvecs2"] /\ InputLen0B <= Cap[2] /\ Cap[2] \in Nat
           /\ mem[2] \in Seq(Items) /\ \A n \in 1 .. InputLen0B : n \in DOMAIN mem[2]
           /\ lens["filter0b"] \in Nat /\ lens["filter0b"] <= InputLen0B
           /\ lens \in [Filters -> Nat] /\ reading \in [1 .. Warps -> Nat]
           /\ storing \in [1 .. Warps -> Nat] /\ held \in [1 .. Warps -> Items \cup {NoItem}]
           /\ Warps \in Nat /\ Warps > 0
           /\ \A v \in 1 .. Warps :
                 /\ held[v] = NoItem => storing[v] = 0
                 /\ reading[v] \in Nat /\ reading[v] > 0 /\ reading[v] % Warps = v % Warps
                 /\ held[v] # NoItem => reading[v] \in 1 .. InputLen0B
<1>0. TypeOK  BY DEF IInv
<1>1. /\ SourceOK("gradvecs2", 0) /\ OutBuf["gradvecs2"] = 2 /\ lens["gradvecs2"] \in Nat
      /\ Cap[2] \in Nat /\ mem[2] \in Seq(Items)
  BY WarpSources
<1>2. lens["gradvecs2"] <= Cap[2] /\ \A n \in 1 .. lens["gradvecs2"] : n \in DOMAIN mem[2]
  BY <1>1 DEF SourceOK, InBuffer, Smaller
<1>3. /\ lens \in [Filters -> Nat] /\ reading \in [1 .. Warps -> Nat]
      /\ storing \in [1 .. Warps -> Nat] /\ held \in [1 .. Warps -> Items \cup {NoItem}]
  BY <1>0 DEF TypeOK
<1>4. Warps \in Nat /\ Warps > 0  BY SetupsAssumption
<1>5. lens["filter0b"] \in Nat  BY <1>3 DEF Filters
<1>6. lens["filter0b"] <= lens["gradvecs2"]
  <2>1. Cardinality(Counted) \in Nat /\ Cardinality(Counted) <= lens["gradvecs2"]
    BY <1>0, CountedType
  <2>2. lens["filter0b"] <= Cardinality(Counted)  BY DEF IInv, WarpsOK
  <2>. QED  BY <1>1, <1>5, <2>1, <2>2
<1>7. ASSUME NEW v \in 1 .. Warps
      PROVE  /\ held[v] = NoItem => storing[v] = 0
             /\ reading[v] \in Nat /\ reading[v] > 0 /\ reading[v] % Warps = v % Warps
             /\ held[v] # NoItem => reading[v] \in 1 .. InputLen0B
  <2>1. /\ held[v] = NoItem => storing[v] = 0
        /\ reading[v] > 0 /\ reading[v] % Warps = v % Warps
        /\ held[v] # NoItem => reading[v] <= InputLen0B
    BY DEF IInv, WarpsOK
  <2>2. reading[v] \in Nat  BY <1>3
  <2>. QED  BY <1>1, <2>1, <2>2 DEF InputLen0B
<1>. QED  BY <1>1, <1>2, <1>3, <1>4, <1>5, <1>6, <1>7 DEF InputLen0B

\* What a step of a warp can only change.
LEMMA WarpCounts ==
    ASSUME IInv, CountInv, UNCHANGED <<setup, batch, pc, seeds, seedsLen, pushed, overflow>>,
           At("filter0b") \/ pc = 0,
           ASSUME At("filter0b"), ~overflow, ~raced'
           PROVE  \E in \in [1 .. InputLen0B' -> Items] :
                      \E from \in [1 .. lens'["filter0b"] -> 1 .. InputLen0B'] : SharedBy(in, from)'
    PROVE  CountInv'
<1>0. TypeOK  BY DEF IInv
<1>1. Program' = Program /\ Batches' = Batches /\ \A step : At(step)' <=> At(step)
  BY SameSettings DEF At
<1>2. \A step : At(step) => step = "filter0b"
  <2>1. CASE At("filter0b")  BY <1>0, <2>1, WarpPlace
  <2>2. CASE pc = 0
    <3>1. 0 \notin 1 .. Len(Program)  BY <1>0, ProgramLength
    <3>. QED  BY <1>0, <2>2, <3>1, ProgramLength
  <2>. QED  BY <2>1, <2>2
<1>3. TableOK'
  <2>1. TableOK /\ pc' = pc /\ batch' = batch  BY DEF CountInv
  <2>2. (pc > 1 \/ ~(pc' > 1)) /\ (batch' = batch \/ ~(pc' > 1))  BY <2>1
  <2>. QED  BY <2>1, <2>2, TableKept
<1>4. ExactOK'  BY <1>1, <1>2 DEF ExactOK
<1>5. BatchCorrect'
  <2>1. ~(pc > Len(Program))
    <3>1. CASE At("filter0b")
      <4>1. pc = 6 /\ ~Origin  BY <1>0, <3>1, WarpPlace
      <4>2. Len(Program) = 16  BY <4>1, LongProgram
      <4>. QED  BY <4>1, <4>2
    <3>2. CASE pc = 0
      <4>1. PICK n \in {4, 16} : n = Len(Program)  BY <1>0, ProgramLength
      <4>2. ~(0 > n)  OBVIOUS
      <4>. QED  BY <3>2, <4>1, <4>2
    <3>. QED  BY <3>1, <3>2
  <2>. QED  BY <1>1, <2>1 DEF BatchCorrect, Collected
<1>. QED  BY <1>3, <1>4, <1>5 DEF CountInv

\* What the warps were given is the same after a step of one of them.
LEMMA GivenKept ==
    ASSUME UNCHANGED <<setup, seeds, seedsLen>>, lens'["gradvecs2"] = lens["gradvecs2"],
           NEW in, Exact(in, InputLen0B, "gradvecs2")
    PROVE  \A i \in SeedIdx', p \in Positions :
               Times(in, InputLen0B', i, p) = Ways'[Rank["gradvecs2"]][seeds'[i]][p]
<1>1. Ways' = Ways /\ SeedIdx' = SeedIdx /\ InputLen0B' = InputLen0B
  BY SameWays DEF SeedIdx, InputLen0B
<1>. QED  BY <1>1 DEF Exact

\* A warp reads what it was given, unless its place was taken.
LEMMA WarpReadShares ==
    ASSUME IInv, NEW w \in 1 .. Warps, WarpRead(w), ~overflow, ~raced', ~raced,
           NEW in \in [1 .. InputLen0B -> Items],
           NEW from \in [1 .. lens["filter0b"] -> 1 .. InputLen0B], SharedBy(in, from)
    PROVE  SharedBy(in, from)'
<1>. DEFINE n == reading[w]
            there == IF n <= Cap[2]
                       THEN {mem[2][n]} \cup {held[v] : v \in {u \in 1 .. Warps : storing[u] = n}}
                       ELSE Junk
<1>1. PICK i \in {c.idx : c \in there}, p \in {c.at : c \in there} :
         held' = [held EXCEPT ![w] = [idx |-> i, at |-> p]]
  BY DEF WarpRead
<1>2. /\ raced' = (raced \/ n <= lens["filter0b"]) /\ held[w] = NoItem /\ n <= InputLen0B
      /\ At("filter0b")
      /\ UNCHANGED <<setup, seeds, seedsLen, mem, lens, reading, storing>>
  BY DEF WarpRead, devVars, hostVars
<1>3. /\ InputLen0B \in Nat /\ InputLen0B <= Cap[2] /\ Cap[2] \in Nat
      /\ lens["filter0b"] \in Nat /\ lens["filter0b"] <= InputLen0B
      /\ held \in [1 .. Warps -> Items \cup {NoItem}] /\ n \in Nat /\ n > 0
      /\ storing \in [1 .. Warps -> Nat] /\ \A v \in 1 .. Warps : held[v] = NoItem => storing[v] = 0
  BY <1>2, WarpFacts
<1>4. n > lens["filter0b"] /\ n \in 1 .. InputLen0B
  <2>1. ~(n <= lens["filter0b"])  BY <1>2
  <2>. QED  BY <1>2, <1>3, <2>1
<1>5. \A u \in 1 .. Warps : storing[u] # n
  <2>1. SUFFICES ASSUME NEW u \in 1 .. Warps, storing[u] = n PROVE FALSE  OBVIOUS
  <2>2. storing[u] # 0  BY <1>3, <2>1
  <2>3. storing[u] \in 1 .. lens["filter0b"]  BY <2>2 DEF SharedBy
  <2>. QED  BY <1>3, <1>4, <2>1, <2>3
<1>6. there = {in[n]}
  <2>1. n <= Cap[2]  BY <1>3, <1>4
  <2>2. mem[2][n] = in[n]  BY <1>4 DEF SharedBy
  <2>3. {held[v] : v \in {u \in 1 .. Warps : storing[u] = n}} = {}  BY <1>5
  <2>. QED  BY <2>1, <2>2, <2>3
<1>7. [idx |-> i, at |-> p] = in[n]
  <2>1. in[n] \in Items  BY <1>4
  <2>2. i = in[n].idx /\ p = in[n].at  BY <1>6
  <2>. QED  BY <2>1, <2>2 DEF Items
<1>. HIDE DEF there
<1>8. held'[w] = in[n] /\ \A v \in 1 .. Warps : v # w => held'[v] = held[v]  BY <1>1, <1>3, <1>7
<1>9. InputLen0B' = InputLen0B /\ Counted' = Counted  BY <1>2 DEF InputLen0B, Counted
<1>10. KeptOf(in)' = KeptOf(in)  BY <1>2, <1>9 DEF KeptOf, Emitted
<1>11. \A j \in SeedIdx', q \in Positions :
          Times(in, InputLen0B', j, q) = Ways'[Rank["gradvecs2"]][seeds'[j]][q]
  BY <1>2, GivenKept DEF SharedBy
<1>12. \A v \in 1 .. Warps :
          /\ held'[v] # NoItem => held'[v] = in[reading'[v]]
          /\ storing'[v] # 0 => /\ storing'[v] \in 1 .. lens'["filter0b"]
                                /\ from[storing'[v]] = reading'[v]
  BY <1>2, <1>8 DEF SharedBy
<1>. QED  BY <1>2, <1>9, <1>10, <1>11, <1>12 DEF SharedBy, Exact

\* The inputs of a warp lie Warps apart.
LEMMA NoInputBetween ==
    ASSUME IInv, At("filter0b"), ~overflow, NEW w \in 1 .. Warps, NEW n \in 1 .. InputLen0B,
           n % Warps = w % Warps
    PROVE  n < reading[w] + Warps <=> n < reading[w] \/ n = reading[w]
<1>1. /\ InputLen0B \in Nat /\ Warps \in Nat /\ Warps > 0
      /\ reading[w] \in Nat /\ reading[w] % Warps = w % Warps
  BY WarpFacts
<1>2. n \in Nat  BY <1>1
<1>3. ASSUME n < reading[w] + Warps, reading[w] < n PROVE FALSE
  BY <1>1, <1>2, <1>3, ModDistinct
<1>. QED  BY <1>1, <1>2, <1>3

\* A warp drops its candidate.
LEMMA WarpDropShares ==
    ASSUME IInv, NEW w \in 1 .. Warps, At("filter0b"), ~overflow, held[w] # NoItem, storing[w] = 0,
           Emitted("filter0b", held[w]) = {},
           held' = [held EXCEPT ![w] = NoItem], reading' = [reading EXCEPT ![w] = @ + Warps],
           UNCHANGED <<setup, seeds, seedsLen, mem, lens, storing>>,
           NEW in \in [1 .. InputLen0B -> Items],
           NEW from \in [1 .. lens["filter0b"] -> 1 .. InputLen0B], SharedBy(in, from)
    PROVE  SharedBy(in, from)'
<1>. DEFINE r == reading[w]
<1>1. /\ InputLen0B \in Nat /\ reading \in [1 .. Warps -> Nat]
      /\ held \in [1 .. Warps -> Items \cup {NoItem}]
      /\ Warps \in Nat /\ Warps > 0 /\ r \in 1 .. InputLen0B /\ r % Warps = w % Warps
  BY WarpFacts
<1>2. reading'[w] = r + Warps /\ held'[w] = NoItem /\ storing'[w] = 0
      /\ \A v \in 1 .. Warps : v # w => reading'[v] = reading[v] /\ held'[v] = held[v]
  BY <1>1
<1>3. InputLen0B' = InputLen0B  BY DEF InputLen0B
<1>4. ASSUME NEW n \in 1 .. InputLen0B PROVE n \in Counted' <=> n \in Counted \/ n = r
  <2>1. \A v \in 1 .. Warps : n % Warps = v % Warps =>
            ((n < reading'[v] \/ (n = reading'[v] /\ storing'[v] # 0))
                <=> (n < reading[v] \/ (n = reading[v] /\ storing[v] # 0)) \/ (v = w /\ n = r))
    <3>1. SUFFICES ASSUME NEW v \in 1 .. Warps, n % Warps = v % Warps
                   PROVE  (n < reading'[v] \/ (n = reading'[v] /\ storing'[v] # 0))
                             <=> \/ n < reading[v] \/ (n = reading[v] /\ storing[v] # 0)
                                 \/ v = w /\ n = r
      OBVIOUS
    <3>2. CASE v = w
      <4>1. n < r + Warps <=> n < r \/ n = r  BY <3>1, <3>2, NoInputBetween
      <4>. QED  BY <1>2, <3>2, <4>1
    <3>3. CASE v # w  BY <1>2, <3>3
    <3>. QED  BY <3>2, <3>3
  <2>. QED  BY <1>1, <1>3, <2>1 DEF Counted
<1>5. KeptOf(in)' = KeptOf(in)
  <2>1. held[w] = in[r]  BY DEF SharedBy
  <2>2. Emitted("filter0b", in[r]) = {}  BY <2>1
  <2>3. Counted \subseteq 1 .. InputLen0B /\ Counted' \subseteq 1 .. InputLen0B
    BY <1>3 DEF Counted
  <2>4. \A n \in 1 .. InputLen0B : Emitted("filter0b", in[n])' = Emitted("filter0b", in[n])
    BY DEF Emitted
  <2>. QED  BY <1>4, <2>2, <2>3, <2>4 DEF KeptOf
<1>6. \A j \in SeedIdx', q \in Positions :
          Times(in, InputLen0B', j, q) = Ways'[Rank["gradvecs2"]][seeds'[j]][q]
  BY GivenKept DEF SharedBy
<1>7. \A v \in 1 .. Warps :
          /\ held'[v] # NoItem => held'[v] = in[reading'[v]]
          /\ storing'[v] # 0 => /\ storing'[v] \in 1 .. lens'["filter0b"]
                                /\ from[storing'[v]] = reading'[v]
  BY <1>2 DEF SharedBy
<1>. QED  BY <1>3, <1>5, <1>6, <1>7 DEF SharedBy, Exact

\* A warp takes the next place for its candidate.
LEMMA WarpTakeShares ==
    ASSUME IInv, NEW w \in 1 .. Warps, At("filter0b"), ~overflow, held[w] # NoItem, storing[w] = 0,
           Emitted("filter0b", held[w]) # {},
           lens' = [lens EXCEPT !["filter0b"] = @ + 1],
           storing' = [storing EXCEPT ![w] = lens["filter0b"] + 1],
           UNCHANGED <<setup, seeds, seedsLen, mem, held, reading>>,
           NEW in \in [1 .. InputLen0B -> Items],
           NEW from \in [1 .. lens["filter0b"] -> 1 .. InputLen0B], SharedBy(in, from)
    PROVE  \E next \in [1 .. lens'["filter0b"] -> 1 .. InputLen0B'] : SharedBy(in, next)'
<1>. DEFINE r == reading[w]
            L == lens["filter0b"]
<1>1. /\ InputLen0B \in Nat /\ L \in Nat /\ lens \in [Filters -> Nat]
      /\ storing \in [1 .. Warps -> Nat]
      /\ Warps \in Nat /\ Warps > 0 /\ r \in 1 .. InputLen0B /\ r % Warps = w % Warps
  BY WarpFacts
<1>2. /\ storing'[w] = L + 1 /\ \A v \in 1 .. Warps : v # w => storing'[v] = storing[v]
      /\ lens'["filter0b"] = L + 1 /\ InputLen0B' = InputLen0B /\ lens'["gradvecs2"] = lens["gradvecs2"]
      /\ L + 1 # 0
  BY <1>1 DEF Filters, InputLen0B
<1>3. r \notin Counted
  <2>1. SUFFICES ASSUME NEW v \in 1 .. Warps, r % Warps = v % Warps,
                        r < reading[v] \/ (r = reading[v] /\ storing[v] # 0)
                 PROVE  FALSE
    BY DEF Counted
  <2>2. v = w  BY <1>1, <2>1, WarpsDistinct
  <2>. QED  BY <1>1, <2>1, <2>2
<1>4. Counted' = Counted \cup {r}
  <2>1. ASSUME NEW n \in 1 .. InputLen0B, NEW v \in 1 .. Warps, n % Warps = v % Warps
        PROVE  (n < reading[v] \/ (n = reading[v] /\ storing'[v] # 0))
                   <=> (n < reading[v] \/ (n = reading[v] /\ storing[v] # 0)) \/ (v = w /\ n = r)
    <3>1. CASE v = w  BY <1>2, <3>1
    <3>2. CASE v # w  BY <1>2, <3>2
    <3>. QED  BY <3>1, <3>2
  <2>2. ASSUME NEW n \in 1 .. InputLen0B PROVE n \in Counted' <=> n \in Counted \/ n = r
    <3>. DEFINE In(v) == n % Warps = v % Warps
                Before(v) == n < reading[v] \/ (n = reading[v] /\ storing[v] # 0)
                After(v) == n < reading[v] \/ (n = reading[v] /\ storing'[v] # 0)
    <3>1. n \in Counted <=> \E v \in 1 .. Warps : In(v) /\ Before(v)  BY DEF Counted
    <3>2. n \in Counted' <=> \E v \in 1 .. Warps : In(v) /\ After(v)  BY <1>2 DEF Counted
    <3>3. \A v \in 1 .. Warps : In(v) => (After(v) <=> Before(v) \/ (v = w /\ n = r))  BY <2>1
    <3>4. n = r => In(w)  BY <1>1
    <3>. HIDE DEF In, Before, After
    <3>. QED  BY <3>1, <3>2, <3>3, <3>4
  <2>3. Counted \subseteq 1 .. InputLen0B /\ Counted' \subseteq 1 .. InputLen0B
    BY <1>2 DEF Counted
  <2>. QED  BY <1>1, <2>2, <2>3
<1>5. KeptOf(in)' = KeptOf(in) \cup {r}
  <2>1. held[w] = in[r]  BY DEF SharedBy
  <2>2. Emitted("filter0b", in[r]) # {}  BY <2>1
  <2>3. Counted \subseteq 1 .. InputLen0B  BY DEF Counted
  <2>4. \A n \in 1 .. InputLen0B : Emitted("filter0b", in[n])' = Emitted("filter0b", in[n])
    BY DEF Emitted
  <2>. QED  BY <1>1, <1>4, <2>2, <2>3, <2>4 DEF KeptOf
<1>6. r \notin KeptOf(in)  BY <1>3 DEF KeptOf
<1>. DEFINE grown == [k \in 1 .. L + 1 |-> IF k = L + 1 THEN r ELSE from[k]]
<1>7. PICK next \in [1 .. lens'["filter0b"] -> 1 .. InputLen0B'] : next = grown
  <2>1. \A k \in 1 .. L + 1 : k = L + 1 \/ k \in 1 .. L  BY <1>1
  <2>2. grown \in [1 .. L + 1 -> 1 .. InputLen0B]  BY <1>1, <2>1
  <2>. QED  BY <1>2, <2>2
<1>8. next[L + 1] = r /\ \A k \in 1 .. L : k \in 1 .. L + 1 /\ k # L + 1 /\ next[k] = from[k]
  <2>1. L + 1 \in 1 .. L + 1 /\ \A k \in 1 .. L : k \in 1 .. L + 1 /\ k # L + 1  BY <1>1
  <2>. QED  BY <1>7, <2>1
<1>9. \A k \in 1 .. L + 1 : k = L + 1 \/ k \in 1 .. L  BY <1>1
<1>. HIDE DEF grown, L, r
<1>10. next \in Bijection(1 .. L + 1, KeptOf(in)')
  <2>1. /\ from \in [1 .. L -> KeptOf(in)] /\ \A a, b \in 1 .. L : from[a] = from[b] => a = b
        /\ \A t \in KeptOf(in) : \E a \in 1 .. L : from[a] = t
    BY DEF SharedBy, Bijection, Injection, Surjection, IsInjective, L
  <2>2. next \in [1 .. L + 1 -> KeptOf(in) \cup {r}]
    <3>1. \A k \in 1 .. L + 1 : next[k] \in KeptOf(in) \cup {r}  BY <1>8, <1>9, <2>1
    <3>2. next \in [1 .. L + 1 -> 1 .. InputLen0B']  BY <1>2
    <3>. QED  BY <3>1, <3>2
  <2>3. \A a, b \in 1 .. L + 1 : next[a] = next[b] => a = b
    <3>1. SUFFICES ASSUME NEW a \in 1 .. L + 1, NEW b \in 1 .. L + 1, next[a] = next[b] PROVE a = b
      OBVIOUS
    <3>2. CASE a \in 1 .. L /\ b \in 1 .. L  BY <1>8, <2>1, <3>1, <3>2
    <3>3. \A k \in 1 .. L : next[k] # r
      <4>1. \A k \in 1 .. L : from[k] \in KeptOf(in)  BY <2>1
      <4>. QED  BY <1>6, <1>8, <4>1
    <3>4. CASE a = L + 1 /\ b \in 1 .. L  BY <1>8, <3>1, <3>3, <3>4
    <3>5. CASE b = L + 1 /\ a \in 1 .. L  BY <1>8, <3>1, <3>3, <3>5
    <3>. QED  BY <1>9, <3>1, <3>2, <3>4, <3>5
  <2>4. \A t \in KeptOf(in) \cup {r} : \E a \in 1 .. L + 1 : next[a] = t
    <3>1. L + 1 \in 1 .. L + 1  BY <1>1 DEF L
    <3>. QED  BY <1>8, <2>1, <3>1
  <2>. QED  BY <1>5, <2>2, <2>3, <2>4 DEF Bijection, Injection, Surjection, IsInjective
<1>11. \A j \in SeedIdx', q \in Positions :
          Times(in, InputLen0B', j, q) = Ways'[Rank["gradvecs2"]][seeds'[j]][q]
  BY <1>2, GivenKept DEF SharedBy
<1>12. \A n \in 1 .. InputLen0B' : n > lens'["filter0b"] => mem'[2][n] = in[n]
  <2>1. \A n \in 1 .. InputLen0B : n > L + 1 => n > L  BY <1>1 DEF L
  <2>. QED  BY <1>2, <2>1 DEF SharedBy, L
<1>13. \A k \in 1 .. lens'["filter0b"] :
           (\A v \in 1 .. Warps : storing'[v] # k) => mem'[2][k] = in[next[k]]
  <2>1. SUFFICES ASSUME NEW k \in 1 .. L + 1, \A v \in 1 .. Warps : storing'[v] # k
                 PROVE  mem[2][k] = in[next[k]]
    BY <1>2
  <2>2. k \in 1 .. L /\ k # 0  BY <1>1, <1>2, <1>9, <2>1
  <2>3. \A v \in 1 .. Warps : storing[v] # k
    <3>1. SUFFICES ASSUME NEW v \in 1 .. Warps PROVE storing[v] # k  OBVIOUS
    <3>2. CASE v = w  BY <2>2, <3>2
    <3>3. CASE v # w  BY <1>2, <2>1, <3>3
    <3>. QED  BY <3>2, <3>3
  <2>4. mem[2][k] = in[from[k]]  BY <2>2, <2>3 DEF SharedBy, L
  <2>. QED  BY <1>8, <2>2, <2>4
<1>14. ASSUME NEW v \in 1 .. Warps
       PROVE  /\ held'[v] # NoItem => held'[v] = in[reading'[v]]
              /\ storing'[v] # 0 => /\ storing'[v] \in 1 .. lens'["filter0b"]
                                    /\ next[storing'[v]] = reading'[v]
  <2>1. /\ held[v] # NoItem => held[v] = in[reading[v]]
        /\ storing[v] # 0 => storing[v] \in 1 .. L /\ from[storing[v]] = reading[v]
    BY DEF SharedBy, L
  <2>2. CASE v = w
    <3>1. L + 1 \in 1 .. L + 1  BY <1>1 DEF L
    <3>. QED  BY <1>2, <1>8, <2>1, <2>2, <3>1 DEF r
  <2>3. CASE v # w  BY <1>2, <1>8, <2>1, <2>3
  <2>. QED  BY <2>2, <2>3
<1>15. SharedBy(in, next)'  BY <1>2, <1>10, <1>11, <1>12, <1>13, <1>14 DEF SharedBy, Exact
<1>. WITNESS next \in [1 .. lens'["filter0b"] -> 1 .. InputLen0B']
<1>. QED  BY <1>15

\* A warp stores its candidate in its place.
LEMMA WarpStoreShares ==
    ASSUME IInv, NEW w \in 1 .. Warps, WarpStore(w), At("filter0b"), ~overflow,
           NEW in \in [1 .. InputLen0B -> Items],
           NEW from \in [1 .. lens["filter0b"] -> 1 .. InputLen0B], SharedBy(in, from)
    PROVE  SharedBy(in, from)'
<1>. DEFINE r == reading[w]
            k == storing[w]
            L == lens["filter0b"]
<1>1. /\ k # 0
      /\ mem' = IF k <= Cap[2] THEN [mem EXCEPT ![2][k] = held[w]] ELSE mem
      /\ held' = [held EXCEPT ![w] = NoItem]
      /\ storing' = [storing EXCEPT ![w] = 0]
      /\ reading' = [reading EXCEPT ![w] = @ + Warps]
      /\ UNCHANGED <<setup, seeds, seedsLen, lens>>
  BY DEF WarpStore, hostVars
<1>2. /\ InputLen0B \in Nat /\ InputLen0B <= Cap[2] /\ Cap[2] \in Nat
      /\ mem[2] \in Seq(Items) /\ \A n \in 1 .. InputLen0B : n \in DOMAIN mem[2]
      /\ L \in Nat /\ L <= InputLen0B
      /\ reading \in [1 .. Warps -> Nat] /\ storing \in [1 .. Warps -> Nat]
      /\ held \in [1 .. Warps -> Items \cup {NoItem}]
      /\ Warps \in Nat /\ Warps > 0 /\ held[w] # NoItem
      /\ r \in 1 .. InputLen0B /\ r % Warps = w % Warps
  BY <1>1, WarpFacts
<1>3. reading'[w] = r + Warps /\ held'[w] = NoItem /\ storing'[w] = 0
      /\ \A v \in 1 .. Warps :
            v # w => reading'[v] = reading[v] /\ held'[v] = held[v] /\ storing'[v] = storing[v]
  BY <1>1, <1>2
<1>4. InputLen0B' = InputLen0B  BY <1>1 DEF InputLen0B
<1>5. k \in 1 .. L /\ from[k] = r /\ held[w] = in[r]  BY <1>1, <1>2 DEF SharedBy
<1>6. mem'[2][k] = in[r] /\ \A n \in 1 .. InputLen0B : n # k => mem'[2][n] = mem[2][n]
  <2>1. k <= Cap[2] /\ k \in 1 .. InputLen0B
    <3>1. PICK l \in Nat, n \in Nat, c \in Nat :
              l = L /\ n = InputLen0B /\ c = Cap[2] /\ l <= n /\ n <= c
      BY <1>2
    <3>2. k \in 1 .. l  BY <1>5, <3>1
    <3>. QED  BY <3>1, <3>2
  <2>2. mem' = [mem EXCEPT ![2] = [mem[2] EXCEPT ![k] = held[w]]]  BY <1>1, <2>1
  <2>3. 2 \in DOMAIN mem
    <3>1. mem \in [{1, 2} -> Seq(Items)]  BY DEF IInv, TypeOK
    <3>. QED  BY <3>1
  <2>4. mem'[2] = [mem[2] EXCEPT ![k] = held[w]]  BY <2>2, <2>3
  <2>. QED  BY <1>2, <1>5, <2>1, <2>4
<1>7. ASSUME NEW n \in 1 .. InputLen0B PROVE n \in Counted' <=> n \in Counted
  <2>1. \A v \in 1 .. Warps : n % Warps = v % Warps =>
            ((n < reading'[v] \/ (n = reading'[v] /\ storing'[v] # 0))
                <=> (n < reading[v] \/ (n = reading[v] /\ storing[v] # 0)))
    <3>1. SUFFICES ASSUME NEW v \in 1 .. Warps, n % Warps = v % Warps
                   PROVE  (n < reading'[v] \/ (n = reading'[v] /\ storing'[v] # 0))
                             <=> (n < reading[v] \/ (n = reading[v] /\ storing[v] # 0))
      OBVIOUS
    <3>2. CASE v = w
      <4>1. n < r + Warps <=> n < r \/ n = r  BY <3>1, <3>2, NoInputBetween
      <4>. QED  BY <1>1, <1>3, <3>2, <4>1
    <3>3. CASE v # w  BY <1>3, <3>3
    <3>. QED  BY <3>2, <3>3
  <2>. QED  BY <1>4, <2>1 DEF Counted
<1>8. KeptOf(in)' = KeptOf(in)
  <2>1. Counted \subseteq 1 .. InputLen0B /\ Counted' \subseteq 1 .. InputLen0B
    BY <1>4 DEF Counted
  <2>2. \A n \in 1 .. InputLen0B : Emitted("filter0b", in[n])' = Emitted("filter0b", in[n])
    BY <1>1 DEF Emitted
  <2>. QED  BY <1>7, <2>1, <2>2 DEF KeptOf
<1>9. \A j \in SeedIdx', q \in Positions :
          Times(in, InputLen0B', j, q) = Ways'[Rank["gradvecs2"]][seeds'[j]][q]
  BY <1>1, GivenKept DEF SharedBy
<1>10. \A n \in 1 .. InputLen0B' : n > lens'["filter0b"] => mem'[2][n] = in[n]
  <2>1. \A n \in 1 .. InputLen0B : n > L => n # k  BY <1>2, <1>5
  <2>. QED  BY <1>1, <1>4, <1>6, <2>1 DEF SharedBy
<1>11. \A j \in 1 .. lens'["filter0b"] :
           (\A v \in 1 .. Warps : storing'[v] # j) => mem'[2][j] = in[from[j]]
  <2>1. SUFFICES ASSUME NEW j \in 1 .. L, \A v \in 1 .. Warps : storing'[v] # j
                 PROVE  mem'[2][j] = in[from[j]]
    BY <1>1
  <2>2. CASE j = k  BY <1>5, <1>6, <2>2
  <2>3. CASE j # k
    <3>1. \A v \in 1 .. Warps : storing[v] # j
      <4>1. SUFFICES ASSUME NEW v \in 1 .. Warps PROVE storing[v] # j  OBVIOUS
      <4>2. CASE v = w  BY <2>3, <4>2
      <4>3. CASE v # w  BY <1>3, <2>1, <4>3
      <4>. QED  BY <4>2, <4>3
    <3>2. mem[2][j] = in[from[j]]  BY <3>1 DEF SharedBy
    <3>3. j \in 1 .. InputLen0B  BY <1>2
    <3>. QED  BY <1>6, <2>3, <3>2, <3>3
  <2>. QED  BY <2>2, <2>3
<1>12. \A v \in 1 .. Warps :
          /\ held'[v] # NoItem => held'[v] = in[reading'[v]]
          /\ storing'[v] # 0 => /\ storing'[v] \in 1 .. lens'["filter0b"]
                                /\ from[storing'[v]] = reading'[v]
  BY <1>1, <1>3 DEF SharedBy
<1>. QED  BY <1>1, <1>4, <1>8, <1>9, <1>10, <1>11, <1>12 DEF SharedBy, Exact

\* The steps of a warp.
LEMMA WarpReadCounts == ASSUME IInv, CountInv, NEW w \in 1 .. Warps, WarpRead(w) PROVE CountInv'
<1>1. /\ At("filter0b") /\ raced' = (raced \/ reading[w] <= lens["filter0b"])
      /\ UNCHANGED <<setup, batch, pc, seeds, seedsLen, mem, lens, pushed, overflow>>
  BY DEF WarpRead, devVars, hostVars
<1>2. ASSUME ~overflow, ~raced'
      PROVE  \E in \in [1 .. InputLen0B' -> Items] :
                 \E from \in [1 .. lens'["filter0b"] -> 1 .. InputLen0B'] : SharedBy(in, from)'
  <2>1. ~raced  BY <1>1, <1>2
  <2>2. InputLen0B' = InputLen0B /\ lens' = lens  BY <1>1 DEF InputLen0B
  <2>3. PICK in \in [1 .. InputLen0B' -> Items] :
            \E from \in [1 .. lens'["filter0b"] -> 1 .. InputLen0B'] : SharedBy(in, from)
    BY <1>1, <1>2, <2>1, <2>2 DEF CountInv, ExactOK
  <2>4. PICK from \in [1 .. lens'["filter0b"] -> 1 .. InputLen0B'] : SharedBy(in, from)  BY <2>3
  <2>5. in \in [1 .. InputLen0B -> Items] /\ from \in [1 .. lens["filter0b"] -> 1 .. InputLen0B]
    BY <2>2
  <2>6. SharedBy(in, from)'  BY <1>2, <2>1, <2>4, <2>5, WarpReadShares
  <2>. WITNESS in \in [1 .. InputLen0B' -> Items]
  <2>. WITNESS from \in [1 .. lens'["filter0b"] -> 1 .. InputLen0B']
  <2>. QED  BY <2>6
<1>. QED  BY <1>1, <1>2, WarpCounts

\* A warp drops its candidate, or takes the next place for it.
LEMMA WarpCountCounts == ASSUME IInv, CountInv, NEW w \in 1 .. Warps, WarpCount(w) PROVE CountInv'
<1>1. /\ At("filter0b") /\ held[w] # NoItem /\ storing[w] = 0
      /\ UNCHANGED <<setup, batch, pc, seeds, seedsLen, mem, raced, pushed, overflow>>
  BY DEF WarpCount, hostVars
<1>2. \/ /\ Emitted("filter0b", held[w]) = {}
         /\ held' = [held EXCEPT ![w] = NoItem]
         /\ reading' = [reading EXCEPT ![w] = @ + Warps]
         /\ lens' = lens /\ storing' = storing
      \/ /\ Emitted("filter0b", held[w]) # {}
         /\ lens' = [lens EXCEPT !["filter0b"] = @ + 1]
         /\ storing' = [storing EXCEPT ![w] = lens["filter0b"] + 1]
         /\ held' = held /\ reading' = reading
  BY DEF WarpCount
<1>3. InputLen0B' = InputLen0B
  <2>1. lens \in [Filters -> Nat]  BY DEF IInv, TypeOK
  <2>. QED  BY <1>2, <2>1 DEF InputLen0B, Filters
<1>4. ASSUME ~overflow, ~raced'
      PROVE  \E in \in [1 .. InputLen0B' -> Items] :
                 \E from \in [1 .. lens'["filter0b"] -> 1 .. InputLen0B'] : SharedBy(in, from)'
  <2>1. ~raced  BY <1>1, <1>4
  <2>2. PICK in \in [1 .. InputLen0B' -> Items] :
            \E from \in [1 .. lens["filter0b"] -> 1 .. InputLen0B] : SharedBy(in, from)
    BY <1>1, <1>3, <1>4, <2>1 DEF CountInv, ExactOK
  <2>3. in \in [1 .. InputLen0B -> Items]  BY <1>3
  <2>4. PICK from \in [1 .. lens["filter0b"] -> 1 .. InputLen0B] : SharedBy(in, from)  BY <2>2
  <2>5. PICK next \in [1 .. lens'["filter0b"] -> 1 .. InputLen0B'] : SharedBy(in, next)'
    <3>1. CASE /\ Emitted("filter0b", held[w]) = {}
               /\ held' = [held EXCEPT ![w] = NoItem]
               /\ reading' = [reading EXCEPT ![w] = @ + Warps]
               /\ lens' = lens /\ storing' = storing
      <4>1. SharedBy(in, from)'  BY <1>1, <1>4, <2>3, <2>4, <3>1, WarpDropShares
      <4>2. from \in [1 .. lens'["filter0b"] -> 1 .. InputLen0B']  BY <1>3, <3>1
      <4>. USE <4>2
      <4>. WITNESS from \in [1 .. lens'["filter0b"] -> 1 .. InputLen0B']
      <4>. QED  BY <4>1
    <3>2. CASE /\ Emitted("filter0b", held[w]) # {}
               /\ lens' = [lens EXCEPT !["filter0b"] = @ + 1]
               /\ storing' = [storing EXCEPT ![w] = lens["filter0b"] + 1]
               /\ held' = held /\ reading' = reading
      BY <1>1, <1>4, <2>3, <2>4, <3>2, WarpTakeShares
    <3>. QED  BY <1>2, <3>1, <3>2
  <2>. WITNESS in \in [1 .. InputLen0B' -> Items]
  <2>. WITNESS next \in [1 .. lens'["filter0b"] -> 1 .. InputLen0B']
  <2>. QED  BY <2>5
<1>. QED  BY <1>1, <1>4, WarpCounts

\* A warp stores its candidate.
LEMMA WarpStoreCounts == ASSUME IInv, CountInv, NEW w \in 1 .. Warps, WarpStore(w) PROVE CountInv'
<1>1. UNCHANGED <<setup, batch, pc, seeds, seedsLen, lens, raced, pushed, overflow>>
  BY DEF WarpStore, hostVars
<1>2. At("filter0b") \/ pc = 0
  <2>1. storing[w] # 0  BY DEF WarpStore
  <2>2. held[w] # NoItem  BY <2>1 DEF IInv, WarpsOK
  <2>. QED  BY <2>2 DEF IInv, WarpsOK
<1>3. ASSUME At("filter0b"), ~overflow, ~raced'
      PROVE  \E in \in [1 .. InputLen0B' -> Items] :
                 \E from \in [1 .. lens'["filter0b"] -> 1 .. InputLen0B'] : SharedBy(in, from)'
  <2>1. ~raced  BY <1>1, <1>3
  <2>2. InputLen0B' = InputLen0B /\ lens' = lens  BY <1>1 DEF InputLen0B
  <2>3. PICK in \in [1 .. InputLen0B' -> Items] :
            \E from \in [1 .. lens'["filter0b"] -> 1 .. InputLen0B'] : SharedBy(in, from)
    BY <1>3, <2>1, <2>2 DEF CountInv, ExactOK
  <2>4. PICK from \in [1 .. lens'["filter0b"] -> 1 .. InputLen0B'] : SharedBy(in, from)  BY <2>3
  <2>5. in \in [1 .. InputLen0B -> Items] /\ from \in [1 .. lens["filter0b"] -> 1 .. InputLen0B]
    BY <2>2
  <2>6. SharedBy(in, from)'  BY <1>3, <2>4, <2>5, WarpStoreShares
  <2>. WITNESS in \in [1 .. InputLen0B' -> Items]
  <2>. WITNESS from \in [1 .. lens'["filter0b"] -> 1 .. InputLen0B']
  <2>. QED  BY <2>6
<1>. QED  BY <1>1, <1>2, <1>3, WarpCounts

\* When every warp is done, each input that was not dropped is in its place.
LEMMA EndFilter0BCounts == ASSUME IInv, CountInv, EndFilter0B PROVE CountInv'
<1>0. TypeOK /\ At("filter0b")
      /\ \A w \in 1 .. Warps : held[w] = NoItem /\ reading[w] > InputLen0B
  BY DEF IInv, EndFilter0B
<1>1. pc' = pc + 1 /\ UNCHANGED <<setup, batch, seeds, seedsLen, mem, lens, overflow, raced>>
  BY DEF EndFilter0B, devVars, hostVars
<1>2. ~Origin /\ pc = 6  BY <1>0, WarpPlace
<1>3. TableOK'
  <2>1. pc > 1 /\ TableOK  BY <1>2 DEF CountInv
  <2>. QED  BY <1>1, <2>1, TableKept
<1>4. ASSUME ~overflow, ~raced
      PROVE  \A i \in SeedIdx, p \in Positions :
                 Times(mem[2], lens["filter0b"], i, p) = Ways[Rank["filter0b"]][seeds[i]][p]
  <2>1. PICK in \in [1 .. InputLen0B -> Items] :
            \E from \in [1 .. lens["filter0b"] -> 1 .. InputLen0B] : SharedBy(in, from)
    BY <1>0, <1>4 DEF CountInv, ExactOK
  <2>2. PICK from \in [1 .. lens["filter0b"] -> 1 .. InputLen0B] : SharedBy(in, from)  BY <2>1
  <2>. DEFINE f == "filter0b"
              L == lens[f]
              N == InputLen0B
  <2>3. /\ N \in Nat /\ L \in Nat /\ Warps \in Nat /\ Warps > 0
        /\ \A w \in 1 .. Warps : storing[w] = 0 /\ reading[w] \in Nat
    BY <1>0, <1>4, WarpFacts
  <2>4. Counted = 1 .. N
    <3>1. SUFFICES ASSUME NEW n \in 1 .. N PROVE n \in Counted  BY DEF Counted
    <3>2. n \in Nat /\ n % Warps \in 0 .. Warps - 1  BY <2>3, DivMod
    <3>3. \E w \in 1 .. Warps : n % Warps = w % Warps
      <4>1. CASE n % Warps = 0
        <5>1. (0 + Warps) % Warps = 0 % Warps /\ 0 % Warps = 0  BY <2>3, ModTurn
        <5>2. Warps \in 1 .. Warps /\ 0 + Warps = Warps  BY <2>3
        <5>. QED  BY <4>1, <5>1, <5>2
      <4>2. CASE n % Warps # 0
        <5>1. PICK x \in 1 .. Warps - 1 : x = n % Warps  BY <2>3, <3>2, <4>2
        <5>2. (0 * Warps + x) % Warps = x  BY <2>3, <5>1, DivModUnique
        <5>3. x \in 1 .. Warps /\ 0 * Warps + x = x  BY <2>3
        <5>. QED  BY <5>1, <5>2, <5>3
      <4>. QED  BY <4>1, <4>2
    <3>4. PICK w \in 1 .. Warps : n % Warps = w % Warps  BY <3>3
    <3>5. n < reading[w]
      <4>1. reading[w] > N /\ reading[w] \in Nat  BY <1>0, <2>3
      <4>. QED  BY <2>3, <4>1
    <3>. QED  BY <3>4, <3>5 DEF Counted
  <2>5. /\ \A k \in 1 .. L : mem[2][k] = in[from[k]] /\ from[k] \in 1 .. N
        /\ \A k \in 1 .. L : Emitted(f, in[from[k]]) # {}
        /\ \A a, b \in 1 .. L : from[a] = from[b] => a = b
        /\ \A n \in 1 .. N : Emitted(f, in[n]) # {} => \E k \in 1 .. L : from[k] = n
    <3>1. /\ from \in [1 .. L -> KeptOf(in)] /\ \A a, b \in 1 .. L : from[a] = from[b] => a = b
          /\ \A t \in KeptOf(in) : \E a \in 1 .. L : from[a] = t
      BY <2>2 DEF SharedBy, Bijection, Injection, Surjection, IsInjective
    <3>2. KeptOf(in) = {n \in 1 .. N : Emitted(f, in[n]) # {}}  BY <2>4 DEF KeptOf
    <3>3. \A k \in 1 .. L : \A w \in 1 .. Warps : storing[w] # k  BY <2>3
    <3>4. \A k \in 1 .. L : mem[2][k] = in[from[k]]  BY <2>2, <3>3 DEF SharedBy
    <3>. QED  BY <3>1, <3>2, <3>4
  <2>6. \A k \in SeedIdx : seeds[k] \in Seeds
    <3>1. pc > 1  BY <1>2
    <3>. QED  BY <3>1, SeedsType
  <2>7. ASSUME NEW i \in SeedIdx, NEW p \in Positions
        PROVE  Times(mem[2], L, i, p) = Ways[Rank[f]][seeds[i]][p]
    <3>. DEFINE Q == {q \in Positions : p \in Emit[f][seeds[i]][q]}
                D == {n \in 1 .. N : in[n].idx = i}
                key == [n \in D |-> in[n].at]
                A == {k \in 1 .. L : mem[2][k] = [idx |-> i, at |-> p]}
                B == WithKey(D, key, Q)
                g == [k \in A |-> from[k]]
                fun == Ways[Rank["gradvecs2"]][seeds[i]]
    <3>1. \A n \in 1 .. N : /\ in[n] = [idx |-> in[n].idx, at |-> in[n].at]
                            /\ in[n].idx \in Index /\ in[n].at \in Positions
      <4>1. \A n \in 1 .. N : in[n] \in Items  OBVIOUS
      <4>. QED  BY <4>1 DEF Items
    <3>2. \A q \in Positions : Emit[f][seeds[i]][q] \subseteq {q}
      BY <2>6, EmitAssumption DEF Filters
    <3>3. ASSUME NEW k \in A PROVE g[k] = from[k] /\ from[k] \in B
      <4>1. from[k] \in 1 .. N /\ in[from[k]] = [idx |-> i, at |-> p] /\ Emitted(f, in[from[k]]) # {}
        BY <2>5
      <4>2. Emit[f][seeds[i]][p] # {}  BY <4>1 DEF Emitted
      <4>3. p \in Q  BY <3>2, <4>2
      <4>4. from[k] \in D /\ key[from[k]] = p  BY <4>1
      <4>. HIDE DEF D, key, Q
      <4>5. from[k] \in B  BY <4>3, <4>4 DEF WithKey
      <4>. HIDE DEF B, A
      <4>. QED  BY <4>5
    <3>4. ASSUME NEW n \in B PROVE \E k \in A : g[k] = n
      <4>1. n \in 1 .. N /\ in[n].idx = i /\ in[n].at \in Positions /\ p \in Emit[f][seeds[i]][in[n].at]
        BY DEF WithKey
      <4>2. in[n].at = p  BY <3>2, <4>1
      <4>3. in[n] = [idx |-> i, at |-> p]  BY <3>1, <4>1, <4>2
      <4>4. Emitted(f, in[n]) # {}  BY <4>1 DEF Emitted
      <4>5. PICK k \in 1 .. L : from[k] = n  BY <2>5, <4>1, <4>4
      <4>6. k \in A  BY <2>5, <4>3, <4>5
      <4>. QED  BY <4>5, <4>6
    <3>5. IsFiniteSet(A) /\ IsFiniteSet(D) /\ IsFiniteSet(Q)
      <4>1. IsFiniteSet(1 .. L) /\ IsFiniteSet(1 .. N)  BY <2>3, FS_Interval
      <4>2. A \in SUBSET (1 .. L) /\ D \in SUBSET (1 .. N) /\ Q \in SUBSET Positions  OBVIOUS
      <4>. QED  BY ZenonT(40), <4>1, <4>2, FS_Subset, EmitAssumption
    <3>6. Cardinality(A) = Cardinality(B)
      <4>1. g \in [A -> B]  BY <3>3
      <4>2. \A a, b \in A : g[a] = g[b] => a = b  BY <2>5, <3>3
      <4>. HIDE DEF A, B, g
      <4>. QED  BY <3>4, <3>5, <4>1, <4>2, SameNumber
    <3>7. SumFunctionOnSet(fun, Q) = Cardinality(B)
      <4>1. ASSUME NEW q \in Q PROVE fun[q] = Cardinality(WithKey(D, key, {q}))
        <5>1. \A n \in 1 .. N : in[n] = [idx |-> i, at |-> q] <=> in[n].idx = i /\ in[n].at = q
          BY <3>1
        <5>2. {n \in 1 .. N : in[n] = [idx |-> i, at |-> q]} = WithKey(D, key, {q})
          BY <5>1 DEF WithKey
        <5>3. Times(in, N, i, q) = fun[q]  BY <2>2 DEF SharedBy, Exact
        <5>. QED  BY <5>2, <5>3 DEF Times
      <4>. HIDE DEF D, Q, key, fun
      <4>. QED  BY <3>5, <4>1, SumIs
    <3>8. Ways[Rank[f]][seeds[i]][p] = SumFunctionOnSet(fun, Q)
      <4>1. f \in Filters /\ Rank[f] - 1 = Rank["gradvecs2"]  BY DEF Filters, Rank
      <4>2. f # "origin" /\ seeds[i] \in Seeds  BY <2>6
      <4>. HIDE DEF f
      <4>3. f = "origin" <=> Origin  BY <1>2, <4>2
      <4>4. Ways[Rank[f]][seeds[i]][p]
               = SumFunctionOnSet(Ways[Rank[f] - 1][seeds[i]],
                                  {q \in Positions : p \in Emit[f][seeds[i]][q]})
        BY <1>0, <4>1, <4>2, <4>3, NextWays
      <4>. QED  BY <4>1, <4>4
    <3>. QED  BY <3>6, <3>7, <3>8 DEF Times
  <2>. QED  BY <2>7
<1>5. ExactOK'
  <2>1. \A step : At(step)' => step = "clearFlags"  BY <1>1, <1>2, NextPlace, LongProgram
  <2>2. Reads["clearFlags"] = "filter0b" /\ OutBuf["filter0b"] = 2  BY DEF Reads, OutBuf, Filters
  <2>3. Ways' = Ways /\ SeedIdx' = SeedIdx  BY <1>1, SameWays DEF SeedIdx
  <2>4. ASSUME ~overflow', ~raced'
        PROVE  \A i \in SeedIdx', p \in Positions :
                  Times(mem'[2], lens'["filter0b"], i, p) = Ways'[Rank["filter0b"]][seeds'[i]][p]
    BY <1>1, <1>4, <2>3, <2>4
  <2>. QED  BY <2>1, <2>2, <2>4 DEF ExactOK, Exact
<1>6. BatchCorrect'  BY <1>0, <1>1, NotOver
<1>. QED  BY <1>3, <1>5, <1>6 DEF CountInv

\* Before the first batch.
LEMMA InitCounts == Init => CountInv
<1>. SUFFICES ASSUME Init PROVE CountInv  OBVIOUS
<1>1. setup \in Setups /\ pc = 1  BY DEF Init
<1>2. Origin \in BOOLEAN  BY <1>1, SetupsAssumption DEF Origin
<1>3. PICK n \in {4, 16} : n = Len(Program)  BY <1>2, LongProgram, ShortProgram
<1>4. ~(1 > n) /\ ~(1 > 1)  OBVIOUS
<1>5. \A step : At(step) => step = "seeds"  BY <1>1, LongProgram, ShortProgram DEF At
<1>6. "seeds" \notin DOMAIN Reads \cup {"collect", "filter0b"}  BY DEF Reads
<1>. QED  BY <1>1, <1>3, <1>4, <1>5, <1>6 DEF CountInv, TableOK, ExactOK, BatchCorrect, Collected

\* Every step keeps the second invariant, as long as the first holds.
LEMMA NextCounts == IInv /\ CountInv /\ [Next]_vars => CountInv'
<1>. SUFFICES ASSUME IInv, CountInv, [Next]_vars PROVE CountInv'  OBVIOUS
<1>1. CASE FilterSeeds  BY <1>1, FilterSeedsCounts
<1>2. CASE InitNoise  BY <1>2, InitNoiseCounts
<1>3. CASE ClearFlags  BY <1>3, ClearFlagsCounts
<1>4. CASE OriginCheck \/ GradVecs1 \/ Filter0A \/ GradVecs2 \/ Filter2
  <2>1. PICK f \in Filters \ {"filter0b"} : RunFilter(f)
    BY <1>4 DEF OriginCheck, GradVecs1, Filter0A, GradVecs2, Filter2, Filters
  <2>. QED  BY <2>1, RunFilterCounts
<1>5. CASE EndFilter0B  BY <1>5, EndFilter0BCounts
<1>6. CASE Collect  BY <1>6, CollectCounts
<1>7. CASE Fault  BY <1>7, FaultCounts
<1>8. CASE NextBatch  BY <1>8, NextBatchCounts
<1>9. CASE Done \/ UNCHANGED vars
  <2>1. UNCHANGED vars  BY <1>9 DEF Done
  <2>. QED  BY <2>1, StutterCounts
<1>10. ASSUME NEW l \in DOMAIN LateStage, LateInit(l) PROVE CountInv'  BY <1>10, LateInitCounts
<1>11. ASSUME NEW w \in 1 .. Warps, WarpRead(w) \/ WarpCount(w) \/ WarpStore(w) PROVE CountInv'
  BY <1>11, WarpReadCounts, WarpCountCounts, WarpStoreCounts
<1>. QED
  BY <1>1, <1>2, <1>3, <1>4, <1>5, <1>6, <1>7, <1>8, <1>9, <1>10, <1>11 DEF Next

\* The second invariant holds of every run.
THEOREM CountInvariance == Spec => []CountInv
<1>1. Init => CountInv  BY InitCounts
<1>2. IInv /\ CountInv /\ [Next]_vars => CountInv'  BY NextCounts
<1>. QED  BY <1>1, <1>2, Invariance, PTL DEF Spec

\* Unless a buffer was too small or a warp of filter 0B read a place that had been
\* taken, GpuThread::run pushes what the filters let through and nothing else: each
\* candidate of each seed of the batch, as often as the filters lead to it.
THEOREM SurvivorsCorrect == Spec => []BatchCorrect
<1>1. CountInv => BatchCorrect  BY DEF CountInv
<1>. QED  BY <1>1, CountInvariance, PTL
=============================================================================

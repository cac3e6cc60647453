------------------------------ MODULE GpuBatch ------------------------------
(***************************************************************************)
(* One device: what a turn of the loop of GpuThread::run does to the       *)
(* device's memory.  Kernels launched on one stream run one after the      *)
(* other.  A kernel reads its input buffer, and each thread that keeps     *)
(* something takes the next place of the output buffer with an atomicAdd   *)
(* on its length: the order is arbitrary, what does not fit is dropped,    *)
(* and the length counts it all the same.  The next kernel takes that      *)
(* length at its word and reads past the buffer, where it finds anything   *)
(* or faults.  A kernel is a step, except filter 0B: its input and its     *)
(* output are the same memory (buffer_2), and its warps are modelled one   *)
(* by one.                                                                 *)
(*                                                                         *)
(* The noise of a seed is computed in parts: octaves 0 and 1 for all seeds *)
(* of the batch, the others only for seeds that are still in the race, by  *)
(* four late kernels that keep a flag per seed.  The table of noises is    *)
(* not cleared between batches.                                            *)
(***************************************************************************)
EXTENDS Integers, Sequences, FiniteSets, SequencesExt, Functions

CONSTANTS
    Setups,     \* the runs of the thread: with --origin or not, on which batches and buffers
    Positions,  \* quarter-resolution coordinates a candidate can have; 0 is the origin
    Emit,       \* Emit[stage][seed][at]: where a stage sees candidates, given one at `at'
    Warps,      \* number of warps of filter 0B
    SeedsCap    \* capacity of buffer_seeds

Seeds == UNION UNION {Range(s.batches) : s \in Setups}
Index == 1 .. SeedsCap
Items == [idx : Index, at : Positions]

\* About 2^28 / 7000 seeds of a batch pass filter_seeds, and the tables have 2^16 places.
ASSUME SeedsFit ==
    \A s \in Setups : \A b \in Range(s.batches) : IsFiniteSet(b) /\ Cardinality(b) <= SeedsCap
ASSUME SetupsAssumption ==
    /\ Warps \in Nat \ {0} /\ SeedsCap \in Nat
    /\ \A s \in Setups : /\ s.origin \in BOOLEAN /\ s.cap \in [{1, 2} -> Nat]
                         /\ s.batches \in Seq(SUBSET Seeds)
NoItem == [idx |-> 0, at |-> 0]

\* The parts of a seed's noise: octaves 0-1, 2-5, 6, 7 and 8, of A and of B.
Parts == 0 .. 4

Filters == {"origin", "gradvecs1", "filter0a", "gradvecs2", "filter0b",
            "filter2a", "filter2b", "filter2c", "filter2d"}

\* Filter 0B keeps a candidate as it is, or drops it.
ASSUME EmitAssumption ==
    /\ 0 \in Positions /\ Positions \subseteq Int /\ IsFiniteSet(Positions)
    /\ \A f \in Filters, s \in Seeds, p \in Positions :
          /\ Emit[f][s][p] \subseteq Positions
          /\ f = "filter0b" => Emit[f][s][p] \subseteq {p}

\* The buffer a filter writes, and the filter whose output it reads.
OutBuf == [f \in Filters |-> IF f \in {"filter0a", "filter2a", "filter2c"} THEN 1 ELSE 2]
Source == [filter0a |-> "gradvecs1", gradvecs2 |-> "filter0a", filter0b |-> "gradvecs2",
           filter2a |-> "filter0b", filter2b |-> "filter2a", filter2c |-> "filter2b",
           filter2d |-> "filter2c"]

\* The parts of the noise a filter samples.
Needs == [f \in Filters |->
             CASE f = "filter2a" -> 0 .. 1
               [] f = "filter2b" -> 0 .. 2
               [] f = "filter2c" -> 0 .. 3
               [] f \in {"filter2d", "origin"} -> 0 .. 4
               [] OTHER -> {0}]

\* Which part late_kernel<Stage> computes, and for the output of which filter.
LateSource == [late1 |-> "filter0b", late2 |-> "filter2a", late3 |-> "filter2b", late4 |-> "filter2c"]
LateStage == [late1 |-> 1, late2 |-> 2, late3 |-> 3, late4 |-> 4]

VARIABLES
    setup,     \* the setup of this thread
    batch,     \* number of the batch the thread works on
    pc,        \* position in Program, or 0 after a fault
    seeds,     \* contents of buffer_seeds
    seedsLen,  \* results_len_filter_seeds
    mem,       \* mem[n]: contents of buffer_n
    lens,      \* lens[f]: the other results_len_*
    noise,     \* noise[idx][part]: the seed whose noise is in results[idx]
    flags,     \* late_init_flags
    reading,   \* reading[w]: the input index warp w of filter 0B is at
    held,      \* held[w]: the candidate warp w works on
    storing,   \* storing[w]: the place warp w has taken and not yet written
    raced,     \* a warp of filter 0B read a place that had been taken (history)
    stale,     \* a filter sampled noise of another seed (history)
    overflow,  \* a length of this batch went beyond the capacity (history)
    reported,  \* "outputs overflow" was printed for this batch (history)
    pushed     \* what the last finished batch pushed on gpu_outputs (history)

devVars == <<seeds, seedsLen, mem, lens, noise, flags>>
warpVars == <<reading, held, storing, raced>>
hostVars == <<setup, batch, reported, pushed>>
vars == <<pc, devVars, warpVars, hostVars, stale, overflow>>

Origin == setup.origin     \* --origin
Batches == setup.batches   \* Batches[b]: the seeds of batch b that pass filter_seeds
Cap == setup.cap           \* Cap[n]: capacity of buffer_n in candidates

\* What the stream runs for a batch.
Program ==
    IF Origin
      THEN <<"seeds", "initFull", "origin", "collect">>
      ELSE <<"seeds", "init", "gradvecs1", "filter0a", "gradvecs2", "filter0b", "clearFlags",
             "late1", "filter2a", "late2", "filter2b", "late3", "filter2c", "late4", "filter2d",
             "collect">>

Final == IF Origin THEN "origin" ELSE "filter2d"

Init ==
    /\ setup \in Setups
    /\ batch = 1
    /\ pc = 1
    /\ seeds = [k \in Index |-> 0]
    /\ seedsLen = 0
    /\ mem = [n \in {1, 2} |-> <<>>]
    /\ lens = [f \in Filters |-> 0]
    /\ noise = [k \in Index |-> [p \in Parts |-> 0]]
    /\ flags = [k \in Index |-> 0]
    /\ reading = [w \in 1 .. Warps |-> 0]
    /\ held = [w \in 1 .. Warps |-> NoItem]
    /\ storing = [w \in 1 .. Warps |-> 0]
    /\ raced = FALSE
    /\ stale = FALSE
    /\ overflow = FALSE
    /\ reported = FALSE
    /\ pushed = <<>>

At(step) == pc \in DOMAIN Program /\ Program[pc] = step

Smaller(a, b) == IF a < b THEN a ELSE b

\* A buffer that held s, after t was written to its front.
Overwrite(s, t) == t \o SubSeq(s, Len(t) + 1, Len(s))

-----------------------------------------------------------------------------
\* The lengths are cleared and filter_seeds collects the seeds that pass.
FilterSeeds ==
    /\ At("seeds")
    /\ batch \in DOMAIN Batches
    /\ \E s \in SetToSeqs(Batches[batch]) :
          /\ seeds' = [k \in Index |-> IF k <= Len(s) THEN s[k] ELSE seeds[k]]
          /\ seedsLen' = Len(s)
    /\ lens' = [f \in Filters |-> 0]
    /\ pc' = pc + 1
    /\ reported' = FALSE
    /\ raced' = FALSE
    /\ stale' = FALSE
    /\ overflow' = FALSE
    /\ UNCHANGED <<setup, batch, mem, noise, flags, reading, held, storing, pushed>>

SeedIdx == 1 .. seedsLen

\* Mutant: kernel is launched also where kernel_full is needed.
InitNoiseShort ==
    /\ At("init") \/ At("initFull")
    /\ noise' = [k \in Index |->
                    IF k \in SeedIdx
                      THEN [p \in Parts |-> IF p = 0 THEN seeds[k] ELSE noise[k][p]]
                      ELSE noise[k]]
    /\ pc' = pc + 1
    /\ UNCHANGED <<seeds, seedsLen, mem, lens, flags, warpVars, hostVars, stale, overflow>>

\* KernelSeed1::kernel computes octaves 0 and 1, kernel_full all of them.
InitNoise ==
    /\ At("init") \/ At("initFull")
    /\ noise' = [k \in Index |->
                    IF k \in SeedIdx
                      THEN [p \in Parts |-> IF p = 0 \/ At("initFull") THEN seeds[k] ELSE noise[k][p]]
                      ELSE noise[k]]
    /\ pc' = pc + 1
    /\ UNCHANGED <<seeds, seedsLen, mem, lens, flags, warpVars, hostVars, stale, overflow>>

\* What can lie past the end of a buffer, as a kernel that does not fault takes it.
Junk == [idx : SeedIdx, at : Positions]

\* What a kernel can find where filter f left its output: as many candidates as
\* the length says, those that did not fit replaced by whatever lies there.
OutputsOf(f) ==
    LET kept == SubSeq(mem[OutBuf[f]], 1, Smaller(lens[f], Cap[OutBuf[f]]))
    IN  {kept \o junk : junk \in [1 .. lens[f] - Len(kept) -> Junk]}

\* Mutant: the last input is left out.
InputsButOne(f) ==
    IF f \in {"gradvecs1", "origin"}
      THEN {[k \in 1 .. seedsLen - 1 |-> [idx |-> k, at |-> 0]]}
      ELSE OutputsOf(Source[f])

\* The candidates a filter gets: the first filter starts from the seeds.
Inputs(f) ==
    IF f \in {"gradvecs1", "origin"}
      THEN {[k \in SeedIdx |-> [idx |-> k, at |-> 0]]}
      ELSE OutputsOf(Source[f])

\* What filter f makes of candidate c, and whether it samples another seed's noise.
Emitted(f, c) == {[idx |-> c.idx, at |-> p] : p \in Emit[f][seeds[c.idx]][c.at]}
Stale(f, c) == \E p \in Needs[f] : noise[c.idx][p] # seeds[c.idx]

\* All candidates a filter emits, each with the number of the input it comes from.
Emissions(f, in) == UNION {{<<n, e>> : e \in Emitted(f, in[n])} : n \in DOMAIN in}

\* Mutant: a candidate is stored whatever its place.
RunFilterUnbounded(f) ==
    /\ At(f)
    /\ LET b == OutBuf[f] IN
       \E in \in Inputs(f) : \E s \in SetToSeqs(Emissions(f, in)) :
              LET out == [n \in 1 .. Len(s) |-> s[n][2]] IN
              /\ mem' = [mem EXCEPT ![b] = Overwrite(@, out)]
              /\ lens' = [lens EXCEPT ![f] = Len(s)]
              /\ overflow' = (overflow \/ Len(s) > Cap[b])
              /\ stale' = (stale \/ \E n \in DOMAIN in : Stale(f, in[n]))
              /\ reading' = [w \in 1 .. Warps |-> IF f = "gradvecs2" THEN w ELSE 0]
    /\ pc' = pc + 1
    /\ UNCHANGED <<seeds, seedsLen, noise, flags, held, storing, raced, hostVars>>

\* A filter with separate input and output memory.
RunFilter(f) ==
    /\ At(f)
    /\ LET b == OutBuf[f] IN
       \E in \in Inputs(f) : \E s \in SetToSeqs(Emissions(f, in)) :
              LET out == [n \in 1 .. Smaller(Len(s), Cap[b]) |-> s[n][2]] IN
              /\ mem' = [mem EXCEPT ![b] = Overwrite(@, out)]
              /\ lens' = [lens EXCEPT ![f] = Len(s)]
              /\ overflow' = (overflow \/ Len(s) > Cap[b])
              /\ stale' = (stale \/ \E n \in DOMAIN in : Stale(f, in[n]))
              /\ reading' = [w \in 1 .. Warps |-> IF f = "gradvecs2" THEN w ELSE 0]
    /\ pc' = pc + 1
    /\ UNCHANGED <<seeds, seedsLen, noise, flags, held, storing, raced, hostVars>>

OriginCheck == RunFilter("origin")
GradVecs1 == RunFilter("gradvecs1")
Filter0A == RunFilter("filter0a")
GradVecs2 == RunFilter("gradvecs2")
Filter2 == \E f \in {"filter2a", "filter2b", "filter2c", "filter2d"} : RunFilter(f)

-----------------------------------------------------------------------------
(* Filter 0B: warp w takes the inputs w, w + Warps, ... *)

InputLen0B == lens["gradvecs2"]

\* A warp reads its next input.  If another warp is writing that place, it can
\* get parts of the old and of the new candidate.
WarpRead(w) ==
    /\ At("filter0b")
    /\ held[w] = NoItem
    /\ reading[w] <= InputLen0B
    /\ LET n == reading[w]
           there == IF n <= Cap[2]
                      THEN {mem[2][n]} \cup {held[v] : v \in {u \in 1 .. Warps : storing[u] = n}}
                      ELSE Junk
       IN  /\ \E i \in {c.idx : c \in there}, p \in {c.at : c \in there} :
                 held' = [held EXCEPT ![w] = [idx |-> i, at |-> p]]
           /\ raced' = (raced \/ n <= lens["filter0b"])
    /\ UNCHANGED <<pc, devVars, reading, storing, hostVars, stale, overflow>>

\* The warp has counted its samples: it drops the candidate or takes a place.
WarpCount(w) ==
    /\ At("filter0b")
    /\ held[w] # NoItem
    /\ storing[w] = 0
    /\ stale' = (stale \/ Stale("filter0b", held[w]))
    /\ IF Emitted("filter0b", held[w]) = {}
         THEN /\ held' = [held EXCEPT ![w] = NoItem]
              /\ reading' = [reading EXCEPT ![w] = @ + Warps]
              /\ UNCHANGED <<lens, storing>>
         ELSE /\ lens' = [lens EXCEPT !["filter0b"] = @ + 1]
              /\ storing' = [storing EXCEPT ![w] = lens["filter0b"] + 1]
              /\ UNCHANGED <<held, reading>>
    /\ UNCHANGED <<pc, seeds, seedsLen, mem, noise, flags, raced, hostVars, overflow>>

WarpStore(w) ==
    /\ storing[w] # 0
    /\ mem' = IF storing[w] <= Cap[2] THEN [mem EXCEPT ![2][storing[w]] = held[w]] ELSE mem
    /\ held' = [held EXCEPT ![w] = NoItem]
    /\ storing' = [storing EXCEPT ![w] = 0]
    /\ reading' = [reading EXCEPT ![w] = @ + Warps]
    /\ UNCHANGED <<pc, seeds, seedsLen, lens, noise, flags, raced, hostVars, stale, overflow>>

\* The kernel is over when every warp is.
EndFilter0B ==
    /\ At("filter0b")
    /\ \A w \in 1 .. Warps : held[w] = NoItem /\ reading[w] > InputLen0B
    /\ pc' = pc + 1
    /\ reading' = [w \in 1 .. Warps |-> 0]
    /\ UNCHANGED <<devVars, held, storing, raced, hostVars, stale, overflow>>

-----------------------------------------------------------------------------
\* Mutant: the flags are not cleared.
ClearNoFlags ==
    /\ At("clearFlags")
    /\ flags' = flags
    /\ pc' = pc + 1
    /\ UNCHANGED <<seeds, seedsLen, mem, lens, noise, warpVars, hostVars, stale, overflow>>

ClearFlags ==
    /\ At("clearFlags")
    /\ flags' = [k \in Index |-> 0]
    /\ pc' = pc + 1
    /\ UNCHANGED <<seeds, seedsLen, mem, lens, noise, warpVars, hostVars, stale, overflow>>

\* late_kernel<Stage>: the first thread that moves the flag of a seed from
\* Stage - 1 to Stage computes the next part of its noise.
LateInit(l) ==
    /\ At(l)
    /\ \E in \in OutputsOf(LateSource[l]) :
          LET todo == {k \in Index : /\ flags[k] = LateStage[l] - 1
                                     /\ \E n \in DOMAIN in : in[n].idx = k}
          IN  /\ flags' = [k \in Index |-> IF k \in todo THEN LateStage[l] ELSE flags[k]]
              /\ noise' = [k \in Index |->
                              IF k \in todo THEN [noise[k] EXCEPT ![LateStage[l]] = seeds[k]]
                                            ELSE noise[k]]
    /\ pc' = pc + 1
    /\ UNCHANGED <<seeds, seedsLen, mem, lens, warpVars, hostVars, stale, overflow>>

-----------------------------------------------------------------------------
(* The host *)

\* A kernel that reads past its input can fault; cudaStreamSynchronize then
\* returns an error and TRY_CUDA ends the process.
Fault ==
    /\ \E f \in Filters :
          /\ lens[f] > Cap[OutBuf[f]]
          /\ \/ \E g \in DOMAIN Source : Source[g] = f /\ At(g)
             \/ \E l \in DOMAIN LateSource : LateSource[l] = f /\ At(l)
    /\ pc' = 0
    /\ UNCHANGED <<devVars, warpVars, hostVars, stale, overflow>>

\* Mutant: the final candidates are copied from the other buffer.
CollectWrongBuffer ==
    /\ At("collect")
    /\ LET cut == [f \in Filters |-> Smaller(lens[f], Cap[OutBuf[f]])]
           other == mem[3 - OutBuf[Final]]
           final == SubSeq(other, 1, Smaller(Len(other), cut[Final]))
       IN  /\ reported' = (\E f \in Filters : cut[f] > Cap[OutBuf[f]])
           /\ pushed' = [n \in DOMAIN final |-> [seed |-> seeds[final[n].idx], at |-> final[n].at * 4]]
    /\ pc' = pc + 1
    /\ UNCHANGED <<setup, batch, devVars, warpVars, stale, overflow>>

\* After cudaStreamSynchronize the lengths are cut to the capacities, the statistics updated from the cut
\* lengths, and the final candidates pushed, in blocks instead of quarters.
Collect ==
    /\ At("collect")
    /\ LET cut == [f \in Filters |-> Smaller(lens[f], Cap[OutBuf[f]])]
           final == SubSeq(mem[OutBuf[Final]], 1, cut[Final])
       IN  /\ reported' = (\E f \in Filters : cut[f] > Cap[OutBuf[f]])
           /\ pushed' = [n \in DOMAIN final |-> [seed |-> seeds[final[n].idx], at |-> final[n].at * 4]]
    /\ pc' = pc + 1
    /\ UNCHANGED <<setup, batch, devVars, warpVars, stale, overflow>>

\* The next turn of the loop.
NextBatch ==
    /\ pc > Len(Program)
    /\ batch \in DOMAIN Batches
    /\ batch' = batch + 1
    /\ pc' = 1
    /\ UNCHANGED <<setup, devVars, warpVars, reported, pushed, stale, overflow>>

\* Not in the code: the batches of the instance are done, or the process is gone.
Done ==
    /\ batch \notin DOMAIN Batches \/ pc = 0
    /\ UNCHANGED vars

Next ==
    \/ FilterSeeds \/ InitNoise \/ ClearFlags
    \/ OriginCheck \/ GradVecs1 \/ Filter0A \/ GradVecs2 \/ EndFilter0B \/ Filter2
    \/ Collect \/ Fault \/ NextBatch \/ Done
    \/ \E l \in DOMAIN LateStage : LateInit(l)
    \/ \E w \in 1 .. Warps : WarpRead(w) \/ WarpCount(w) \/ WarpStore(w)

Spec == Init /\ [][Next]_vars

-----------------------------------------------------------------------------
(* Properties *)

TypeOK ==
    /\ setup \in Setups
    /\ batch \in 1 .. Len(Batches) + 1
    /\ pc \in 0 .. Len(Program) + 1
    /\ seeds \in [Index -> Seeds \cup {0}]
    /\ seedsLen \in 0 .. SeedsCap
    /\ mem \in [{1, 2} -> Seq(Items)] /\ \A n \in {1, 2} : Len(mem[n]) <= Cap[n]
    /\ lens \in [Filters -> Nat]
    /\ noise \in [Index -> [Parts -> Seeds \cup {0}]]
    /\ flags \in [Index -> Parts]
    /\ held \in [1 .. Warps -> Items \cup {NoItem}]
    /\ storing \in [1 .. Warps -> Nat]
    /\ reading \in [1 .. Warps -> Nat]
    /\ {raced, stale, overflow, reported} \subseteq BOOLEAN

\* No filter ever samples the noise another batch left in the table: when a
\* filter runs, the parts of the noise it needs have been computed for the seed
\* of each of its candidates, although the late kernels compute a part once for
\* each seed, only for seeds still in the race, and never clear the table.
OctavesFresh == overflow \/ ~stale

\* The filters a candidate goes through.
Chain ==
    IF Origin THEN <<"origin">>
              ELSE <<"gradvecs1", "filter0a", "gradvecs2", "filter0b",
                     "filter2a", "filter2b", "filter2c", "filter2d">>

\* In how many ways the first n filters lead from seed s to place p.
Ways[n \in 0 .. Len(Chain)] ==
    [s \in Seeds |-> [p \in Positions |->
        IF n = 0
          THEN IF p = 0 THEN 1 ELSE 0
          ELSE SumFunctionOnSet(Ways[n - 1][s], {q \in Positions : p \in Emit[Chain[n]][s][q]})]]

Survivors == Ways[Len(Chain)]

Collected == pc > Len(Program) /\ batch \in DOMAIN Batches

\* The last batch pushed exactly what the filters let through: each candidate
\* of each of its seeds as often as the filters lead to it, in blocks.
PushedSurvivors ==
    \A s \in Seeds, p \in Positions :
        Cardinality({n \in DOMAIN pushed : pushed[n] = [seed |-> s, at |-> p * 4]})
            = IF s \in Batches[batch] THEN Survivors[s][p] ELSE 0

\* The chain of kernels with its shared buffers, atomic counters and recycled
\* tables computes the filters one after the other, whatever earlier batches
\* left in memory and even if one of them overflowed a buffer.  The only thing
\* that spoils a batch without an overflow is the race of BatchExact.
BatchCorrect == Collected /\ ~overflow /\ ~raced => PushedSurvivors

\* The same without the exception: every warp of filter 0B gets the candidates
\* gradvecs_2 found, as the `const T *data' of InputBuffer says.
BatchExact == Collected /\ ~overflow => PushedSurvivors

\* A batch that dropped candidates because a buffer was full says so: the
\* check in StageStats::update prints "outputs overflow".
OverflowIsReported == Collected /\ overflow => reported

-----------------------------------------------------------------------------
(* The inductive invariant *)

\* The filter whose output is in its buffer when a step begins, and how many
\* parts of the noise of its seeds the late kernels have computed by then.
Reads == [filter0a |-> "gradvecs1", gradvecs2 |-> "filter0a", filter0b |-> "gradvecs2",
          clearFlags |-> "filter0b", late1 |-> "filter0b", filter2a |-> "filter0b",
          late2 |-> "filter2a", filter2b |-> "filter2a", late3 |-> "filter2b",
          filter2c |-> "filter2b", late4 |-> "filter2c", filter2d |-> "filter2c"]
Computed == [filter0a |-> 0, gradvecs2 |-> 0, filter0b |-> 0, clearFlags |-> 0, late1 |-> 0,
             filter2a |-> 1, late2 |-> 1, filter2b |-> 2, late3 |-> 2, filter2c |-> 3,
             late4 |-> 3, filter2d |-> 4]

\* The places of the buffer that hold output of f.
InBuffer(f) == 1 .. Smaller(lens[f], Cap[OutBuf[f]])

\* Candidates are of seeds of this batch, whatever else lies in the buffers; if
\* nothing was dropped, those of all of them are there and have the noise that
\* was computed for them.
SourceOK(f, parts) ==
    /\ \A n \in InBuffer(f) : n \in DOMAIN mem[OutBuf[f]] /\ mem[OutBuf[f]][n].idx \in SeedIdx
    /\ ~overflow => /\ lens[f] <= Cap[OutBuf[f]]
                    /\ \A n \in InBuffer(f) : flags[mem[OutBuf[f]][n].idx] >= parts

SourcesOK ==
    /\ \A step \in DOMAIN Reads : At(step) => SourceOK(Reads[step], Computed[step])
    /\ At("collect") => SourceOK(Final, 0)

\* What a batch pushes is of its own seeds, whatever was in the buffers before
\* and however the warps of filter 0B raced, unless something was dropped.
PushedOfBatch ==
    Collected /\ ~overflow => \A n \in DOMAIN pushed : pushed[n].seed \in Batches[batch]

\* What is in the table of noises for the seeds of this batch.
NoiseOK ==
    /\ pc > 1 => batch \in DOMAIN Batches /\ \A k \in SeedIdx : seeds[k] \in Batches[batch]
    /\ pc > 2 => \A k \in SeedIdx : noise[k][0] = seeds[k]
    /\ pc > 2 /\ Origin => \A k \in SeedIdx : \A p \in Parts : noise[k][p] = seeds[k]
    /\ pc > 7 /\ ~Origin => \A k \in SeedIdx : \A p \in 1 .. flags[k] : noise[k][p] = seeds[k]

\* The inputs of filter 0B that its warps are done with or have taken a place for.
Counted ==
    {n \in 1 .. InputLen0B : \E w \in 1 .. Warps :
        /\ n % Warps = w % Warps
        /\ n < reading[w] \/ (n = reading[w] /\ storing[w] # 0)}

\* Only filter 0B has candidates in the hands of its warps, each warp has its own
\* inputs, and no more places are taken than inputs were counted.
WarpsOK ==
    /\ \A w \in 1 .. Warps : held[w] = NoItem => storing[w] = 0
    /\ ~At("filter0b") /\ pc # 0 => \A w \in 1 .. Warps : held[w] = NoItem
    /\ pc \in 2 .. 5 => lens["filter0b"] = 0
    /\ At("filter0b") =>
          /\ lens["filter0b"] <= Cardinality(Counted)
          /\ \A w \in 1 .. Warps :
                /\ reading[w] > 0 /\ reading[w] % Warps = w % Warps
                /\ held[w] # NoItem => held[w].idx \in SeedIdx /\ reading[w] <= InputLen0B

IInv == TypeOK /\ SourcesOK /\ NoiseOK /\ WarpsOK /\ OctavesFresh /\ PushedOfBatch

-----------------------------------------------------------------------------
(* How many candidates there are: a second invariant, on top of IInv *)

\* The place of a filter in Chain.
Rank == [origin |-> 1, gradvecs1 |-> 1, filter0a |-> 2, gradvecs2 |-> 3, filter0b |-> 4,
         filter2a |-> 5, filter2b |-> 6, filter2c |-> 7, filter2d |-> 8]

\* How often the first n candidates of a buffer are at p for the seed in place i.
Times(buffer, n, i, p) == Cardinality({k \in 1 .. n : buffer[k] = [idx |-> i, at |-> p]})

\* The first n candidates of a buffer are those that filter f leaves.
Exact(buffer, n, f) ==
    \A i \in SeedIdx, p \in Positions : Times(buffer, n, i, p) = Ways[Rank[f]][seeds[i]][p]

\* Each seed of the batch has one place in the table.
TableOK ==
    pc > 1 => /\ \A i, j \in SeedIdx : seeds[i] = seeds[j] => i = j
              /\ Batches[batch] \subseteq {seeds[i] : i \in SeedIdx}

\* The inputs of filter 0B that were counted and not dropped.
KeptOf(in) == {n \in Counted : Emitted("filter0b", in[n]) # {}}

\* Filter 0B, as long as no warp has read a place that was taken: what it was
\* given (in) is still there beyond the places that are taken, and each of those
\* holds, or will hold when its warp has stored it, the input it was taken for
\* (from).
SharedBy(in, from) ==
    /\ Exact(in, InputLen0B, "gradvecs2")
    /\ \A n \in 1 .. InputLen0B : n > lens["filter0b"] => mem[2][n] = in[n]
    /\ from \in Bijection(1 .. lens["filter0b"], KeptOf(in))
    /\ \A k \in 1 .. lens["filter0b"] :
          (\A w \in 1 .. Warps : storing[w] # k) => mem[2][k] = in[from[k]]
    /\ \A w \in 1 .. Warps :
          /\ held[w] # NoItem => held[w] = in[reading[w]]
          /\ storing[w] # 0 => /\ storing[w] \in 1 .. lens["filter0b"]
                               /\ from[storing[w]] = reading[w]

\* What a step finds in its input, unless something was dropped or torn.
ExactOK ==
    ~overflow /\ ~raced =>
        /\ \A step \in DOMAIN Reads \ {"filter0b"} :
              At(step) => LET f == Reads[step] IN Exact(mem[OutBuf[f]], lens[f], f)
        /\ At("collect") => Exact(mem[OutBuf[Final]], lens[Final], Final)
        /\ At("filter0b") =>
              \E in \in [1 .. InputLen0B -> Items] :
                  \E from \in [1 .. lens["filter0b"] -> 1 .. InputLen0B] : SharedBy(in, from)

CountInv == TableOK /\ ExactOK /\ BatchCorrect
=============================================================================

--------------------------- MODULE IslandMeasure ---------------------------
(***************************************************************************)
(* What a CPU thread does with one candidate: process and process_origin   *)
(* of src/cpu.cpp with the flood fills they are made of, floodFillGen of   *)
(* src/cubiomes.c on a coarse grid, fast_find_center on the scale-4 grid   *)
(* and measure_1to1 on blocks.                                             *)
(*                                                                         *)
(* The world is data: which scale-4 cells are mushroom fields in the two   *)
(* layers at sea level, to which of the cells around it the Voronoi step   *)
(* moves a block, and what the coarse samples say.  The arithmetic of the  *)
(* grids keeps its constants (cells of 4 blocks, the margins 8 and 4, the  *)
(* division of C that rounds towards zero): they decide whether a window   *)
(* sees the whole of its blocks.  The sides and radii are small.           *)
(*                                                                         *)
(* A cell, a sample or a block is <<x, z>>.  Grids are indexed by absolute *)
(* coordinates, and a grid of flags is the set of places still set.        *)
(***************************************************************************)
EXTENDS Integers, FiniteSets, FiniteSetsExt, SequencesExt

CONSTANTS
    Candidates,     \* see SetupOK
    MinSize,        \* min_size
    CoarseWidth,    \* sx and sz of the grid of cubiomes_test_biome_centers
    CoarseHeight,
    CoarseArea,     \* scale * scale there
    Tol,            \* its tolerance
    Range4,         \* range: the side in blocks of the scale-4 grid
    RadiusOf(_),    \* the first radius for an area on the scale-4 grid
    OriginRadius,   \* the first radius of process_origin
    MaxRadius       \* max_radius

ASSUME SizesAssumption ==
    /\ {MinSize, CoarseWidth, CoarseHeight, Tol, Range4, MaxRadius} \subseteq Nat
    /\ CoarseArea \in Nat \ {0}
    /\ OriginRadius \in 1 .. MaxRadius
    /\ \A area \in 0 .. Range4 * Range4 : RadiusOf(area) \in Nat

Places == Int \X Int

Coarse == (0 .. CoarseWidth - 1) \X (0 .. CoarseHeight - 1)

\* A candidate and what its seed looks like: layer15 and layer16 are the
\* mushroom cells at y4 = 15 and 16, voronoi the step of a block by its place
\* in its cell, corners the coarse samples whose climate at the corner allows
\* the biome and hits those whose middle is a hit.
SetupOK(c) ==
    /\ c.origin \in BOOLEAN /\ c.fast \in BOOLEAN
    /\ c.at \in Places
    /\ \A xz \in c.layer15 \cup c.layer16 : xz \in Places
    /\ IsFiniteSet(c.layer15 \cup c.layer16)
    /\ c.voronoi \in [(0 .. 3) \X (0 .. 3) -> (0 .. 1) \X (15 .. 16) \X (0 .. 1)]
    /\ c.corners \subseteq Coarse /\ c.hits \subseteq Coarse

ASSUME CandidatesAssumption == \A c \in Candidates : SetupOK(c)

VARIABLES
    cand,       \* the candidate in hand
    pc,         \* where the thread is
    window,     \* the scale-4 grid or the block grid, as a set of places
    pass,       \* places of the grid that hold 1 (centers: ids other than INT_MAX)
    stack,      \* the stack of the flood fill
    count,      \* places of this fill
    taken,      \* the places this fill has taken from its stack (history)
    sum,        \* sums of their coordinates
    edge,       \* measure_1to1: this fill met the border
    best,       \* best_count, best_x and best_z, best_hit_edge
    center,     \* res.x, res.z
    radius,     \* the radius of this measurement
    exact,      \* exact_area, exact_x and exact_z of process
    result      \* <<>> or the find that is returned, with its area

vars == <<cand, pc, window, pass, stack, count, taken, sum, edge, best, center, radius,
          exact, result>>
fill == <<pass, stack, count, taken, sum, edge, best>>

-----------------------------------------------------------------------------
(* Arithmetic and grids *)

\* Division of C; \div rounds down, as >> 2 does.
Trunc(a, b) == IF a >= 0 THEN a \div b ELSE -((-a) \div b)

Neighbours(p) == << <<p[1], p[2] - 1>>, <<p[1], p[2] + 1>>,
                    <<p[1] - 1, p[2]>>, <<p[1] + 1, p[2]>> >>

\* The neighbours of p in S, in the order in which they are pushed.
NeighboursIn(p, S) ==
    LET n == Neighbours(p)
        One(q) == IF q \in S THEN <<q>> ELSE <<>>
    IN  One(n[1]) \o One(n[2]) \o One(n[3]) \o One(n[4])

\* The first place of a set in the order of the loops, rows outside.
First(S) == CHOOSE p \in S : \A q \in S : p[2] < q[2] \/ (p[2] = q[2] /\ p[1] <= q[1])

Square(x, z, n) == (x .. x + n - 1) \X (z .. z + n - 1)

\* Where the Voronoi step starts from, and where it ends, for block b.
Naive(b) == <<(b[1] - 2) \div 4, (b[2] - 2) \div 4>>
Voronoi(b) ==
    LET d == cand.voronoi[<<b[1] % 4, b[2] % 4>>]
    IN  [xz |-> <<Naive(b)[1] + d[1], Naive(b)[2] + d[3]>>, y |-> d[2]]

\* cubiomes_get_biome_at_block(x, 62, z) = mushroom_fields
IsMushroom(b) ==
    LET v == Voronoi(b)
    IN  v.xz \in (IF v.y <= 15 THEN cand.layer15 ELSE cand.layer16)

\* Mutant: no margin on the right and at the bottom.
Grid4Narrow(ox, oz, gw) == Square(Trunc(ox - 8, 4), Trunc(oz - 8, 4), (gw \div 4) + 2)

\* The scale-4 cells that measure_1to1 samples for a window at (ox, oz).
Grid4(ox, oz, gw) == Square(Trunc(ox - 8, 4), Trunc(oz - 8, 4), (gw \div 4) + 4)

\* mush_mask: cells of the grid with a mushroom cell of the grid around them.
MushMask(grid) ==
    {q \in grid : \E dx, dz \in -1 .. 1 :
        <<q[1] + dx, q[2] + dz>> \in grid \cap (cand.layer15 \cup cand.layer16)}

\* Steps 1 and 2 of measure_1to1: the blocks of the window that pass.
PassGrid(blocks, grid) ==
    LET mask == MushMask(grid)
    IN  {b \in blocks : /\ Naive(b) \in mask
                        /\ Voronoi(b).xz \in grid
                        /\ IsMushroom(b)}

-----------------------------------------------------------------------------
(* Returning *)

Return(r) ==
    /\ pc' = "done"
    /\ result' = r

\* Ends with what was measured if that is enough.
ReturnMeasured(m) ==
    IF m.n >= MinSize THEN Return(<<m>>) ELSE Return(<<>>)

NoBest == [n |-> 0, at |-> <<0, 0>>, edge |-> FALSE]

Init ==
    /\ cand \in Candidates
    /\ pc = "start"
    /\ window = {} /\ pass = {} /\ stack = <<>>
    /\ count = 0 /\ taken = {} /\ sum = <<0, 0>> /\ edge = FALSE
    /\ best = NoBest /\ exact = NoBest
    /\ center = <<0, 0>> /\ radius = 0
    /\ result = <<>>

-----------------------------------------------------------------------------
(* cubiomes_test_biome_centers, scale 16 and tolerance 4 *)

CoarseMin == Max({1, MinSize \div CoarseArea})

\* 1 + floor(sqrt(minsiz) * 0.5)
Step == 1 + Max({s \in 0 .. CoarseMin : 4 * s * s <= CoarseMin})

\* The samples that start a fill: on the lattice, and not yet visited.
Starts == {c \in cand.corners \cap pass : c[1] % Step = 0 /\ c[2] % Step = 0}

\* The statistical test may reject or not; it decides nothing else.
MonteCarlo ==
    /\ pc = "start" /\ ~cand.origin
    /\ \/ Return(<<>>) /\ UNCHANGED pass
       \/ pc' = "centers" /\ pass' = Coarse /\ UNCHANGED result
    /\ UNCHANGED <<cand, window, stack, count, taken, sum, edge, best, center, radius, exact>>

\* The next fill of getBiomeCentersOpt, or the end of its loops.
StartCenter ==
    /\ pc = "centers" /\ stack = <<>>
    /\ Starts # {}
    /\ pc' = "fillGen"
    /\ stack' = <<[p |-> First(Starts), d |-> 0]>>
    /\ UNCHANGED <<cand, window, pass, count, taken, sum, edge, best, center, radius, exact, result>>

NoCenter ==
    /\ pc = "centers" /\ Starts = {}
    /\ Return(<<>>)
    /\ UNCHANGED <<cand, window, fill, center, radius, exact>>

\* Mutant: pushes neighbours that were visited before.
FillGenRepeats ==
    /\ pc = "fillGen" /\ stack # <<>>
    /\ LET e == Last(stack)
           hit == e.p \in cand.hits
           d == IF hit THEN 0 ELSE e.d + 1
           next == IF hit \/ d < Tol THEN NeighboursIn(e.p, Coarse) ELSE <<>>
       IN  IF e.p \notin pass
           THEN stack' = Front(stack) /\ UNCHANGED <<pass, count, taken>>
           ELSE /\ pass' = pass \ {e.p} /\ taken' = taken \cup {e.p}
                /\ count' = IF hit THEN count + 1 ELSE count
                /\ stack' = Front(stack) \o [k \in 1 .. Len(next) |-> [p |-> next[k], d |-> d]]
    /\ UNCHANGED <<cand, pc, window, sum, edge, best, center, radius, exact, result>>

\* Mutant: a hit uses up tolerance as any other sample.
FillGenTires ==
    /\ pc = "fillGen" /\ stack # <<>>
    /\ LET e == Last(stack)
           hit == e.p \in cand.hits
           d == e.d + 1
           next == IF d < Tol THEN NeighboursIn(e.p, pass) ELSE <<>>
       IN  IF e.p \notin pass
           THEN stack' = Front(stack) /\ UNCHANGED <<pass, count, taken>>
           ELSE /\ pass' = pass \ {e.p} /\ taken' = taken \cup {e.p}
                /\ count' = IF hit THEN count + 1 ELSE count
                /\ stack' = Front(stack) \o [k \in 1 .. Len(next) |-> [p |-> next[k], d |-> d]]
    /\ UNCHANGED <<cand, pc, window, sum, edge, best, center, radius, exact, result>>

\* A turn of floodFillGen: a sample is marked when it is popped, and may be on
\* the stack several times until then.
FillGen ==
    /\ pc = "fillGen" /\ stack # <<>>
    /\ LET e == Last(stack)
           hit == e.p \in cand.hits
           d == IF hit THEN 0 ELSE e.d + 1
           next == IF hit \/ d < Tol THEN NeighboursIn(e.p, pass) ELSE <<>>
       IN  IF e.p \notin pass
           THEN stack' = Front(stack) /\ UNCHANGED <<pass, count, taken>>
           ELSE /\ pass' = pass \ {e.p} /\ taken' = taken \cup {e.p}
                /\ count' = IF hit THEN count + 1 ELSE count
                /\ stack' = Front(stack) \o [k \in 1 .. Len(next) |-> [p |-> next[k], d |-> d]]
    /\ UNCHANGED <<cand, pc, window, sum, edge, best, center, radius, exact, result>>

\* The scale-4 cells that fast_find_center samples.
Window4 == Square(Trunc(cand.at[1] - Range4 \div 2, 4), Trunc(cand.at[2] - Range4 \div 2, 4),
                  Range4 \div 4)

\* A fill is over.  If it is large enough the test has passed and
\* fast_find_center builds its grid.
EndFillGen ==
    /\ pc = "fillGen" /\ stack = <<>>
    /\ IF count >= CoarseMin
       THEN /\ pc' = "find"
            /\ window' = Window4
            /\ pass' = Window4 \cap (cand.layer15 \cup cand.layer16)
       ELSE pc' = "centers" /\ UNCHANGED <<window, pass>>
    /\ count' = 0 /\ taken' = {}
    /\ UNCHANGED <<cand, stack, sum, edge, best, center, radius, exact, result>>

-----------------------------------------------------------------------------
(* The flood fill of fast_find_center and measure_1to1 *)

Filling == {"find", "measure", "fromCenter"}

\* Mutant: the sums go on from the last island.
StartFillSums ==
    /\ pc \in {"find", "measure"} /\ stack = <<>> /\ pass # {} /\ count = 0
    /\ stack' = <<First(pass)>>
    /\ pass' = pass \ {First(pass)}
    /\ edge' = FALSE
    /\ UNCHANGED <<cand, pc, window, count, taken, sum, best, center, radius, exact, result>>

\* The scan meets a place that holds 1.
StartFill ==
    /\ pc \in {"find", "measure"} /\ stack = <<>> /\ pass # {} /\ count = 0
    /\ stack' = <<First(pass)>>
    /\ pass' = pass \ {First(pass)}
    /\ sum' = <<0, 0>>
    /\ edge' = FALSE
    /\ UNCHANGED <<cand, pc, window, count, taken, best, center, radius, exact, result>>

\* Mutant: only a gap in the island counts as the border.
FillOneNoEdge ==
    /\ pc \in Filling /\ stack # <<>>
    /\ LET p == Last(stack)
           next == NeighboursIn(p, pass)
       IN  /\ stack' = Front(stack) \o next
           /\ pass' = pass \ ToSet(next)
           /\ count' = count + 1 /\ taken' = taken \cup {p}
           /\ sum' = <<sum[1] + p[1], sum[2] + p[2]>>
           /\ edge' = (\E k \in 1 .. 4 : Neighbours(p)[k] \notin window)
    /\ UNCHANGED <<cand, pc, window, best, center, radius, exact, result>>

\* A turn of the fill: places are marked when they are pushed.
FillOne ==
    /\ pc \in Filling /\ stack # <<>>
    /\ LET p == Last(stack)
           next == NeighboursIn(p, pass)
       IN  /\ stack' = Front(stack) \o next
           /\ pass' = pass \ ToSet(next)
           /\ count' = count + 1 /\ taken' = taken \cup {p}
           /\ sum' = <<sum[1] + p[1], sum[2] + p[2]>>
           /\ edge' = (edge \/ \E k \in 1 .. 4 : Neighbours(p)[k] \notin window)
    /\ UNCHANGED <<cand, pc, window, best, center, radius, exact, result>>

\* An island is complete; the first of the largest is kept.
EndFill ==
    /\ pc \in Filling /\ stack = <<>> /\ count > 0
    /\ best' = IF count > best.n
               THEN [n |-> count, edge |-> edge,
                     at |-> <<Trunc(sum[1], count), Trunc(sum[2], count)>>]
               ELSE best
    /\ count' = 0 /\ taken' = {}
    /\ pass' = IF pc = "fromCenter" THEN {} ELSE pass
    /\ UNCHANGED <<cand, pc, window, stack, sum, edge, center, radius, exact, result>>

\* The loops over the grid are over.
Filled == pc \in Filling /\ stack = <<>> /\ pass = {} /\ count = 0

-----------------------------------------------------------------------------
(* process and process_origin *)

\* measure_1to1(c, r) up to its flood fills.  best_x and best_z start as the
\* centre.
Measure(kind, c, r) ==
    LET blocks == Square(c[1] - r, c[2] - r, 2 * r)
        passing == PassGrid(blocks, Grid4(c[1] - r, c[2] - r, 2 * r))
    IN  /\ pc' = kind
        /\ window' = blocks
        /\ center' = c
        /\ radius' = r
        /\ count' = 0 /\ taken' = {} /\ sum' = <<0, 0>> /\ edge' = FALSE
        /\ best' = [NoBest EXCEPT !.at = c]
        /\ IF kind = "fromCenter"
           THEN /\ stack' = IF c \in passing THEN <<c>> ELSE <<>>
                /\ pass' = IF c \in passing THEN passing \ {c} ELSE {}
           ELSE /\ stack' = <<>>
                /\ pass' = passing

\* The end of fast_find_center: too small, good enough with --fast, or the
\* first measurement.
EndFind ==
    /\ pc = "find" /\ Filled
    /\ LET res == [n |-> 16 * best.n, edge |-> FALSE,
                   at |-> <<4 * best.at[1] + 2, 4 * best.at[2] + 2>>]
       IN  IF best.n = 0 \/ res.n < MinSize \/ cand.fast
           THEN /\ IF best.n > 0 THEN ReturnMeasured(res) ELSE Return(<<>>)
                /\ UNCHANGED <<window, fill, center, radius>>
           ELSE /\ Measure("measure", res.at, Min({RadiusOf(res.n), MaxRadius}))
                /\ UNCHANGED result
    /\ UNCHANGED <<cand, exact>>

\* A measurement of process is over.  After the first one (exact is still
\* empty) an island that meets the border is measured again, once, with a
\* larger radius; the larger area counts.
EndMeasure ==
    /\ pc = "measure" /\ Filled
    /\ LET big == Min({(radius * 3) \div 2, MaxRadius})
       IN  IF exact = NoBest /\ best.edge /\ big > radius
           THEN /\ Measure("measure", center, big)
                /\ exact' = best
                /\ UNCHANGED result
           ELSE /\ ReturnMeasured(IF best.n > exact.n THEN best ELSE exact)
                /\ UNCHANGED <<window, fill, center, radius, exact>>
    /\ UNCHANGED cand

\* process_origin up to its first measurement.
Origin ==
    /\ pc = "start" /\ cand.origin
    /\ \/ /\ ~IsMushroom(<<0, 0>>)
          /\ Return(<<>>)
          /\ UNCHANGED <<window, fill, center, radius>>
       \/ /\ IsMushroom(<<0, 0>>) /\ cand.fast
          /\ \/ Return(<<>>)
             \/ Return(<<[n |-> MinSize, at |-> <<0, 0>>, edge |-> FALSE]>>)
          /\ UNCHANGED <<window, fill, center, radius>>
       \/ /\ IsMushroom(<<0, 0>>) /\ ~cand.fast
          /\ Measure("fromCenter", <<0, 0>>, OriginRadius)
          /\ UNCHANGED result
    /\ UNCHANGED <<cand, exact>>

\* Mutant: the radius is enlarged once, as in process.
EndOriginOnce ==
    /\ pc = "fromCenter" /\ Filled
    /\ IF best.edge /\ radius = OriginRadius
       THEN /\ Measure("fromCenter", <<0, 0>>, Min({2 * radius, MaxRadius}))
            /\ UNCHANGED result
       ELSE /\ ReturnMeasured(best)
            /\ UNCHANGED <<window, fill, center, radius>>
    /\ UNCHANGED <<cand, exact>>

\* A measurement of process_origin is over: double the radius while the island
\* meets the border.
EndOrigin ==
    /\ pc = "fromCenter" /\ Filled
    /\ IF best.edge /\ radius < MaxRadius
       THEN /\ Measure("fromCenter", <<0, 0>>, Min({2 * radius, MaxRadius}))
            /\ UNCHANGED result
       ELSE /\ ReturnMeasured(best)
            /\ UNCHANGED <<window, fill, center, radius>>
    /\ UNCHANGED <<cand, exact>>

Done == pc = "done" /\ UNCHANGED vars

Next ==
    \/ MonteCarlo \/ StartCenter \/ NoCenter \/ FillGen \/ EndFillGen
    \/ StartFill \/ FillOne \/ EndFill \/ EndFind \/ EndMeasure
    \/ Origin \/ EndOrigin
    \/ Done

Spec == Init /\ [][Next]_vars

-----------------------------------------------------------------------------
(* Reference definitions *)

\* The islands of a set of places: each place joins the islands it touches.
Islands(S) ==
    LET Join(p, found) ==
            LET near == {I \in found : \E k \in 1 .. 4 : Neighbours(p)[k] \in I}
            IN  (found \ near) \cup {{p} \cup UNION near}
    IN  FoldSet(Join, {}, S)

Touches(I) == \E p \in I : \E k \in 1 .. 4 : Neighbours(p)[k] \notin window

InBox(at, I) ==
    /\ \E p, q \in I : p[1] <= at[1] /\ at[1] <= q[1]
    /\ \E p, q \in I : p[2] <= at[2] /\ at[2] <= q[2]

\* The blocks with mushroom fields.  The Voronoi step moves a block by less than
\* two cells.
World ==
    {b \in UNION {Square(4 * xz[1] - 2, 4 * xz[2] - 2, 8) : xz \in cand.layer15 \cup cand.layer16} :
        IsMushroom(b)}

-----------------------------------------------------------------------------
(* Properties *)

Measured == [n : Nat, at : Places, edge : BOOLEAN]

\* Every variable has its type.  The stack of floodFillGen keeps with a sample
\* how much of the tolerance is used up.
TypeOK ==
    /\ SetupOK(cand)
    /\ pc \in {"start", "centers", "fillGen", "done"} \cup Filling
    /\ window \subseteq Places /\ pass \subseteq Places /\ taken \subseteq Places
    /\ stack \in IF pc = "fillGen" THEN Seq([p : Coarse, d : Nat]) ELSE Seq(Places)
    /\ count \in Nat /\ edge \in BOOLEAN
    /\ sum \in Places /\ center \in Places
    /\ best \in Measured /\ exact \in Measured
    /\ radius \in 0 .. MaxRadius
    /\ result \in Seq(Measured) /\ Len(result) <= 1

\* floodFillGen allocates one entry per sample of its grid, although a sample
\* can be on the stack once for each neighbour (cubiomes.c:174, 223).
StackFits == pc = "fillGen" => Len(stack) <= Cardinality(Coarse)

\* The coarse test rejects a candidate only if no island of hits that holds a
\* point of its lattice is large enough: neither the order of the fill nor what
\* an earlier fill has marked makes it overlook one (cubiomes.c:189-224, 360-379).
CentersComplete ==
    pc = "centers" /\ Starts = {} =>
        \A I \in Islands(cand.hits) :
            Cardinality(I) >= CoarseMin =>
                ~ \E c \in I \cap cand.corners : c[1] % Step = 0 /\ c[2] % Step = 0

\* The shortcuts of measure_1to1 (a scale-4 grid with margins, the dilated
\* mask) change nothing: a block of the window passes exactly if the game has
\* mushroom fields there, on both sides of the axes (cpu.cpp:21-23, 55-111).
WindowExact ==
    pc \in {"measure", "fromCenter"} /\ best.n = 0 /\ count = 0 =>
        pass \cup ToSet(stack) = {b \in window : IsMushroom(b)}

\* A measurement yields the largest island of the window (the one around the
\* centre for --origin), a position inside its box, and whether it meets the
\* border (cpu.cpp:121-190).
LargestMeasured ==
    pc \in {"measure", "fromCenter"} /\ Filled =>
        LET islands == {I \in Islands({b \in window : IsMushroom(b)}) :
                            pc = "fromCenter" => center \in I}
        IN  \/ islands = {} /\ best.n = 0
            \/ \E I \in islands :
                  /\ \A J \in islands : Cardinality(J) <= Cardinality(I)
                  /\ best.n = Cardinality(I)
                  /\ best.edge = Touches(I)
                  /\ InBox(best.at, I)

\* A find that was measured is an island of the world: at least min_size, no
\* more than the whole island, all of it if it was not cut by the border, and
\* around its position; with --origin it holds the block (0, 0)
\* (cpu.cpp:299-333, 373-375).
ReportedIsIsland ==
    pc = "done" /\ result # <<>> /\ ~cand.fast =>
        LET r == Head(result)
        IN  /\ r.n >= MinSize
            /\ r.n > 0 =>
                  \E I \in Islands(World) :
                      /\ r.n <= Cardinality(I)
                      /\ r.edge \/ r.n = Cardinality(I)
                      /\ InBox(r.at, I)
                      /\ cand.origin => <<0, 0>> \in I

\* process_origin misses an island at the origin, or reports less than all of
\* it, only if the island reaches beyond the largest window (cpu.cpp:354-377).
OriginExact ==
    pc = "done" /\ cand.origin /\ ~cand.fast =>
        \A I \in Islands(World) :
            <<0, 0>> \in I =>
                \/ I \subseteq window /\ ~Touches(I)
                       /\ (result = <<>>) = (Cardinality(I) < MinSize)
                       /\ \A k \in 1 .. Len(result) : result[k].n = Cardinality(I)
                \/ radius = MaxRadius /\ Touches(I)

-----------------------------------------------------------------------------
(* The inductive invariant *)

\* A place of C has no neighbour in S outside C.
ClosedIn(C, S) == \A p \in C, q \in S : (\E k \in 1 .. 4 : Neighbours(p)[k] = q) => q \in C

\* The places of this grid that held 1 at first, those this fill has reached,
\* and those of earlier fills.
Ground == IF pc = "find" THEN window \cap (cand.layer15 \cup cand.layer16)
                         ELSE {b \in window : IsMushroom(b)}
Reached == taken \cup ToSet(stack)
Old == Ground \ (pass \cup Reached)

\* How far process and process_origin have come.
StageOK ==
    /\ pc \notin Filling \cup {"fillGen", "done"} => stack = <<>> /\ count = 0 /\ taken = {}
    /\ pc \notin Filling \cup {"done"} => best = NoBest
    /\ pc \notin {"measure", "done"} => exact = NoBest
    /\ pc # "done" => result = <<>>
    /\ pc \in {"centers", "fillGen", "find", "measure"} => ~cand.origin
    /\ pc = "find" => window = Window4
    /\ pc \in {"measure", "fromCenter"} =>
          /\ window = Square(center[1] - radius, center[2] - radius, 2 * radius)
          /\ ~cand.fast
    /\ pc = "measure" => exact = NoBest \/
          /\ exact.edge
          /\ \E I \in Islands(World) : exact.n <= Cardinality(I) /\ InBox(exact.at, I)
    /\ pc = "fromCenter" =>
          /\ cand.origin /\ IsMushroom(<<0, 0>>)
          /\ center = <<0, 0>> /\ radius > 0

\* The coarse test.  A hit is marked only together with its neighbours, by the
\* same fill or an earlier one, and the islands among those were too small.
CentersOK ==
    pc \in {"centers", "fillGen"} =>
        LET seen == Coarse \ (pass \cup taken)
        IN  /\ pass \subseteq Coarse /\ taken \subseteq Coarse /\ pass \cap taken = {}
            /\ count = Cardinality(taken \cap cand.hits)
            /\ \A p \in seen \cap cand.hits, q \in pass \cup taken :
                  ~ \E k \in 1 .. 4 : Neighbours(p)[k] = q
            /\ \A p \in taken \cap cand.hits, q \in pass :
                  (\E k \in 1 .. 4 : Neighbours(p)[k] = q) => \E k \in 1 .. Len(stack) : stack[k].p = q
            /\ \A I \in Islands(cand.hits) : I \subseteq seen => Cardinality(I) < CoarseMin

\* A flood fill.  What it has taken and pushed is part of one island, without
\* repetition and without a gap, and what it has counted is about the places
\* it has taken.
FillOK ==
    pc \in Filling =>
        /\ pass \cup Reached \subseteq Ground
        /\ pass \cap Reached = {} /\ taken \cap ToSet(stack) = {}
        /\ IsInjective(stack)
        /\ ClosedIn(taken, Ground \ Reached) /\ ClosedIn(Old, Ground)
        /\ Reached = {} \/ \E I \in Islands(Ground) : Reached \subseteq I
        /\ count = Cardinality(taken)
        /\ IF taken = {}
           THEN stack = <<>> \/ (sum = <<0, 0>> /\ ~edge)
           ELSE /\ edge = Touches(taken)
                /\ \A i \in 1 .. 2 : \E p, q \in taken : p[i] * count <= sum[i] /\ sum[i] <= q[i] * count

Describes(m, I) == m.n = Cardinality(I) /\ m.edge = Touches(I) /\ InBox(m.at, I)

\* The best so far is the largest of the earlier fills; with --origin there is
\* one fill, from the centre.
BestOK ==
    /\ pc \in {"find", "measure"} =>
          \/ Old = {} /\ best.n = 0 /\ ~best.edge
          \/ \E I \in Islands(Ground) :
                /\ I \subseteq Old /\ Describes(best, I)
                /\ \A J \in Islands(Ground) : J \subseteq Old => Cardinality(J) <= Cardinality(I)
    /\ pc = "fromCenter" =>
          \/ Old = {} /\ best.n = 0 /\ ~best.edge /\ center \in Reached
          \/ /\ pass = {} /\ Reached = {}
             /\ \E I \in Islands(Ground) : center \in I /\ Describes(best, I)

IInv == TypeOK /\ StageOK /\ CentersOK /\ FillOK /\ BestOK /\ ReportedIsIsland /\ OriginExact

\* The steps from row to row that floodFillGen cannot push any more, each by its
\* lower sample: one of its ends is marked.
Spent == {c \in Coarse : c[2] > 0 /\ ~({c, Neighbours(c)[1]} \subseteq pass)}

\* The stack of floodFillGen.  An entry was pushed from row to row, and has spent
\* its step; or to the left, from a sample that was entered from another row or
\* was the start, since otherwise it is the last of its neighbours and on top.
StackOK ==
    pc = "fillGen" =>
        \/ Len(stack) <= Cardinality(Spent) + 1
        \/ /\ stack # <<>> /\ Len(stack) = Cardinality(Spent) + 2
           /\ \E i \in 3 .. 4 : Neighbours(Last(stack).p)[i] \in Coarse \ pass
=============================================================================

----------------------------- MODULE MCGpuBatch -----------------------------
(***************************************************************************)
(* Small instances of GpuBatch.  Seed 1 has two centres in filter 0B and   *)
(* loses one there; seed 2 keeps both and filter 2a moves them onto the    *)
(* same place; seed 3 drops out in filter 2b, before its last octaves are  *)
(* computed, and the centre of seed 4 is moved by the last filter.  Seed 5 *)
(* has more centres than the buffers of the instances with an overflow can *)
(* hold.  Batches reuse the same few places of the tables.                 *)
(***************************************************************************)
EXTENDS GpuBatch

MCPositions == {0, 1, 2}

\* Where a centre is seen first, and where gradvecs_2 sees one for it.
Centres == <<{1}, {2}, {1}, {2}, {1, 2}>>
Doubled == {1, 2, 5}

Kept(f, s, p) ==
    CASE f = "origin"                 -> IF s \in {1, 4} THEN {0} ELSE {}
      [] f = "gradvecs1"              -> Centres[s]
      [] f = "gradvecs2" /\ s \in Doubled -> {1, 2}
      [] f = "filter0b" /\ s = 1      -> {p} \ {1}
      [] f = "filter2a" /\ s = 2      -> {1}
      [] f = "filter2b" /\ s = 3      -> {}
      [] f = "filter2d" /\ s = 4      -> {1}
      [] OTHER                        -> {p}

MCEmit == [f \in Filters |-> [s \in 1 .. 5 |-> [p \in MCPositions |-> Kept(f, s, p)]]]

\* Two batches that fit, one that overflows between two that do not, and the
\* short chain of --origin.
Fitting == [origin |-> FALSE, batches |-> <<{1, 2}, {3, 4}>>, cap |-> <<4, 4>>]
Overflowing == [origin |-> FALSE, batches |-> <<{1}, {5}, {4}>>, cap |-> <<4, 3>>]
AtOrigin == [origin |-> TRUE, batches |-> <<{1, 2, 3, 4}, {3, 5}>>, cap |-> <<4, 4>>]

AllSetups == {Fitting, Overflowing, AtOrigin}
FittingOnly == {Fitting}
OverflowingOnly == {Overflowing}
=============================================================================

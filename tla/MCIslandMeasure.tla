-------------------------- MODULE MCIslandMeasure --------------------------
(***************************************************************************)
(* Small instances of IslandMeasure.  Coarse: every pattern of hits on a   *)
(* grid of samples whose lattice has four points, with all of them or one  *)
(* as candidates, in a world without an island.  Measured: every pattern   *)
(* of 3 by 3 cells (islands of one cell fit the windows, larger ones are   *)
(* cut), with Voronoi steps that move all blocks one way, as rounding      *)
(* would, and unevenly; at a position near the origin or on both sides of  *)
(* an axis, and around the origin with --origin.                           *)
(***************************************************************************)
EXTENDS IslandMeasure

Residues == (0 .. 3) \X (0 .. 3)
AllOneWay(dx, y, dz) == [r \in Residues |-> <<dx, y, dz>>]
Rounding == [r \in Residues |->
    <<IF r[1] \in 0 .. 1 THEN 1 ELSE 0, 15, IF r[2] \in 0 .. 1 THEN 1 ELSE 0>>]
Uneven == [r \in Residues |->
    <<(r[1] * r[2]) % 2, 15 + ((r[1] + r[2]) % 2), (r[1] + r[2] + 1) % 2>>]

Cells(x, z) == (x - 1 .. x + 1) \X (z - 1 .. z + 1)

Coarsely ==
    {[origin |-> FALSE, fast |-> FALSE, at |-> <<2, 2>>, layer15 |-> {}, layer16 |-> {},
      voronoi |-> Rounding, corners |-> c, hits |-> h] :
        c \in {Coarse, {<<2, 2>>}}, h \in SUBSET Coarse}

\* All samples are hits, so that the coarse test passes.
Around(x, z, origin, fast, voronois, patterns) ==
    {[origin |-> origin, fast |-> fast, at |-> <<4 * x + 2, 4 * z + 2>>,
      layer15 |-> p, layer16 |-> IF upper THEN p ELSE {<<x, z>>},
      voronoi |-> v, corners |-> Coarse, hits |-> Coarse] :
        p \in patterns, upper \in BOOLEAN, v \in voronois}

MCCandidates ==
    Coarsely
    \cup Around(0, 0, FALSE, FALSE, {Rounding, Uneven}, SUBSET Cells(0, 0))
    \cup Around(-1, 1, FALSE, FALSE, {AllOneWay(0, 15, 1), AllOneWay(1, 16, 0)},
                {P \in SUBSET Cells(-1, 1) : Cardinality(P) \in {1, 2, 8}})
    \cup Around(0, 0, FALSE, TRUE, {Rounding}, {{}, {<<0, 0>>}, Cells(0, 0)})
    \cup Around(0, 0, TRUE, FALSE, {Rounding, Uneven}, SUBSET Cells(0, 0))
    \cup Around(0, 0, TRUE, TRUE, {Rounding}, {{}, Cells(0, 0)})

MCRadiusOf(area) == IF area > 16 THEN 5 ELSE 3
=============================================================================

------------------------------ MODULE MCViewer ------------------------------
(***************************************************************************)
(* A small instance of Viewer: four rows, of which the last is uploaded    *)
(* while the page is open, pages of two rows, and two filters, one with    *)
(* all rows, the newest first, and one with two of them in another order.  *)
(***************************************************************************)
EXTENDS Viewer

MCRows == {1, 2, 3, 4}
MCOldRows == {1, 2, 3}
MCOrder == [all |-> <<4, 3, 2, 1>>, some |-> <<1, 4>>]
MCWorldOf == [r \in MCRows |-> IF r = 3 THEN "B" ELSE "A"]
MCWorlds == {"A", "B"}
=============================================================================

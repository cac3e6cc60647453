---------------------------- MODULE MCSeedStore -----------------------------
(***************************************************************************)
(* A small instance of SeedStore: one find to upload, and one row that an  *)
(* earlier session has left and that cannot be rendered, so that the       *)
(* starter never comes to an end as long as nobody deletes it.             *)
(***************************************************************************)
EXTENDS SeedStore

CONSTANTS k1, k2, w1, w2

MCKeys == {k1, k2}
MCOld == {k2}
MCBroken == {k2}
MCWorkers == {w1, w2}
=============================================================================

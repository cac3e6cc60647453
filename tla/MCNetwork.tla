----------------------------- MODULE MCNetwork -----------------------------
(***************************************************************************)
(* Two clients, one of them built for the other biome size.  A record has  *)
(* three bytes and the buffer four, so that reads end within records and   *)
(* the buffer holds a rest when it is nearly full; the sizes of the code   *)
(* are 16 and 1024.                                                        *)
(***************************************************************************)
EXTENDS Network
=============================================================================

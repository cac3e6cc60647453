---------------------------- MODULE ReportRounds ----------------------------
(***************************************************************************)
(* What the combined report promises, without mutexes and condition        *)
(* variables: a round is printed when every GPU thread has handed in its   *)
(* snapshot for it, and no thread hands in the next one before that.       *)
(***************************************************************************)
EXTENDS Naturals

CONSTANTS Gpus

VARIABLES
    handedIn,  \* handedIn[g]: how many snapshots thread g has handed in
    printed    \* how many rounds were printed

vars == <<handedIn, printed>>

Init ==
    /\ handedIn = [g \in Gpus |-> 0]
    /\ printed = 0

HandIn(g) ==
    /\ handedIn[g] = printed
    /\ handedIn' = [handedIn EXCEPT ![g] = printed + 1]
    /\ UNCHANGED printed

PrintRound ==
    /\ \A g \in Gpus : handedIn[g] = printed + 1
    /\ printed' = printed + 1
    /\ UNCHANGED handedIn

Next == (\E g \in Gpus : HandIn(g)) \/ PrintRound

Spec == Init /\ [][Next]_vars
=============================================================================

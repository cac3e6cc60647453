----------------------------- MODULE MCPipeline -----------------------------
(***************************************************************************)
(* Small instances of Pipeline.  Of the candidates, seed 0 has one find    *)
(* that both of its candidates lead to, with two different scores; of the  *)
(* other seeds a candidate is its own find, but seed 3 has none at all.    *)
(***************************************************************************)
EXTENDS Pipeline, TLC

MCPositions == {1, 2}

MCProcess ==
    [c \in Candidates |->
        CASE c.seed = 0 -> [seed |-> 0, at |-> 1, score |-> c.at]
          [] c.seed = 3 -> NoOutput
          [] OTHER      -> [seed |-> c.seed, at |-> c.at, score |-> 1]]

\* The GPU threads are alike.  Only the run without liveness properties uses this.
Alike == Permutations(Gpus)
=============================================================================

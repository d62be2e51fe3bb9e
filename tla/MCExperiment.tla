---------------------------- MODULE MCExperiment ----------------------------
(* Three producers below the consumer, a tree with an aggregator of two     *)
(* producers and another of one, and one with an aggregator of all three.  *)
(* A unit of time is 250 ms.                                               *)
EXTENDS Experiment, TLC

CONSTANTS con, a1, a2, p1, p2, p3
MCTopologies ==
  {[direct |-> TRUE, parent |-> [c \in {p1, p2, p3} |-> con]],
   [direct |-> FALSE,
    parent |-> a1 :> con @@ a2 :> con @@ p1 :> a1 @@ p2 :> a1 @@ p3 :> a2],
   [direct |-> FALSE,
    parent |-> a1 :> con @@ p1 :> a1 @@ p2 :> a1 @@ p3 :> a1]}

(* Numbers below half the width, as rand() << 32 | rand() gives them. *)
MCRandom ==
  [size \in 1..7 |-> {SubSeq(s, 1, size) : s \in
     {<<1, 2, 0, 3, 3, 1, 2>>, <<3, 3, 2, 0, 1, 2, 1>>, <<3, 1, 1, 2, 0, 3, 0>>}}]
=============================================================================

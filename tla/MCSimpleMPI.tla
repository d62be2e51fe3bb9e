---------------------------- MODULE MCSimpleMPI ----------------------------
(***************************************************************************)
(* Instances of SimpleMPI for TLC: the shapes that in-quic-topo.cc builds, *)
(* scaled down.                                                            *)
(***************************************************************************)
EXTENDS SimpleMPI, TLC

CONSTANTS con, agg1, agg2, p1, p2, p3, p4

(* CreateDirectTopo: the consumer talks to the producers itself. *)
DirectNode == {con, p1, p2, p3}
DirectParent == [c \in {p1, p2, p3} |-> con]

(* CreateAggTree: aggregators between the consumer and the producers. *)
TreeNode == {con, agg1, agg2, p1, p2, p3, p4}
TreeParent ==
  agg1 :> con @@ agg2 :> con @@ p1 :> agg1 @@ p2 :> agg1 @@ p3 :> agg2 @@ p4 :> agg2

(* A deeper tree, whose aggregators have children at two levels. *)
DeepNode == {con, agg1, agg2, p1, p2, p3}
DeepParent == agg1 :> con @@ p1 :> con @@ agg2 :> agg1 @@ p2 :> agg1 @@ p3 :> agg2

NoLinks == {}
DeepLinks == DeepNode \ {con}

TreeSymmetry == Permutations({p1, p2}) \cup Permutations({p3, p4})
=============================================================================

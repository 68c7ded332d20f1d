-------------------------- MODULE MCPlacesBlocking --------------------------
(* Instances of PlacesBlocking for TLC: 3 is an old place, so paths lead   *)
(* through it but it is never an answer.  There are chains of three edges, *)
(* edges between the same nodes, a node reached by two paths, and edges    *)
(* with two ends on either side.                                           *)
EXTENDS PlacesBlocking

MCEdges ==
  {[kind |-> k, blocked |-> ends[1], by |-> ends[2]] :
     k \in EdgeKinds,
     ends \in {<<{1}, {2}>>, <<{1}, {2, 3}>>, <<{2}, {3}>>, <<{2, 3}, {4}>>, <<{3}, {4}>>}}
=============================================================================

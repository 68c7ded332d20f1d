--------------------------- MODULE PlacesBlocking ---------------------------
(***************************************************************************)
(* places_blocking (src/mutator/expiry_order.rs): a walk over the borrow   *)
(* PCG from a mutably borrowed place, that collects the places blocking it *)
(* for the two expiry-order mutations.                                     *)
(*                                                                         *)
(* The PCG comes from the pcg library.  It is a hypergraph: an edge blocks *)
(* some nodes and is blocked by others.  Here the nodes are numbered so    *)
(* that an edge is blocked by nodes with higher numbers than those it      *)
(* blocks: the graph has no cycle, and the walk, which remembers no edge   *)
(* it has visited, relies on that.                                         *)
(***************************************************************************)
EXTENDS Integers, Sequences, FiniteSets

CONSTANTS
  Nodes,    \* places, old places and region projections of the PCG
  Current,  \* those that are places of the current state
  Edges,    \* edges there may be
  MaxEdges  \* bound: edges of a graph

EdgeKinds ==
  {"mut borrow", "other borrow",        \* shared, two-phase or remote
   "mut expansion", "other expansion",  \* mut if its base is a &mut
   "abstraction", "other"}

ASSUME GraphAssumption ==
  /\ Nodes \subseteq Nat /\ IsFiniteSet(Nodes) /\ Current \subseteq Nodes
  /\ MaxEdges \in Nat \ {0}
  /\ Edges \subseteq [kind : EdgeKinds, blocked : SUBSET Nodes, by : SUBSET Nodes]
  /\ \A e \in Edges : \A n \in e.blocked, m \in e.by : n < m

VARIABLES
  graph,     \* the edges of the PCG
  place,     \* the place asked about
  mutation,  \* on whose behalf: it decides is_blocking_edge
  to_visit,  \* Vec of edges, with the kinds on the way to each
  places,    \* the answer so far
  pc

args == <<graph, place, mutation>>
vars == <<args, to_visit, places, pc>>

-----------------------------------------------------------------------------

(* Both mutations: no borrow but mutable ones, no expansion but of a &mut. *)
is_valid_edge(kind) == kind \notin {"other borrow", "other expansion"}

is_blocking_edge(kinds) ==
  /\ "mut borrow" \in kinds
  /\ mutation = "abstract-expiry-order" => "abstraction" \in kinds

(* get_edges_blocking.                                                     *)
Blocking(node) == {e \in graph : node \in e.blocked}

(* blocked_by_nodes.                                                       *)
NodesOf(e) == e.by

(* The valid edges blocking some nodes, in an order the graph's hash maps  *)
(* decide; an edge that blocks two of the nodes comes twice.               *)
Orders(S) == {f \in [1..Cardinality(S) -> S] : \A i, j \in 1..Cardinality(S) : f[i] = f[j] => i = j}
EdgesBlocking(nodes, kinds) ==
  LET found == {x \in nodes \X graph : x[2] \in Blocking(x[1]) /\ is_valid_edge(x[2].kind)}
  IN  {[i \in DOMAIN f |-> [edge |-> f[i][2], kinds |-> kinds]] : f \in Orders(found)}

GraphsUpTo(n) == {{f[i] : i \in 1..n} : f \in [1..n -> Edges]}

(* make_stream asks about the places that are mutably borrowed.            *)
Init ==
  /\ graph \in GraphsUpTo(MaxEdges)
  /\ place \in Current
  /\ \E e \in Blocking(place) : e.kind = "mut borrow"
  /\ mutation \in {"borrow-expiry-order", "abstract-expiry-order"}
  /\ to_visit \in EdgesBlocking({place}, {})
  /\ places = {}
  /\ pc = "walk"

Popped == to_visit[Len(to_visit)]
Rest == SubSeq(to_visit, 1, Len(to_visit) - 1)

VisitForgettingKinds ==
  /\ pc = "walk" /\ to_visit # << >>
  /\ LET curr     == Popped.edge
         kind_set == {curr.kind}
     IN  /\ places' = IF is_blocking_edge(kind_set)
                        THEN places \cup (curr.by \cap Current) ELSE places
         /\ \E adjacent \in EdgesBlocking(NodesOf(curr), kind_set) : to_visit' = Rest \o adjacent
  /\ UNCHANGED <<args, pc>>

VisitWithoutPopping ==
  /\ pc = "walk" /\ to_visit # << >>
  /\ LET curr     == Popped.edge
         kind_set == Popped.kinds \cup {curr.kind}
     IN  /\ places' = IF is_blocking_edge(kind_set)
                        THEN places \cup (curr.by \cap Current) ELSE places
         /\ \E adjacent \in EdgesBlocking(NodesOf(curr), kind_set) :
              to_visit' = IF adjacent = << >> THEN to_visit ELSE Rest \o adjacent
  /\ UNCHANGED <<args, pc>>

(* One turn of the loop: each edge pushed gets its own copy of the kinds.  *)
Visit ==
  /\ pc = "walk" /\ to_visit # << >>
  /\ LET curr     == Popped.edge
         kind_set == Popped.kinds \cup {curr.kind}
     IN  /\ places' = IF is_blocking_edge(kind_set)
                        THEN places \cup (curr.by \cap Current) ELSE places
         /\ \E adjacent \in EdgesBlocking(NodesOf(curr), kind_set) : to_visit' = Rest \o adjacent
  /\ UNCHANGED <<args, pc>>

Return ==
  /\ pc = "walk" /\ to_visit = << >>
  /\ pc' = "done"
  /\ UNCHANGED <<args, to_visit, places>>

Next == Visit \/ Return

(* A sequential loop.                                                      *)
Spec == Init /\ [][Next]_vars /\ WF_vars(Next)

-----------------------------------------------------------------------------

(* The paths from the place: valid edges, each of which blocks a node that *)
(* the edge before it is blocked by.                                       *)
ValidPaths ==
  {path \in UNION {[1..n -> graph] : n \in 1..Cardinality(graph)} :
     /\ \A i \in DOMAIN path : path[i].kind \notin {"other borrow", "other expansion"}
     /\ place \in path[1].blocked
     /\ \A i \in 2..Len(path) : path[i].blocked \cap path[i-1].by # {}}

KindsOn(path) == {path[i].kind : i \in DOMAIN path}

ViaMutBorrow(path) == "mut borrow" \in KindsOn(path)
ViaAbstraction(path) == "abstraction" \in KindsOn(path)

(* "Returns the places for each node that blocks `place` on a path that    *)
(* includes at least one edge satisfying is_blocking_edge": for            *)
(* abstract-expiry-order, an abstraction and a mutable borrow, in any      *)
(* order on the path.                                                      *)
BlockingPlaces ==
  UNION {path[Len(path)].by \cap Current :
           path \in {path \in ValidPaths :
                       /\ ViaMutBorrow(path)
                       /\ mutation = "abstract-expiry-order" => ViaAbstraction(path)}}

(* The walk finds no place that blocks on no such path, though the kinds   *)
(* of paths that meet again travel along both, and when it returns it has  *)
(* found all that do.                                                      *)
FindsExactlyBlocking ==
  places \subseteq BlockingPlaces /\ (pc = "done" => BlockingPlaces \subseteq places)

(* The walk returns.                                                       *)
Returns == <>(pc = "done")

=============================================================================

------------------------ MODULE PlacesBlockingProofs ------------------------
(***************************************************************************)
(* Theorems about PlacesBlocking, for any finite acyclic hypergraph: the   *)
(* walk finds exactly the places that block on a path with the edges that  *)
(* the mutation asks for.                                                  *)
(***************************************************************************)
EXTENDS PlacesBlocking, FiniteSetTheorems, FunctionTheorems, SequenceTheorems, TLAPS

Entries == [edge : graph, kinds : SUBSET EdgeKinds]

(* A path, of any length, as ValidPaths has them.                          *)
IsWalk(path) ==
  /\ path \in Seq(graph) /\ path # << >>
  /\ \A i \in DOMAIN path : is_valid_edge(path[i].kind)
  /\ place \in path[1].blocked
  /\ \A i \in 2..Len(path) : path[i].blocked \cap path[i-1].by # {}

(* No edge comes twice: each blocks a node above all that those before it  *)
(* block.                                                                  *)
Ascends(path) ==
  \A i, j \in DOMAIN path :
    i < j => \E n \in path[j].blocked : \A m \in path[i].blocked : m < n

KindsBefore(path, n) == {path[i].kind : i \in 1..n - 1}

(* An entry of the Vec is the end of a path and the kinds on the way to it.*)
LeadsTo(path, entry) ==
  /\ IsWalk(path) /\ Ascends(path)
  /\ entry.edge = path[Len(path)] /\ entry.kinds = KindsBefore(path, Len(path))

(* A path is yet to be walked from one of its edges on, or has been walked *)
(* to its end.                                                             *)
Counts(path) ==
  /\ ViaMutBorrow(path)
  /\ mutation = "abstract-expiry-order" => ViaAbstraction(path)
Pending(path) ==
  \E i \in DOMAIN path, k \in DOMAIN to_visit :
    to_visit[k] = [edge |-> path[i], kinds |-> KindsBefore(path, i)]
Served(path) == Counts(path) => path[Len(path)].by \cap Current \subseteq places

GraphInv ==
  /\ graph \subseteq Edges /\ IsFiniteSet(graph)
  /\ place \in Current
WalkInv ==
  /\ GraphInv
  /\ to_visit \in Seq(Entries)
  /\ \A k \in DOMAIN to_visit : \E path : LeadsTo(path, to_visit[k])
  /\ places \subseteq BlockingPlaces
  /\ \A path \in ValidPaths : Pending(path) \/ Served(path)
  /\ pc = "done" => to_visit = << >>

-----------------------------------------------------------------------------

(* Every element has its place in an order.                                *)
LEMMA OrdersAreComplete ==
  ASSUME NEW S, IsFiniteSet(S), NEW f \in Orders(S)
  PROVE  /\ f \in [1..Cardinality(S) -> S] /\ Cardinality(S) \in Nat
         /\ \A x \in S : \E i \in DOMAIN f : f[i] = x
<1> DEFINE n == Cardinality(S)
<1>1. n \in Nat
  BY FS_CardinalityType
<1>2. f \in [1..n -> S] /\ \A i, j \in 1..n : f[i] = f[j] => i = j
  BY DEF Orders
<1>3. f \in Injection(1..n, S)
  BY <1>2, Fun_IsInj
<1>4. Cardinality(1..n) = n
  BY <1>1, FS_Interval
<1>5. f \in Surjection(1..n, S)
  BY <1>3, <1>4, FS_Injection
<1>6. \A x \in S : \E i \in 1..n : f[i] = x
  BY <1>5 DEF Surjection
<1> QED
  BY <1>1, <1>2, <1>6

(* What is where in a sequence that is put behind another.                 *)
LEMMA ConcatFacts ==
  ASSUME NEW S, NEW s \in Seq(S), NEW t \in Seq(S), NEW m \in Nat, Len(s) = m
  PROVE  /\ s \o t \in Seq(S) /\ Len(s \o t) = m + Len(t)
         /\ Len(t) \in Nat /\ DOMAIN t = 1..Len(t) /\ DOMAIN (s \o t) = 1..m + Len(t)
         /\ \A k \in 1..m : (s \o t)[k] = s[k]
         /\ \A i \in 1..Len(t) : (s \o t)[m + i] = t[i]
<1> DEFINE n == Len(t)
<1>1. n \in Nat /\ DOMAIN t = 1..n
  OBVIOUS
<1>2. /\ s \o t \in Seq(S) /\ Len(s \o t) = m + n
      /\ \A k \in 1..m + n : (s \o t)[k] = IF k <= m THEN s[k] ELSE t[k - m]
  BY ConcatProperties
<1> HIDE DEF n
<1>3. \A k \in 1..m : k \in 1..m + n /\ k <= m
  BY <1>1
<1>4. \A i \in 1..n : m + i \in 1..m + n /\ ~(m + i <= m) /\ m + i - m = i
  BY <1>1
<1> QED
  BY <1>1, <1>2, <1>3, <1>4 DEF n

(* An edge is blocked by nodes above those it blocks.                      *)
LEMMA EdgesAscend ==
  ASSUME GraphInv, NEW e \in graph
  PROVE  /\ e.kind \in EdgeKinds /\ e.by \in SUBSET Nodes
         /\ e.blocked \subseteq Nat /\ e.by \subseteq Nat
         /\ \A n \in e.blocked, m \in e.by : n < m
<1>1. e \in Edges
  BY DEF GraphInv
<1>2. e \in [kind : EdgeKinds, blocked : SUBSET Nodes, by : SUBSET Nodes]
  BY <1>1, GraphAssumption
<1>3. \A n \in e.blocked, m \in e.by : n < m
  BY <1>1, GraphAssumption
<1> QED
  BY <1>2, <1>3, GraphAssumption

(* The edges that are pushed are those that block one of the nodes.        *)
LEMMA EdgesAreAdjacent ==
  ASSUME GraphInv, NEW nodes \in SUBSET Nodes, NEW kinds \in SUBSET EdgeKinds,
         NEW adjacent \in EdgesBlocking(nodes, kinds)
  PROVE  /\ adjacent \in Seq(Entries)
         /\ \A i \in DOMAIN adjacent :
              /\ adjacent[i].kinds = kinds /\ is_valid_edge(adjacent[i].edge.kind)
              /\ nodes \cap adjacent[i].edge.blocked # {}
         /\ \A e \in graph : is_valid_edge(e.kind) /\ nodes \cap e.blocked # {} =>
              \E i \in DOMAIN adjacent : adjacent[i] = [edge |-> e, kinds |-> kinds]
<1> DEFINE found == {x \in nodes \X graph : x[2] \in Blocking(x[1]) /\ is_valid_edge(x[2].kind)}
<1>1. IsFiniteSet(found)
  <2>1. IsFiniteSet(nodes) /\ IsFiniteSet(graph)
    BY FS_Subset, GraphAssumption DEF GraphInv
  <2>2. IsFiniteSet(nodes \X graph)
    BY <2>1, FS_Product
  <2> QED
    BY <2>2, FS_Subset
<1>2. PICK f \in Orders(found) :
        adjacent = [i \in DOMAIN f |-> [edge |-> f[i][2], kinds |-> kinds]]
  BY DEF EdgesBlocking
<1> DEFINE n == Cardinality(found)
<1>3. f \in [1..n -> found] /\ n \in Nat /\ \A x \in found : \E i \in DOMAIN f : f[i] = x
  <2> HIDE DEF found
  <2> QED
    BY <1>1, OrdersAreComplete
<1>4. \A x \in found : x[1] \in nodes /\ x[2] \in graph /\ is_valid_edge(x[2].kind)
                     /\ x[1] \in x[2].blocked
  BY DEF Blocking
<1>5. \A e \in graph : is_valid_edge(e.kind) /\ nodes \cap e.blocked # {} =>
        \E m \in nodes : <<m, e>> \in found
  BY DEF Blocking
<1> HIDE DEF found, n
<1>6. adjacent \in Seq(Entries)
  BY <1>2, <1>3, <1>4 DEF Entries
<1>7. \A i \in DOMAIN adjacent :
        /\ adjacent[i].kinds = kinds /\ is_valid_edge(adjacent[i].edge.kind)
        /\ nodes \cap adjacent[i].edge.blocked # {}
  BY <1>2, <1>3, <1>4
<1>8. ASSUME NEW e \in graph, is_valid_edge(e.kind), nodes \cap e.blocked # {}
      PROVE  \E i \in DOMAIN adjacent : adjacent[i] = [edge |-> e, kinds |-> kinds]
  <2>1. PICK m \in nodes : <<m, e>> \in found
    BY <1>5, <1>8
  <2>2. PICK i \in DOMAIN f : f[i] = <<m, e>>
    BY <1>3, <2>1
  <2> QED
    BY <1>2, <2>2
<1> QED
  BY <1>6, <1>7, <1>8

LEMMA ValidPathsAreWalks ==
  ASSUME GraphInv, NEW path \in ValidPaths
  PROVE  /\ IsWalk(path) /\ DOMAIN path = 1..Len(path) /\ Len(path) \in Nat /\ Len(path) >= 1
         /\ \A i \in DOMAIN path : path[i] \in graph
<1>1. Cardinality(graph) \in Nat
  BY FS_CardinalityType DEF GraphInv
<1>2. PICK n \in 1..Cardinality(graph) : path \in [1..n -> graph]
  BY DEF ValidPaths
<1>3. n \in Nat /\ n >= 1
  BY <1>1
<1>4. path \in Seq(graph) /\ Len(path) = n /\ DOMAIN path = 1..n
  BY <1>2, <1>3
<1>5. /\ \A i \in DOMAIN path : is_valid_edge(path[i].kind)
      /\ place \in path[1].blocked
      /\ \A i \in 2..Len(path) : path[i].blocked \cap path[i-1].by # {}
  BY DEF ValidPaths, is_valid_edge
<1>6. path # << >> /\ \A i \in DOMAIN path : path[i] \in graph
  BY <1>2, <1>3, <1>4
<1>7. IsWalk(path)
  BY <1>4, <1>5, <1>6 DEF IsWalk
<1> QED
  BY <1>3, <1>4, <1>6, <1>7

(* A path on which no edge comes twice is among those that are compared.   *)
LEMMA AscendingWalksAreValid ==
  ASSUME GraphInv, NEW path, IsWalk(path), Ascends(path)
  PROVE  path \in ValidPaths
<1> DEFINE n == Len(path)
<1>1. path \in [1..n -> graph] /\ n \in Nat /\ n >= 1
  BY DEF IsWalk
<1>2. \A i, j \in 1..n : path[i] = path[j] => i = j
  <2>1. \A i \in 1..n : path[i].blocked \subseteq Nat
    BY <1>1, EdgesAscend
  <2>2. \A i, j \in 1..n : i < j => path[i] # path[j]
    BY <1>1, <2>1 DEF Ascends
  <2> QED
    BY <1>1, <2>2
<1>3. path \in Injection(1..n, graph)
  BY <1>1, <1>2, Fun_IsInj
<1>4. n <= Cardinality(graph) /\ Cardinality(graph) \in Nat
  <2>1. Cardinality(1..n) = n
    BY <1>1, FS_Interval
  <2> QED
    BY <1>3, <2>1, FS_Injection, FS_CardinalityType DEF GraphInv
<1>5. n \in 1..Cardinality(graph)
  BY <1>1, <1>4
<1>6. path \in UNION {[1..k -> graph] : k \in 1..Cardinality(graph)}
  BY <1>1, <1>5
<1> QED
  BY <1>6 DEF ValidPaths, IsWalk, is_valid_edge

(* One edge more.                                                          *)
LEMMA WalkExtends ==
  ASSUME GraphInv, NEW path, NEW e \in graph, IsWalk(path), Ascends(path),
         is_valid_edge(e.kind), path[Len(path)].by \cap e.blocked # {}
  PROVE  /\ IsWalk(Append(path, e)) /\ Ascends(Append(path, e))
         /\ Append(path, e)[Len(Append(path, e))] = e
         /\ KindsBefore(Append(path, e), Len(Append(path, e))) =
              KindsBefore(path, Len(path)) \cup {path[Len(path)].kind}
<1> DEFINE n == Len(path)
           longer == Append(path, e)
<1>1. /\ path \in Seq(graph) /\ n \in Nat /\ n >= 1 /\ DOMAIN path = 1..n
      /\ longer \in Seq(graph) /\ Len(longer) = n + 1 /\ longer # << >>
      /\ DOMAIN longer = 1..n + 1
      /\ longer[n + 1] = e /\ \A i \in 1..n : longer[i] = path[i]
  BY DEF IsWalk
<1> HIDE DEF longer
<1>2. IsWalk(longer)
  <2>1. \A i \in 1..n + 1 : is_valid_edge(longer[i].kind)
    BY <1>1 DEF IsWalk
  <2>2. place \in longer[1].blocked
    BY <1>1 DEF IsWalk
  <2>3. ASSUME NEW i \in 2..n + 1
        PROVE  longer[i].blocked \cap longer[i-1].by # {}
    <3>1. CASE i = n + 1
      BY <1>1, <3>1
    <3>2. CASE i # n + 1
      <4>1. i \in 2..n /\ i - 1 \in 1..n /\ i \in 1..n
        BY <1>1, <3>2
      <4> QED
        BY <1>1, <4>1 DEF IsWalk
    <3> QED
      BY <3>1, <3>2
  <2> QED
    BY <1>1, <2>1, <2>2, <2>3 DEF IsWalk
<1>3. Ascends(longer)
  <2>1. PICK k \in e.blocked : k \in path[n].by
    OBVIOUS
  <2>2. \A i \in 1..n : path[i].blocked \subseteq Nat /\ path[i].by \subseteq Nat
    BY <1>1, EdgesAscend
  <2>3. \A m \in path[n].blocked : m < k
    BY <1>1, <2>1, EdgesAscend
  <2>4. ASSUME NEW i \in 1..n
        PROVE  \A m \in path[i].blocked : m < k
    <3>1. CASE i = n
      BY <2>3, <3>1
    <3>2. CASE i # n
      <4>1. PICK h \in path[n].blocked : \A m \in path[i].blocked : m < h
        <5>1. i \in DOMAIN path /\ n \in DOMAIN path /\ i < n
          <6>1. n \in Nat /\ n >= 1 /\ DOMAIN path = 1..n
            BY <1>1
          <6> HIDE DEF n
          <6> QED
            BY <3>2, <6>1
        <5> QED
          BY <5>1 DEF Ascends
      <4> QED
        BY <1>1, <2>1, <2>2, <2>3, <4>1
    <3> QED
      BY <3>1, <3>2
  <2>5. ASSUME NEW i \in 1..n + 1, NEW j \in 1..n + 1, i < j
        PROVE  \E h \in longer[j].blocked : \A m \in longer[i].blocked : m < h
    <3>1. CASE j = n + 1
      BY <1>1, <2>1, <2>4, <2>5, <3>1
    <3>2. CASE j # n + 1
      <4>1. i \in 1..n /\ j \in 1..n
        BY <1>1, <2>5, <3>2
      <4> QED
        BY <1>1, <2>5, <4>1 DEF Ascends
    <3> QED
      BY <3>1, <3>2
  <2> QED
    BY <1>1, <2>5 DEF Ascends
<1>4. KindsBefore(longer, n + 1) = KindsBefore(path, n) \cup {path[n].kind}
  <2>1. 1..(n + 1) - 1 = (1..n - 1) \cup {n}
    BY <1>1
  <2>2. \A i \in 1..n : longer[i].kind = path[i].kind
    BY <1>1
  <2> QED
    BY <1>1, <2>1, <2>2 DEF KindsBefore
<1> QED
  BY <1>1, <1>2, <1>3, <1>4 DEF longer

-----------------------------------------------------------------------------

(* The first edges.                                                        *)
LEMMA FirstEdgeIsWalk ==
  ASSUME NEW e \in graph, is_valid_edge(e.kind), place \in e.blocked
  PROVE  LeadsTo(<<e>>, [edge |-> e, kinds |-> {}])
<1> DEFINE path == <<e>>
<1>1. path \in Seq(graph) /\ Len(path) = 1 /\ path # << >> /\ path[1] = e /\ DOMAIN path = 1..1
  OBVIOUS
<1> HIDE DEF path
<1>2. IsWalk(path) /\ Ascends(path)
  BY <1>1 DEF IsWalk, Ascends
<1>3. KindsBefore(path, 1) = {}
  BY DEF KindsBefore
<1>4. LeadsTo(path, [edge |-> e, kinds |-> {}])
  BY <1>1, <1>2, <1>3 DEF LeadsTo
<1> QED
  BY <1>4 DEF path

LEMMA WalkInvInit == Init => WalkInv
<1> SUFFICES ASSUME Init
             PROVE  WalkInv
  OBVIOUS
<1>1. GraphInv
  <2>1. PICK f \in [1..MaxEdges -> Edges] : graph = {f[i] : i \in 1..MaxEdges}
    BY DEF Init, GraphsUpTo
  <2>2. IsFiniteSet(1..MaxEdges)
    BY GraphAssumption, FS_Interval
  <2>3. f \in Surjection(1..MaxEdges, graph)
    BY <2>1 DEF Surjection
  <2>4. IsFiniteSet(graph)
    BY <2>2, <2>3, FS_Surjection
  <2> QED
    BY <2>1, <2>4 DEF GraphInv, Init
<1>2. /\ to_visit \in Seq(Entries)
      /\ \A k \in DOMAIN to_visit :
           /\ to_visit[k].kinds = {} /\ is_valid_edge(to_visit[k].edge.kind)
           /\ {place} \cap to_visit[k].edge.blocked # {}
      /\ \A e \in graph : is_valid_edge(e.kind) /\ {place} \cap e.blocked # {} =>
           \E k \in DOMAIN to_visit : to_visit[k] = [edge |-> e, kinds |-> {}]
  <2>1. {place} \in SUBSET Nodes /\ to_visit \in EdgesBlocking({place}, {})
    BY GraphAssumption DEF Init
  <2> QED
    BY <1>1, <2>1, EdgesAreAdjacent
<1>3. ASSUME NEW k \in DOMAIN to_visit
      PROVE  \E path : LeadsTo(path, to_visit[k])
  <2>1. to_visit[k] \in Entries
    BY <1>2
  <2>2. to_visit[k] = [edge |-> to_visit[k].edge, kinds |-> {}] /\ to_visit[k].edge \in graph
    BY <1>2, <2>1 DEF Entries
  <2>3. is_valid_edge(to_visit[k].edge.kind) /\ place \in to_visit[k].edge.blocked
    BY <1>2
  <2> DEFINE e == to_visit[k].edge
  <2>4. e \in graph /\ is_valid_edge(e.kind) /\ place \in e.blocked
        /\ to_visit[k] = [edge |-> e, kinds |-> {}]
    BY <2>2, <2>3
  <2> HIDE DEF e
  <2>5. LeadsTo(<<e>>, [edge |-> e, kinds |-> {}])
    BY <2>4, FirstEdgeIsWalk
  <2> QED
    BY <2>4, <2>5
<1>4. ASSUME NEW path \in ValidPaths
      PROVE  Pending(path)
  <2>1. /\ 1 \in DOMAIN path /\ path[1] \in graph /\ is_valid_edge(path[1].kind)
        /\ place \in path[1].blocked
    BY <1>1, ValidPathsAreWalks DEF IsWalk
  <2>2. PICK k \in DOMAIN to_visit : to_visit[k] = [edge |-> path[1], kinds |-> {}]
    BY <1>2, <2>1
  <2>3. KindsBefore(path, 1) = {}
    BY DEF KindsBefore
  <2> QED
    BY <2>1, <2>2, <2>3 DEF Pending
<1> QED
  BY <1>1, <1>2, <1>3, <1>4 DEF Init, WalkInv

(* One turn of the loop.                                                   *)
LEMMA VisitKeepsWalkInv ==
  ASSUME WalkInv, Visit
  PROVE  WalkInv'
<1> DEFINE n == Len(to_visit)
           curr == Popped.edge
           kind_set == Popped.kinds \cup {curr.kind}
<1>1. to_visit \in Seq(Entries) /\ n \in Nat /\ n >= 1 /\ DOMAIN to_visit = 1..n
      /\ Popped = to_visit[n] /\ Popped \in Entries
  BY DEF WalkInv, Visit, Popped
<1>2. curr \in graph /\ Popped.kinds \in SUBSET EdgeKinds
  BY <1>1 DEF Entries
<1>3. UNCHANGED <<graph, place, mutation>> /\ pc' = "walk"
  BY DEF Visit, args
<1>4. GraphInv /\ GraphInv' /\ Entries' = Entries /\ ValidPaths' = ValidPaths
      /\ BlockingPlaces' = BlockingPlaces
  BY <1>3 DEF WalkInv, GraphInv, Entries, ValidPaths, BlockingPlaces
<1>5. PICK adjacent \in EdgesBlocking(curr.by, kind_set) : to_visit' = Rest \o adjacent
  BY DEF Visit, NodesOf
<1>6. curr.by \in SUBSET Nodes /\ kind_set \in SUBSET EdgeKinds
  BY <1>2, <1>4, EdgesAscend
<1>7. /\ adjacent \in Seq(Entries)
      /\ \A i \in DOMAIN adjacent :
           /\ adjacent[i].kinds = kind_set /\ is_valid_edge(adjacent[i].edge.kind)
           /\ curr.by \cap adjacent[i].edge.blocked # {}
      /\ \A e \in graph : is_valid_edge(e.kind) /\ curr.by \cap e.blocked # {} =>
           \E i \in DOMAIN adjacent : adjacent[i] = [edge |-> e, kinds |-> kind_set]
  BY <1>4, <1>6, EdgesAreAdjacent
<1>8. Rest \in Seq(Entries) /\ Len(Rest) = n - 1 /\ \A k \in 1..n - 1 : Rest[k] = to_visit[k]
  BY <1>1 DEF Rest
<1>9. places' = IF is_blocking_edge(kind_set) THEN places \cup (curr.by \cap Current) ELSE places
  BY DEF Visit
<1>10. PICK way : LeadsTo(way, Popped)
  BY <1>1 DEF WalkInv
<1>11. /\ IsWalk(way) /\ Ascends(way) /\ way[Len(way)] = curr
       /\ KindsBefore(way, Len(way)) \cup {curr.kind} = kind_set
  BY <1>10 DEF LeadsTo
<1> HIDE DEF kind_set, curr, n
<1>12. DOMAIN adjacent = 1..Len(adjacent) /\ Len(adjacent) \in Nat
  BY <1>7
<1>13. /\ to_visit' \in Seq(Entries) /\ DOMAIN to_visit' = 1..n - 1 + Len(adjacent)
       /\ \A k \in 1..n - 1 : to_visit'[k] = to_visit[k]
       /\ \A i \in DOMAIN adjacent : to_visit'[n - 1 + i] = adjacent[i]
  <2>1. n - 1 \in Nat
    BY <1>1
  <2>2. /\ Rest \o adjacent \in Seq(Entries)
        /\ DOMAIN (Rest \o adjacent) = 1..n - 1 + Len(adjacent)
        /\ \A k \in 1..n - 1 : (Rest \o adjacent)[k] = Rest[k]
        /\ \A i \in 1..Len(adjacent) : (Rest \o adjacent)[n - 1 + i] = adjacent[i]
    BY <1>7, <1>8, <2>1, ConcatFacts
  <2> QED
    BY <1>5, <1>8, <1>12, <2>2
<1>14. ASSUME NEW k \in DOMAIN to_visit'
       PROVE  \E path : LeadsTo(path, to_visit[k])'
  <2> SUFFICES \E path : LeadsTo(path, to_visit'[k])
    BY <1>3 DEF LeadsTo, IsWalk
  <2>1. CASE k \in 1..n - 1
    BY <1>1, <1>13, <2>1 DEF WalkInv
  <2>2. CASE k \notin 1..n - 1
    <3>1. PICK i \in DOMAIN adjacent : to_visit'[k] = adjacent[i]
      <4>1. k - (n - 1) \in 1..Len(adjacent) /\ n - 1 + (k - (n - 1)) = k
        BY <1>1, <1>12, <1>13, <2>2
      <4> QED
        BY <1>12, <1>13, <4>1
    <3> DEFINE e == adjacent[i].edge
    <3>2. adjacent[i] \in Entries
      BY <1>7
    <3>3. e \in graph /\ is_valid_edge(e.kind) /\ curr.by \cap e.blocked # {}
          /\ adjacent[i].kinds = kind_set
      BY <1>7, <3>2 DEF Entries
    <3> HIDE DEF e
    <3>4. /\ IsWalk(Append(way, e)) /\ Ascends(Append(way, e))
          /\ Append(way, e)[Len(Append(way, e))] = e
          /\ KindsBefore(Append(way, e), Len(Append(way, e))) =
               KindsBefore(way, Len(way)) \cup {curr.kind}
      BY <1>4, <1>11, <3>3, WalkExtends
    <3> QED
      BY <1>11, <3>1, <3>3, <3>4 DEF LeadsTo, e
  <2> QED
    BY <2>1, <2>2
<1>15. places' \subseteq BlockingPlaces
  <2>1. CASE is_blocking_edge(kind_set)
    <3>1. way \in ValidPaths
      BY <1>4, <1>11, AscendingWalksAreValid
    <3>2. KindsOn(way) = kind_set
      <4>1. way \in Seq(graph) /\ Len(way) \in Nat /\ Len(way) >= 1 /\ DOMAIN way = 1..Len(way)
        BY <1>11 DEF IsWalk
      <4>2. DOMAIN way = (1..Len(way) - 1) \cup {Len(way)}
        BY <4>1
      <4> QED
        BY <1>11, <4>2 DEF KindsOn, KindsBefore
    <3>3. curr.by \cap Current \subseteq BlockingPlaces
      BY <1>11, <2>1, <3>1, <3>2 DEF BlockingPlaces, ViaMutBorrow, ViaAbstraction, is_blocking_edge
    <3> QED
      BY <1>9, <2>1, <3>3 DEF WalkInv
  <2>2. CASE ~is_blocking_edge(kind_set)
    BY <1>9, <2>2 DEF WalkInv
  <2> QED
    BY <2>1, <2>2
<1>16. ASSUME NEW path \in ValidPaths
       PROVE  Pending(path)' \/ Served(path)'
  <2>1. /\ path \in Seq(graph) /\ DOMAIN path = 1..Len(path) /\ Len(path) \in Nat /\ Len(path) >= 1
        /\ \A i \in DOMAIN path : is_valid_edge(path[i].kind)
        /\ \A i \in 2..Len(path) : path[i].blocked \cap path[i-1].by # {}
    BY <1>4, ValidPathsAreWalks DEF IsWalk
  <2>2. CASE Served(path)
    <3>1. Counts(path)' = Counts(path) /\ places \subseteq places'
      BY <1>3, <1>9 DEF Counts
    <3> QED
      BY <2>2, <3>1 DEF Served
  <2>3. CASE Pending(path)
    <3>1. PICK i \in DOMAIN path, k \in DOMAIN to_visit :
            to_visit[k] = [edge |-> path[i], kinds |-> KindsBefore(path, i)]
      BY <2>3 DEF Pending
    <3>2. CASE k # n
      <4>1. k \in 1..n - 1
        BY <1>1, <3>2 DEF n
      <4>2. k \in DOMAIN to_visit' /\ to_visit'[k] = to_visit[k]
        BY <1>1, <1>12, <1>13, <4>1
      <4>3. Pending(path)'
        BY <3>1, <4>2 DEF Pending, KindsBefore
      <4> QED
        BY <4>3
    <3>3. CASE k = n
      <4>1. curr = path[i] /\ kind_set = KindsBefore(path, i) \cup {path[i].kind}
        BY <1>1, <3>1, <3>3 DEF curr, kind_set
      <4>2. KindsBefore(path, i + 1) = kind_set
        <5>1. 1..(i + 1) - 1 = (1..i - 1) \cup {i}
          BY <2>1
        <5> QED
          BY <4>1, <5>1 DEF KindsBefore
      <4>3. CASE i = Len(path)
        <5>1. KindsOn(path) = kind_set
          BY <2>1, <4>2, <4>3 DEF KindsOn, KindsBefore
        <5>2. Counts(path) => is_blocking_edge(kind_set)
          BY <5>1 DEF Counts, is_blocking_edge, ViaMutBorrow, ViaAbstraction
        <5>3. Counts(path) => path[Len(path)].by \cap Current \subseteq places'
          BY <1>9, <4>1, <4>3, <5>2
        <5>4. Counts(path)' = Counts(path)
          BY <1>3 DEF Counts
        <5> QED
          BY <5>3, <5>4 DEF Served
      <4>4. CASE i # Len(path)
        <5>1. i + 1 \in DOMAIN path /\ i + 1 \in 2..Len(path) /\ (i + 1) - 1 = i
          BY <2>1, <4>4
        <5>2. path[i + 1] \in graph /\ is_valid_edge(path[i + 1].kind)
              /\ curr.by \cap path[i + 1].blocked # {}
          BY <2>1, <4>1, <5>1
        <5>3. PICK j \in DOMAIN adjacent : adjacent[j] = [edge |-> path[i + 1], kinds |-> kind_set]
          BY <1>7, <5>2
        <5>4. n - 1 + j \in DOMAIN to_visit' /\ to_visit'[n - 1 + j] = adjacent[j]
          BY <1>1, <1>12, <1>13
        <5>5. Pending(path)'
          BY <4>2, <5>1, <5>3, <5>4 DEF Pending, KindsBefore
        <5> QED
          BY <5>5
      <4> QED
        BY <4>3, <4>4
    <3> QED
      BY <3>2, <3>3
  <2> QED
    BY <2>2, <2>3 DEF WalkInv
<1>17. (\A path \in ValidPaths : Pending(path) \/ Served(path))'
  BY <1>4, <1>16
<1>18. (\A k \in DOMAIN to_visit : \E path : LeadsTo(path, to_visit[k]))'
  BY <1>14
<1>19. (to_visit \in Seq(Entries) /\ places \subseteq BlockingPlaces)'
  BY <1>4, <1>13, <1>15
<1>20. (pc = "done" => to_visit = << >>)'
  BY <1>3
<1> QED
  BY <1>4, <1>17, <1>18, <1>19, <1>20, Zenon DEF WalkInv

LEMMA WalkInvStep == WalkInv /\ [Next]_vars => WalkInv'
<1> SUFFICES ASSUME WalkInv, [Next]_vars
             PROVE  WalkInv'
  OBVIOUS
<1>1. CASE Visit
  BY <1>1, VisitKeepsWalkInv
<1>2. CASE UNCHANGED <<args, to_visit, places>> /\ (pc' = "done" => pc = "done" \/ to_visit = << >>)
  <2>1. UNCHANGED <<graph, place, mutation, to_visit, places>>
    BY <1>2 DEF args
  <2>2. GraphInv' /\ Entries' = Entries /\ ValidPaths' = ValidPaths
        /\ BlockingPlaces' = BlockingPlaces
    BY <2>1 DEF WalkInv, GraphInv, Entries, ValidPaths, BlockingPlaces
  <2>3. \A path, entry : LeadsTo(path, entry) => LeadsTo(path, entry)'
    BY <2>1 DEF LeadsTo, IsWalk
  <2>4. \A path : Pending(path) \/ Served(path) => (Pending(path) \/ Served(path))'
    BY <2>1 DEF Pending, Served, Counts
  <2>5. (\A k \in DOMAIN to_visit : \E path : LeadsTo(path, to_visit[k]))'
    BY <2>1, <2>3 DEF WalkInv
  <2>6. (\A path \in ValidPaths : Pending(path) \/ Served(path))'
    BY <2>2, <2>4 DEF WalkInv
  <2>7. (pc = "done" => to_visit = << >>)'
    BY <1>2, <2>1 DEF WalkInv
  <2>8. (to_visit \in Seq(Entries) /\ places \subseteq BlockingPlaces)'
    BY <2>1, <2>2 DEF WalkInv
  <2> QED
    BY <2>2, <2>5, <2>6, <2>7, <2>8 DEF WalkInv
<1>3. CASE Return
  BY <1>2, <1>3 DEF Return
<1>4. CASE UNCHANGED vars
  BY <1>2, <1>4 DEF vars
<1> QED
  BY <1>1, <1>3, <1>4 DEF Next

LEMMA WalkInvHolds == Spec => []WalkInv
  BY WalkInvInit, WalkInvStep, PTL DEF Spec

(* The walk finds no place that does not block on a path of the edges      *)
(* asked for, and when it returns it has found all that do, whatever the   *)
(* order in which edges are pushed (places_blocking, expiry_order.rs).     *)
THEOREM PlacesBlockingFindsExactlyBlocking == Spec => []FindsExactlyBlocking
<1>1. ASSUME WalkInv
      PROVE  FindsExactlyBlocking
  <2>1. ASSUME pc = "done"
        PROVE  BlockingPlaces \subseteq places
    <3>1. \A path : ~Pending(path)
      BY <1>1, <2>1 DEF WalkInv, Pending
    <3>2. \A path \in ValidPaths : Counts(path) => path[Len(path)].by \cap Current \subseteq places
      BY <1>1, <3>1 DEF WalkInv, Served
    <3> QED
      BY <3>2 DEF BlockingPlaces, Counts
  <2> QED
    BY <1>1, <2>1 DEF WalkInv, FindsExactlyBlocking
<1> QED
  BY <1>1, WalkInvHolds, PTL

=============================================================================

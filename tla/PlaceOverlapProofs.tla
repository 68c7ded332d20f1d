-------------------------- MODULE PlaceOverlapProofs --------------------------
(***************************************************************************)
(* Theorems about LoanScopes and PlaceOverlap, for any body and any types: *)
(* the points recorded as the ends of a loan are the frontier of its       *)
(* region, the fixpoint of the dataflow is where a path from the borrow    *)
(* leads, and a conflict is found exactly if the places may overlap.       *)
(***************************************************************************)
EXTENDS PlaceOverlap, FiniteSetTheorems, FunctionTheorems, SequenceTheorems,
        WellFoundedInduction, TLAPS

Size(n) == Len(body.blocks[n])

(* What is fixed when the analysis starts.                                 *)
BodyInv ==
  /\ body \in Bodies
  /\ region \in [Loans -> SUBSET Locations]
  /\ \A l \in Loans : ReserveLocation(l) \in region[l]

(* The ends of a loan, and where they are recorded.                        *)
Frontier(l) == Reached({ReserveLocation(l)}, region[l]) \ region[l]
FirstOut(l, n) == first_non_contained_inclusive(l, n, 1, Size(n))
Recorded(l, p) ==
  {i \in DOMAIN borrows_out_of_scope_at_location[p] :
     borrows_out_of_scope_at_location[p][i] = l}
OnceIf(S, cond) == (cond => \E i : S = {i}) /\ (~cond => S = {})

(* The walk for l is under way: every block it has come to is on the stack *)
(* or has been searched for an end, and gone on from if it has none.       *)
Stacked == {visit_stack[i] : i \in DOMAIN visit_stack}
Visiting(l) ==
  /\ l \in Loans
  /\ \A j \in ReserveLocation(l)[2]..Size(ReserveLocation(l)[1]) :
       <<ReserveLocation(l)[1], j>> \in region[l]
  /\ body.succ[ReserveLocation(l)[1]] \subseteq visited
  /\ \A n \in visited : <<n, 1>> \in Reached({ReserveLocation(l)}, region[l])
  /\ \A i, j \in DOMAIN visit_stack : visit_stack[i] = visit_stack[j] => i = j
  /\ Stacked \subseteq visited
  /\ \A n \in visited \ Stacked : FirstOut(l, n) = {} => body.succ[n] \subseteq visited
  /\ \A p \in Locations :
       OnceIf(Recorded(l, p), p[1] \in visited \ Stacked /\ p[2] \in FirstOut(l, p[1]))

WalkType ==
  /\ pc \in {"start", "visit", "flow"} /\ loan \in Nat \ {0}
  /\ borrows_out_of_scope_at_location \in [Locations -> Seq(Nat)]
  /\ visited \subseteq Blocks /\ visit_stack \in Seq(Blocks)

(* Loans are walked in order, and visited is empty between them.           *)
EndsInv ==
  \A l \in Loans, p \in Locations :
    /\ l < loan => OnceIf(Recorded(l, p), p \in Frontier(l))
    /\ l > loan \/ (l = loan /\ pc = "start") => Recorded(l, p) = {}
WalkInv ==
  /\ WalkType /\ EndsInv
  /\ pc = "start" => visited = {} /\ visit_stack = << >>
  /\ pc = "flow" => loan \notin Loans
  /\ pc = "visit" => Visiting(loan)

(* Where a loan may be in scope, and the effect of one location.           *)
Live(l) ==
  Reached(IF Ends(l, ReserveLocation(l)) THEN {} ELSE Successors(ReserveLocation(l)),
          {p \in region[l] : p # ReserveLocation(l) /\ ~Ends(l, p)})
Effect(state, p) == PrimaryEffect(EarlyEffect(state, p), p)

(* What is in scope on entry to a block has a path there; a block that is  *)
(* not to be processed has joined its effect into its successors.          *)
FlowInv ==
  /\ dirty \subseteq Blocks /\ entry = [n \in Blocks |-> entry[n]]
  /\ pc # "flow" => dirty = Blocks /\ \A n \in Blocks : entry[n] = {}
  /\ \A n \in Blocks, l \in Loans : l \in entry[n] => <<n, 1>> \in Live(l)
  /\ \A n \in Blocks \ dirty : \A s \in body.succ[n] :
       Before(entry[n], n, Size(n) + 1) \subseteq entry[s]

-----------------------------------------------------------------------------
(* Numbers, orders and sequences.                                          *)

LEMMA SetMinimum ==
  ASSUME NEW T, T \subseteq Nat, T # {}
  PROVE  \E x \in T : \A y \in T : x <= y
<1> DEFINE R == OpToRel(<, Nat)
<1>1. \A y \in Nat, x \in Nat : y < x => <<y, x>> \in R
  BY DEF OpToRel
<1>2. IsWellFoundedOn(R, Nat)
  BY NatLessThanWellFounded
<1> HIDE DEF R
<1>3. PICK x \in T : \A y \in T : ~(<<y, x>> \in R)
  BY WFMin, <1>2
<1>4. \A y \in T : ~(y < x) /\ y \in Nat /\ x \in Nat
  BY <1>1, <1>3
<1>5. \A y \in T : x <= y
  BY <1>4
<1> QED
  BY <1>5

LEMMA SetInduction ==
  ASSUME NEW S, 0 \in S, \A n \in Nat : n \in S => n + 1 \in S
  PROVE  Nat \subseteq S
<1> DEFINE T == Nat \ S
<1> SUFFICES ASSUME T # {} PROVE FALSE
  OBVIOUS
<1>1. T \subseteq Nat
  OBVIOUS
<1> HIDE DEF T
<1>2. PICK x \in T : \A y \in T : x <= y
  BY <1>1, SetMinimum
<1>3. x \in Nat /\ x \notin S
  BY DEF T
<1>4. x - 1 \in Nat /\ (x - 1) + 1 = x
  BY <1>3
<1>5. x - 1 \in T
  BY <1>3, <1>4 DEF T
<1> QED
  BY <1>2, <1>3, <1>5

(* Every element has its place in an order, one.                           *)
LEMMA OrdersAreComplete ==
  ASSUME NEW S, IsFiniteSet(S), NEW f \in Orders(S)
  PROVE  /\ f \in Seq(S)
         /\ \A i, j \in DOMAIN f : f[i] = f[j] => i = j
         /\ \A x \in S : \E i \in DOMAIN f : f[i] = x
<1> DEFINE n == Cardinality(S)
<1>1. n \in Nat
  BY FS_CardinalityType
<1>2. f \in [1..n -> S] /\ \A i, j \in 1..n : f[i] = f[j] => i = j
  BY DEF Orders
<1>3. f \in Injection(1..n, S)
  BY <1>2, Fun_IsInj
<1>4. Cardinality(1..n) = n
  BY <1>1, FS_Interval
<1>5. f \in Surjection(1..n, S)
  BY <1>3, <1>4, FS_Injection
<1>6. \A x \in S : \E i \in 1..n : f[i] = x
  BY <1>5 DEF Surjection
<1> HIDE DEF n
<1>7. f \in Seq(S) /\ DOMAIN f = 1..n
  BY <1>1, <1>2
<1> QED
  BY <1>2, <1>6, <1>7

(* What is where in a sequence that is put behind another.                 *)
LEMMA ConcatFacts ==
  ASSUME NEW S, NEW s \in Seq(S), NEW t \in Seq(S), NEW m \in Nat, Len(s) = m
  PROVE  /\ s \o t \in Seq(S)
         /\ DOMAIN (s \o t) = 1..m + Len(t)
         /\ Len(t) \in Nat /\ DOMAIN t = 1..Len(t) /\ DOMAIN s = 1..m
         /\ \A k \in 1..m : (s \o t)[k] = s[k]
         /\ \A i \in 1..Len(t) : (s \o t)[m + i] = t[i]
<1> DEFINE n == Len(t)
<1>1. n \in Nat /\ DOMAIN t = 1..n
  OBVIOUS
<1>2. /\ s \o t \in Seq(S) /\ Len(s \o t) = m + n
      /\ \A k \in 1..m + n : (s \o t)[k] = IF k <= m THEN s[k] ELSE t[k - m]
  BY ConcatProperties
<1> HIDE DEF n
<1>3. \A k \in 1..m : k \in 1..m + n /\ k <= m
  BY <1>1
<1>4. \A i \in 1..n : m + i \in 1..m + n /\ ~(m + i <= m) /\ m + i - m = i
  BY <1>1
<1> QED
  BY <1>1, <1>2, <1>3, <1>4 DEF n

-----------------------------------------------------------------------------
(* Bodies and paths in them.                                               *)

LEMMA BodyFacts ==
  ASSUME body \in Bodies
  PROVE  /\ Len(body.places) \in Nat /\ Loans = 1..Len(body.places)
         /\ IsFiniteSet(Blocks)
         /\ \A n \in Blocks : Size(n) \in Nat /\ Size(n) >= 1 /\ body.succ[n] \subseteq Blocks
         /\ \A n, i : <<n, i>> \in Locations <=> n \in Blocks /\ i \in 1..Size(n)
         /\ \A p \in Locations : p = <<p[1], p[2]>>
         /\ \A l \in Loans : /\ ReserveLocation(l) \in Locations
                             /\ At(ReserveLocation(l)).op = "ref"
                             /\ At(ReserveLocation(l)).loan = l
         /\ \A p \in Locations : At(p).op = "ref" =>
              At(p).loan \in Loans /\ p = ReserveLocation(At(p).loan)
<1>1. /\ IsSeq(body.places) /\ IsSeq(body.blocks)
      /\ \A n \in Blocks :
           /\ IsSeq(body.blocks[n]) /\ body.blocks[n] # << >>
           /\ body.succ[n] \subseteq Blocks
      /\ \A p \in Locations : At(p).op = "ref" => At(p).loan \in Loans
      /\ \A l \in Loans : \E p \in Locations :
           {q \in Locations : At(q).op = "ref" /\ At(q).loan = l} = {p}
  BY BodiesAssumption DEF Blocks, Loans, Locations, At
<1>2. \A s : IsSeq(s) => Len(s) \in Nat /\ DOMAIN s = 1..Len(s) /\ (s # << >> => Len(s) >= 1)
  BY DEF IsSeq
<1>3. Len(body.places) \in Nat /\ Loans = 1..Len(body.places)
  BY <1>1, <1>2 DEF Loans
<1>4. IsFiniteSet(Blocks)
  <2>1. Len(body.blocks) \in Int /\ Blocks = 1..Len(body.blocks)
    BY <1>1, <1>2 DEF Blocks
  <2> QED
    BY <2>1, FS_Interval
<1>5. \A n \in Blocks : /\ Size(n) \in Nat /\ Size(n) >= 1 /\ body.succ[n] \subseteq Blocks
                        /\ DOMAIN body.blocks[n] = 1..Size(n)
  BY <1>1, <1>2 DEF Size
<1>6. \A n, i : <<n, i>> \in Locations <=> n \in Blocks /\ i \in DOMAIN body.blocks[n]
  BY DEF Locations, StatementsOf, Blocks
<1>7. \A p \in Locations : p = <<p[1], p[2]>>
  BY DEF Locations, StatementsOf
<1>8. \A l \in Loans : ReserveLocation(l) \in Locations
                         /\ At(ReserveLocation(l)).op = "ref"
                         /\ At(ReserveLocation(l)).loan = l
  BY <1>1 DEF ReserveLocation
<1>9. ASSUME NEW p \in Locations, At(p).op = "ref"
      PROVE  At(p).loan \in Loans /\ p = ReserveLocation(At(p).loan)
  <2> DEFINE l == At(p).loan
  <2>1. l \in Loans
    BY <1>1, <1>9
  <2>2. PICK q \in Locations : {r \in Locations : At(r).op = "ref" /\ At(r).loan = l} = {q}
    BY <1>1, <2>1
  <2>3. p = q /\ ReserveLocation(l) = q
    BY <2>1, <2>2, <1>8, <1>9
  <2> QED
    BY <2>1, <2>3
<1> QED
  BY <1>3, <1>4, <1>5, <1>6, <1>7, <1>8, <1>9

LEMMA SuccessorsAreLocations ==
  ASSUME body \in Bodies, NEW p \in Locations
  PROVE  Successors(p) \subseteq Locations
<1>1. p[1] \in Blocks /\ p[2] \in 1..Size(p[1])
  BY BodyFacts
<1>2. CASE p[2] < Size(p[1])
  <2>1. p[2] + 1 \in 1..Size(p[1])
    BY <1>1, <1>2, BodyFacts
  <2>2. Successors(p) = {<<p[1], p[2] + 1>>}
    BY <1>2 DEF Successors, Size
  <2> QED
    BY <1>1, <2>1, <2>2, BodyFacts
<1>3. CASE ~(p[2] < Size(p[1]))
  <2>1. \A s \in body.succ[p[1]] : s \in Blocks /\ 1 \in 1..Size(s)
    BY <1>1, BodyFacts
  <2>2. Successors(p) = {<<s, 1>> : s \in body.succ[p[1]]}
    BY <1>3 DEF Successors, Size
  <2> QED
    BY <2>1, <2>2, BodyFacts
<1> QED
  BY <1>2, <1>3

(* Reached is the least set with its two properties.                       *)
Closed(S, inside) == \A q \in S \cap inside : Successors(q) \subseteq S

LEMMA ReachedFacts ==
  ASSUME body \in Bodies, NEW from \in SUBSET Locations, NEW inside
  PROVE  /\ Reached(from, inside) \subseteq Locations
         /\ from \subseteq Reached(from, inside)
         /\ Closed(Reached(from, inside), inside)
         /\ \A S \in SUBSET Locations :
              from \subseteq S /\ Closed(S, inside) => Reached(from, inside) \subseteq S
<1>1. \A p : p \in Reached(from, inside) <=>
        /\ p \in Locations
        /\ \A S \in SUBSET Locations : from \subseteq S /\ Closed(S, inside) => p \in S
  BY DEF Reached, Closed
<1>2. Closed(Reached(from, inside), inside)
  <2> SUFFICES ASSUME NEW q \in Reached(from, inside) \cap inside, NEW p \in Successors(q)
               PROVE  p \in Reached(from, inside)
    BY DEF Closed
  <2>1. p \in Locations
    BY <1>1, SuccessorsAreLocations
  <2>2. ASSUME NEW S \in SUBSET Locations, from \subseteq S, Closed(S, inside)
        PROVE  p \in S
    BY <1>1, <2>2 DEF Closed
  <2> QED
    BY <1>1, <2>1, <2>2
<1> QED
  BY <1>1, <1>2

(* From one point of a block to a later one.                               *)
LEMMA SegmentReached ==
  ASSUME body \in Bodies, NEW from \in SUBSET Locations, NEW inside,
         NEW n \in Blocks, NEW i \in 1..Size(n), NEW j \in i..Size(n),
         <<n, i>> \in Reached(from, inside),
         \A k \in i..j-1 : <<n, k>> \in inside
  PROVE  <<n, j>> \in Reached(from, inside)
<1> DEFINE S == {d \in Nat : i + d <= j => <<n, i + d>> \in Reached(from, inside)}
<1>1. Size(n) \in Nat /\ i \in Nat /\ j \in Nat /\ i >= 1 /\ i <= j /\ j <= Size(n)
  BY BodyFacts
<1>2. 0 \in S
  BY <1>1
<1>3. ASSUME NEW d \in Nat, d \in S
      PROVE  d + 1 \in S
  <2> SUFFICES ASSUME i + (d + 1) <= j
               PROVE  <<n, i + (d + 1)>> \in Reached(from, inside)
    OBVIOUS
  <2>1. i + d \in i..j-1 /\ i + d < Size(n) /\ i + (d + 1) = (i + d) + 1 /\ i + d <= j
    BY <1>1
  <2>2. <<n, i + d>> \in Reached(from, inside) \cap inside
    BY <1>3, <2>1
  <2>3. Successors(<<n, i + d>>) = {<<n, (i + d) + 1>>}
    BY <2>1 DEF Successors, Size
  <2>4. Successors(<<n, i + d>>) \subseteq Reached(from, inside)
    BY <2>2, ReachedFacts DEF Closed
  <2> QED
    BY <2>1, <2>3, <2>4
<1>4. j - i \in Nat /\ i + (j - i) = j
  BY <1>1
<1>5. j - i \in S
  <2> HIDE DEF S
  <2>1. Nat \subseteq S
    BY <1>2, <1>3, SetInduction
  <2> QED
    BY <1>4, <2>1
<1> QED
  BY <1>1, <1>4, <1>5

(* And on to the blocks after it.                                          *)
LEMMA SuccessorsReached ==
  ASSUME body \in Bodies, NEW from \in SUBSET Locations, NEW inside,
         NEW n \in Blocks, NEW i \in 1..Size(n), <<n, i>> \in Reached(from, inside),
         \A k \in i..Size(n) : <<n, k>> \in inside
  PROVE  \A s \in body.succ[n] : <<s, 1>> \in Reached(from, inside)
<1> DEFINE last == <<n, Size(n)>>
<1>1. Size(n) \in Nat /\ i \in Nat /\ Size(n) \in i..Size(n)
  BY BodyFacts
<1>2. \A k \in i..Size(n)-1 : <<n, k>> \in inside
  BY <1>1
<1>3. last \in Reached(from, inside) \cap inside
  BY <1>1, <1>2, SegmentReached
<1>4. Successors(last) \subseteq Reached(from, inside)
  BY <1>3, ReachedFacts DEF Closed
<1>5. Successors(last) = {<<s, 1>> : s \in body.succ[n]}
  BY <1>1 DEF Successors, Size
<1> QED
  BY <1>4, <1>5

(* The first point of a block, from start on, that is not in the region.   *)
LEMMA FirstOutFacts ==
  ASSUME NEW l, NEW n, NEW start \in Nat, NEW end \in Nat
  PROVE  LET kill == first_non_contained_inclusive(l, n, start, end)
         IN  /\ kill = {} => \A i \in start..end : <<n, i>> \in region[l]
             /\ \A i \in kill :
                  /\ kill = {i} /\ i \in start..end /\ <<n, i>> \notin region[l]
                  /\ \A j \in start..end : j < i => <<n, j>> \in region[l]
<1> DEFINE out == {i \in start..end : <<n, i>> \notin region[l]}
<1>0. first_non_contained_inclusive(l, n, start, end) =
        IF out = {} THEN {} ELSE {CHOOSE i \in out : \A j \in out : i <= j}
  BY DEF first_non_contained_inclusive
<1>1. CASE out = {}
  <2>1. \A i \in start..end : <<n, i>> \in region[l]
    BY <1>1
  <2>2. first_non_contained_inclusive(l, n, start, end) = {}
    <3> HIDE DEF out
    <3> QED
      BY <1>0, <1>1
  <2> QED
    BY <2>1, <2>2
<1>2. CASE out # {}
  <2>1. \E x \in out : \A y \in out : x <= y
    <3>1. out \subseteq Nat
      OBVIOUS
    <3> HIDE DEF out
    <3> QED
      BY <1>2, <3>1, SetMinimum
  <2> DEFINE i == CHOOSE i \in out : \A j \in out : i <= j
  <2>2. i \in out /\ \A j \in out : i <= j
    BY <2>1
  <2>3. first_non_contained_inclusive(l, n, start, end) = {i}
    BY <1>0, <1>2
  <2> HIDE DEF i
  <2>4. \A j \in start..end : j < i => j \notin out
    BY <2>2
  <2> QED
    BY <2>2, <2>3, <2>4
<1> QED
  BY <1>1, <1>2

-----------------------------------------------------------------------------
(* The walk for a loan.                                                    *)

LEMMA FixedInputs ==
  ASSUME UNCHANGED <<body, region>>
  PROVE  /\ Loans' = Loans /\ Blocks' = Blocks /\ Locations' = Locations
         /\ \A l : ReserveLocation(l)' = ReserveLocation(l) /\ Frontier(l)' = Frontier(l)
         /\ \A l, n : FirstOut(l, n)' = FirstOut(l, n) /\ Size(n)' = Size(n)
         /\ \A from, inside : Reached(from, inside)' = Reached(from, inside)
  BY DEF Loans, Blocks, Locations, ReserveLocation, Frontier, FirstOut, Size, Reached,
         Successors, At, first_non_contained_inclusive

(* Successors not seen before are now on the stack, and seen.              *)
LEMMA PushFacts ==
  ASSUME body \in Bodies, visited \subseteq Blocks, NEW n \in Blocks,
         NEW stack \in Seq(Blocks),
         \A i, j \in DOMAIN stack : stack[i] = stack[j] => i = j,
         {stack[i] : i \in DOMAIN stack} \subseteq visited,
         PushSuccessors(n, stack)
  PROVE  /\ visited' = visited \cup body.succ[n] /\ visited' \subseteq Blocks
         /\ visit_stack' \in Seq(Blocks)
         /\ \A i, j \in DOMAIN visit_stack' : visit_stack'[i] = visit_stack'[j] => i = j
         /\ Stacked' = {stack[i] : i \in DOMAIN stack} \cup (body.succ[n] \ visited)
<1> DEFINE new == body.succ[n] \ visited
           m == Len(stack)
<1>1. body.succ[n] \subseteq Blocks /\ IsFiniteSet(Blocks)
  BY BodyFacts
<1>2. new \subseteq Blocks /\ IsFiniteSet(new) /\ new \cap visited = {}
  BY <1>1, FS_Subset
<1>3. PICK fresh \in Orders(new) : visit_stack' = stack \o fresh
  BY DEF PushSuccessors
<1>4. visited' = visited \cup body.succ[n]
  BY DEF PushSuccessors
<1> HIDE DEF new
<1>5. /\ fresh \in Seq(new)
      /\ \A i, j \in DOMAIN fresh : fresh[i] = fresh[j] => i = j
      /\ \A x \in new : \E i \in DOMAIN fresh : fresh[i] = x
  BY <1>2, OrdersAreComplete
<1>6. fresh \in Seq(Blocks) /\ \A i \in DOMAIN fresh : fresh[i] \in new
  BY <1>2, <1>5
<1>7. /\ m \in Nat /\ DOMAIN stack = 1..m /\ Len(fresh) \in Nat
      /\ DOMAIN fresh = 1..Len(fresh)
      /\ visit_stack' \in Seq(Blocks) /\ DOMAIN visit_stack' = 1..m + Len(fresh)
      /\ \A k \in 1..m : visit_stack'[k] = stack[k]
      /\ \A i \in 1..Len(fresh) : visit_stack'[m + i] = fresh[i]
  <2>1. m \in Nat
    OBVIOUS
  <2> QED
    BY <1>3, <1>6, <2>1, ConcatFacts
<1> DEFINE k == Len(fresh)
<1>8. \A i \in 1..m + k : i \in 1..m \/ \E j \in 1..k : i = m + j
  <2>1. ASSUME NEW i \in 1..m + k, i \notin 1..m
        PROVE  i - m \in 1..k /\ i = m + (i - m)
    BY <1>7, <2>1
  <2> QED
    BY <2>1
<1>9. \A i \in 1..m : visit_stack'[i] \in visited
  BY <1>7
<1>10. \A i \in 1..k : visit_stack'[m + i] \in new
  BY <1>6, <1>7
<1>11. \A i, j \in DOMAIN visit_stack' : visit_stack'[i] = visit_stack'[j] => i = j
  <2> SUFFICES ASSUME NEW i \in 1..m + k, NEW j \in 1..m + k, visit_stack'[i] = visit_stack'[j]
               PROVE  i = j
    BY <1>7
  <2>1. CASE i \in 1..m /\ j \in 1..m
    BY <1>7, <2>1
  <2>2. CASE \E x, y \in 1..k : i = m + x /\ j = m + y
    <3>1. PICK x \in 1..k, y \in 1..k : i = m + x /\ j = m + y
      BY <2>2
    <3>2. fresh[x] = fresh[y]
      BY <1>7, <3>1
    <3> QED
      BY <1>5, <1>7, <3>1, <3>2
  <2> QED
    BY <1>2, <1>8, <1>9, <1>10, <2>1, <2>2
<1>12. Stacked' = {stack[i] : i \in DOMAIN stack} \cup new
  <2>1. Stacked' = {visit_stack'[i] : i \in 1..m + k}
    BY <1>7 DEF Stacked
  <2>2. ASSUME NEW x \in Stacked'
        PROVE  x \in {stack[i] : i \in DOMAIN stack} \cup new
    <3>1. PICK i \in 1..m + k : x = visit_stack'[i]
      BY <2>1
    <3>2. CASE i \in 1..m
      BY <1>7, <3>1, <3>2
    <3>3. CASE \E j \in 1..k : i = m + j
      BY <1>10, <3>1, <3>3
    <3> QED
      BY <1>8, <3>2, <3>3
  <2>3. \A i \in 1..m : stack[i] \in Stacked'
    <3>1. \A i \in 1..m : i \in 1..m + k
      BY <1>7
    <3> QED
      BY <1>7, <2>1, <3>1
  <2>4. ASSUME NEW x \in new
        PROVE  x \in Stacked'
    <3>1. PICK i \in 1..k : fresh[i] = x
      BY <1>5, <1>7
    <3>2. m + i \in 1..m + k /\ visit_stack'[m + i] = x
      BY <1>7, <3>1
    <3> QED
      BY <2>1, <3>2
  <2> QED
    BY <1>7, <2>2, <2>3, <2>4
<1> QED
  BY <1>1, <1>4, <1>7, <1>11, <1>12 DEF new

(* One more entry, for one loan at one point.                              *)
LEMMA PushRecords ==
  ASSUME borrows_out_of_scope_at_location \in [Locations -> Seq(Nat)],
         NEW k \in Nat, k = loan, NEW p \in Locations, Push(p), UNCHANGED body
  PROVE  /\ borrows_out_of_scope_at_location' \in [Locations' -> Seq(Nat)]
         /\ \A l : \A q \in Locations : q # p \/ l # k => Recorded(l, q)' = Recorded(l, q)
         /\ Recorded(k, p) = {} => \E i : Recorded(k, p)' = {i}
<1> DEFINE old == borrows_out_of_scope_at_location
           new == borrows_out_of_scope_at_location'
<1>1. Locations' = Locations
  BY DEF Locations
<1>2. /\ new = [old EXCEPT ![p] = Append(@, k)] /\ old \in [Locations -> Seq(Nat)]
  BY DEF Push
<1>3. /\ \A l, q : Recorded(l, q) = {i \in DOMAIN old[q] : old[q][i] = l}
      /\ \A l, q : Recorded(l, q)' = {i \in DOMAIN new[q] : new[q][i] = l}
  BY DEF Recorded
<1> HIDE DEF old, new
<1>4. new \in [Locations -> Seq(Nat)] /\ new[p] = Append(old[p], k)
      /\ \A q \in Locations : q # p => new[q] = old[q]
  BY <1>2
<1> DEFINE n == Len(old[p])
<1>5. /\ n \in Nat /\ DOMAIN old[p] = 1..n /\ DOMAIN new[p] = 1..n + 1
      /\ new[p][n + 1] = k /\ \A i \in 1..n : new[p][i] = old[p][i]
  BY <1>2, <1>4
<1> HIDE DEF n
<1>6. ASSUME NEW l, l # k
      PROVE  Recorded(l, p)' = Recorded(l, p)
  <2>1. \A i : i \in 1..n + 1 <=> i \in 1..n \/ i = n + 1
    BY <1>5
  <2>2. Recorded(l, p)' = {i \in 1..n + 1 : new[p][i] = l}
    BY <1>3, <1>5
  <2>3. Recorded(l, p) = {i \in 1..n : old[p][i] = l}
    BY <1>3, <1>5
  <2> QED
    BY <1>5, <1>6, <2>1, <2>2, <2>3
<1>7. ASSUME Recorded(k, p) = {}
      PROVE  Recorded(k, p)' = {n + 1}
  <2>1. \A i : i \in 1..n + 1 <=> i \in 1..n \/ i = n + 1
    BY <1>5
  <2>2. Recorded(k, p)' = {i \in 1..n + 1 : new[p][i] = k}
    BY <1>3, <1>5
  <2>3. \A i \in 1..n : old[p][i] # k
    BY <1>3, <1>5, <1>7
  <2> QED
    BY <1>5, <2>1, <2>2, <2>3
<1>8. \A l, q : q \in Locations /\ q # p => Recorded(l, q)' = Recorded(l, q)
  BY <1>3, <1>4
<1> QED
  BY <1>1, <1>4, <1>6, <1>7, <1>8 DEF new

(* Which end a search of a block finds, if any.                            *)
LEMMA SearchFacts ==
  ASSUME body \in Bodies, NEW l, NEW n \in Blocks, NEW s \in 1..Size(n)
  PROVE  LET kill == first_non_contained_inclusive(l, n, s, Size(n))
         IN  /\ kill = {} <=> \A i \in s..Size(n) : <<n, i>> \in region[l]
             /\ \A j : j \in kill <=>
                  /\ j \in s..Size(n) /\ <<n, j>> \notin region[l]
                  /\ \A i \in s..j-1 : <<n, i>> \in region[l]
             /\ \A j \in kill : kill = {j}
<1> DEFINE kill == first_non_contained_inclusive(l, n, s, Size(n))
<1>1. Size(n) \in Nat /\ s \in Nat /\ s >= 1
  BY BodyFacts
<1>2. /\ kill = {} => \A i \in s..Size(n) : <<n, i>> \in region[l]
      /\ \A i \in kill :
           /\ kill = {i} /\ i \in s..Size(n) /\ <<n, i>> \notin region[l]
           /\ \A j \in s..Size(n) : j < i => <<n, j>> \in region[l]
  BY <1>1, FirstOutFacts
<1> HIDE DEF kill
<1>3. ASSUME NEW j \in kill
      PROVE  /\ j \in s..Size(n) /\ <<n, j>> \notin region[l]
             /\ \A i \in s..j-1 : <<n, i>> \in region[l]
  <2>1. /\ j \in s..Size(n) /\ <<n, j>> \notin region[l]
        /\ \A i \in s..Size(n) : i < j => <<n, i>> \in region[l]
    BY <1>2
  <2>2. \A i \in s..j-1 : i \in s..Size(n) /\ i < j
    BY <1>1, <2>1
  <2> QED
    BY <2>1, <2>2
<1>4. ASSUME NEW j \in s..Size(n), <<n, j>> \notin region[l],
             \A i \in s..j-1 : <<n, i>> \in region[l]
      PROVE  j \in kill
  <2>1. PICK i \in kill : TRUE
    BY <1>2, <1>4
  <2>2. i \in s..Size(n) /\ <<n, i>> \notin region[l]
    BY <1>2, <2>1
  <2>3. ~(j < i)
    BY <1>2, <1>4, <2>1
  <2>4. i \notin s..j-1
    BY <1>4, <2>2
  <2>5. i = j
    BY <1>1, <2>2, <2>3, <2>4
  <2> QED
    BY <2>1, <2>5
<1> QED
  BY <1>2, <1>3, <1>4 DEF kill

(* If the region ends in the first block, it ends nowhere else.            *)
LEMMA FrontierInFirstBlock ==
  ASSUME BodyInv, NEW l \in Loans, NEW p, p = ReserveLocation(l), NEW i,
         i \in first_non_contained_inclusive(l, p[1], p[2], Size(p[1]))
  PROVE  Frontier(l) = {<<p[1], i>>} /\ <<p[1], i>> \in Locations
<1> DEFINE n == p[1]
           S == {<<n, j>> : j \in p[2]..i}
           reached == Reached({p}, region[l])
<1>0. body \in Bodies /\ p \in region[l]
  BY DEF BodyInv
<1>1. /\ p \in Locations /\ p = <<n, p[2]>> /\ n \in Blocks /\ p[2] \in 1..Size(n)
      /\ Size(n) \in Nat /\ p[2] \in Nat /\ p[2] >= 1
  BY <1>0, BodyFacts
<1>2. /\ i \in p[2]..Size(n) /\ <<n, i>> \notin region[l]
      /\ \A j \in p[2]..i-1 : <<n, j>> \in region[l]
  BY <1>0, <1>1, SearchFacts
<1>3. S \subseteq Locations /\ p \in S
  <2>1. \A j \in p[2]..i : j \in 1..Size(n)
    BY <1>1, <1>2
  <2>2. S \subseteq Locations
    BY <1>0, <1>1, <2>1, BodyFacts
  <2>3. p[2] \in p[2]..i
    BY <1>1, <1>2
  <2> QED
    BY <1>1, <2>2, <2>3
<1>4. Closed(S, region[l])
  <2> SUFFICES ASSUME NEW j \in p[2]..i, <<n, j>> \in region[l]
               PROVE  Successors(<<n, j>>) \subseteq S
    BY DEF Closed
  <2>1. j # i /\ j < Size(n) /\ j + 1 \in p[2]..i
    BY <1>1, <1>2
  <2>2. Successors(<<n, j>>) = {<<n, j + 1>>}
    BY <2>1 DEF Successors, Size
  <2> QED
    BY <2>1, <2>2
<1>5. reached \subseteq S /\ p \in reached /\ reached \subseteq Locations
  <2> HIDE DEF S
  <2>1. {p} \subseteq Locations /\ {p} \subseteq S /\ S \in SUBSET Locations
    BY <1>3
  <2> QED
    BY <1>0, <1>4, <2>1, ReachedFacts
<1>6. <<n, i>> \in reached
  <2>1. {p} \in SUBSET Locations /\ <<n, p[2]>> \in reached
    BY <1>1, <1>5
  <2> HIDE DEF n
  <2> QED
    BY <1>0, <1>1, <1>2, <2>1, SegmentReached
<1>7. \A j \in p[2]..i : <<n, j>> \notin region[l] => j = i
  BY <1>1, <1>2
<1>8. Frontier(l) = {<<n, i>>}
  <2>1. Frontier(l) = reached \ region[l]
    BY DEF Frontier
  <2> HIDE DEF reached, n
  <2> QED
    BY <1>2, <1>5, <1>6, <1>7, <2>1
<1> QED
  BY <1>5, <1>6, <1>8

(* When nothing is left on the stack, the ends that were found are all.    *)
LEMMA FrontierWhenWalked ==
  ASSUME BodyInv, NEW l, Visiting(l), visited \subseteq Blocks, visit_stack = << >>,
         NEW p \in Locations
  PROVE  p \in Frontier(l) <=> p[1] \in visited \ Stacked /\ p[2] \in FirstOut(l, p[1])
<1> DEFINE start == ReserveLocation(l)
           reached == Reached({start}, region[l])
           S == {q \in Locations :
                   \/ q[1] = start[1] /\ q[2] >= start[2]
                   \/ /\ q[1] \in visited
                      /\ \A k \in 1..q[2]-1 : <<q[1], k>> \in region[l]}
<1>1. /\ body \in Bodies /\ l \in Loans /\ start \in Locations /\ Stacked = {}
      /\ start[1] \in Blocks /\ start[2] \in 1..Size(start[1])
  <2>1. body \in Bodies /\ l \in Loans
    BY DEF BodyInv, Visiting
  <2>2. Stacked = {}
    BY DEF Stacked
  <2> QED
    BY <2>1, <2>2, BodyFacts
<1>2. \A q \in Locations : /\ q = <<q[1], q[2]>> /\ q[1] \in Blocks /\ q[2] \in 1..Size(q[1])
                           /\ Size(q[1]) \in Nat /\ q[2] \in Nat
  BY <1>1, BodyFacts
<1>3. /\ \A j \in start[2]..Size(start[1]) : <<start[1], j>> \in region[l]
      /\ body.succ[start[1]] \subseteq visited
      /\ \A n \in visited : <<n, 1>> \in reached
      /\ \A n \in visited : FirstOut(l, n) = {} => body.succ[n] \subseteq visited
  BY <1>1 DEF Visiting
<1>4. \A n \in Blocks :
        /\ FirstOut(l, n) = {} <=> \A j \in 1..Size(n) : <<n, j>> \in region[l]
        /\ \A j : j \in FirstOut(l, n) <=>
             /\ j \in 1..Size(n) /\ <<n, j>> \notin region[l]
             /\ \A k \in 1..j-1 : <<n, k>> \in region[l]
  <2> SUFFICES ASSUME NEW n \in Blocks
               PROVE  /\ FirstOut(l, n) = {} <=> \A j \in 1..Size(n) : <<n, j>> \in region[l]
                      /\ \A j : j \in FirstOut(l, n) <=>
                           /\ j \in 1..Size(n) /\ <<n, j>> \notin region[l]
                           /\ \A k \in 1..j-1 : <<n, k>> \in region[l]
    OBVIOUS
  <2>1. 1 \in 1..Size(n)
    BY <1>1, BodyFacts
  <2> QED
    BY <1>1, <2>1, SearchFacts DEF FirstOut
<1>5. Closed(S, region[l])
  <2> SUFFICES ASSUME NEW q \in S, q \in region[l], NEW r \in Successors(q)
               PROVE  r \in S
    BY DEF Closed
  <2> DEFINE n == q[1]
  <2>1. q \in Locations /\ r \in Locations
    BY <1>1, SuccessorsAreLocations
  <2>2. CASE q[2] < Size(n)
    <3>1. r = <<n, q[2] + 1>>
      BY <2>2 DEF Successors, Size
    <3>2. r[1] = n /\ r[2] = q[2] + 1 /\ start[2] \in Nat
      BY <3>1, <1>1, <1>2
    <3>3. CASE q[1] = start[1] /\ q[2] >= start[2]
      BY <1>2, <2>1, <3>2, <3>3
    <3>4. CASE n \in visited /\ \A k \in 1..q[2]-1 : <<n, k>> \in region[l]
      <4>1. \A k \in 1..r[2]-1 : k \in 1..q[2]-1 \/ k = q[2]
        BY <1>2, <2>1, <3>2
      <4>2. \A k \in 1..r[2]-1 : <<r[1], k>> \in region[l]
        BY <1>2, <2>1, <3>2, <3>4, <4>1
      <4> QED
        BY <2>1, <3>2, <3>4, <4>2
    <3> QED
      BY <3>3, <3>4
  <2>3. CASE ~(q[2] < Size(n))
    <3>1. q[2] = Size(n)
      BY <1>2, <2>1, <2>3
    <3>2. PICK s \in body.succ[n] : r = <<s, 1>>
      BY <2>3 DEF Successors, Size
    <3>3. body.succ[n] \subseteq visited
      <4>1. CASE q[1] = start[1] /\ q[2] >= start[2]
        BY <1>3, <4>1
      <4>2. CASE n \in visited /\ \A k \in 1..q[2]-1 : <<n, k>> \in region[l]
        <5>1. \A k \in 1..Size(n) : k \in 1..q[2]-1 \/ k = q[2]
          BY <1>2, <2>1, <3>1
        <5>2. \A k \in 1..Size(n) : <<n, k>> \in region[l]
          BY <1>2, <2>1, <4>2, <5>1
        <5> QED
          BY <1>2, <1>3, <1>4, <2>1, <4>2, <5>2
      <4> QED
        BY <4>1, <4>2
    <3>4. r[1] \in visited /\ r[2] = 1 /\ 1..r[2]-1 = {}
      BY <3>2, <3>3
    <3> QED
      BY <2>1, <3>4
  <2> QED
    BY <2>2, <2>3
<1>6. {start} \in SUBSET Locations /\ {start} \subseteq S /\ S \in SUBSET Locations
  BY <1>1, <1>2
<1>7. reached \subseteq S
  <2> HIDE DEF S, start
  <2> QED
    BY <1>1, <1>5, <1>6, ReachedFacts
<1>8. Frontier(l) = reached \ region[l]
  BY DEF Frontier
<1>9. ASSUME p \in Frontier(l)
      PROVE  p[1] \in visited /\ p[2] \in FirstOut(l, p[1])
  <2>1. p \in S /\ p \notin region[l]
    BY <1>7, <1>8, <1>9
  <2>2. ~(p[1] = start[1] /\ p[2] >= start[2])
    <3>1. p[1] = start[1] /\ p[2] >= start[2] => p[2] \in start[2]..Size(start[1])
      BY <1>1, <1>2
    <3> QED
      BY <1>2, <1>3, <2>1, <3>1
  <2>3. p[1] \in visited /\ \A k \in 1..p[2]-1 : <<p[1], k>> \in region[l]
    BY <2>1, <2>2
  <2> QED
    BY <1>2, <1>4, <2>1, <2>3
<1>10. ASSUME p[1] \in visited, p[2] \in FirstOut(l, p[1])
       PROVE  p \in Frontier(l)
  <2>1. p \notin region[l] /\ \A k \in 1..p[2]-1 : <<p[1], k>> \in region[l]
    BY <1>2, <1>4, <1>10
  <2>2. <<p[1], 1>> \in reached
    BY <1>3, <1>10
  <2>3. 1 \in 1..Size(p[1]) /\ p[2] \in 1..Size(p[1])
    BY <1>2
  <2>4. <<p[1], p[2]>> \in reached
    <3> HIDE DEF start
    <3> QED
      BY <1>1, <1>2, <1>6, <2>1, <2>2, <2>3, SegmentReached
  <2> QED
    BY <1>2, <1>8, <2>1, <2>4
<1> QED
  BY <1>1, <1>9, <1>10

-----------------------------------------------------------------------------
(* Every step keeps the invariant of the walk.                             *)

LEMMA WalkInit == Init => BodyInv /\ WalkInv
<1> SUFFICES ASSUME Init PROVE BodyInv /\ WalkInv
  OBVIOUS
<1>1. BodyInv
  BY DEF Init, BodyInv
<1>2. Loans = 1..Len(body.places) /\ Len(body.places) \in Nat
  BY <1>1, BodyFacts DEF BodyInv
<1>3. WalkType
  BY DEF Init, WalkType
<1>4. \A l, p : p \in Locations => Recorded(l, p) = {}
  BY DEF Init, Recorded
<1> QED
  BY <1>1, <1>2, <1>3, <1>4 DEF Init, WalkInv, EndsInv, OnceIf

LEMMA BodyStep == BodyInv /\ [Next]_vars => BodyInv'
<1> SUFFICES ASSUME BodyInv, [Next]_vars PROVE BodyInv'
  OBVIOUS
<1>1. UNCHANGED <<body, region>>
  BY DEF Next, vars, input, StartLoan, VisitBlock, FinishLoan, StartFlow, FlowBlock
<1> QED
  BY <1>1, FixedInputs DEF BodyInv

LEMMA WalkStartLoan ==
  ASSUME BodyInv, WalkInv, StartLoan
  PROVE  WalkInv'
<1>k. PICK k : k = loan
  OBVIOUS
<1>p. PICK p : p = ReserveLocation(k)
  OBVIOUS
<1> DEFINE kill == first_non_contained_inclusive(k, p[1], p[2], Size(p[1]))
<1>1. UNCHANGED <<body, region>> /\ pc = "start" /\ k \in Loans
  BY <1>k DEF StartLoan, input
<1>2. /\ body \in Bodies /\ p \in Locations /\ p[1] \in Blocks /\ p[2] \in 1..Size(p[1])
      /\ p \in region[k] /\ p = <<p[1], p[2]>>
  BY <1>k, <1>p, <1>1, BodyFacts DEF BodyInv
<1>3. /\ Loans' = Loans /\ Blocks' = Blocks /\ Locations' = Locations
      /\ \A l : Frontier(l)' = Frontier(l)
  BY <1>1, FixedInputs
<1>4. /\ k \in Nat \ {0} /\ borrows_out_of_scope_at_location \in [Locations -> Seq(Nat)]
      /\ visited = {} /\ visit_stack = << >>
  BY <1>k, <1>1 DEF WalkInv, WalkType
<1>5. \A l \in Loans, q \in Locations :
         /\ l < k => OnceIf(Recorded(l, q), q \in Frontier(l))
         /\ l >= k => Recorded(l, q) = {}
  <2>1. \A l \in Loans : l \in Nat
    BY <1>2, BodyFacts
  <2> QED
    BY <1>k, <1>1, <1>4, <2>1 DEF WalkInv, EndsInv
<1>6. CASE kill # {}
  <2>1. PICK i \in kill : Push(<<p[1], i>>)
    BY <1>k, <1>p, <1>6 DEF StartLoan, Size
  <2>2. loan' = k + 1 /\ pc' = "start" /\ visited' = {} /\ visit_stack' = << >>
    BY <1>k, <1>p, <1>1, <1>4, <1>6 DEF StartLoan, Size
  <2> DEFINE end == <<p[1], i>>
  <2>3. Frontier(k) = {end} /\ end \in Locations
    BY <1>p, <1>1, <2>1, FrontierInFirstBlock
  <2> HIDE DEF end
  <2>4. /\ borrows_out_of_scope_at_location' \in [Locations' -> Seq(Nat)]
        /\ \A l : \A q \in Locations : q # end \/ l # k => Recorded(l, q)' = Recorded(l, q)
        /\ Recorded(k, end) = {} => \E j : Recorded(k, end)' = {j}
    <3>1. Push(end)
      BY <2>1 DEF end
    <3> QED
      BY <1>k, <1>1, <1>4, <2>3, <3>1, PushRecords
  <2>5. \E j : Recorded(k, end)' = {j}
    <3>1. k >= k
      BY <1>4
    <3>2. Recorded(k, end) = {}
      BY <1>1, <1>5, <2>3, <3>1
    <3> QED
      BY <2>4, <3>2
  <2>6. WalkType'
    BY <1>3, <1>4, <2>2, <2>4 DEF WalkType
  <2>7. ASSUME NEW l \in Loans, NEW q \in Locations
        PROVE  /\ l < loan' => OnceIf(Recorded(l, q)', q \in Frontier(l)')
               /\ l >= loan' => Recorded(l, q)' = {}
    <3>1. l \in Nat
      BY <1>2, BodyFacts
    <3>2. CASE l < k
      <4>1. Recorded(l, q)' = Recorded(l, q)
        BY <1>4, <2>4, <3>1, <3>2
      <4>2. l < loan' /\ ~(l >= loan')
        BY <1>4, <2>2, <3>1, <3>2
      <4>3. OnceIf(Recorded(l, q)', q \in Frontier(l)')
        BY <1>3, <1>5, <3>2, <4>1 DEF OnceIf
      <4> QED
        BY <4>2, <4>3
    <3>3. CASE l = k
      <4>1. l < loan' /\ ~(l >= loan') /\ l >= k
        BY <1>4, <2>2, <3>1, <3>3
      <4>2. q # end => Recorded(l, q)' = {}
        BY <1>5, <2>4, <4>1
      <4>3. OnceIf(Recorded(l, q)', q \in Frontier(l)')
        BY <1>3, <2>3, <2>5, <3>3, <4>2 DEF OnceIf
      <4> QED
        BY <4>1, <4>3
    <3>4. CASE l > k
      <4>1. Recorded(l, q)' = {}
        BY <1>4, <1>5, <2>4, <3>1, <3>4
      <4> QED
        BY <1>4, <2>2, <3>1, <3>4, <4>1
    <3> QED
      BY <1>4, <3>1, <3>2, <3>3, <3>4
  <2>8. EndsInv'
    <3> SUFFICES ASSUME NEW l \in Loans', NEW q \in Locations'
                 PROVE  /\ l < loan' => OnceIf(Recorded(l, q)', q \in Frontier(l)')
                        /\ l > loan' \/ (l = loan' /\ pc' = "start") => Recorded(l, q)' = {}
      BY DEF EndsInv
    <3>1. l \in Nat /\ loan' \in Nat /\ l \in Loans /\ q \in Locations
      BY <1>2, <1>3, <1>4, <2>2, BodyFacts
    <3>2. l > loan' \/ l = loan' => l >= loan'
      BY <3>1
    <3> QED
      BY <2>7, <3>1, <3>2
  <2> QED
    BY <2>2, <2>6, <2>8 DEF WalkInv
<1>7. CASE kill = {}
  <2>1. /\ PushSuccessors(p[1], << >>) /\ pc' = "visit" /\ loan' = k
        /\ UNCHANGED borrows_out_of_scope_at_location
    BY <1>k, <1>p, <1>4, <1>7 DEF StartLoan, Size
  <2>2. /\ visited' = body.succ[p[1]] /\ visited' \subseteq Blocks
        /\ visit_stack' \in Seq(Blocks)
        /\ \A i, j \in DOMAIN visit_stack' : visit_stack'[i] = visit_stack'[j] => i = j
        /\ Stacked' = body.succ[p[1]]
    <3>1. /\ << >> \in Seq(Blocks) /\ DOMAIN << >> = {}
          /\ \A i, j \in DOMAIN << >> : << >>[i] = << >>[j] => i = j
          /\ {<< >>[i] : i \in DOMAIN << >>} = {}
      OBVIOUS
    <3>2. /\ visited' = visited \cup body.succ[p[1]] /\ visited' \subseteq Blocks
          /\ visit_stack' \in Seq(Blocks)
          /\ \A i, j \in DOMAIN visit_stack' : visit_stack'[i] = visit_stack'[j] => i = j
          /\ Stacked' = {} \cup (body.succ[p[1]] \ visited)
      BY <1>2, <1>4, <2>1, <3>1, PushFacts
    <3> QED
      BY <1>4, <3>2
  <2>3. \A j \in p[2]..Size(p[1]) : <<p[1], j>> \in region[k]
    BY <1>2, <1>7, SearchFacts
  <2>4. \A s \in body.succ[p[1]] : <<s, 1>> \in Reached({p}, region[k])
    <3>1. {p} \in SUBSET Locations /\ <<p[1], p[2]>> \in Reached({p}, region[k])
      BY <1>2, ReachedFacts
    <3> QED
      BY <1>2, <2>3, <3>1, SuccessorsReached
  <2>5. Visiting(loan)'
    <3>1. /\ ReserveLocation(k)' = p /\ Size(p[1])' = Size(p[1]) /\ body' = body /\ region' = region
          /\ Reached({p}, region[k])' = Reached({p}, region[k])
      BY <1>p, <1>1, FixedInputs
    <3>2. \A q \in Locations : Recorded(k, q)' = {}
      <4>1. \A q \in Locations : Recorded(k, q) = {}
        BY <1>1, <1>4, <1>5
      <4> QED
        BY <2>1, <4>1 DEF Recorded
    <3>3. /\ body.succ[p[1]] \subseteq visited' /\ Stacked' = visited'
          /\ \A n \in visited' : <<n, 1>> \in Reached({p}, region[k])'
      BY <2>2, <2>4, <3>1
    <3>4. \A j \in p[2]..Size(p[1]) : <<p[1], j>> \in region'[k]
      BY <2>3, <3>1
    <3>5. /\ k \in Loans' /\ Stacked' \subseteq visited' /\ visited' \ Stacked' = {}
      BY <1>1, <1>3, <3>3
    <3>6. \A q \in Locations' : OnceIf(Recorded(k, q)', q[1] \in visited' \ Stacked' /\ q[2] \in FirstOut(k, q[1])')
      BY <1>3, <3>2, <3>5 DEF OnceIf
    <3>7. Visiting(k)'
      BY <2>2, <3>1, <3>3, <3>4, <3>5, <3>6 DEF Visiting, OnceIf
    <3> QED
      BY <2>1, <3>7
  <2>6. WalkType'
    BY <1>3, <1>4, <2>1, <2>2 DEF WalkType
  <2>7. \A l \in Loans, q \in Locations : Recorded(l, q)' = Recorded(l, q)
    BY <2>1 DEF Recorded
  <2>8. EndsInv'
    <3> SUFFICES ASSUME NEW l \in Loans', NEW q \in Locations'
                 PROVE  /\ l < loan' => OnceIf(Recorded(l, q)', q \in Frontier(l)')
                        /\ l > loan' \/ (l = loan' /\ pc' = "start") => Recorded(l, q)' = {}
      BY DEF EndsInv
    <3>1. l \in Nat /\ loan' = k /\ l \in Loans /\ q \in Locations
      BY <1>2, <1>3, <2>1, BodyFacts
    <3>2. l > k => l >= k
      BY <1>4, <3>1
    <3>3. l < k => OnceIf(Recorded(l, q)', q \in Frontier(l)')
      <4>1. Recorded(l, q)' = Recorded(l, q) /\ Frontier(l)' = Frontier(l)
        BY <1>3, <2>7, <3>1
      <4>2. l < k => OnceIf(Recorded(l, q), q \in Frontier(l))
        BY <1>5, <3>1
      <4> QED
        BY <4>1, <4>2 DEF OnceIf
    <3>4. l >= k => Recorded(l, q)' = {}
      BY <1>5, <2>7, <3>1
    <3> QED
      BY <2>1, <3>1, <3>2, <3>3, <3>4
  <2> QED
    BY <2>1, <2>5, <2>6, <2>8 DEF WalkInv
<1> QED
  BY <1>6, <1>7

LEMMA WalkVisitBlock ==
  ASSUME BodyInv, WalkInv, VisitBlock
  PROVE  WalkInv'
<1>k. PICK k : k = loan
  OBVIOUS
<1> DEFINE m == Len(visit_stack)
           rest == SubSeq(visit_stack, 1, m - 1)
<1>n. PICK n : n = visit_stack[m]
  OBVIOUS
<1> DEFINE kill == first_non_contained_inclusive(k, n, 1, Size(n))
<1>1. /\ UNCHANGED <<body, region>> /\ pc = "visit" /\ pc' = "visit" /\ loan' = k
      /\ visit_stack # << >>
  BY <1>k DEF VisitBlock, input
<1>2. /\ body \in Bodies /\ k \in Nat \ {0}
      /\ borrows_out_of_scope_at_location \in [Locations -> Seq(Nat)]
      /\ visited \subseteq Blocks /\ visit_stack \in Seq(Blocks)
      /\ Visiting(k)
  BY <1>k, <1>1 DEF WalkInv, WalkType, BodyInv
<1>3. /\ Loans' = Loans /\ Blocks' = Blocks /\ Locations' = Locations
      /\ \A l : ReserveLocation(l)' = ReserveLocation(l) /\ Frontier(l)' = Frontier(l)
      /\ \A l, x : FirstOut(l, x)' = FirstOut(l, x) /\ Size(x)' = Size(x)
      /\ \A from, inside : Reached(from, inside)' = Reached(from, inside)
  BY <1>1, FixedInputs
<1>4. \A l \in Loans, q \in Locations :
        /\ l < k => OnceIf(Recorded(l, q), q \in Frontier(l))
        /\ l > k => Recorded(l, q) = {}
  BY <1>k DEF WalkInv, EndsInv
<1>5. PICK p : p = ReserveLocation(k)
  OBVIOUS
<1>6. /\ k \in Loans /\ p \in Locations
      /\ \A j \in p[2]..Size(p[1]) : <<p[1], j>> \in region[k]
      /\ body.succ[p[1]] \subseteq visited
      /\ \A x \in visited : <<x, 1>> \in Reached({p}, region[k])
      /\ \A i, j \in DOMAIN visit_stack : visit_stack[i] = visit_stack[j] => i = j
      /\ Stacked \subseteq visited
      /\ \A x \in visited \ Stacked : FirstOut(k, x) = {} => body.succ[x] \subseteq visited
      /\ \A q \in Locations :
           OnceIf(Recorded(k, q), q[1] \in visited \ Stacked /\ q[2] \in FirstOut(k, q[1]))
  BY <1>2, <1>5, BodyFacts DEF Visiting
<1>7. /\ m \in Nat /\ m >= 1 /\ DOMAIN visit_stack = 1..m /\ n \in Stacked
      /\ n \in Blocks /\ n \in visited
  <2>1. m \in Nat /\ m >= 1 /\ DOMAIN visit_stack = 1..m
    BY <1>1, <1>2
  <2> QED
    BY <1>2, <1>6, <1>n, <2>1 DEF Stacked
<1>8. /\ rest \in Seq(Blocks)
      /\ \A i, j \in DOMAIN rest : rest[i] = rest[j] => i = j
      /\ {rest[i] : i \in DOMAIN rest} = Stacked \ {n}
  <2>1. /\ rest \in Seq(Blocks) /\ DOMAIN rest = 1..m - 1
        /\ \A i \in 1..m - 1 : rest[i] = visit_stack[i]
    BY <1>2, <1>7
  <2> HIDE DEF rest, m
  <2>2. \A i \in 1..m : i \in 1..m - 1 \/ i = m
    BY <1>7
  <2>3. \A i \in 1..m - 1 : i \in 1..m /\ i # m /\ m \in 1..m
    BY <1>7
  <2>4. \A i \in 1..m - 1 : visit_stack[i] # n
    BY <1>6, <1>7, <1>n, <2>3
  <2>5. \A i, j \in DOMAIN rest : rest[i] = rest[j] => i = j
    BY <1>6, <1>7, <2>1, <2>3
  <2>6. ASSUME NEW x
        PROVE  x \in {rest[i] : i \in DOMAIN rest} <=> x \in Stacked /\ x # n
    <3>1. x \in Stacked <=> \E i \in 1..m : x = visit_stack[i]
      BY <1>7 DEF Stacked
    <3>2. x \in {rest[i] : i \in DOMAIN rest} <=> \E i \in 1..m - 1 : x = visit_stack[i]
      BY <2>1
    <3> QED
      BY <1>n, <2>2, <2>3, <2>4, <3>1, <3>2
  <2> QED
    BY <2>1, <2>5, <2>6
<1> HIDE DEF rest, m
<1>9. /\ kill = FirstOut(k, n) /\ 1 \in 1..Size(n)
      /\ kill = {} => \A i \in 1..Size(n) : <<n, i>> \in region[k]
      /\ \A j \in kill : j \in 1..Size(n) /\ kill = {j}
  <2>1. 1 \in 1..Size(n)
    BY <1>2, <1>7, BodyFacts
  <2> QED
    BY <1>2, <1>7, <2>1, SearchFacts DEF FirstOut
<1> HIDE DEF kill
<1>10. CASE kill # {}
  <2>1. PICK i \in kill : Push(<<n, i>>)
    BY <1>k, <1>n, <1>10 DEF VisitBlock, Size, kill, m
  <2>2. visit_stack' = rest /\ visited' = visited
    BY <1>k, <1>n, <1>10 DEF VisitBlock, Size, kill, m, rest
  <2>3. Stacked' = Stacked \ {n}
    BY <1>8, <2>2 DEF Stacked
  <2> DEFINE end == <<n, i>>
  <2>4. end \in Locations /\ end[1] = n /\ end[2] = i
    BY <1>2, <1>7, <1>9, <2>1, BodyFacts
  <2>5. \A q \in Locations : q[1] = n /\ q[2] \in FirstOut(k, q[1]) => q = end
    <3>1. \A q \in Locations : q = <<q[1], q[2]>>
      BY <1>2, BodyFacts
    <3> QED
      BY <1>9, <2>1, <3>1
  <2>6. /\ borrows_out_of_scope_at_location' \in [Locations' -> Seq(Nat)]
        /\ \A l : \A q \in Locations : q # end \/ l # k => Recorded(l, q)' = Recorded(l, q)
        /\ Recorded(k, end) = {} => \E j : Recorded(k, end)' = {j}
    <3>1. Push(end) /\ UNCHANGED body /\ k \in Nat
      BY <1>1, <1>2, <2>1
    <3> HIDE DEF end
    <3> QED
      BY <1>k, <1>2, <2>4, <3>1, PushRecords
  <2> HIDE DEF end
  <2>7. \E j : Recorded(k, end)' = {j}
    <3>1. Recorded(k, end) = {}
      BY <1>6, <1>7, <2>4 DEF OnceIf
    <3> QED
      BY <2>6, <3>1
  <2>8. WalkType'
    BY <1>1, <1>2, <1>3, <1>8, <2>2, <2>6 DEF WalkType
  <2>9. EndsInv'
    <3> SUFFICES ASSUME NEW l \in Loans', NEW q \in Locations'
                 PROVE  /\ l < loan' => OnceIf(Recorded(l, q)', q \in Frontier(l)')
                        /\ l > loan' \/ (l = loan' /\ pc' = "start") => Recorded(l, q)' = {}
      BY DEF EndsInv
    <3>1. l \in Nat /\ l \in Loans /\ q \in Locations
      BY <1>2, <1>3, BodyFacts
    <3>2. l < k \/ l > k => Recorded(l, q)' = Recorded(l, q)
      BY <1>2, <2>6, <3>1
    <3>3. l < k => OnceIf(Recorded(l, q)', q \in Frontier(l)')
      BY <1>3, <1>4, <3>1, <3>2 DEF OnceIf
    <3> QED
      BY <1>1, <1>4, <3>1, <3>2, <3>3
  <2>10. Visiting(k)'
    <3>1. \A q \in Locations' :
            OnceIf(Recorded(k, q)', q[1] \in visited' \ Stacked' /\ q[2] \in FirstOut(k, q[1])')
      <4> SUFFICES ASSUME NEW q \in Locations
                   PROVE  OnceIf(Recorded(k, q)', q[1] \in visited' \ Stacked' /\ q[2] \in FirstOut(k, q[1])')
        BY <1>3
      <4>1. FirstOut(k, q[1])' = FirstOut(k, q[1])
        BY <1>3
      <4>2. CASE q = end
        BY <1>7, <1>9, <2>1, <2>2, <2>3, <2>4, <2>7, <4>1, <4>2 DEF OnceIf
      <4>3. CASE q # end
        <5>1. Recorded(k, q)' = Recorded(k, q)
          BY <2>6, <4>3
        <5>2. q[1] \in visited' \ Stacked' /\ q[2] \in FirstOut(k, q[1])
                <=> q[1] \in visited \ Stacked /\ q[2] \in FirstOut(k, q[1])
          BY <1>7, <2>2, <2>3, <2>5, <4>3
        <5> QED
          BY <1>6, <4>1, <5>1, <5>2 DEF OnceIf
      <4> QED
        BY <4>2, <4>3
    <3>2. \A x \in visited' \ Stacked' : FirstOut(k, x)' = {} => body'.succ[x] \subseteq visited'
      BY <1>1, <1>3, <1>6, <1>9, <2>1, <2>2, <2>3
    <3>3. \A i1, j1 \in DOMAIN visit_stack' : visit_stack'[i1] = visit_stack'[j1] => i1 = j1
      BY <1>8, <2>2
    <3>4. Stacked' \subseteq visited'
      BY <1>6, <2>2, <2>3
    <3>5. /\ k \in Loans' /\ ReserveLocation(k)' = p /\ Size(p[1])' = Size(p[1])
          /\ body' = body /\ region' = region
          /\ Reached({p}, region[k])' = Reached({p}, region[k])
      BY <1>1, <1>3, <1>5, <1>6
    <3> QED
      BY <1>6, <2>2, <3>1, <3>2, <3>3, <3>4, <3>5 DEF Visiting
  <2> QED
    BY <1>1, <2>8, <2>9, <2>10 DEF WalkInv
<1>11. CASE kill = {}
  <2>1. PushSuccessors(n, rest) /\ UNCHANGED borrows_out_of_scope_at_location
    BY <1>k, <1>n, <1>11 DEF VisitBlock, Size, kill, m, rest
  <2>2. /\ visited' = visited \cup body.succ[n] /\ visited' \subseteq Blocks
        /\ visit_stack' \in Seq(Blocks)
        /\ \A i, j \in DOMAIN visit_stack' : visit_stack'[i] = visit_stack'[j] => i = j
        /\ Stacked' = (Stacked \ {n}) \cup (body.succ[n] \ visited)
    <3>1. {rest[i] : i \in DOMAIN rest} \subseteq visited
      BY <1>6, <1>8
    <3>2. /\ visited' = visited \cup body.succ[n] /\ visited' \subseteq Blocks
          /\ visit_stack' \in Seq(Blocks)
          /\ \A i, j \in DOMAIN visit_stack' : visit_stack'[i] = visit_stack'[j] => i = j
          /\ Stacked' = {rest[i] : i \in DOMAIN rest} \cup (body.succ[n] \ visited)
      BY <1>2, <1>7, <1>8, <2>1, <3>1, PushFacts
    <3> QED
      BY <1>8, <3>2
  <2>3. visited' \ Stacked' = (visited \ Stacked) \cup {n} /\ Stacked' \subseteq visited'
    BY <1>6, <1>7, <2>2
  <2>4. \A x \in visited' : <<x, 1>> \in Reached({p}, region[k])
    <3>1. {p} \in SUBSET Locations /\ <<n, 1>> \in Reached({p}, region[k])
      BY <1>6, <1>7
    <3>2. \A s \in body.succ[n] : <<s, 1>> \in Reached({p}, region[k])
      BY <1>2, <1>7, <1>9, <1>11, <3>1, SuccessorsReached
    <3> QED
      BY <1>6, <2>2, <3>2
  <2>5. \A l, q : Recorded(l, q)' = Recorded(l, q)
    BY <2>1 DEF Recorded
  <2>6. WalkType'
    BY <1>1, <1>2, <1>3, <2>1, <2>2 DEF WalkType
  <2>7. EndsInv'
    <3> SUFFICES ASSUME NEW l \in Loans', NEW q \in Locations'
                 PROVE  /\ l < loan' => OnceIf(Recorded(l, q)', q \in Frontier(l)')
                        /\ l > loan' \/ (l = loan' /\ pc' = "start") => Recorded(l, q)' = {}
      BY DEF EndsInv
    <3>1. l < k => OnceIf(Recorded(l, q)', q \in Frontier(l)')
      BY <1>3, <1>4, <2>5 DEF OnceIf
    <3> QED
      BY <1>1, <1>3, <1>4, <2>5, <3>1
  <2>8. Visiting(k)'
    <3>1. \A q \in Locations' :
            OnceIf(Recorded(k, q)', q[1] \in visited' \ Stacked' /\ q[2] \in FirstOut(k, q[1])')
      <4> SUFFICES ASSUME NEW q \in Locations
                   PROVE  OnceIf(Recorded(k, q)', q[1] \in visited' \ Stacked' /\ q[2] \in FirstOut(k, q[1])')
        BY <1>3
      <4>1. FirstOut(k, q[1])' = FirstOut(k, q[1]) /\ Recorded(k, q)' = Recorded(k, q)
        BY <1>3, <2>5
      <4>2. q[1] \in visited' \ Stacked' /\ q[2] \in FirstOut(k, q[1])
              <=> q[1] \in visited \ Stacked /\ q[2] \in FirstOut(k, q[1])
        BY <1>9, <1>11, <2>3
      <4> QED
        BY <1>6, <4>1, <4>2 DEF OnceIf
    <3>2. \A x \in visited' \ Stacked' : FirstOut(k, x)' = {} => body'.succ[x] \subseteq visited'
      BY <1>1, <1>3, <1>6, <2>2, <2>3
    <3>3. /\ k \in Loans' /\ ReserveLocation(k)' = p /\ Size(p[1])' = Size(p[1])
          /\ body' = body /\ region' = region
          /\ Reached({p}, region[k])' = Reached({p}, region[k])
      BY <1>1, <1>3, <1>5, <1>6
    <3>4. body'.succ[p[1]] \subseteq visited'
      BY <1>6, <2>2, <3>3
    <3> QED
      BY <1>6, <2>2, <2>3, <2>4, <3>1, <3>2, <3>3, <3>4 DEF Visiting
  <2> QED
    BY <1>1, <2>6, <2>7, <2>8 DEF WalkInv
<1> QED
  BY <1>10, <1>11

LEMMA WalkFinishLoan ==
  ASSUME BodyInv, WalkInv, FinishLoan
  PROVE  WalkInv'
<1>k. PICK k : k = loan
  OBVIOUS
<1>1. /\ UNCHANGED <<body, region, visit_stack, borrows_out_of_scope_at_location>>
      /\ pc = "visit" /\ pc' = "start" /\ loan' = k + 1 /\ visit_stack = << >> /\ visited' = {}
  BY <1>k DEF FinishLoan, input
<1>2. k \in Nat \ {0} /\ Visiting(k) /\ visited \subseteq Blocks /\ body \in Bodies
  BY <1>k, <1>1 DEF WalkInv, WalkType, BodyInv
<1>3. /\ Loans' = Loans /\ Blocks' = Blocks /\ Locations' = Locations
      /\ \A l : Frontier(l)' = Frontier(l)
  BY <1>1, FixedInputs
<1>4. \A l, q : Recorded(l, q)' = Recorded(l, q)
  BY <1>1 DEF Recorded
<1>5. WalkType'
  BY <1>1, <1>2, <1>3 DEF WalkInv, WalkType
<1>6. \A q \in Locations : OnceIf(Recorded(k, q), q \in Frontier(k))
  <2> SUFFICES ASSUME NEW q \in Locations
               PROVE  OnceIf(Recorded(k, q), q \in Frontier(k))
    OBVIOUS
  <2>1. OnceIf(Recorded(k, q), q[1] \in visited \ Stacked /\ q[2] \in FirstOut(k, q[1]))
    BY <1>2 DEF Visiting
  <2>2. q \in Frontier(k) <=> q[1] \in visited \ Stacked /\ q[2] \in FirstOut(k, q[1])
    BY <1>1, <1>2, FrontierWhenWalked
  <2> QED
    BY <2>1, <2>2 DEF OnceIf
<1>7. EndsInv'
  <2> SUFFICES ASSUME NEW l \in Loans', NEW q \in Locations'
               PROVE  /\ l < loan' => OnceIf(Recorded(l, q)', q \in Frontier(l)')
                      /\ l > loan' \/ (l = loan' /\ pc' = "start") => Recorded(l, q)' = {}
    BY DEF EndsInv
  <2>1. /\ l \in Nat /\ l \in Loans /\ q \in Locations
        /\ l < k + 1 => l < k \/ l = k
        /\ l > k + 1 \/ l = k + 1 => l > k
    BY <1>2, <1>3, BodyFacts
  <2>2. /\ l < k => OnceIf(Recorded(l, q), q \in Frontier(l))
        /\ l > k => Recorded(l, q) = {}
    BY <1>k, <2>1 DEF WalkInv, EndsInv
  <2>3. l < k + 1 => OnceIf(Recorded(l, q)', q \in Frontier(l)')
    BY <1>3, <1>4, <1>6, <2>1, <2>2 DEF OnceIf
  <2> QED
    BY <1>1, <1>4, <2>1, <2>2, <2>3
<1> QED
  BY <1>1, <1>5, <1>7 DEF WalkInv

LEMMA WalkFlow ==
  ASSUME BodyInv, WalkInv, StartFlow \/ \E n \in Blocks : FlowBlock(n)
  PROVE  WalkInv'
<1>1. /\ UNCHANGED <<body, region, precomputer>> /\ pc' = "flow"
      /\ (pc = "start" /\ loan \notin Loans) \/ pc = "flow"
  BY DEF StartFlow, FlowBlock, input
<1>2. /\ Loans' = Loans /\ Blocks' = Blocks /\ Locations' = Locations
      /\ \A l : Frontier(l)' = Frontier(l)
  BY <1>1, FixedInputs
<1>3. /\ loan' = loan /\ visited' = visited /\ visit_stack' = visit_stack
      /\ borrows_out_of_scope_at_location' = borrows_out_of_scope_at_location
      /\ \A l, q : Recorded(l, q)' = Recorded(l, q)
  BY <1>1 DEF precomputer, Recorded
<1>4. WalkType'
  BY <1>1, <1>2, <1>3 DEF WalkInv, WalkType
<1>5. EndsInv'
  <2> SUFFICES ASSUME NEW l \in Loans', NEW q \in Locations'
               PROVE  /\ l < loan' => OnceIf(Recorded(l, q)', q \in Frontier(l)')
                      /\ l > loan' \/ (l = loan' /\ pc' = "start") => Recorded(l, q)' = {}
    BY DEF EndsInv
  <2>1. /\ l < loan => OnceIf(Recorded(l, q), q \in Frontier(l))
        /\ l > loan => Recorded(l, q) = {}
    BY <1>2 DEF WalkInv, EndsInv
  <2>2. l < loan => OnceIf(Recorded(l, q)', q \in Frontier(l)')
    BY <1>2, <1>3, <2>1 DEF OnceIf
  <2> QED
    BY <1>1, <1>3, <2>1, <2>2
<1>6. loan' \notin Loans'
  BY <1>1, <1>2, <1>3 DEF WalkInv
<1> QED
  BY <1>1, <1>4, <1>5, <1>6 DEF WalkInv

LEMMA WalkStep == BodyInv /\ WalkInv /\ [Next]_vars => WalkInv'
<1> SUFFICES ASSUME BodyInv, WalkInv, [Next]_vars PROVE WalkInv'
  OBVIOUS
<1>1. CASE Next
  BY <1>1, WalkStartLoan, WalkVisitBlock, WalkFinishLoan, WalkFlow DEF Next
<1>2. CASE UNCHANGED vars
  <2>1. /\ UNCHANGED <<body, region>> /\ pc' = pc /\ loan' = loan /\ visited' = visited
        /\ visit_stack' = visit_stack
        /\ borrows_out_of_scope_at_location' = borrows_out_of_scope_at_location
    BY <1>2 DEF vars, input, precomputer
  <2>2. /\ Loans' = Loans /\ Blocks' = Blocks /\ Locations' = Locations
        /\ \A l : ReserveLocation(l)' = ReserveLocation(l) /\ Frontier(l)' = Frontier(l)
        /\ \A l, n : FirstOut(l, n)' = FirstOut(l, n) /\ Size(n)' = Size(n)
        /\ \A from, inside : Reached(from, inside)' = Reached(from, inside)
    BY <2>1, FixedInputs
  <2>3. Stacked' = Stacked /\ \A l, q : Recorded(l, q)' = Recorded(l, q)
    BY <2>1 DEF Stacked, Recorded
  <2>4. WalkType' /\ EndsInv'
    BY <2>1, <2>2, <2>3 DEF WalkInv, WalkType, EndsInv
  <2>5. ASSUME pc = "visit" PROVE Visiting(loan)'
    <3>1. PICK k : k = loan
      OBVIOUS
    <3>2. Visiting(k)
      BY <2>5, <3>1 DEF WalkInv
    <3>3. Visiting(k)'
      BY <2>1, <2>2, <2>3, <3>2 DEF Visiting
    <3> QED
      BY <2>1, <3>1, <3>3
  <2> QED
    BY <2>1, <2>2, <2>4, <2>5 DEF WalkInv
<1> QED
  BY <1>1, <1>2

(* The ends recorded for a loan are the points outside its region that     *)
(* paths from the borrow come to first, each recorded once, whatever the   *)
(* order in which blocks are visited (OutOfScopePrecomputer).              *)
THEOREM LoanScopesKillsAreFrontier == Spec => []KillsAreFrontier
<1>1. Init => BodyInv /\ WalkInv
  BY WalkInit
<1>2. BodyInv /\ WalkInv /\ [Next]_vars => (BodyInv /\ WalkInv)'
  BY BodyStep, WalkStep
<1>3. BodyInv /\ WalkInv => KillsAreFrontier
  <2> SUFFICES ASSUME BodyInv, WalkInv, NEW l \in Loans, Precomputed(l), NEW p \in Locations
               PROVE  Cardinality(Recorded(l, p)) = IF p \in Frontier(l) THEN 1 ELSE 0
    BY DEF KillsAreFrontier, Recorded, Frontier
  <2>1. l \in Nat /\ loan \in Nat
    BY BodyFacts DEF BodyInv, WalkInv, WalkType
  <2>2. OnceIf(Recorded(l, p), p \in Frontier(l))
    BY <2>1 DEF WalkInv, EndsInv, Precomputed
  <2> QED
    BY <2>2, FS_Singleton, FS_EmptySet DEF OnceIf
<1> QED
  BY <1>1, <1>2, <1>3, PTL DEF Spec

-----------------------------------------------------------------------------
(* The dataflow.                                                           *)

(* Before is well defined, location by location.                           *)
LEMMA BeforeFacts ==
  ASSUME body \in Bodies, NEW n \in Blocks, NEW X
  PROVE  /\ Before(X, n, 1) = X
         /\ \A i \in 1..Size(n) : Before(X, n, i + 1) = Effect(Before(X, n, i), <<n, i>>)
<1> DEFINE N == Size(n)
           Recurs(g, d) == g = [k \in 0..d |-> IF k = 0 THEN X ELSE Effect(g[k-1], <<n, k>>)]
           S == {d \in Nat : \E g : Recurs(g, d)}
<1>1. N \in Nat
  BY BodyFacts
<1>2. 0 \in S
  <2>1. Recurs([k \in 0..0 |-> X], 0)
    OBVIOUS
  <2> QED
    BY <2>1
<1>3. ASSUME NEW d \in Nat, d \in S
      PROVE  d + 1 \in S
  <2>1. PICK g : Recurs(g, d)
    BY <1>3
  <2> DEFINE h == [k \in 0..d + 1 |-> IF k <= d THEN g[k] ELSE Effect(g[d], <<n, d + 1>>)]
  <2>2. ASSUME NEW k \in 0..d + 1
        PROVE  h[k] = IF k = 0 THEN X ELSE Effect(h[k-1], <<n, k>>)
    <3>1. CASE k = 0
      BY <2>1, <3>1
    <3>2. CASE k # 0 /\ k <= d
      <4>1. k \in 0..d /\ k - 1 \in 0..d + 1 /\ k - 1 <= d
        BY <3>2
      <4>2. h[k] = g[k] /\ h[k-1] = g[k-1]
        BY <3>2, <4>1
      <4>3. g[k] = Effect(g[k-1], <<n, k>>)
        BY <2>1, <3>2, <4>1
      <4> QED
        BY <3>2, <4>2, <4>3
    <3>3. CASE k # 0 /\ ~(k <= d)
      <4>1. k = d + 1 /\ k - 1 = d /\ d \in 0..d + 1 /\ d <= d
        BY <3>3
      <4>2. h[k] = Effect(g[d], <<n, d + 1>>) /\ h[k-1] = g[d]
        BY <3>3, <4>1
      <4> QED
        BY <3>3, <4>1, <4>2
    <3> QED
      BY <3>1, <3>2, <3>3
  <2>3. Recurs(h, d + 1)
    <3> HIDE DEF h
    <3>1. h = [k \in 0..d + 1 |-> h[k]]
      BY DEF h
    <3> QED
      BY <2>2, <3>1
  <2> HIDE DEF Recurs, h
  <2> QED
    BY <2>3
<1>4. N \in S
  <2> HIDE DEF S
  <2>1. Nat \subseteq S
    BY <1>2, <1>3, SetInduction
  <2> QED
    BY <1>1, <2>1
<1> DEFINE after == CHOOSE g : Recurs(g, N)
<1>5. Recurs(after, N)
  BY <1>4
<1>6. \A i : Before(X, n, i) = after[i-1]
  BY DEF Before, Effect, Size
<1> HIDE DEF after
<1>7. /\ after[0] = X
      /\ \A k \in 1..N : after[k] = Effect(after[k-1], <<n, k>>)
  BY <1>1, <1>5
<1>8. \A i \in 1..N : (i + 1) - 1 = i /\ i \in 1..N
  BY <1>1
<1> QED
  BY <1>6, <1>7, <1>8

(* A location ends a loan if its region ends there or its place is written *)
(* or dies, and starts the loan that is made there, unless it writes that  *)
(* loan's place.                                                           *)
LEMMA EffectOnLoan ==
  ASSUME BodyInv, WalkInv, pc = "flow", NEW l \in Loans, NEW p \in Locations, NEW X
  PROVE  l \in Effect(X, p) <=>
           /\ (l \in X /\ p \notin Frontier(l)) \/ p = ReserveLocation(l)
           /\ ~Ends(l, p)
<1>1. /\ body \in Bodies /\ loan \notin Loans /\ loan \in Nat \ {0}
      /\ Loans = 1..Len(body.places) /\ Len(body.places) \in Nat
  BY BodyFacts DEF BodyInv, WalkInv, WalkType
<1>2. l < loan
  BY <1>1
<1>3. OnceIf(Recorded(l, p), p \in Frontier(l))
  BY <1>2 DEF WalkInv, EndsInv
<1>4. l \in OutOfScope(p) <=> p \in Frontier(l)
  <2>1. l \in OutOfScope(p) <=> \E i : i \in Recorded(l, p)
    BY DEF OutOfScope, Recorded
  <2> QED
    BY <1>3, <2>1 DEF OnceIf
<1>5. l \in KilledAt(p) <=> Ends(l, p)
  <2>1. \A w : l \in KilledOn(w) <=>
          /\ w.local = body.places[l].local
          /\ IF w.projection = << >> THEN w.local \notin is_ref_to_static
             ELSE places_conflict(body.places[l], w, "NoOverlap")
    <3> SUFFICES ASSUME NEW w
                 PROVE  l \in KilledOn(w) <=>
                          /\ w.local = body.places[l].local
                          /\ IF w.projection = << >> THEN w.local \notin is_ref_to_static
                             ELSE places_conflict(body.places[l], w, "NoOverlap")
      OBVIOUS
    <3>1. CASE w.projection = << >>
      BY <3>1 DEF KilledOn, as_local
    <3>2. CASE w.projection # << >>
      BY <3>2 DEF KilledOn, as_local
    <3> QED
      BY <3>1, <3>2
  <2>2. CASE At(p).op \in {"ignored_ref", "other"}
    BY <2>2 DEF KilledAt, Ends
  <2>3. CASE At(p).op \notin {"ignored_ref", "other"}
    <3>1. l \in KilledAt(p) <=> \E w \in At(p).writes : l \in KilledOn(w)
      BY <2>3 DEF KilledAt
    <3>2. Ends(l, p) <=> \E w \in At(p).writes :
            /\ w.local = body.places[l].local
            /\ IF w.projection = << >> THEN w.local \notin is_ref_to_static
               ELSE places_conflict(body.places[l], w, "NoOverlap")
      BY <2>3 DEF Ends
    <3> QED
      BY <2>1, <3>1, <3>2
  <2> QED
    BY <2>2, <2>3
<1>6. At(p).op = "ref" /\ At(p).loan = l <=> p = ReserveLocation(l)
  BY <1>1, BodyFacts
<1>7. l \in Effect(X, p) <=>
        /\ (l \in X /\ l \notin OutOfScope(p)) \/ (At(p).op = "ref" /\ At(p).loan = l)
        /\ l \notin KilledAt(p)
  BY DEF Effect, PrimaryEffect, EarlyEffect
<1> QED
  BY <1>4, <1>5, <1>6, <1>7

(* A path on which the loan lives stays in its region.                     *)
LEMMA LiveFacts ==
  ASSUME BodyInv, NEW l \in Loans
  PROVE  /\ Live(l) \subseteq Locations
         /\ ~Ends(l, ReserveLocation(l)) => Successors(ReserveLocation(l)) \subseteq Live(l)
         /\ \A p \in Live(l) :
              /\ p \notin Frontier(l) => p \in region[l]
              /\ p \in region[l] /\ p # ReserveLocation(l) /\ ~Ends(l, p) =>
                   Successors(p) \subseteq Live(l)
         /\ \A S \in SUBSET Locations :
              /\ ~Ends(l, ReserveLocation(l)) => Successors(ReserveLocation(l)) \subseteq S
              /\ \A p \in S : p \in region[l] /\ p # ReserveLocation(l) /\ ~Ends(l, p) =>
                   Successors(p) \subseteq S
              => Live(l) \subseteq S
<1>s. PICK start : start = ReserveLocation(l)
  OBVIOUS
<1> DEFINE from == IF Ends(l, start) THEN {} ELSE Successors(start)
           inside == {p \in region[l] : p # start /\ ~Ends(l, p)}
           reached == Reached({start}, region[l])
<1>1. body \in Bodies /\ start \in Locations /\ start \in region[l]
  BY <1>s, BodyFacts DEF BodyInv
<1>2. Live(l) = Reached(from, inside)
  BY <1>s DEF Live
<1>3. from \in SUBSET Locations /\ {start} \in SUBSET Locations
  BY <1>1, SuccessorsAreLocations
<1>4. ~Ends(l, start) => from = Successors(start)
  OBVIOUS
<1>5. Ends(l, start) => from = {}
  OBVIOUS
<1>6. \A p : p \in inside <=> p \in region[l] /\ p # start /\ ~Ends(l, p)
  OBVIOUS
<1>7. Frontier(l) = reached \ region[l]
  BY <1>s DEF Frontier
<1> HIDE DEF from, inside
<1>8. /\ Live(l) \subseteq Locations /\ from \subseteq Live(l) /\ Closed(Live(l), inside)
      /\ \A S \in SUBSET Locations :
           from \subseteq S /\ Closed(S, inside) => Live(l) \subseteq S
  BY <1>1, <1>2, <1>3, ReachedFacts
<1>9. /\ reached \in SUBSET Locations /\ start \in reached /\ Closed(reached, region[l])
  BY <1>1, <1>3, ReachedFacts
<1>10. Live(l) \subseteq reached
  <2>1. from \subseteq reached
    BY <1>1, <1>4, <1>5, <1>9 DEF Closed
  <2>2. Closed(reached, inside)
    BY <1>6, <1>9 DEF Closed
  <2> QED
    BY <1>8, <1>9, <2>1, <2>2
<1> HIDE DEF reached
<1>11. \A p \in Live(l) : p \notin Frontier(l) => p \in region[l]
  BY <1>7, <1>10
<1>12. \A p \in Live(l) : p \in inside => Successors(p) \subseteq Live(l)
  BY <1>8 DEF Closed
<1>13. ASSUME NEW S \in SUBSET Locations,
              ~Ends(l, start) => Successors(start) \subseteq S,
              \A p \in S : p \in region[l] /\ p # start /\ ~Ends(l, p) => Successors(p) \subseteq S
       PROVE  Live(l) \subseteq S
  <2>1. from \subseteq S
    BY <1>4, <1>5, <1>13
  <2>2. Closed(S, inside)
    BY <1>6, <1>13 DEF Closed
  <2> QED
    BY <1>8, <2>1, <2>2
<1> QED
  BY <1>s, <1>4, <1>6, <1>8, <1>11, <1>12, <1>13

(* What is in scope in a block has a path there if it had one to its start.*)
LEMMA BlockIsSound ==
  ASSUME BodyInv, WalkInv, pc = "flow", NEW l \in Loans, NEW n \in Blocks, NEW X,
         l \in X => <<n, 1>> \in Live(l)
  PROVE  /\ \A i \in 1..Size(n) : l \in Before(X, n, i) => <<n, i>> \in Live(l)
         /\ l \in Before(X, n, Size(n) + 1) => \A s \in body.succ[n] : <<s, 1>> \in Live(l)
<1> DEFINE N == Size(n)
           S == {d \in Nat : d + 1 <= N /\ l \in Before(X, n, d + 1) => <<n, d + 1>> \in Live(l)}
<1>1. /\ body \in Bodies /\ N \in Nat /\ N >= 1
      /\ \A i \in 1..N : <<n, i>> \in Locations
  BY BodyFacts DEF BodyInv
<1>2. /\ Before(X, n, 1) = X
      /\ \A i \in 1..N : Before(X, n, i + 1) = Effect(Before(X, n, i), <<n, i>>)
  BY <1>1, BeforeFacts
<1>3. ASSUME NEW i \in 1..N, l \in Before(X, n, i) => <<n, i>> \in Live(l),
             l \in Before(X, n, i + 1)
      PROVE  Successors(<<n, i>>) \subseteq Live(l)
  <2>1. /\ (l \in Before(X, n, i) /\ <<n, i>> \notin Frontier(l)) \/ <<n, i>> = ReserveLocation(l)
        /\ ~Ends(l, <<n, i>>)
    BY <1>1, <1>2, <1>3, EffectOnLoan
  <2>2. CASE <<n, i>> = ReserveLocation(l)
    BY <2>1, <2>2, LiveFacts
  <2>3. CASE <<n, i>> # ReserveLocation(l)
    <3>1. <<n, i>> \in Live(l) /\ <<n, i>> \notin Frontier(l)
      BY <1>3, <2>1, <2>3
    <3> QED
      BY <2>1, <2>3, <3>1, LiveFacts
  <2> QED
    BY <2>2, <2>3
<1>4. 0 \in S
  BY <1>2
<1>5. ASSUME NEW d \in Nat, d \in S
      PROVE  d + 1 \in S
  <2> SUFFICES ASSUME (d + 1) + 1 <= N, l \in Before(X, n, (d + 1) + 1)
               PROVE  <<n, (d + 1) + 1>> \in Live(l)
    OBVIOUS
  <2>1. d + 1 \in 1..N /\ d + 1 < N /\ d + 1 <= N
    BY <1>1
  <2>2. Successors(<<n, d + 1>>) \subseteq Live(l)
    BY <1>3, <1>5, <2>1
  <2>3. Successors(<<n, d + 1>>) = {<<n, (d + 1) + 1>>}
    BY <2>1 DEF Successors, Size
  <2> QED
    BY <2>2, <2>3
<1>6. ASSUME NEW i \in 1..N, l \in Before(X, n, i)
      PROVE  <<n, i>> \in Live(l)
  <2>1. i - 1 \in Nat /\ (i - 1) + 1 = i /\ i <= N
    BY <1>1
  <2>2. i - 1 \in S
    <3> HIDE DEF S
    <3>1. Nat \subseteq S
      BY <1>4, <1>5, SetInduction
    <3> QED
      BY <2>1, <3>1
  <2> QED
    BY <1>6, <2>1, <2>2
<1>7. ASSUME l \in Before(X, n, N + 1), NEW s \in body.succ[n]
      PROVE  <<s, 1>> \in Live(l)
  <2>1. N \in 1..N
    BY <1>1
  <2>2. Successors(<<n, N>>) \subseteq Live(l)
    BY <1>3, <1>6, <1>7, <2>1
  <2>3. Successors(<<n, N>>) = {<<r, 1>> : r \in body.succ[n]}
    BY <1>1 DEF Successors, Size
  <2> QED
    BY <2>2, <2>3
<1> QED
  BY <1>6, <1>7

(* When nothing is left to process, what is in scope before a location is  *)
(* closed under the paths on which the loan lives.                         *)
LEMMA FixpointIsPath ==
  ASSUME BodyInv, WalkInv, FlowInv, Done, NEW l \in Loans, NEW p \in Locations
  PROVE  l \in Before(entry[p[1]], p[1], p[2]) <=> p \in Live(l)
<1> DEFINE S == {q \in Locations : l \in Before(entry[q[1]], q[1], q[2])}
<1>1. /\ body \in Bodies /\ pc = "flow" /\ dirty = {}
      /\ \A q \in Locations : /\ q = <<q[1], q[2]>> /\ q[1] \in Blocks /\ q[2] \in 1..Size(q[1])
                              /\ Size(q[1]) \in Nat /\ q[2] \in Nat
  BY BodyFacts DEF BodyInv, Done
<1>2. ASSUME l \in Before(entry[p[1]], p[1], p[2])
      PROVE  p \in Live(l)
  <2>1. p[1] \in Blocks /\ p[2] \in 1..Size(p[1]) /\ p = <<p[1], p[2]>>
    BY <1>1
  <2>2. l \in entry[p[1]] => <<p[1], 1>> \in Live(l)
    BY <2>1 DEF FlowInv
  <2>3. \A i \in 1..Size(p[1]) : l \in Before(entry[p[1]], p[1], i) => <<p[1], i>> \in Live(l)
    BY <1>1, <2>1, <2>2, BlockIsSound
  <2> QED
    BY <1>2, <2>1, <2>3
<1>3. ASSUME NEW q \in Locations,
             /\ (l \in Before(entry[q[1]], q[1], q[2]) /\ q \notin Frontier(l))
                \/ q = ReserveLocation(l)
             /\ ~Ends(l, q)
      PROVE  Successors(q) \subseteq S
  <2>n. PICK n : n = q[1]
    OBVIOUS
  <2>i. PICK i : i = q[2]
    OBVIOUS
  <2>1. /\ q = <<n, i>> /\ n \in Blocks /\ i \in 1..Size(n) /\ Size(n) \in Nat /\ i \in Nat
    BY <1>1, <2>n, <2>i
  <2>2. l \in Effect(Before(entry[n], n, i), q)
    BY <1>1, <1>3, <2>n, <2>i, EffectOnLoan
  <2>3. l \in Before(entry[n], n, i + 1)
    BY <1>1, <2>1, <2>2, BeforeFacts
  <2>4. Successors(q) \subseteq Locations
    BY <1>1, SuccessorsAreLocations
  <2>5. CASE i < Size(n)
    <3>1. Successors(q) = {<<n, i + 1>>}
      BY <2>1, <2>5 DEF Successors, Size
    <3> QED
      BY <2>3, <2>4, <3>1
  <2>6. CASE ~(i < Size(n))
    <3>1. i + 1 = Size(n) + 1
      BY <2>1, <2>6
    <3>2. Successors(q) = {<<s, 1>> : s \in body.succ[n]}
      BY <2>1, <2>6 DEF Successors, Size
    <3>3. ASSUME NEW s \in body.succ[n]
          PROVE  l \in Before(entry[s], s, 1)
      <4>1. s \in Blocks
        BY <1>1, <2>1, BodyFacts
      <4>2. l \in entry[s]
        BY <1>1, <2>1, <2>3, <3>1 DEF FlowInv
      <4> QED
        BY <1>1, <4>1, <4>2, BeforeFacts
    <3> QED
      BY <2>4, <3>2, <3>3
  <2> QED
    BY <2>5, <2>6
<1>4. \A q \in S : q \in region[l] /\ q # ReserveLocation(l) /\ ~Ends(l, q) =>
        Successors(q) \subseteq S
  <2>1. \A q \in S : q \in region[l] => q \notin Frontier(l)
    BY DEF Frontier
  <2>2. \A q \in S : q \in Locations /\ l \in Before(entry[q[1]], q[1], q[2])
    OBVIOUS
  <2> HIDE DEF S
  <2> QED
    BY <1>3, <2>1, <2>2
<1>5. ~Ends(l, ReserveLocation(l)) => Successors(ReserveLocation(l)) \subseteq S
  <2>1. ReserveLocation(l) \in Locations
    BY <1>1, BodyFacts
  <2> HIDE DEF S
  <2> QED
    BY <1>3, <2>1
<1>6. Live(l) \subseteq S
  <2>1. S \in SUBSET Locations
    OBVIOUS
  <2> HIDE DEF S
  <2> QED
    BY <1>4, <1>5, <2>1, LiveFacts
<1> QED
  BY <1>2, <1>6

LEMMA FixedLive ==
  ASSUME UNCHANGED <<body, region, is_ref_to_static>>
  PROVE  \A l : Live(l)' = Live(l)
  BY DEF Live, Ends, At, Loans, Locations, ReserveLocation, Reached, Successors

LEMMA FixedBefore ==
  ASSUME UNCHANGED <<body, is_ref_to_static, borrows_out_of_scope_at_location>>
  PROVE  \A X, n, i : Before(X, n, i)' = Before(X, n, i)
  BY DEF Before, PrimaryEffect, EarlyEffect, KilledAt, KilledOn, OutOfScope, At, Loans

LEMMA FlowInit == Init => FlowInv
  BY DEF Init, FlowInv

(* While loans are walked the dataflow has not begun.                      *)
LEMMA FlowWaits ==
  ASSUME FlowInv, pc # "flow", UNCHANGED <<input, entry, dirty>>
  PROVE  FlowInv'
<1>1. Blocks' = Blocks /\ entry' = entry /\ dirty' = dirty
  BY FixedInputs DEF input
<1>2. dirty = Blocks /\ \A n \in Blocks : entry[n] = {}
  BY DEF FlowInv
<1> QED
  BY <1>1, <1>2 DEF FlowInv

LEMMA FlowStutters ==
  ASSUME FlowInv, UNCHANGED vars
  PROVE  FlowInv'
<1>1. /\ Blocks' = Blocks /\ Loans' = Loans /\ body' = body /\ pc' = pc
      /\ entry' = entry /\ dirty' = dirty
      /\ \A n : Size(n)' = Size(n)
      /\ \A l : Live(l)' = Live(l)
      /\ \A X, n, i : Before(X, n, i)' = Before(X, n, i)
  BY FixedInputs, FixedLive, FixedBefore DEF vars, input, precomputer
<1>2. ASSUME NEW n \in Blocks', n \notin dirty', NEW s \in body'.succ[n]
      PROVE  Before(entry[n], n, Size(n) + 1)' \subseteq entry'[s]
  <2>1. \A X : Before(X, n, Size(n) + 1)' = Before(X, n, Size(n) + 1)
    <3>1. \A X, i : Before(X, n, i)' = Before(X, n, i)
      BY <1>1
    <3>2. Size(n)' = Size(n)
      BY <1>1
    <3> QED
      BY <3>1, <3>2
  <2>2. Before(entry[n], n, Size(n) + 1) \subseteq entry[s]
    BY <1>1, <1>2 DEF FlowInv
  <2>3. entry'[n] = entry[n] /\ entry'[s] = entry[s]
    BY <1>1
  <2> QED
    BY <2>1, <2>2, <2>3
<1>3. \A n \in Blocks, l \in Loans : l \in entry'[n] => <<n, 1>> \in Live(l)
  BY <1>1 DEF FlowInv
<1>4. /\ dirty' \subseteq Blocks' /\ entry' = [n \in Blocks' |-> entry'[n]]
      /\ pc' # "flow" => dirty' = Blocks' /\ \A n \in Blocks' : entry'[n] = {}
  BY <1>1 DEF FlowInv
<1> QED
  BY <1>1, <1>2, <1>3, <1>4 DEF FlowInv

(* A block's effect is joined into its successors, which are to be         *)
(* processed again if they grow.                                           *)
LEMMA FlowBlockStep ==
  ASSUME BodyInv, WalkInv, FlowInv, NEW n \in Blocks, FlowBlock(n)
  PROVE  FlowInv'
<1>o. PICK out : out = Before(entry[n], n, Size(n) + 1)
  OBVIOUS
<1> DEFINE grow == {s \in body.succ[n] : ~(out \subseteq entry[s])}
<1>1. /\ pc = "flow" /\ pc' = "flow" /\ n \in dirty
      /\ UNCHANGED <<body, region, is_ref_to_static, borrows_out_of_scope_at_location>>
      /\ entry' = [s \in Blocks |-> IF s \in body.succ[n] THEN entry[s] \cup out ELSE entry[s]]
      /\ dirty' = (dirty \ {n}) \cup grow
  BY <1>o DEF FlowBlock, input, precomputer, Size
<1>2. /\ Blocks' = Blocks /\ Loans' = Loans /\ body' = body
      /\ \A x : Size(x)' = Size(x)
      /\ \A l : Live(l)' = Live(l)
      /\ \A X, x, i : Before(X, x, i)' = Before(X, x, i)
  BY <1>1, FixedInputs, FixedLive, FixedBefore
<1>3. /\ body \in Bodies /\ dirty \subseteq Blocks
      /\ \A x \in Blocks : body.succ[x] \subseteq Blocks
      /\ \A x \in Blocks : entry'[x] = IF x \in body.succ[n] THEN entry[x] \cup out ELSE entry[x]
  BY <1>1, BodyFacts DEF BodyInv, FlowInv
<1>4. dirty' \subseteq Blocks' /\ entry' = [x \in Blocks' |-> entry'[x]]
  BY <1>1, <1>2, <1>3
<1>5. ASSUME NEW x \in Blocks, NEW l \in Loans, l \in entry'[x]
      PROVE  <<x, 1>> \in Live(l)
  <2>1. CASE l \in entry[x]
    BY <2>1 DEF FlowInv
  <2>2. CASE l \notin entry[x]
    <3>1. x \in body.succ[n] /\ l \in out
      BY <1>3, <1>5, <2>2
    <3>2. l \in entry[n] => <<n, 1>> \in Live(l)
      BY DEF FlowInv
    <3> QED
      BY <1>o, <1>1, <3>1, <3>2, BlockIsSound
  <2> QED
    BY <2>1, <2>2
<1>6. ASSUME NEW x \in Blocks, x \notin dirty', NEW s \in body.succ[x]
      PROVE  Before(entry'[x], x, Size(x) + 1) \subseteq entry'[s]
  <2>1. entry'[x] = entry[x]
    BY <1>1, <1>3, <1>6
  <2>2. s \in Blocks /\ entry[s] \subseteq entry'[s]
    BY <1>3
  <2>3. CASE x = n
    BY <1>o, <1>3, <2>1, <2>2, <2>3
  <2>4. CASE x # n
    <3>1. x \notin dirty
      BY <1>1, <1>6, <2>4
    <3>2. Before(entry[x], x, Size(x) + 1) \subseteq entry[s]
      BY <3>1 DEF FlowInv
    <3> QED
      BY <2>1, <2>2, <3>2
  <2> QED
    BY <2>3, <2>4
<1>7. ASSUME NEW x \in Blocks', x \notin dirty', NEW s \in body'.succ[x]
      PROVE  Before(entry[x], x, Size(x) + 1)' \subseteq entry'[s]
  <2>1. \A X : Before(X, x, Size(x) + 1)' = Before(X, x, Size(x) + 1)
    <3>1. \A X, i : Before(X, x, i)' = Before(X, x, i)
      BY <1>2
    <3>2. Size(x)' = Size(x)
      BY <1>2
    <3> QED
      BY <3>1, <3>2
  <2>2. Before(entry'[x], x, Size(x) + 1) \subseteq entry'[s]
    BY <1>2, <1>6, <1>7
  <2> QED
    BY <2>1, <2>2
<1> QED
  BY <1>1, <1>2, <1>4, <1>5, <1>7 DEF FlowInv

LEMMA FlowStep == BodyInv /\ WalkInv /\ FlowInv /\ [Next]_vars => FlowInv'
<1> SUFFICES ASSUME BodyInv, WalkInv, FlowInv, [Next]_vars PROVE FlowInv'
  OBVIOUS
<1>1. CASE StartLoan \/ VisitBlock \/ FinishLoan \/ StartFlow
  <2>1. pc # "flow" /\ UNCHANGED <<input, entry, dirty>>
    BY <1>1 DEF StartLoan, VisitBlock, FinishLoan, StartFlow
  <2> QED
    BY <2>1, FlowWaits
<1>2. ASSUME NEW n \in Blocks, FlowBlock(n) PROVE FlowInv'
  BY <1>2, FlowBlockStep
<1>3. CASE UNCHANGED vars
  BY <1>3, FlowStutters
<1> QED
  BY <1>1, <1>2, <1>3 DEF Next

(* When the dataflow has come to its fixpoint, a loan is in scope before a *)
(* location exactly if a path leads there from the borrow on which it is   *)
(* neither out of its region nor overwritten (Borrows).                    *)
THEOREM LoanScopesInScopeIsPath == Spec => []InScopeIsPath
<1>1. Init => BodyInv /\ WalkInv /\ FlowInv
  BY WalkInit, FlowInit
<1>2. BodyInv /\ WalkInv /\ FlowInv /\ [Next]_vars => (BodyInv /\ WalkInv /\ FlowInv)'
  BY BodyStep, WalkStep, FlowStep
<1>3. BodyInv /\ WalkInv /\ FlowInv => InScopeIsPath
  BY FixpointIsPath DEF InScopeIsPath, Live
<1> QED
  BY <1>1, <1>2, <1>3, PTL DEF Spec

-----------------------------------------------------------------------------
(* Two projections of one base.                                            *)

LEMMA PartsFacts ==
  ASSUME NEW e, NEW n
  PROVE  /\ e.elem = "Index" => Fits(e, n) /\ Parts(e, n) = 0..n - 1
         /\ e.elem = "ConstantIndex" =>
              /\ Fits(e, n) <=> e.min_length <= n
              /\ Parts(e, n) = {IF e.from_end THEN n - e.offset ELSE e.offset}
         /\ e.elem = "Subslice" =>
              /\ Fits(e, n) <=> IF e.from_end THEN e.from + e.to <= n ELSE e.to <= n
              /\ Parts(e, n) = e.from..(IF e.from_end THEN n - e.to ELSE e.to) - 1
         /\ e.elem = "Field" => Fits(e, n) /\ Parts(e, n) = {e.field}
         /\ e.elem = "Downcast" => Fits(e, n) /\ Parts(e, n) = {e.variant}
         /\ e.elem = "Deref" => Fits(e, n) /\ Parts(e, n) = {0}
  BY DEF Fits, Parts

LEMMA MeetFacts ==
  ASSUME NEW e1, NEW e2
  PROVE  /\ \A n \in Lengths : \A x :
              /\ Fits(e1, n) /\ Fits(e2, n)
              /\ x \in Parts(e1, n) /\ x \in Parts(e2, n)
              => MayMeet(e1, e2)
         /\ MayMeet(e1, e2) => \E n \in Lengths : \E x :
              /\ Fits(e1, n) /\ Fits(e2, n)
              /\ x \in Parts(e1, n) /\ x \in Parts(e2, n)
         /\ MayMeet(e1, e2) => MayMeet(e2, e1)
  BY DEF MayMeet, Sharing

Indexing(e) == e.elem \in {"Index", "ConstantIndex", "Subslice"}

LEMMA IndexMeets ==
  ASSUME NEW e1, NEW e2, WellFormed(e1), WellFormed(e2), e1.elem = "Index", Indexing(e2)
  PROVE  /\ MayMeet(e1, e2)
         /\ ~DisjointIndices(e1, e2) /\ ~DisjointIndices(e2, e1)
<1> DEFINE n == 2 * MaxIndex + 1
<1>1. MaxIndex \in Nat /\ n \in Nat /\ n \in Lengths /\ n >= 1
  BY PlacesAssumption DEF Lengths
<1>2. Fits(e1, n) /\ Parts(e1, n) = 0..n - 1
  BY PartsFacts
<1>3. ~DisjointIndices(e1, e2) /\ ~DisjointIndices(e2, e1)
  BY DEF DisjointIndices, Indexing
<1>4. CASE e2.elem = "Index"
  <2>1. 0 \in 0..n - 1
    BY <1>1
  <2> HIDE DEF n
  <2>2. Fits(e2, n) /\ Parts(e2, n) = 0..n - 1
    BY <1>4, PartsFacts
  <2> QED
    BY <1>1, <1>2, <1>3, <2>1, <2>2, MeetFacts
<1>5. CASE e2.elem = "ConstantIndex"
  <2>1. /\ e2.offset \in 0..MaxIndex /\ e2.min_length \in 0..MaxIndex /\ e2.from_end \in BOOLEAN
        /\ IF e2.from_end THEN e2.offset \in 1..e2.min_length ELSE e2.offset < e2.min_length
    BY <1>5 DEF WellFormed
  <2> DEFINE x == IF e2.from_end THEN n - e2.offset ELSE e2.offset
  <2>2. x \in 0..n - 1 /\ e2.min_length <= n
    BY <1>1, <2>1
  <2>3. Fits(e2, n) /\ x \in Parts(e2, n)
    BY <1>5, <2>2, PartsFacts
  <2> HIDE DEF x, n
  <2> QED
    BY <1>1, <1>2, <1>3, <2>2, <2>3, MeetFacts
<1>6. CASE e2.elem = "Subslice"
  <2>1. /\ e2.from \in 0..MaxIndex /\ e2.to \in 0..MaxIndex /\ e2.from_end \in BOOLEAN
        /\ ~e2.from_end => e2.from < e2.to
    BY <1>6 DEF WellFormed
  <2>2. /\ e2.from \in 0..n - 1
        /\ e2.from \in e2.from..(IF e2.from_end THEN n - e2.to ELSE e2.to) - 1
        /\ IF e2.from_end THEN e2.from + e2.to <= n ELSE e2.to <= n
    BY <1>1, <2>1
  <2>3. Fits(e2, n) /\ e2.from \in Parts(e2, n)
    BY <1>6, <2>2, PartsFacts
  <2> HIDE DEF n
  <2> QED
    BY <1>1, <1>2, <1>3, <2>2, <2>3, MeetFacts
<1> QED
  BY <1>4, <1>5, <1>6 DEF Indexing

LEMMA ElementsMeet ==
  ASSUME NEW e1, NEW e2, WellFormed(e1), WellFormed(e2),
         e1.elem = "ConstantIndex", e2.elem = "ConstantIndex"
  PROVE  MayMeet(e1, e2) <=> ~(DisjointIndices(e1, e2) \/ DisjointIndices(e2, e1))
<1>1. MaxIndex \in Nat
  BY PlacesAssumption
<1>2. /\ e1.offset \in 0..MaxIndex /\ e1.min_length \in 0..MaxIndex /\ e1.from_end \in BOOLEAN
      /\ e1.from_end => e1.offset \in 1..e1.min_length
      /\ ~e1.from_end => e1.offset < e1.min_length
  BY DEF WellFormed
<1>3. /\ e2.offset \in 0..MaxIndex /\ e2.min_length \in 0..MaxIndex /\ e2.from_end \in BOOLEAN
      /\ e2.from_end => e2.offset \in 1..e2.min_length
      /\ ~e2.from_end => e2.offset < e2.min_length
  BY DEF WellFormed
<1>4. /\ \A n : Fits(e1, n) <=> e1.min_length <= n
      /\ \A n : Fits(e2, n) <=> e2.min_length <= n
      /\ \A n, x : x \in Parts(e1, n) <=> x = IF e1.from_end THEN n - e1.offset ELSE e1.offset
      /\ \A n, x : x \in Parts(e2, n) <=> x = IF e2.from_end THEN n - e2.offset ELSE e2.offset
  BY PartsFacts
<1>5. DisjointIndices(e1, e2) \/ DisjointIndices(e2, e1) <=>
        \/ e1.from_end = e2.from_end /\ e1.offset # e2.offset
        \/ /\ e1.from_end # e2.from_end
           /\ \/ e1.offset + e2.offset < e1.min_length
              \/ e1.offset + e2.offset < e2.min_length
  <2>1. DisjointIndices(e1, e2) <=>
          \/ e1.from_end = e2.from_end /\ e1.offset # e2.offset
          \/ /\ ~e1.from_end /\ e2.from_end
             /\ e1.offset < e1.min_length - e2.offset \/ e1.offset < e2.min_length - e2.offset
    BY DEF DisjointIndices
  <2>2. DisjointIndices(e2, e1) <=>
          \/ e1.from_end = e2.from_end /\ e1.offset # e2.offset
          \/ /\ ~e2.from_end /\ e1.from_end
             /\ e2.offset < e1.min_length - e1.offset \/ e2.offset < e2.min_length - e1.offset
    BY DEF DisjointIndices
  <2> QED
    BY <1>1, <1>2, <1>3, <2>1, <2>2
<1>6. ASSUME e1.from_end = e2.from_end, e1.offset = e2.offset
      PROVE  MayMeet(e1, e2)
  <2> DEFINE n == 2 * MaxIndex + 1
             x == IF e1.from_end THEN n - e1.offset ELSE e1.offset
  <2>1. n \in Lengths /\ e1.min_length <= n /\ e2.min_length <= n
    BY <1>1, <1>2, <1>3 DEF Lengths
  <2>2. x = IF e2.from_end THEN n - e2.offset ELSE e2.offset
    BY <1>6
  <2> HIDE DEF n
  <2>3. x \in Parts(e1, n) /\ x \in Parts(e2, n) /\ Fits(e1, n) /\ Fits(e2, n)
    BY <1>4, <2>1, <2>2
  <2> HIDE DEF x
  <2> QED
    BY <2>1, <2>3, MeetFacts
<1>7. ASSUME e1.from_end # e2.from_end,
             e1.offset + e2.offset >= e1.min_length, e1.offset + e2.offset >= e2.min_length
      PROVE  MayMeet(e1, e2)
  <2> DEFINE n == e1.offset + e2.offset
             x == IF e1.from_end THEN e2.offset ELSE e1.offset
  <2>1. n \in Lengths
    BY <1>1, <1>2, <1>3, <1>7 DEF Lengths
  <2>2. /\ x = IF e1.from_end THEN n - e1.offset ELSE e1.offset
        /\ x = IF e2.from_end THEN n - e2.offset ELSE e2.offset
    BY <1>1, <1>2, <1>3, <1>7
  <2>3. x \in Parts(e1, n) /\ x \in Parts(e2, n) /\ Fits(e1, n) /\ Fits(e2, n)
    <3>1. e1.min_length <= n /\ e2.min_length <= n
      BY <1>1, <1>2, <1>3, <1>7
    <3> HIDE DEF n, x
    <3> QED
      BY <1>4, <2>2, <3>1
  <2> HIDE DEF n, x
  <2> QED
    BY <2>1, <2>3, MeetFacts
<1>8. ASSUME MayMeet(e1, e2)
      PROVE  /\ e1.from_end = e2.from_end => e1.offset = e2.offset
             /\ e1.from_end # e2.from_end =>
                  /\ e1.offset + e2.offset >= e1.min_length
                  /\ e1.offset + e2.offset >= e2.min_length
  <2>1. PICK n, x : /\ n \in Lengths /\ Fits(e1, n) /\ Fits(e2, n)
                    /\ x \in Parts(e1, n) /\ x \in Parts(e2, n)
    BY <1>8, MeetFacts
  <2>2. n \in Nat
    BY <1>1, <2>1 DEF Lengths
  <2>3. /\ e1.min_length <= n /\ e2.min_length <= n
        /\ x = IF e1.from_end THEN n - e1.offset ELSE e1.offset
        /\ x = IF e2.from_end THEN n - e2.offset ELSE e2.offset
    BY <1>4, <2>1
  <2>4. /\ e1.from_end /\ e2.from_end => x = n - e1.offset /\ x = n - e2.offset
        /\ ~e1.from_end /\ ~e2.from_end => x = e1.offset /\ x = e2.offset
        /\ e1.from_end /\ ~e2.from_end => x = n - e1.offset /\ x = e2.offset
        /\ ~e1.from_end /\ e2.from_end => x = e1.offset /\ x = n - e2.offset
    BY <2>3
  <2>5. e1.offset \in Nat /\ e2.offset \in Nat /\ e1.min_length \in Nat /\ e2.min_length \in Nat
    BY <1>1, <1>2, <1>3
  <2>6. e1.from_end = e2.from_end => e1.offset = e2.offset
    BY <1>2, <1>3, <2>2, <2>4, <2>5
  <2>7. e1.from_end # e2.from_end => e1.offset + e2.offset = n
    BY <1>2, <1>3, <2>2, <2>4, <2>5
  <2> QED
    BY <2>2, <2>3, <2>5, <2>6, <2>7
<1> QED
  BY <1>1, <1>2, <1>3, <1>5, <1>6, <1>7, <1>8

LEMMA ElementMeetsSubslice ==
  ASSUME NEW e1, NEW e2, WellFormed(e1), WellFormed(e2),
         e1.elem = "ConstantIndex", e2.elem = "Subslice", e1.from_end => e2.from_end
  PROVE  MayMeet(e1, e2) <=> ~(DisjointIndices(e1, e2) \/ DisjointIndices(e2, e1))
<1>1. MaxIndex \in Nat
  BY PlacesAssumption
<1>2. /\ e1.offset \in 0..MaxIndex /\ e1.min_length \in 0..MaxIndex /\ e1.from_end \in BOOLEAN
      /\ e1.from_end => e1.offset \in 1..e1.min_length
      /\ ~e1.from_end => e1.offset < e1.min_length
  BY DEF WellFormed
<1>3. /\ e2.from \in 0..MaxIndex /\ e2.to \in 0..MaxIndex /\ e2.from_end \in BOOLEAN
  BY DEF WellFormed
<1>4. /\ \A n : Fits(e1, n) <=> e1.min_length <= n
      /\ \A n : Fits(e2, n) <=> IF e2.from_end THEN e2.from + e2.to <= n ELSE e2.to <= n
      /\ \A n, x : x \in Parts(e1, n) <=> x = IF e1.from_end THEN n - e1.offset ELSE e1.offset
      /\ \A n, x : x \in Parts(e2, n) <=> x \in e2.from..(IF e2.from_end THEN n - e2.to ELSE e2.to) - 1
  <2> SUFFICES ASSUME NEW n
               PROVE  /\ Fits(e1, n) <=> e1.min_length <= n
                      /\ Fits(e2, n) <=> IF e2.from_end THEN e2.from + e2.to <= n ELSE e2.to <= n
                      /\ Parts(e1, n) = {IF e1.from_end THEN n - e1.offset ELSE e1.offset}
                      /\ Parts(e2, n) = e2.from..(IF e2.from_end THEN n - e2.to ELSE e2.to) - 1
    OBVIOUS
  <2>1. /\ Fits(e1, n) <=> e1.min_length <= n
        /\ Parts(e1, n) = {IF e1.from_end THEN n - e1.offset ELSE e1.offset}
    BY PartsFacts
  <2>2. /\ Fits(e2, n) <=> IF e2.from_end THEN e2.from + e2.to <= n ELSE e2.to <= n
        /\ Parts(e2, n) = e2.from..(IF e2.from_end THEN n - e2.to ELSE e2.to) - 1
    BY PartsFacts
  <2> QED
    BY <2>1, <2>2
<1>5. DisjointIndices(e1, e2) \/ DisjointIndices(e2, e1) <=>
        \/ ~e1.from_end /\ ~e2.from_end /\ e1.offset \notin e2.from..e2.to - 1
        \/ ~e1.from_end /\ e2.from_end /\ e1.offset < e2.from
        \/ e1.from_end /\ e2.from_end /\ e1.offset <= e2.to
  <2>1. ~DisjointIndices(e2, e1)
    BY DEF DisjointIndices
  <2>2. DisjointIndices(e1, e2) <=>
          \/ ~e1.from_end /\ ~e2.from_end /\ e1.offset \notin e2.from..e2.to - 1
          \/ ~e1.from_end /\ e2.from_end /\ e1.offset < e2.from
          \/ e1.from_end /\ e2.from_end /\ e1.offset <= e2.to
    BY DEF DisjointIndices
  <2> QED
    BY <2>1, <2>2
<1>6. ASSUME ~(DisjointIndices(e1, e2) \/ DisjointIndices(e2, e1))
      PROVE  MayMeet(e1, e2)
  <2> DEFINE n == 2 * MaxIndex + 1
             x == IF e1.from_end THEN n - e1.offset ELSE e1.offset
  <2>1. n \in Lengths /\ e1.min_length <= n
    BY <1>1, <1>2 DEF Lengths
  <2>2. /\ x \in e2.from..(IF e2.from_end THEN n - e2.to ELSE e2.to) - 1
        /\ IF e2.from_end THEN e2.from + e2.to <= n ELSE e2.to <= n
    BY <1>1, <1>2, <1>3, <1>5, <1>6
  <2> HIDE DEF n
  <2>3. x \in Parts(e1, n) /\ x \in Parts(e2, n) /\ Fits(e1, n) /\ Fits(e2, n)
    BY <1>4, <2>1, <2>2
  <2> HIDE DEF x
  <2> QED
    BY <2>1, <2>3, MeetFacts
<1>7. ASSUME MayMeet(e1, e2)
      PROVE  ~(DisjointIndices(e1, e2) \/ DisjointIndices(e2, e1))
  <2>1. PICK n, x : /\ n \in Lengths /\ Fits(e1, n) /\ Fits(e2, n)
                    /\ x \in Parts(e1, n) /\ x \in Parts(e2, n)
    BY <1>7, MeetFacts
  <2>2. n \in Nat
    BY <1>1, <2>1 DEF Lengths
  <2>3. /\ x = IF e1.from_end THEN n - e1.offset ELSE e1.offset
        /\ x \in e2.from..(IF e2.from_end THEN n - e2.to ELSE e2.to) - 1
    BY <1>4, <2>1
  <2> QED
    BY <1>1, <1>2, <1>3, <1>5, <2>2, <2>3
<1> QED
  BY <1>6, <1>7

LEMMA SubslicesMeet ==
  ASSUME NEW e1, NEW e2, WellFormed(e1), WellFormed(e2),
         e1.elem = "Subslice", e2.elem = "Subslice", e1.from_end <=> e2.from_end
  PROVE  MayMeet(e1, e2) <=> ~(DisjointIndices(e1, e2) \/ DisjointIndices(e2, e1))
<1>1. MaxIndex \in Nat
  BY PlacesAssumption
<1>2. /\ e1.from \in 0..MaxIndex /\ e1.to \in 0..MaxIndex /\ e1.from_end \in BOOLEAN
      /\ ~e1.from_end => e1.from < e1.to
  BY DEF WellFormed
<1>3. /\ e2.from \in 0..MaxIndex /\ e2.to \in 0..MaxIndex /\ e2.from_end \in BOOLEAN
      /\ ~e2.from_end => e2.from < e2.to
  BY DEF WellFormed
<1>4. /\ \A n : Fits(e1, n) <=> IF e1.from_end THEN e1.from + e1.to <= n ELSE e1.to <= n
      /\ \A n : Fits(e2, n) <=> IF e2.from_end THEN e2.from + e2.to <= n ELSE e2.to <= n
      /\ \A n, x : x \in Parts(e1, n) <=> x \in e1.from..(IF e1.from_end THEN n - e1.to ELSE e1.to) - 1
      /\ \A n, x : x \in Parts(e2, n) <=> x \in e2.from..(IF e2.from_end THEN n - e2.to ELSE e2.to) - 1
  BY PartsFacts
<1>5. DisjointIndices(e1, e2) \/ DisjointIndices(e2, e1) <=>
        ~e1.from_end /\ ~e2.from_end /\ (e2.from >= e1.to \/ e1.from >= e2.to)
  BY DEF DisjointIndices
<1>6. ASSUME ~(DisjointIndices(e1, e2) \/ DisjointIndices(e2, e1))
      PROVE  MayMeet(e1, e2)
  <2> DEFINE n == 2 * MaxIndex + 1
             x == IF e1.from <= e2.from THEN e2.from ELSE e1.from
  <2>1. n \in Lengths
    BY <1>1, <1>2 DEF Lengths
  <2>2. /\ x \in e1.from..(IF e1.from_end THEN n - e1.to ELSE e1.to) - 1
        /\ x \in e2.from..(IF e2.from_end THEN n - e2.to ELSE e2.to) - 1
        /\ IF e1.from_end THEN e1.from + e1.to <= n ELSE e1.to <= n
        /\ IF e2.from_end THEN e2.from + e2.to <= n ELSE e2.to <= n
    BY <1>1, <1>2, <1>3, <1>5, <1>6
  <2> HIDE DEF n, x
  <2>3. x \in Parts(e1, n) /\ x \in Parts(e2, n) /\ Fits(e1, n) /\ Fits(e2, n)
    BY <1>4, <2>1, <2>2
  <2> QED
    BY <2>1, <2>3, MeetFacts
<1>7. ASSUME MayMeet(e1, e2)
      PROVE  ~(DisjointIndices(e1, e2) \/ DisjointIndices(e2, e1))
  <2>1. PICK n, x : n \in Lengths /\ x \in Parts(e1, n) /\ x \in Parts(e2, n)
    BY <1>7, MeetFacts
  <2>2. n \in Nat
    BY <1>1, <2>1 DEF Lengths
  <2>3. /\ x \in e1.from..(IF e1.from_end THEN n - e1.to ELSE e1.to) - 1
        /\ x \in e2.from..(IF e2.from_end THEN n - e2.to ELSE e2.to) - 1
    BY <1>4, <2>1
  <2> QED
    BY <1>1, <1>2, <1>3, <1>5, <2>2, <2>3
<1> QED
  BY <1>6, <1>7

(* What the comparison of two projections of one base finds.               *)
SplitsUnion(e1, e2) == e1.elem = "Field" /\ e1.of = "Union" /\ e1.field # e2.field

LEMMA IndexingsMeet ==
  ASSUME NEW e1, NEW e2, WellFormed(e1), WellFormed(e2), Indexing(e1), OfOneBase(e1, e2)
  PROVE  /\ Indexing(e2)
         /\ MayMeet(e1, e2) <=> ~(DisjointIndices(e1, e2) \/ DisjointIndices(e2, e1))
<1>1. /\ Indexing(e2)
      /\ (InSlice(e1) /\ InSlice(e2)) \/ (InArray(e1) /\ InArray(e2))
  <2>1. e1.elem \notin {"Deref", "Downcast", "Field"}
    BY DEF Indexing
  <2>2. (InSlice(e1) /\ InSlice(e2)) \/ (InArray(e1) /\ InArray(e2))
    BY <2>1 DEF OfOneBase
  <2>3. InSlice(e2) => Indexing(e2)
    BY DEF Indexing, InSlice
  <2>4. InArray(e2) => Indexing(e2)
    BY DEF Indexing, InArray
  <2> QED
    BY <2>2, <2>3, <2>4
<1>2. MayMeet(e1, e2) <=> MayMeet(e2, e1)
  BY MeetFacts
<1>3. CASE e1.elem = "Index"
  BY <1>1, <1>3, IndexMeets
<1>4. CASE e2.elem = "Index"
  BY <1>1, <1>2, <1>4, IndexMeets
<1>5. CASE e1.elem = "ConstantIndex" /\ e2.elem = "ConstantIndex"
  BY <1>1, <1>5, ElementsMeet
<1>6. CASE e1.elem = "ConstantIndex" /\ e2.elem = "Subslice"
  <2>1. e1.from_end => e2.from_end
    BY <1>1, <1>6 DEF InSlice, InArray
  <2> QED
    BY <1>1, <1>6, <2>1, ElementMeetsSubslice
<1>7. CASE e1.elem = "Subslice" /\ e2.elem = "ConstantIndex"
  <2>1. e2.from_end => e1.from_end
    BY <1>1, <1>7 DEF InSlice, InArray
  <2> QED
    BY <1>1, <1>2, <1>7, <2>1, ElementMeetsSubslice
<1>8. CASE e1.elem = "Subslice" /\ e2.elem = "Subslice"
  <2>1. e1.from_end <=> e2.from_end
    BY <1>1, <1>8 DEF InSlice, InArray
  <2> QED
    BY <1>1, <1>8, <2>1, SubslicesMeet
<1> QED
  BY <1>1, <1>3, <1>4, <1>5, <1>6, <1>7, <1>8 DEF Indexing

LEMMA ProjectionsOverlap ==
  ASSUME NEW e1, NEW e2, WellFormed(e1), WellFormed(e2), OfOneBase(e1, e2),
         NEW bias \in Biases
  PROVE  /\ place_projection_conflict(e1, e2, bias) \in {"EqualOrDisjoint", "Disjoint", "Arbitrary"}
         /\ place_projection_conflict(e1, e2, bias) = "EqualOrDisjoint" =>
              ~Parting(e1, e2) /\ MayMeet(e1, e2)
         /\ place_projection_conflict(e1, e2, bias) = "Disjoint" /\ bias = "Overlap" =>
              ~MayMeet(e1, e2)
         /\ place_projection_conflict(e1, e2, bias) = "Arbitrary" <=> SplitsUnion(e1, e2)
<1> DEFINE o == place_projection_conflict(e1, e2, bias)
<1>1. MaxIndex \in Nat /\ 1 \in Lengths
  BY PlacesAssumption DEF Lengths
<1>2. CASE e1.elem = "Field"
  <2>1. e2.elem = "Field"
    BY <1>2 DEF OfOneBase, InSlice, InArray
  <2>2. \A n : Fits(e1, n) /\ Fits(e2, n) /\ Parts(e1, n) = {e1.field} /\ Parts(e2, n) = {e2.field}
    BY <1>2, <2>1, PartsFacts
  <2>3. MayMeet(e1, e2) <=> e1.field = e2.field
    BY <1>1, <2>2, MeetFacts
  <2>4. CASE e1.field # e2.field
    <3>1. o = IF e1.of = "Union" THEN "Arbitrary" ELSE "Disjoint"
      BY <1>2, <2>1, <2>4 DEF place_projection_conflict, DisjointIndices
    <3> QED
      BY <1>2, <2>3, <2>4, <3>1 DEF SplitsUnion
  <2>5. CASE e1.field = e2.field
    <3>1. o = "EqualOrDisjoint"
      BY <1>2, <2>1, <2>5 DEF place_projection_conflict, DisjointIndices
    <3> QED
      BY <1>2, <2>3, <2>5, <3>1 DEF SplitsUnion, Parting
  <2> QED
    BY <2>4, <2>5
<1>3. CASE e1.elem = "Downcast"
  <2>1. e2.elem = "Downcast"
    BY <1>3 DEF OfOneBase, InSlice, InArray
  <2>2. \A n : Fits(e1, n) /\ Fits(e2, n) /\ Parts(e1, n) = {e1.variant} /\ Parts(e2, n) = {e2.variant}
    BY <1>3, <2>1, PartsFacts
  <2>3. MayMeet(e1, e2) <=> e1.variant = e2.variant
    BY <1>1, <2>2, MeetFacts
  <2>4. o = IF e1.variant = e2.variant THEN "EqualOrDisjoint" ELSE "Disjoint"
    BY <1>3, <2>1 DEF place_projection_conflict, DisjointIndices
  <2> QED
    BY <1>3, <2>3, <2>4 DEF SplitsUnion, Parting
<1>4. CASE e1.elem = "Deref"
  <2>1. e2.elem = "Deref"
    BY <1>4 DEF OfOneBase, InSlice, InArray
  <2>2. MayMeet(e1, e2)
    <3>1. \A n : Fits(e1, n) /\ Fits(e2, n) /\ Parts(e1, n) = {0} /\ Parts(e2, n) = {0}
      BY <1>4, <2>1, PartsFacts
    <3> QED
      BY <1>1, <3>1, MeetFacts
  <2>3. o = "EqualOrDisjoint"
    BY <1>4, <2>1 DEF place_projection_conflict, DisjointIndices
  <2> QED
    BY <1>4, <2>2, <2>3 DEF SplitsUnion, Parting
<1>5. CASE Indexing(e1)
  <2>1. Indexing(e2) /\ (MayMeet(e1, e2) <=> ~(DisjointIndices(e1, e2) \/ DisjointIndices(e2, e1)))
    BY <1>5, IndexingsMeet
  <2>2. ~SplitsUnion(e1, e2) /\ ~Parting(e1, e2)
    BY <1>5 DEF SplitsUnion, Parting, Indexing
  <2>3. CASE "Index" \in {e1.elem, e2.elem} /\ bias = "NoOverlap"
    <3>1. ~DisjointIndices(e1, e2) /\ ~DisjointIndices(e2, e1)
      BY <1>5, <2>1, <2>3, IndexMeets
    <3>2. o = "Disjoint"
      BY <1>5, <2>1, <2>3, <3>1 DEF place_projection_conflict, Indexing
    <3> QED
      BY <2>2, <2>3, <3>2
  <2>4. CASE ~("Index" \in {e1.elem, e2.elem} /\ bias = "NoOverlap")
    <3>1. o = IF DisjointIndices(e1, e2) \/ DisjointIndices(e2, e1)
              THEN "Disjoint" ELSE "EqualOrDisjoint"
      BY <1>5, <2>1, <2>4 DEF place_projection_conflict, Indexing
    <3> QED
      BY <2>1, <2>2, <3>1
  <2> QED
    BY <2>3, <2>4
<1>6. Indexing(e1) \/ e1.elem \in {"Field", "Deref", "Downcast"}
  BY DEF WellFormed, Indexing
<1> QED
  BY <1>2, <1>3, <1>4, <1>5, <1>6

(* Two places of one local, level by level.                                *)
Projected(s) == IsSeq(s) /\ \A i \in DOMAIN s : WellFormed(s[i])
Typed(s, t) ==
  \A i \in DOMAIN s \cap DOMAIN t :
    (\A j \in 1..i-1 : ~Parting(s[j], t[j])) => OfOneBase(s[i], t[i])
Parted(s, t, bias) ==
  {i \in DOMAIN s \cap DOMAIN t : place_projection_conflict(s[i], t[i], bias) # "EqualOrDisjoint"}

LEMMA FirstFacts ==
  ASSUME NEW T, T \subseteq Nat, T # {}
  PROVE  First(T) \in T /\ \A i \in T : First(T) <= i
  BY SetMinimum DEF First

LEMMA CommonLevels ==
  ASSUME NEW s, NEW t, Projected(s), Projected(t)
  PROVE  /\ Len(s) \in Nat /\ DOMAIN s = 1..Len(s)
         /\ Len(t) \in Nat /\ DOMAIN t = 1..Len(t)
         /\ DOMAIN s \cap DOMAIN t = 1..(IF Len(s) < Len(t) THEN Len(s) ELSE Len(t))
<1>1. /\ Len(s) \in Nat /\ DOMAIN s = 1..Len(s)
      /\ Len(t) \in Nat /\ DOMAIN t = 1..Len(t)
  BY DEF Projected, IsSeq
<1>2. \A i : i \in DOMAIN s /\ i \in DOMAIN t <=>
        i \in 1..(IF Len(s) < Len(t) THEN Len(s) ELSE Len(t))
  BY <1>1
<1> QED
  BY <1>1, <1>2

(* The two are of one base up to the first level at which they part.       *)
LEMMA LevelsAgree ==
  ASSUME NEW s, NEW t, NEW bias \in Biases, Projected(s), Projected(t), Typed(s, t),
         NEW i \in DOMAIN s \cap DOMAIN t, \A j \in 1..i-1 : j \notin Parted(s, t, bias)
  PROVE  OfOneBase(s[i], t[i])
<1> DEFINE common == DOMAIN s \cap DOMAIN t
           T == {k \in common : /\ \A j \in 1..k-1 : j \notin Parted(s, t, bias)
                                /\ ~OfOneBase(s[k], t[k])}
<1>1. common \subseteq Nat /\ \A k \in common : \A j \in 1..k-1 : j \in common /\ j < k
  BY CommonLevels
<1> SUFFICES ASSUME T # {} PROVE FALSE
  OBVIOUS
<1>2. PICK k \in T : \A j \in T : k <= j
  <2>1. T \subseteq Nat
    BY <1>1
  <2> HIDE DEF T
  <2> QED
    BY <2>1, SetMinimum
<1>3. ASSUME NEW j \in 1..k-1
      PROVE  ~Parting(s[j], t[j])
  <2>1. j \in common /\ j < k /\ j \in Nat /\ k \in Nat
    BY <1>1
  <2>2. j \notin T
    <3>1. ~(k <= j)
      BY <2>1
    <3> QED
      BY <1>2, <3>1
  <2>3. \A h \in 1..j-1 : h \in 1..k-1
    BY <2>1
  <2>4. OfOneBase(s[j], t[j])
    BY <2>1, <2>2, <2>3
  <2>5. place_projection_conflict(s[j], t[j], bias) = "EqualOrDisjoint"
    BY <2>1 DEF Parted
  <2>6. WellFormed(s[j]) /\ WellFormed(t[j])
    BY <2>1 DEF Projected
  <2> QED
    BY <2>4, <2>5, <2>6, ProjectionsOverlap
<1> QED
  BY <1>3 DEF Typed

(* What decides below the accessed place.                                  *)
Further(s, t, sd) ==
  {i \in DOMAIN s \ DOMAIN t : OutOfReach(s[i], sd) \/ GetsToAll(s[i], sd)}

LEMMA TouchedBelow ==
  ASSUME NEW s, NEW t, Projected(s), Projected(t), NEW sd \in Depths, sd = compared.sd
  PROVE  TouchesBelow(SubSeq(s, Len(t) + 1, Len(s))) <=>
           (Further(s, t, sd) # {} => ~OutOfReach(s[First(Further(s, t, sd))], sd))
<1> DEFINE m == Len(t)
           n == Len(s)
           below == SubSeq(s, m + 1, n)
           F == Further(s, t, sd)
<1>1. m \in Nat /\ n \in Nat /\ DOMAIN s = 1..n /\ DOMAIN t = 1..m
  BY CommonLevels
<1>2. DOMAIN s \ DOMAIN t = m+1..n
  <2>1. \A i : i \in 1..n /\ i \notin 1..m <=> i \in m+1..n
    <3>1. m \in Nat /\ n \in Nat
      BY <1>1
    <3> HIDE DEF m, n
    <3> QED
      BY <3>1
  <2> QED
    BY <1>1, <2>1
<1>3. F = {i \in m+1..n : OutOfReach(s[i], sd) \/ GetsToAll(s[i], sd)}
  BY <1>2 DEF Further
<1>4. PICK d \in Nat : d = IF m <= n THEN n - m ELSE 0
  <2>1. m \in Nat /\ n \in Nat
    BY <1>1
  <2> HIDE DEF m, n
  <2> QED
    BY <2>1
<1>5. /\ Len(below) = d /\ DOMAIN below = 1..d
      /\ \A i \in 1..d : below[i] = s[m + i] /\ m + i \in m+1..n
      /\ \A i \in m+1..n : i - m \in 1..d /\ m + (i - m) = i /\ below[i - m] = s[i]
      /\ below = << >> <=> d = 0
  <2>1. s \in Seq({s[i] : i \in DOMAIN s})
    BY DEF Projected, IsSeq
  <2> DEFINE E == {s[i] : i \in DOMAIN s}
  <2>2. \A i \in m+1..n : s[i] \in E
    BY <1>1
  <2>3. /\ below \in Seq(E) /\ Len(below) = IF m + 1 <= n THEN n - (m + 1) + 1 ELSE 0
        /\ \A i \in 1..n-(m+1)+1 : below[i] = s[(m + 1) + i - 1]
    <3> HIDE DEF E
    <3>1. m + 1 \in Int /\ n \in Int
      BY <1>1
    <3> HIDE DEF m, n
    <3> QED
      BY <2>2, <3>1, SubSeqProperties
  <2> HIDE DEF below, E, m, n
  <2>4. Len(below) = d
    BY <1>1, <1>4, <2>3
  <2>5. DOMAIN below = 1..d /\ (below = << >> <=> d = 0)
    BY <2>3, <2>4
  <2>6. ASSUME NEW i \in 1..d
        PROVE  below[i] = s[m + i] /\ m + i \in m+1..n
    <3>1. i \in 1..n-(m+1)+1 /\ (m + 1) + i - 1 = m + i /\ m + i \in m+1..n
      BY <1>1, <1>4
    <3> QED
      BY <2>3, <3>1
  <2>7. \A i \in m+1..n : i - m \in 1..d /\ m + (i - m) = i
    BY <1>1, <1>4
  <2> QED
    BY <2>4, <2>5, <2>6, <2>7
<1>6. F # {} => First(F) \in F /\ \A i \in F : First(F) <= i
  <2>1. F \subseteq Nat
    BY <1>1, <1>3
  <2> HIDE DEF F
  <2> QED
    BY <2>1, FirstFacts
<1> HIDE DEF below, F, m, n
<1> SUFFICES TouchesBelow(below) <=> (F # {} => ~OutOfReach(s[First(F)], sd))
  BY DEF below, F, m, n
<1>7. CASE sd = "Deep"
  <2>1. \A e : ~OutOfReach(e, sd)
    BY <1>7 DEF OutOfReach
  <2> QED
    BY <1>7, <2>1 DEF TouchesBelow
<1>8. CASE sd = "Shallow"
  <2>1. \A e : (OutOfReach(e, sd) <=> e.elem = "Deref") /\ ~GetsToAll(e, sd)
    BY <1>8 DEF OutOfReach, GetsToAll
  <2>2. TouchesBelow(below) <=> \A i \in 1..d : below[i].elem # "Deref"
    BY <1>5, <1>8 DEF TouchesBelow
  <2>3. F = {} <=> \A i \in m+1..n : s[i].elem # "Deref"
    BY <1>3, <2>1
  <2>4. TouchesBelow(below) <=> F = {}
    BY <1>5, <2>2, <2>3
  <2>5. F # {} => OutOfReach(s[First(F)], sd)
    BY <1>3, <1>6, <2>1
  <2> QED
    BY <2>4, <2>5
<1>9. CASE sd = "Drop"
  <2>1. \A e : /\ OutOfReach(e, sd) <=> e.elem = "Deref" /\ e.of = "RefMut"
               /\ GetsToAll(e, sd) <=> e.elem = "Field" /\ e.of = "Dtor"
    BY <1>9 DEF OutOfReach, GetsToAll
  <2>2. TouchesBelow(below) <=>
          \E k \in 0..d : /\ \A i \in 1..k : ~OutOfReach(below[i], sd)
                          /\ k = d \/ GetsToAll(below[k + 1], sd)
    <3>1. TouchesBelow(below) <=>
            \E k \in 0..d :
              /\ \A i \in 1..k : ~(below[i].elem = "Deref" /\ below[i].of = "RefMut")
              /\ k = d \/ (below[k + 1].elem = "Field" /\ below[k + 1].of = "Dtor")
      <4>1. TouchesBelow(below) <=>
              \E k \in 0..Len(below) :
                /\ \A i \in 1..k : ~(below[i].elem = "Deref" /\ below[i].of = "RefMut")
                /\ k = Len(below) \/ (below[k + 1].elem = "Field" /\ below[k + 1].of = "Dtor")
        BY <1>9 DEF TouchesBelow
      <4>2. Len(below) = d
        BY <1>5
      <4> QED
        BY <4>1, <4>2
    <3>2. ASSUME NEW k
          PROVE  (\A i \in 1..k : ~(below[i].elem = "Deref" /\ below[i].of = "RefMut")) <=>
                   \A i \in 1..k : ~OutOfReach(below[i], sd)
      BY <2>1
    <3>3. ASSUME NEW k
          PROVE  (below[k + 1].elem = "Field" /\ below[k + 1].of = "Dtor") <=>
                   GetsToAll(below[k + 1], sd)
      BY <2>1
    <3> QED
      BY <3>1, <3>2, <3>3
  <2>3. \A e : ~(OutOfReach(e, sd) /\ GetsToAll(e, sd))
    BY <2>1
  <2>4. ASSUME TouchesBelow(below), F # {}
        PROVE  ~OutOfReach(s[First(F)], sd)
    <3>1. PICK k \in 0..d : /\ \A i \in 1..k : ~OutOfReach(below[i], sd)
                            /\ k = d \/ GetsToAll(below[k + 1], sd)
      BY <2>2, <2>4
    <3>2. PICK f \in F : f = First(F) /\ \A i \in F : f <= i
      BY <1>6, <2>4
    <3>3. f \in m+1..n /\ f - m \in 1..d /\ below[f - m] = s[f]
      BY <1>3, <1>5
    <3>4. CASE f - m \in 1..k
      BY <3>1, <3>2, <3>3, <3>4
    <3>5. CASE f - m \notin 1..k
      <4>1. k # d /\ k + 1 \in 1..d /\ f - m >= k + 1
        BY <1>1, <3>3, <3>5
      <4>2. s[m + (k + 1)] = below[k + 1] /\ m + (k + 1) \in m+1..n
        BY <1>5, <4>1
      <4>3. m + (k + 1) \in F
        BY <1>3, <3>1, <4>1, <4>2
      <4>4. f = m + (k + 1)
        BY <1>1, <3>2, <3>3, <4>1, <4>3
      <4> QED
        BY <2>3, <3>1, <3>2, <4>1, <4>2, <4>4
    <3> QED
      BY <3>4, <3>5
  <2>5. ASSUME F # {} => ~OutOfReach(s[First(F)], sd)
        PROVE  TouchesBelow(below)
    <3>1. CASE F = {}
      <4>1. \A i \in 1..d : ~OutOfReach(below[i], sd)
        BY <1>3, <1>5, <3>1
      <4> QED
        BY <2>2, <4>1
    <3>2. CASE F # {}
      <4>1. PICK f \in F : f = First(F) /\ \A i \in F : f <= i
        BY <1>6, <3>2
      <4>2. f \in m+1..n /\ f - m \in 1..d /\ below[f - m] = s[f] /\ GetsToAll(s[f], sd)
        BY <1>3, <1>5, <2>5, <4>1
      <4>3. (f - m) - 1 \in 0..d /\ ((f - m) - 1) + 1 = f - m
        BY <1>1, <4>2
      <4>4. ASSUME NEW i \in 1..(f - m) - 1
            PROVE  ~OutOfReach(below[i], sd)
        <5>1. i \in 1..d /\ m + i < f /\ ~(f <= m + i)
          BY <1>1, <4>2
        <5>2. below[i] = s[m + i] /\ m + i \in m+1..n /\ m + i \notin F
          BY <1>5, <4>1, <5>1
        <5> QED
          BY <1>3, <5>2
      <4>5. GetsToAll(below[((f - m) - 1) + 1], sd)
        BY <4>2, <4>3
      <4> QED
        BY <2>2, <4>3, <4>4, <4>5
    <3> QED
      BY <3>1, <3>2
  <2> QED
    BY <2>4, <2>5
<1>10. CASE sd \in {"ShallowLength", "ShallowFakeBorrow"}
  <2>1. \A e : OutOfReach(e, sd)
    BY <1>10 DEF OutOfReach
  <2>2. F = m+1..n
    BY <1>3, <2>1
  <2>3. TouchesBelow(below) <=> d = 0
    BY <1>5, <1>10 DEF TouchesBelow
  <2>4. d = 0 <=> m+1..n = {}
    <3>1. d # 0 => m + 1 \in m+1..n
      BY <1>1, <1>4
    <3>2. d = 0 => \A i \in m+1..n : FALSE
      BY <1>1, <1>4
    <3> QED
      BY <3>1, <3>2
  <2> QED
    BY <2>1, <2>2, <2>3, <2>4
<1> QED
  BY <1>7, <1>8, <1>9, <1>10 DEF Depths

(* What a level shows, given that all before it are equal or disjoint.     *)
LEMMA LevelFacts ==
  ASSUME NEW s, NEW t, NEW bias \in Biases, Projected(s), Projected(t), Typed(s, t),
         NEW i \in DOMAIN s \cap DOMAIN t, \A j \in 1..i-1 : j \notin Parted(s, t, bias)
  PROVE  /\ i \notin Parted(s, t, bias) => MayMeet(s[i], t[i]) /\ ~SplitsUnion(s[i], t[i])
         /\ i \in Parted(s, t, bias) =>
              /\ place_projection_conflict(s[i], t[i], bias) = "Arbitrary" <=>
                   SplitsUnion(s[i], t[i])
              /\ bias = "Overlap" /\ ~SplitsUnion(s[i], t[i]) => ~MayMeet(s[i], t[i])
<1>1. WellFormed(s[i]) /\ WellFormed(t[i])
  BY DEF Projected
<1>2. OfOneBase(s[i], t[i])
  BY LevelsAgree
<1>3. i \in Parted(s, t, bias) <=> place_projection_conflict(s[i], t[i], bias) # "EqualOrDisjoint"
  BY DEF Parted
<1> QED
  BY <1>1, <1>2, <1>3, ProjectionsOverlap

(* Where two places part, if they do.                                      *)
LEMMA PartedFacts ==
  ASSUME NEW s, NEW t, NEW bias, Projected(s), Projected(t)
  PROVE  /\ DOMAIN s \cap DOMAIN t \subseteq Nat
         /\ Parted(s, t, bias) \subseteq DOMAIN s \cap DOMAIN t
         /\ Parted(s, t, bias) # {} =>
              /\ First(Parted(s, t, bias)) \in Parted(s, t, bias)
              /\ \A i \in Parted(s, t, bias) : First(Parted(s, t, bias)) <= i
<1>1. DOMAIN s \cap DOMAIN t \subseteq Nat /\ Parted(s, t, bias) \subseteq DOMAIN s \cap DOMAIN t
  BY CommonLevels DEF Parted
<1> QED
  BY <1>1, FirstFacts

LEMMA ConflictCases ==
  ASSUME NEW s, NEW t, NEW bias, NEW sd, NEW kind, Projected(s), Projected(t)
  PROVE  place_components_conflict(s, kind, t, sd, bias) <=>
           CASE Parted(s, t, bias) # {} ->
                  LET k == First(Parted(s, t, bias))
                  IN  place_projection_conflict(s[k], t[k], bias) = "Arbitrary"
             [] Parted(s, t, bias) = {} /\ Further(s, t, sd) # {} ->
                  ~OutOfReach(s[First(Further(s, t, sd))], sd)
             [] OTHER -> ~(kind = "FakeShallow" /\ Len(s) < Len(t))
<1> DEFINE common == 1..(IF Len(s) < Len(t) THEN Len(s) ELSE Len(t))
           parted == {i \in common : place_projection_conflict(s[i], t[i], bias) # "EqualOrDisjoint"}
           further == {i \in DOMAIN s \ common : OutOfReach(s[i], sd) \/ GetsToAll(s[i], sd)}
<1>1. common = DOMAIN s \cap DOMAIN t
  BY CommonLevels
<1>2. parted = Parted(s, t, bias)
  BY <1>1 DEF Parted
<1>3. further = Further(s, t, sd)
  BY <1>1 DEF Further
<1>4. place_components_conflict(s, kind, t, sd, bias) <=>
        CASE parted # {} ->
               place_projection_conflict(s[First(parted)], t[First(parted)], bias) = "Arbitrary"
          [] parted = {} /\ further # {} -> ~OutOfReach(s[First(further)], sd)
          [] OTHER -> ~(kind = "FakeShallow" /\ Len(s) < Len(t))
  BY DEF place_components_conflict
<1> HIDE DEF common, parted, further
<1> QED
  BY <1>2, <1>3, <1>4

-----------------------------------------------------------------------------
(* The decision on two places of one local.                                *)

SplitsOf(s, t) == {i \in DOMAIN s \cap DOMAIN t : SplitsUnion(s[i], t[i])}
MeetUpTo(s, t) ==
  \A i \in DOMAIN s \cap DOMAIN t : (\A k \in SplitsOf(s, t) : i < k) => MayMeet(s[i], t[i])

LEMMA ConflictWhereParted ==
  ASSUME NEW s, NEW t, NEW bias \in Biases, NEW sd \in Depths, NEW kind,
         Projected(s), Projected(t), Typed(s, t), Parted(s, t, bias) # {}
  PROVE  /\ place_components_conflict(s, kind, t, sd, bias) =>
              MeetUpTo(s, t) /\ SplitsOf(s, t) # {}
         /\ bias = "Overlap" /\ MeetUpTo(s, t) => place_components_conflict(s, kind, t, sd, bias)
<1>1. PICK k \in Parted(s, t, bias) : k = First(Parted(s, t, bias))
  BY PartedFacts
<1>2. /\ k \in DOMAIN s \cap DOMAIN t /\ k \in Nat
      /\ \A i \in DOMAIN s \cap DOMAIN t : i \in Nat
      /\ \A i \in Parted(s, t, bias) : k <= i
  BY <1>1, PartedFacts
<1>3. place_components_conflict(s, kind, t, sd, bias) <=>
        place_projection_conflict(s[k], t[k], bias) = "Arbitrary"
  BY <1>1, ConflictCases
<1>4. ASSUME NEW i \in DOMAIN s \cap DOMAIN t, i < k
      PROVE  MayMeet(s[i], t[i]) /\ ~SplitsUnion(s[i], t[i])
  <2>1. i \notin Parted(s, t, bias) /\ \A j \in 1..i-1 : j \notin Parted(s, t, bias)
    <3>1. i \in Nat /\ ~(k <= i)
      BY <1>2, <1>4
    <3>2. \A j \in 1..i-1 : ~(k <= j)
      BY <1>2, <1>4, <3>1
    <3> QED
      BY <1>2, <3>1, <3>2
  <2> QED
    BY <2>1, LevelFacts
<1>5. /\ place_projection_conflict(s[k], t[k], bias) = "Arbitrary" <=> SplitsUnion(s[k], t[k])
      /\ bias = "Overlap" /\ ~SplitsUnion(s[k], t[k]) => ~MayMeet(s[k], t[k])
  <2>1. \A j \in 1..k-1 : j \notin Parted(s, t, bias)
    <3>1. \A j \in 1..k-1 : ~(k <= j)
      BY <1>2
    <3> QED
      BY <1>2, <3>1
  <2> QED
    BY <1>1, <1>2, <2>1, LevelFacts
<1>6. CASE SplitsUnion(s[k], t[k])
  <2>1. k \in SplitsOf(s, t)
    BY <1>2, <1>6 DEF SplitsOf
  <2>2. MeetUpTo(s, t)
    BY <1>4, <2>1 DEF MeetUpTo
  <2> QED
    BY <1>3, <1>5, <1>6, <2>1, <2>2
<1>7. CASE ~SplitsUnion(s[k], t[k])
  <2>1. ASSUME NEW i \in SplitsOf(s, t)
        PROVE  k < i
    <3>1. i \in DOMAIN s \cap DOMAIN t /\ SplitsUnion(s[i], t[i])
      BY DEF SplitsOf
    <3>2. i \in Nat /\ ~(i < k) /\ i # k
      BY <1>2, <1>4, <1>7, <3>1
    <3> QED
      BY <1>2, <3>2
  <2>2. MeetUpTo(s, t) => MayMeet(s[k], t[k])
    BY <1>2, <2>1 DEF MeetUpTo
  <2> QED
    BY <1>3, <1>5, <1>7, <2>2
<1> QED
  BY <1>6, <1>7

LEMMA ConflictWhereEqual ==
  ASSUME NEW s, NEW t, NEW bias \in Biases, NEW sd \in Depths, NEW kind,
         sd = compared.sd, Projected(s), Projected(t), Typed(s, t), Parted(s, t, bias) = {}
  PROVE  /\ MeetUpTo(s, t) /\ SplitsOf(s, t) = {}
         /\ place_components_conflict(s, kind, t, sd, bias) <=>
              /\ TouchesBelow(SubSeq(s, Len(t) + 1, Len(s)))
              /\ kind = "FakeShallow" => Len(t) <= Len(s)
<1>1. /\ Len(s) \in Nat /\ DOMAIN s = 1..Len(s)
      /\ Len(t) \in Nat /\ DOMAIN t = 1..Len(t)
  BY CommonLevels
<1>2. \A i \in DOMAIN s \cap DOMAIN t : MayMeet(s[i], t[i]) /\ ~SplitsUnion(s[i], t[i])
  BY LevelFacts
<1>3. MeetUpTo(s, t) /\ SplitsOf(s, t) = {}
  BY <1>2 DEF MeetUpTo, SplitsOf
<1>4. TouchesBelow(SubSeq(s, Len(t) + 1, Len(s))) <=>
        (Further(s, t, sd) # {} => ~OutOfReach(s[First(Further(s, t, sd))], sd))
  BY TouchedBelow
<1>5. Further(s, t, sd) # {} => Len(t) <= Len(s)
  <2> SUFFICES ASSUME Further(s, t, sd) # {} PROVE Len(t) <= Len(s)
    OBVIOUS
  <2>1. PICK i : i \in 1..Len(s) /\ i \notin 1..Len(t)
    BY <1>1 DEF Further
  <2> QED
    BY <1>1, <2>1
<1>6. CASE Further(s, t, sd) # {}
  BY <1>3, <1>4, <1>5, <1>6, ConflictCases
<1>7. CASE Further(s, t, sd) = {}
  <2>1. place_components_conflict(s, kind, t, sd, bias) <=>
          ~(kind = "FakeShallow" /\ Len(s) < Len(t))
    BY <1>7, ConflictCases
  <2>2. Len(s) < Len(t) <=> ~(Len(t) <= Len(s))
    BY <1>1
  <2> QED
    BY <1>3, <1>4, <1>7, <2>1, <2>2
<1> QED
  BY <1>6, <1>7

-----------------------------------------------------------------------------
(* Every comparison there is.                                              *)

ComparedInv ==
  compared # << >> =>
    /\ compared.sd \in Depths /\ compared.bias \in Biases
    /\ Projected(b) /\ Projected(a)
    /\ compared.borrow.local = compared.access.local => Typed(b, a)
    /\ compared.conflict =
         borrow_conflicts_with_place(compared.borrow, compared.kind, compared.access,
                                     compared.sd, compared.bias)

LEMMA PlacesFit ==
  ASSUME BodyInv, NEW l \in Loans, NEW p \in Locations, NEW w \in At(p).writes
  PROVE  /\ Projected(body.places[l].projection) /\ Projected(w.projection)
         /\ body.places[l].local = w.local => Typed(body.places[l].projection, w.projection)
<1>1. /\ body \in Bodies /\ l \in DOMAIN body.places /\ p \in StatementsOf(body)
      /\ w \in body.blocks[p[1]][p[2]].writes
  BY DEF BodyInv, Loans, Locations, At
<1> DEFINE s == body.places[l].projection
           t == w.projection
<1>2. /\ IsSeq(s) /\ \A i \in DOMAIN s : WellFormed(s[i])
      /\ IsSeq(t) /\ \A i \in DOMAIN t : WellFormed(t[i])
      /\ body.places[l].local = w.local =>
           \A i \in DOMAIN s \cap DOMAIN t :
             (\A j \in 1..i-1 : ~Parting(s[j], t[j])) => OfOneBase(s[i], t[i])
  BY <1>1, PlacesAssumption
<1> QED
  BY <1>2 DEF Projected, Typed

LEMMA ComparedStep ==
  ASSUME BodyInv, ComparedInv, [NextCompare]_<<vars, compared>>
  PROVE  ComparedInv'
<1>1. CASE UNCHANGED compared
  BY <1>1 DEF ComparedInv, a, b
<1>2. CASE \E p \in Locations, l \in Loans : Compare(p, l)
  <2>a. PICK p \in Locations, l \in Loans : Compare(p, l)
    BY <1>2
  <2>1. PICK w \in At(p).writes, k \in {"TwoPhase", "FakeShallow"}, d \in Depths, o \in Biases :
               compared' = [borrow |-> body.places[l], kind |-> k, access |-> w, sd |-> d, bias |-> o,
                            conflict |-> borrow_conflicts_with_place(body.places[l], k, w, d, o)]
    BY <2>a DEF Compare
  <2>2. /\ compared'.sd = d /\ compared'.bias = o /\ compared'.kind = k
        /\ compared'.borrow = body.places[l] /\ compared'.access = w
        /\ compared'.conflict = borrow_conflicts_with_place(body.places[l], k, w, d, o)
    BY <2>1
  <2>3. b' = body.places[l].projection /\ a' = w.projection
    BY <2>2 DEF a, b
  <2>4. /\ Projected(b') /\ Projected(a')
        /\ body.places[l].local = w.local => Typed(b', a')
    BY <2>3, PlacesFit
  <2>5. /\ Projected(b)' <=> Projected(b')
        /\ Projected(a)' <=> Projected(a')
        /\ Typed(b, a)' <=> Typed(b', a')
    BY DEF Projected, Typed
  <2>6. borrow_conflicts_with_place(compared.borrow, compared.kind, compared.access,
                                    compared.sd, compared.bias)' =
          borrow_conflicts_with_place(body.places[l], k, w, d, o)
    BY <2>2 DEF borrow_conflicts_with_place
  <2> QED
    BY <2>2, <2>4, <2>5, <2>6 DEF ComparedInv
<1> QED
  BY <1>1, <1>2 DEF NextCompare, vars

LEMMA ComparedAgrees == ComparedInv => ConflictIsOverlap
<1> SUFFICES ASSUME ComparedInv, compared # << >>
             PROVE  /\ compared.conflict => Overlaps
                    /\ compared.bias = "Overlap" => (Overlaps => compared.conflict)
  BY DEF ConflictIsOverlap
<1>1. PICK s, t, sd, kind, bias, local :
        /\ s = b /\ t = a /\ sd = compared.sd /\ kind = compared.kind /\ bias = compared.bias
        /\ local = (compared.borrow.local = compared.access.local)
  OBVIOUS
<1>2. /\ sd \in Depths /\ bias \in Biases /\ Projected(s) /\ Projected(t)
      /\ local => Typed(s, t)
  BY <1>1 DEF ComparedInv
<1>3. compared.conflict <=> local /\ place_components_conflict(s, kind, t, sd, bias)
  BY <1>1 DEF ComparedInv, borrow_conflicts_with_place, a, b
<1>4. UnionSplits = SplitsOf(s, t)
  BY <1>1 DEF UnionSplits, SplitsOf, SplitsUnion
<1>5. Overlaps <=>
        /\ local
        /\ MeetUpTo(s, t)
        /\ SplitsOf(s, t) = {} =>
             /\ TouchesBelow(SubSeq(s, Len(t) + 1, Len(s)))
             /\ kind = "FakeShallow" => Len(t) <= Len(s)
  BY <1>1, <1>4 DEF Overlaps, MeetUpTo
<1>6. CASE local /\ Parted(s, t, bias) # {}
  BY <1>1, <1>2, <1>3, <1>5, <1>6, ConflictWhereParted
<1>7. CASE local /\ Parted(s, t, bias) = {}
  BY <1>1, <1>2, <1>3, <1>5, <1>7, ConflictWhereEqual
<1> QED
  BY <1>3, <1>5, <1>6, <1>7

(* The decision of borrow_conflicts_with_place on a loan and a place named *)
(* where it is in scope is exact: a conflict is found if and only if some  *)
(* length and some index make the access touch what is borrowed; and       *)
(* places_conflict with the bias that indices differ finds no other.       *)
THEOREM PlaceOverlapConflictIsOverlap == SpecCompare => []ConflictIsOverlap
<1>1. Init /\ InitCompare => BodyInv /\ ComparedInv
  BY DEF Init, InitCompare, BodyInv, ComparedInv
<1>2. BodyInv /\ ComparedInv /\ [NextCompare]_<<vars, compared>> => (BodyInv /\ ComparedInv)'
  <2>1. [NextCompare]_<<vars, compared>> => [Next]_vars
    BY DEF NextCompare, Compare
  <2> QED
    BY <2>1, BodyStep, ComparedStep
<1> QED
  BY <1>1, <1>2, ComparedAgrees, PTL DEF SpecCompare

=============================================================================

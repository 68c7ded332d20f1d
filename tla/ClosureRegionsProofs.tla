------------------------- MODULE ClosureRegionsProofs -------------------------
(***************************************************************************)
(* Theorems about ClosureRegions, for any nesting of items and anything    *)
(* that their code asks for: that nothing an item needs is lost on the way *)
(* to its creator, and that what it takes as known is true there.          *)
(***************************************************************************)
EXTENDS ClosureRegions, FiniteSetTheorems, WellFoundedInduction, TLAPS

-----------------------------------------------------------------------------
(* Recursion over numbers.                                                 *)

(* A nonempty set of numbers has a least element.                          *)
LEMMA LeastElement ==
  ASSUME NEW S \in SUBSET Nat, S # {}
  PROVE  \E m \in S : \A k \in S : m <= k
<1> DEFINE less == {ss \in Nat \X Nat : ss[1] < ss[2]}
<1>1. IsWellFoundedOn(less, Nat)
  BY NatLessThanWellFounded DEF OpToRel
<1>0. \A a, b \in Nat : a < b => <<a, b>> \in less
  OBVIOUS
<1> HIDE DEF less
<1>2. PICK m \in S : \A k \in S : ~ (<<k, m>> \in less)
  BY <1>1, WFMin
<1>3. \A k \in S : m <= k
  <2> TAKE k \in S
  <2>1. k \in Nat /\ m \in Nat /\ ~ (k < m)
    BY <1>0, <1>2
  <2> QED
    BY <2>1
<1> QED
  BY <1>3

(* What is defined of each number by what it is of a smaller one, exists.  *)
Recurs(V, base, N, before, step) ==
  /\ base \in V /\ N \in Nat
  /\ \A n \in 1..N : before[n] \in 0..n - 1
  /\ step \in [1..N -> [V -> V]]
Recursed(f, V, base, N, before, step) ==
  /\ f \in [0..N -> V]
  /\ f[0] = base /\ \A n \in 1..N : f[n] = step[n][f[before[n]]]

LEMMA Recursion ==
  ASSUME NEW V, NEW base, NEW N, NEW before, NEW step, Recurs(V, base, N, before, step)
  PROVE  \E f : Recursed(f, V, base, N, before, step)
<1> USE DEF Recurs
<1> DEFINE Good(k) == \E f \in [0..k -> V] :
             f[0] = base /\ \A n \in 1..k : f[n] = step[n][f[before[n]]]
           Bad == {k \in 0..N : ~Good(k)}
<1>0. N \in 0..N
  OBVIOUS
<1>1. SUFFICES ASSUME Bad # {} PROVE FALSE
  BY <1>0 DEF Recursed
<1>2. Bad \in SUBSET Nat
  OBVIOUS
<1> HIDE DEF Bad
<1>3. PICK m \in Bad : \A k \in Bad : m <= k
  BY <1>1, <1>2, LeastElement
<1>4. m \in 0..N /\ ~Good(m)
  BY DEF Bad
<1>5. m # 0
  <2>1. PICK g : g = [n \in 0..0 |-> base]
    OBVIOUS
  <2>2. g \in [0..0 -> V] /\ g[0] = base /\ 1..0 = {}
    BY <2>1
  <2>3. Good(0)
    BY <2>2
  <2> QED
    BY <1>4, <2>3
<1>6. m \in 1..N /\ m - 1 \in 0..N
  BY <1>4, <1>5
<1>7. Good(m - 1)
  <2>1. m - 1 \notin Bad
    BY <1>3, <1>6
  <2> QED
    BY <1>6, <2>1 DEF Bad
<1>8. PICK f \in [0..m - 1 -> V] :
        f[0] = base /\ \A n \in 1..m - 1 : f[n] = step[n][f[before[n]]]
  BY <1>7
<1>9. PICK g : g = [n \in 0..m |-> IF n = m THEN step[m][f[before[m]]] ELSE f[n]]
  OBVIOUS
<1>10. before[m] \in 0..m - 1 /\ f[before[m]] \in V
  BY <1>6
<1>11. step[m][f[before[m]]] \in V
  BY <1>6, <1>10
<1>12. g \in [0..m -> V]
  BY <1>6, <1>9, <1>11
<1>13. ASSUME NEW n \in 1..m
       PROVE  g[n] = step[n][g[before[n]]]
  <2>1. before[n] \in 0..n - 1 /\ n \in 0..m
    BY <1>6
  <2>2. before[n] \in 0..m /\ before[n] # m
    BY <1>6, <2>1
  <2>3. g[before[n]] = f[before[n]]
    BY <1>9, <2>2
  <2>4. CASE n = m
    BY <1>9, <2>1, <2>3, <2>4
  <2>5. CASE n # m
    <3>1. n \in 1..m - 1
      BY <1>6, <2>5
    <3> QED
      BY <1>8, <1>9, <2>1, <2>3, <2>5, <3>1
  <2> QED
    BY <2>4, <2>5
<1>14. g[0] = base
  BY <1>6, <1>8, <1>9
<1> QED
  BY <1>4, <1>12, <1>13, <1>14

(* Induction over the numbers up to N.                                     *)
LEMMA UpTo ==
  ASSUME NEW N \in Nat, NEW S,
         \A n \in 0..N : (\A k \in 0..n - 1 : k \in S) => n \in S
  PROVE  0..N \subseteq S
<1> DEFINE Bad == (0..N) \ S
<1>1. SUFFICES ASSUME Bad # {} PROVE FALSE
  OBVIOUS
<1>2. Bad \in SUBSET Nat
  OBVIOUS
<1> HIDE DEF Bad
<1>3. PICK m \in Bad : \A k \in Bad : m <= k
  BY <1>1, <1>2, LeastElement
<1>4. m \in 0..N /\ m \notin S
  BY DEF Bad
<1>5. ASSUME NEW k \in 0..m - 1 PROVE k \in S
  <2>1. k \in 0..N /\ ~(m <= k)
    BY <1>4
  <2> QED
    BY <1>3, <2>1 DEF Bad
<1> QED
  BY <1>4, <1>5

-----------------------------------------------------------------------------
(* Sequences without what is there already.                                *)

(* One region after the other gets an index.                               *)
LEMMA InsertedUnfolds ==
  ASSUME NEW R, NEW indices \in Seq(R), NEW regions \in Seq(R)
  PROVE  \E upto \in [0..Len(regions) -> Seq(R)] :
           /\ upto[0] = indices
           /\ \A n \in 1..Len(regions) :
                upto[n] = IF regions[n] \in Elements(upto[n-1]) THEN upto[n-1]
                          ELSE Append(upto[n-1], regions[n])
           /\ Inserted(indices, regions) = upto[Len(regions)]
<1>1. PICK L \in Nat : L = Len(regions)
  OBVIOUS
<1>2. PICK before : before = [n \in 1..L |-> n - 1]
  OBVIOUS
<1>3. PICK step : step = [n \in 1..L |-> [s \in Seq(R) |->
         IF regions[n] \in Elements(s) THEN s ELSE Append(s, regions[n])]]
  OBVIOUS
<1> DEFINE Extended(h, n) == IF n = 0 THEN indices
                         ELSE IF regions[n] \in Elements(h[n-1]) THEN h[n-1]
                         ELSE Append(h[n-1], regions[n])
           Eq(h) == h = [n \in 0..Len(regions) |-> Extended(h, n)]
<1>4. step \in [1..L -> [Seq(R) -> Seq(R)]]
  <2>1. \A n \in 1..L : regions[n] \in R
    BY <1>1
  <2> QED
    BY <1>3, <2>1
<1>5. PICK f : Recursed(f, Seq(R), indices, L, before, step)
  <2>1. Recurs(Seq(R), indices, L, before, step)
    BY <1>1, <1>2, <1>4 DEF Recurs
  <2> QED
    BY <2>1, Recursion
<1>6. /\ f \in [0..L -> Seq(R)]
       /\ f[0] = indices /\ \A n \in 1..L : f[n] = step[n][f[before[n]]]
  BY <1>5 DEF Recursed
<1>7. ASSUME NEW n \in 1..L
      PROVE  f[n] = IF regions[n] \in Elements(f[n-1]) THEN f[n-1] ELSE Append(f[n-1], regions[n])
  <2>1. before[n] = n - 1 /\ n - 1 \in 0..L
    BY <1>2
  <2>2. f[n-1] \in Seq(R)
    BY <1>6, <2>1
  <2>3. f[n] = step[n][f[n-1]]
    BY <1>6, <2>1
  <2> QED
    BY <1>3, <2>2, <2>3
<1>8. Eq(f)
  <2>1. ASSUME NEW n \in 0..L PROVE f[n] = Extended(f, n)
    <3>1. n = 0 \/ n \in 1..L
      OBVIOUS
    <3> QED
      BY <1>6, <1>7, <3>1
  <2> HIDE DEF Extended
  <2> QED
    BY <1>1, <1>6, <2>1
<1>9. PICK g : g = CHOOSE h : Eq(h)
  OBVIOUS
<1>10. Eq(g)
  BY <1>8, <1>9
<1>11. Inserted(indices, regions) = g[L]
  BY <1>1, <1>9 DEF Inserted
<1> HIDE DEF Eq
<1>12. /\ g[0] = indices
       /\ \A n \in 1..L :
            g[n] = IF regions[n] \in Elements(g[n-1]) THEN g[n-1] ELSE Append(g[n-1], regions[n])
  <2>1. ASSUME NEW n \in 0..L PROVE g[n] = Extended(g, n)
    BY <1>1, <1>10 DEF Eq
  <2>2. g[0] = Extended(g, 0) /\ \A n \in 1..L : n # 0 /\ g[n] = Extended(g, n)
    BY <2>1
  <2> QED
    BY <2>2
<1>13. g[L] = f[L]
  <2> DEFINE S == {n \in 0..L : g[n] = f[n]}
  <2>1. ASSUME NEW n \in 0..L, \A k \in 0..n - 1 : k \in S
        PROVE  n \in S
    <3>1. CASE n = 0
      BY <1>6, <1>12, <3>1
    <3>2. CASE n # 0
      <4>1. n \in 1..L /\ n - 1 \in 0..n - 1
        BY <3>2
      <4>2. g[n-1] = f[n-1]
        BY <2>1, <4>1
      <4> QED
        BY <1>7, <1>12, <4>1, <4>2
    <3> QED
      BY <3>1, <3>2
  <2> HIDE DEF S
  <2>2. 0..L \subseteq S
    BY <2>1, UpTo
  <2> QED
    BY <2>2 DEF S
<1> QED
  BY <1>1, <1>6, <1>7, <1>11, <1>13

(* Those that have an index keep it, and each of the others gets one.      *)
Extends(s, indices, regions, R) ==
  /\ s \in Seq(R) /\ Len(indices) <= Len(s)
  /\ \A n \in 1..Len(indices) : s[n] = indices[n]
  /\ \A n \in Len(indices) + 1..Len(s) : s[n] \in Elements(regions)

LEMMA InsertedExtends ==
  ASSUME NEW R, NEW indices \in Seq(R), NEW regions \in Seq(R)
  PROVE  /\ Extends(Inserted(indices, regions), indices, regions, R)
         /\ Elements(regions) \subseteq Elements(Inserted(indices, regions))
<1>1. PICK upto \in [0..Len(regions) -> Seq(R)] :
           /\ upto[0] = indices
           /\ \A n \in 1..Len(regions) :
                upto[n] = IF regions[n] \in Elements(upto[n-1]) THEN upto[n-1]
                          ELSE Append(upto[n-1], regions[n])
           /\ Inserted(indices, regions) = upto[Len(regions)]
  BY InsertedUnfolds
<1>2. Len(regions) \in Nat /\ \A n \in 1..Len(regions) : regions[n] \in R /\ regions[n] \in Elements(regions)
  BY DEF Elements
<1> DEFINE P(n) == /\ Extends(upto[n], indices, regions, R)
                   /\ \A k \in 1..n : regions[k] \in Elements(upto[n])
           S == {n \in 0..Len(regions) : P(n)}
<1>3. ASSUME NEW n \in 0..Len(regions), \A k \in 0..n - 1 : k \in S
      PROVE  n \in S
  <2>1. CASE n = 0
    BY <1>1, <2>1 DEF Extends
  <2>2. CASE n # 0
    <3>1. n \in 1..Len(regions) /\ n - 1 \in 0..n - 1 /\ n - 1 \in S
      BY <1>2, <1>3, <2>2
    <3> DEFINE s == upto[n-1]
               r == regions[n]
    <3>2. /\ Extends(s, indices, regions, R) /\ r \in Elements(regions) /\ r \in R
          /\ \A k \in 1..n - 1 : regions[k] \in Elements(s)
          /\ upto[n] = IF r \in Elements(s) THEN s ELSE Append(s, r)
      BY <1>1, <1>2, <3>1
    <3>3. \A k \in 1..n : k \in 1..n - 1 \/ k = n
      BY <3>1
    <3> HIDE DEF s
    <3>4. CASE r \in Elements(s)
      BY <3>2, <3>3, <3>4
    <3>5. CASE r \notin Elements(s)
      <4>1. PICK t : t = Append(s, r)
        OBVIOUS
      <4>2. /\ s \in Seq(R) /\ t \in Seq(R) /\ Len(t) = Len(s) + 1 /\ t[Len(t)] = r
            /\ \A m \in 1..Len(s) : t[m] = s[m]
          /\ DOMAIN s = 1..Len(s) /\ DOMAIN t = 1..Len(t) /\ Len(s) \in Nat
        BY <3>2, <4>1 DEF Extends
      <4>3. Extends(t, indices, regions, R)
        <5>1. \A m \in Len(indices) + 1..Len(t) : m \in Len(indices) + 1..Len(s) \/ m = Len(t)
          BY <4>2
        <5>2. /\ Len(indices) <= Len(s) /\ Len(indices) \in Nat
              /\ \A m \in 1..Len(indices) : s[m] = indices[m]
              /\ \A m \in Len(indices) + 1..Len(s) : s[m] \in Elements(regions)
          BY <3>2 DEF Extends
        <5>3. /\ \A m \in 1..Len(indices) : m \in 1..Len(s)
              /\ \A m \in Len(indices) + 1..Len(s) : m \in 1..Len(s)
          BY <4>2, <5>2
        <5>4. \A m \in Len(indices) + 1..Len(t) : t[m] \in Elements(regions)
          BY <3>2, <4>2, <5>1, <5>2, <5>3
        <5>5. \A m \in 1..Len(indices) : t[m] = indices[m]
          BY <4>2, <5>2, <5>3
        <5> QED
          BY <4>2, <5>2, <5>4, <5>5 DEF Extends
      <4>4. Elements(s) \subseteq Elements(t) /\ r \in Elements(t)
        <5>1. Len(t) \in DOMAIN t /\ \A m \in DOMAIN s : m \in DOMAIN t /\ t[m] = s[m]
          BY <4>2
        <5> QED
          BY <4>2, <5>1 DEF Elements
      <4>5. upto[n] = t
        BY <3>2, <3>5, <4>1
      <4> QED
        BY <3>2, <3>3, <4>3, <4>4, <4>5
    <3> QED
      BY <3>4, <3>5
  <2> QED
    BY <2>1, <2>2
<1> HIDE DEF S
<1>4. 0..Len(regions) \subseteq S
  BY <1>2, <1>3, UpTo
<1>5. P(Len(regions))
  BY <1>2, <1>4 DEF S
<1> QED
  BY <1>1, <1>5 DEF Elements

(* If none has an index and none comes twice, all get one in their order.  *)
LEMMA InsertedAll ==
  ASSUME NEW R, NEW indices \in Seq(R), NEW regions \in Seq(R),
         Elements(regions) \cap Elements(indices) = {},
         \A m, n \in 1..Len(regions) : regions[m] = regions[n] => m = n
  PROVE  LET I == Inserted(indices, regions)
         IN  /\ Len(I) = Len(indices) + Len(regions)
             /\ \A k \in 1..Len(regions) : I[Len(indices) + k] = regions[k]
<1>1. PICK upto \in [0..Len(regions) -> Seq(R)] :
           /\ upto[0] = indices
           /\ \A n \in 1..Len(regions) :
                upto[n] = IF regions[n] \in Elements(upto[n-1]) THEN upto[n-1]
                          ELSE Append(upto[n-1], regions[n])
           /\ Inserted(indices, regions) = upto[Len(regions)]
  BY InsertedUnfolds
<1>2. Len(regions) \in Nat /\ Len(indices) \in Nat
      /\ \A n \in 1..Len(regions) : regions[n] \in R /\ regions[n] \in Elements(regions)
  <2>1. PICK s \in Seq(R) : s = regions
    OBVIOUS
  <2>2. DOMAIN s = 1..Len(s) /\ Len(s) \in Nat /\ \A n \in 1..Len(s) : s[n] \in R
    OBVIOUS
  <2>3. \A n \in DOMAIN s : s[n] \in Elements(s)
    BY DEF Elements
  <2>4. Len(indices) \in Nat
    OBVIOUS
  <2> QED
    BY <2>1, <2>2, <2>3, <2>4
<1> DEFINE P(n) == /\ Len(upto[n]) = Len(indices) + n
                   /\ \A k \in 1..Len(indices) : upto[n][k] = indices[k]
                   /\ \A k \in 1..n : upto[n][Len(indices) + k] = regions[k]
           S == {n \in 0..Len(regions) : P(n)}
<1> HIDE DEF S
<1>3. ASSUME NEW n \in 0..Len(regions), \A k \in 0..n - 1 : k \in S
      PROVE  n \in S
  <2>1. CASE n = 0
    BY <1>1, <1>2, <2>1 DEF S
  <2>2. CASE n # 0
    <3>1. n \in 1..Len(regions) /\ n - 1 \in 0..n - 1 /\ n - 1 \in S
      BY <1>2, <1>3, <2>2
    <3>2. PICK s \in Seq(R) : s = upto[n-1]
      <4>1. n - 1 \in 0..Len(regions)
        BY <1>2, <3>1
      <4>2. \A m \in 0..Len(regions) : upto[m] \in Seq(R)
        BY <1>1
      <4> QED
        BY <4>1, <4>2
    <3>3. /\ Len(s) = Len(indices) + n - 1
          /\ \A k \in 1..Len(indices) : s[k] = indices[k]
          /\ \A k \in 1..n - 1 : s[Len(indices) + k] = regions[k]
      BY <1>2, <3>1, <3>2 DEF S
    <3>4. regions[n] \notin Elements(s)
      <4>1. ASSUME NEW m \in 1..Len(s), s[m] = regions[n]
            PROVE  FALSE
        <5>1. CASE m \in 1..Len(indices)
          <6>1. regions[n] \in Elements(indices)
            BY <3>3, <4>1, <5>1 DEF Elements
          <6> QED
            BY <1>2, <3>1, <6>1
        <5>2. CASE m \notin 1..Len(indices)
          <6>1. m - Len(indices) \in 1..n - 1 /\ m = Len(indices) + (m - Len(indices))
            BY <1>2, <3>1, <3>3, <5>2
          <6>2. s[m] = regions[m - Len(indices)]
            BY <3>3, <6>1
          <6>3. m - Len(indices) \in 1..Len(regions) /\ m - Len(indices) # n
            BY <1>2, <3>1, <6>1
          <6> QED
            BY <3>1, <4>1, <6>2, <6>3
        <5> QED
          BY <5>1, <5>2
      <4>2. DOMAIN s = 1..Len(s)
        BY <3>2
      <4> QED
        BY <4>1, <4>2 DEF Elements
    <3>5. upto[n] = Append(s, regions[n])
      BY <1>1, <3>1, <3>2, <3>4
    <3>6. /\ Len(upto[n]) = Len(indices) + n
          /\ \A k \in 1..Len(s) : upto[n][k] = s[k]
          /\ upto[n][Len(indices) + n] = regions[n]
      BY <1>2, <3>1, <3>2, <3>3, <3>5
    <3>7. ASSUME NEW k \in 1..n PROVE upto[n][Len(indices) + k] = regions[k]
      <4>1. CASE k = n
        BY <3>6, <4>1
      <4>2. CASE k # n
        <5>1. k \in 1..n - 1 /\ Len(indices) + k \in 1..Len(s)
          BY <1>2, <3>1, <3>3, <4>2
        <5>2. upto[n][Len(indices) + k] = s[Len(indices) + k]
          BY <3>6, <5>1
        <5> QED
          BY <3>3, <5>1, <5>2
      <4> QED
        BY <4>1, <4>2
    <3>8. \A k \in 1..Len(indices) : k \in 1..Len(s)
      BY <1>2, <3>1, <3>3
    <3>9. \A k \in 1..Len(indices) : upto[n][k] = indices[k]
      BY <3>3, <3>6, <3>8
    <3> QED
      BY <3>6, <3>7, <3>9 DEF S
  <2> QED
    BY <2>1, <2>2
<1>4. 0..Len(regions) \subseteq S
  BY <1>2, <1>3, UpTo
<1>5. P(Len(regions))
  <2>1. Len(regions) \in S
    BY <1>2, <1>4
  <2> QED
    BY <2>1 DEF S
<1> QED
  BY <1>1, <1>5

-----------------------------------------------------------------------------
(* How an item numbers its regions.                                        *)

Triples == {"static", "early", "late", "upvar", "va_list", "fn_body", "arg"} \X Nat \X Nat

Scope(i) == for_each_late_bound_region_in_recursive_scope(i)
Parent(i) == program.parent[i]
OwnLate(i) == for_each_late_bound_region_in_item(i)

(* The items are numbers, and each is inside one before it.                *)
LEMMA ItemFacts ==
  ASSUME program \in Programs
  PROVE  /\ Items = 0..Cardinality(Items) - 1 /\ Cardinality(Items) - 1 \in Nat
         /\ \A i \in Items : i # 0 => Parent(i) \in 0..i - 1 /\ Parent(i) \in Items
  BY ProgramsAssumption DEF Items, Parent

(* The late-bound regions that an item declares are its own, and each is   *)
(* there once.                                                             *)
LEMMA OwnLateFacts ==
  ASSUME program \in Programs, NEW i \in Items
  PROVE  /\ OwnLate(i) \in Seq(Triples)
         /\ \A n \in 1..Len(OwnLate(i)) : \E k \in Nat : OwnLate(i)[n] = Late(i, k)
         /\ \A m, n \in 1..Len(OwnLate(i)) : OwnLate(i)[m] = OwnLate(i)[n] => m = n
<1>1. /\ program.late[i] \in Seq(Nat) /\ i \in Nat
      /\ \A m, n \in DOMAIN program.late[i] : program.late[i][m] = program.late[i][n] => m = n
  BY ItemFacts, ProgramsAssumption DEF Items
<1>2. PICK late \in Seq(Nat) : late = program.late[i]
  BY <1>1
<1>3. \A n \in 1..Len(late) : Late(i, late[n]) \in Triples
  BY <1>1 DEF Late, Triples
<1>4. CASE program.kind[i] = "InlineConst"
  <2>1. OwnLate(i) = << >>
    BY <1>4 DEF OwnLate, for_each_late_bound_region_in_item
  <2> QED
    BY <2>1
<1>5. CASE program.kind[i] # "InlineConst"
  <2>1. OwnLate(i) = [n \in 1..Len(late) |-> Late(i, late[n])]
    BY <1>2, <1>5 DEF OwnLate, for_each_late_bound_region_in_item
  <2>2. OwnLate(i) \in Seq(Triples) /\ Len(OwnLate(i)) = Len(late)
    BY <1>3, <2>1
  <2>3. \A n \in 1..Len(late) : OwnLate(i)[n] = Late(i, late[n]) /\ late[n] \in Nat
    BY <2>1
  <2>4. \A a, b : Late(i, a) = Late(i, b) => a = b
    BY DEF Late
  <2> QED
    BY <1>1, <1>2, <2>2, <2>3, <2>4
<1> QED
  BY <1>4, <1>5

(* The scope of an item is what it declares and the scope of its creator.  *)
LEMMA ScopeUnfolds ==
  ASSUME program \in Programs
  PROVE  \A i \in Items :
           /\ Scope(i) \in Seq(Triples)
           /\ Scope(i) = OwnLate(i) \o (IF i = 0 THEN << >> ELSE Scope(Parent(i)))
<1>1. PICK N \in Nat : N = Cardinality(Items) - 1
  BY ItemFacts
<1>2. Items = 0..N
  BY <1>1, ItemFacts
<1>3. PICK V : V = Seq(Triples)
  OBVIOUS
<1>4. PICK before : before = [n \in 1..N |-> Parent(n)]
  OBVIOUS
<1>5. PICK step : step = [n \in 1..N |-> [s \in V |-> OwnLate(n) \o s]]
  OBVIOUS
<1> DEFINE Around(h, i) == OwnLate(i) \o (IF i = 0 THEN << >> ELSE h[Parent(i)])
           Eq(h) == h = [i \in Items |-> Around(h, i)]
           base == OwnLate(0) \o << >>
<1>6. Recurs(V, base, N, before, step)
  <2>1. 0 \in Items /\ \A n \in 1..N : n \in Items /\ n # 0
    BY <1>2
  <2>2. base \in V
    BY <1>3, <2>1, OwnLateFacts
  <2>3. \A n \in 1..N : before[n] \in 0..n - 1
    BY <1>4, <2>1, ItemFacts
  <2>4. \A n \in 1..N : \A s \in V : OwnLate(n) \o s \in V
    BY <1>3, <2>1, OwnLateFacts
  <2>5. step \in [1..N -> [V -> V]]
    BY <1>5, <2>4
  <2> QED
    BY <2>2, <2>3, <2>5 DEF Recurs
<1> HIDE DEF base
<1>7. PICK f : Recursed(f, V, base, N, before, step)
  BY <1>6, Recursion
<1>8. /\ f \in [0..N -> V]
      /\ f[0] = base /\ \A n \in 1..N : f[n] = step[n][f[before[n]]]
  BY <1>7 DEF Recursed
<1>9. ASSUME NEW i \in Items
      PROVE  f[i] = Around(f, i) /\ f[i] \in V
  <2>1. CASE i = 0
    BY <1>2, <1>8, <2>1 DEF base
  <2>2. CASE i # 0
    <3>1. i \in 1..N /\ Parent(i) \in 0..N /\ before[i] = Parent(i)
      BY <1>2, <1>4, <2>2, ItemFacts
    <3>2. f[Parent(i)] \in V /\ f[i] = step[i][f[Parent(i)]]
      BY <1>8, <3>1
    <3>3. f[i] = OwnLate(i) \o f[Parent(i)]
      BY <1>5, <3>1, <3>2
    <3> QED
      BY <1>2, <1>8, <2>2, <3>3
  <2> QED
    BY <2>1, <2>2
<1> HIDE DEF Around
<1>10. Eq(f)
  BY <1>2, <1>8, <1>9
<1>11. PICK g : g = CHOOSE h : Eq(h)
  OBVIOUS
<1>12. Eq(g)
  BY <1>10, <1>11
<1>13. ASSUME NEW i PROVE Scope(i) = g[i]
  BY <1>11 DEF Scope, for_each_late_bound_region_in_recursive_scope, Around, OwnLate, Parent
<1> HIDE DEF Eq
<1>14. ASSUME NEW i \in Items PROVE g[i] = Around(g, i)
  BY <1>12 DEF Eq
<1> DEFINE S == {i \in Items : g[i] = f[i]}
<1>15. ASSUME NEW i \in 0..N, \A k \in 0..i - 1 : k \in S
       PROVE  i \in S
  <2>1. i \in Items /\ (i # 0 => Parent(i) \in S)
    BY <1>2, <1>15, ItemFacts
  <2>2. i # 0 => g[Parent(i)] = f[Parent(i)]
    BY <2>1
  <2>3. g[i] = f[i]
    BY <1>9, <1>14, <2>1, <2>2 DEF Around
  <2> QED
    BY <2>1, <2>3
<1> HIDE DEF S
<1>16. 0..N \subseteq S
  BY <1>15, UpTo
<1>17. \A i \in Items : g[i] = f[i]
  BY <1>2, <1>16 DEF S
<1>18. ASSUME NEW i \in Items PROVE Scope(i) = OwnLate(i) \o (IF i = 0 THEN << >> ELSE Scope(Parent(i)))
  BY <1>13, <1>14 DEF Around
<1> QED
  BY <1>3, <1>9, <1>13, <1>17, <1>18

(* It holds late-bound regions of the item and of those it is in, and each *)
(* is there once.                                                          *)
LEMMA ScopeFacts ==
  ASSUME program \in Programs
  PROVE  \A i \in Items :
           /\ \A n \in 1..Len(Scope(i)) : \E j \in 0..i : \E k \in Nat : Scope(i)[n] = Late(j, k)
           /\ \A m, n \in 1..Len(Scope(i)) : Scope(i)[m] = Scope(i)[n] => m = n
<1> DEFINE P(i) ==
      /\ \A n \in 1..Len(Scope(i)) : \E j \in 0..i : \E k \in Nat : Scope(i)[n] = Late(j, k)
      /\ \A m, n \in 1..Len(Scope(i)) : Scope(i)[m] = Scope(i)[n] => m = n
           S == {i \in Items : P(i)}
<1>1. PICK N \in Nat : N = Cardinality(Items) - 1
  BY ItemFacts
<1>2. Items = 0..N
  BY <1>1, ItemFacts
<1> HIDE DEF S
<1>3. ASSUME NEW i \in 0..N, \A k \in 0..i - 1 : k \in S
      PROVE  i \in S
  <2>1. i \in Items
    BY <1>2
  <2>2. PICK own \in Seq(Triples) : own = OwnLate(i)
    BY <2>1, OwnLateFacts
  <2>3. PICK outer \in Seq(Triples) : outer = IF i = 0 THEN << >> ELSE Scope(Parent(i))
    <3>1. i # 0 => Scope(Parent(i)) \in Seq(Triples)
      BY <2>1, ItemFacts, ScopeUnfolds
    <3>2. << >> \in Seq(Triples)
      OBVIOUS
    <3> QED
      BY <3>1, <3>2
  <2>4. /\ \A n \in 1..Len(own) : \E k \in Nat : own[n] = Late(i, k)
        /\ \A m, n \in 1..Len(own) : own[m] = own[n] => m = n
    BY <2>1, <2>2, OwnLateFacts
  <2>5. /\ \A n \in 1..Len(outer) : \E j \in 0..i - 1 : \E k \in Nat : outer[n] = Late(j, k)
        /\ \A m, n \in 1..Len(outer) : outer[m] = outer[n] => m = n
    <3>1. CASE i = 0
      BY <2>3, <3>1
    <3>2. CASE i # 0
      <4>1. Parent(i) \in 0..i - 1 /\ Parent(i) \in S /\ outer = Scope(Parent(i))
        BY <1>3, <2>1, <2>3, <3>2, ItemFacts
      <4>2. P(Parent(i))
        BY <4>1 DEF S
      <4>3. \A j \in 0..Parent(i) : j \in 0..i - 1
        BY <4>1
      <4> QED
        BY <4>1, <4>2, <4>3
    <3> QED
      BY <3>1, <3>2
  <2>6. Scope(i) = own \o outer
    BY <2>1, <2>2, <2>3, ScopeUnfolds
  <2>7. /\ Len(own) \in Nat /\ Len(outer) \in Nat /\ Len(Scope(i)) = Len(own) + Len(outer)
        /\ \A n \in 1..Len(Scope(i)) :
             IF n <= Len(own) THEN Scope(i)[n] = own[n]
             ELSE Scope(i)[n] = outer[n - Len(own)] /\ n - Len(own) \in 1..Len(outer)
    BY <2>6
  <2>8. ASSUME NEW n \in 1..Len(Scope(i))
        PROVE  IF n <= Len(own) THEN \E k \in Nat : Scope(i)[n] = Late(i, k)
               ELSE \E j \in 0..i - 1 : \E k \in Nat : Scope(i)[n] = Late(j, k)
    <3>1. CASE n <= Len(own)
      BY <2>4, <2>7, <3>1
    <3>2. CASE ~(n <= Len(own))
      BY <2>5, <2>7, <3>2
    <3> QED
      BY <3>1, <3>2
  <2>9. \A n \in 1..Len(Scope(i)) : \E j \in 0..i : \E k \in Nat : Scope(i)[n] = Late(j, k)
    <3>1. i \in 0..i /\ \A j \in 0..i - 1 : j \in 0..i
      OBVIOUS
    <3> QED
      BY <2>8, <3>1
  <2>10. ASSUME NEW m \in 1..Len(Scope(i)), NEW n \in 1..Len(Scope(i)), Scope(i)[m] = Scope(i)[n]
         PROVE  m = n
    <3>1. \A j, a, k, b : Late(j, a) = Late(k, b) => j = k
      BY DEF Late
    <3>2. (m <= Len(own)) <=> (n <= Len(own))
      <4>1. \A j \in 0..i - 1 : j # i
        OBVIOUS
      <4> QED
        BY <2>8, <2>10, <3>1, <4>1
    <3>3. CASE m <= Len(own)
      BY <2>4, <2>7, <2>10, <3>2, <3>3
    <3>4. CASE ~(m <= Len(own))
      <4>1. m - Len(own) = n - Len(own)
        BY <2>5, <2>7, <2>10, <3>2, <3>4
      <4> QED
        BY <2>7, <4>1
    <3> QED
      BY <3>3, <3>4
  <2> QED
    BY <2>1, <2>9, <2>10 DEF S
<1>4. 0..N \subseteq S
  BY <1>3, UpTo
<1> QED
  BY <1>2, <1>4 DEF S

(* What a region is called tells the kinds of region apart.                *)
LEMMA NamesDiffer ==
  /\ \A i, n, k : Late(i, n) # Early(k) /\ Late(i, n) # Static
  /\ \A i, n, j, k : Late(i, n) # Upvar(j, k) /\ Upvar(j, k) # Static
  /\ \A i, n, j, k : Early(k) # Upvar(i, j) /\ Early(k) # Static
  /\ \A i, n, j, k : FnBody(i) # Late(j, n) /\ FnBody(i) # Early(k) /\ FnBody(i) # Upvar(j, k)
  /\ \A n, j, k : VaList # Late(j, n) /\ VaList # Early(k) /\ VaList # Upvar(j, k)
  /\ \A i : FnBody(i) # Static /\ FnBody(i) # VaList /\ VaList # Static
  /\ \A j, k : Early(j) = Early(k) => j = k
  /\ \A i, n, j, k : Late(i, n) = Late(j, k) => i = j /\ n = k
BY DEF Late, Early, Static, Upvar, FnBody, VaList

(* Of the closure's arguments each has a number, and each early-bound      *)
(* region its own.                                                         *)
Given(i) == compute_indices(i)
Bound(i) == replace_bound_regions_with_nll_infer_vars(i)
ExternalNames(i) == IF i = 0 THEN Given(0) ELSE Inserted(Given(i), Scope(Parent(i)))

LEMMA GivenFacts ==
  ASSUME program \in Programs, NEW i \in Items
  PROVE  /\ num_args(i) \in Nat /\ program.early \in 0..num_args(i)
         /\ Given(i) \in Seq(Triples) /\ Len(Given(i)) = 1 + num_args(i)
         /\ Given(i)[1] = Static
         /\ \A n \in 1..num_args(i) :
              Given(i)[n + 1] = IF n <= program.early THEN Early(n) ELSE Upvar(i, n)
<1>1. program.early \in Nat /\ program.upvars[i] \in Nat /\ i \in Nat
  BY ItemFacts, ProgramsAssumption DEF Items
<1>2. num_args(i) \in Nat /\ program.early \in 0..num_args(i)
  BY <1>1 DEF num_args
<1>3. PICK K \in Nat : K = num_args(i)
  BY <1>2
<1>4. defining_ty(i) = [j \in 1..K |-> IF j <= program.early THEN Early(j) ELSE Upvar(i, j)]
  BY <1>3 DEF defining_ty
<1>5. Static \in Triples /\ \A j \in 1..K : Early(j) \in Triples /\ Upvar(i, j) \in Triples
  BY <1>1 DEF Triples, Static, Early, Upvar
<1>6. defining_ty(i) \in Seq(Triples) /\ Len(defining_ty(i)) = K
  BY <1>4, <1>5
<1>7. Given(i) = <<Static>> \o defining_ty(i)
  BY DEF Given, compute_indices
<1>8. Given(i) \in Seq(Triples) /\ Len(Given(i)) = 1 + K /\ Given(i)[1] = Static
      /\ \A n \in 1..K : Given(i)[n + 1] = defining_ty(i)[n]
  BY <1>5, <1>6, <1>7
<1> QED
  BY <1>2, <1>3, <1>4, <1>8

(* The external regions: 'static, the arguments, and of a closure those in *)
(* scope of its creator.                                                   *)
LEMMA ExternalNamesFacts ==
  ASSUME program \in Programs, NEW i \in Items
  PROVE  /\ ExternalNames(i) \in Seq(Triples)
         /\ Len(ExternalNames(i)) = 1 + num_args(i) + (IF i = 0 THEN 0 ELSE Len(Scope(Parent(i))))
         /\ \A n \in 1..1 + num_args(i) : ExternalNames(i)[n] = Given(i)[n]
         /\ i # 0 => \A n \in 1..Len(Scope(Parent(i))) :
                       ExternalNames(i)[1 + num_args(i) + n] = Scope(Parent(i))[n]
<1>1. /\ num_args(i) \in Nat /\ Given(i) \in Seq(Triples) /\ Len(Given(i)) = 1 + num_args(i)
      /\ Given(i)[1] = Static
      /\ \A n \in 1..num_args(i) :
           Given(i)[n + 1] = IF n <= program.early THEN Early(n) ELSE Upvar(i, n)
  BY GivenFacts
<1>2. CASE i = 0
  BY <1>1, <1>2 DEF ExternalNames
<1>3. CASE i # 0
  <2>1. Parent(i) \in Items
    BY <1>3, ItemFacts
  <2>2. PICK outer \in Seq(Triples) : outer = Scope(Parent(i))
    BY <2>1, ScopeUnfolds
  <2>3. /\ \A n \in 1..Len(outer) : \E j, k : outer[n] = Late(j, k)
        /\ \A m, n \in 1..Len(outer) : outer[m] = outer[n] => m = n
    BY <2>1, <2>2, ScopeFacts
  <2>4. \A n \in 1..Len(Given(i)) : \A j, k : Given(i)[n] # Late(j, k)
    <3>1. ASSUME NEW n \in 1..Len(Given(i)), NEW j, NEW k
          PROVE  Given(i)[n] # Late(j, k)
      <4>1. n = 1 \/ (n - 1 \in 1..num_args(i) /\ n = (n - 1) + 1)
        BY <1>1
      <4> QED
        BY <1>1, <4>1, NamesDiffer
    <3> QED
      BY <3>1
  <2>5. Elements(outer) \cap Elements(Given(i)) = {}
    <3>1. DOMAIN outer = 1..Len(outer) /\ DOMAIN Given(i) = 1..Len(Given(i))
      BY <1>1
    <3> QED
      BY <2>3, <2>4, <3>1 DEF Elements
  <2>6. ExternalNames(i) = Inserted(Given(i), outer)
    BY <1>3, <2>2 DEF ExternalNames
  <2>7. Extends(ExternalNames(i), Given(i), outer, Triples)
    BY <1>1, <2>6, InsertedExtends
  <2>8. /\ Len(ExternalNames(i)) = Len(Given(i)) + Len(outer)
        /\ \A k \in 1..Len(outer) : ExternalNames(i)[Len(Given(i)) + k] = outer[k]
    <3>1. Elements(outer) \cap Elements(Given(i)) = {} /\ Given(i) \in Seq(Triples)
      BY <1>1, <2>5
    <3>2. \A m, n \in 1..Len(outer) : outer[m] = outer[n] => m = n
      BY <2>3
    <3> QED
      BY <2>6, <3>1, <3>2, InsertedAll
  <2> QED
    BY <1>1, <1>3, <2>2, <2>7, <2>8 DEF Extends
<1> QED
  BY <1>2, <1>3

(* Where the elements of two sequences are in their concatenation.         *)
LEMMA Concatenated ==
  ASSUME NEW R, NEW s \in Seq(R), NEW t \in Seq(R)
  PROVE  /\ Len(s) \in Nat /\ Len(t) \in Nat /\ Len(s \o t) = Len(s) + Len(t)
         /\ \A n \in 1..Len(s) : (s \o t)[n] = s[n]
         /\ \A n \in 1..Len(t) : (s \o t)[Len(s) + n] = t[n]
OBVIOUS

(* The bound regions of its signature are the item's own.                  *)
LEMMA BoundFacts ==
  ASSUME program \in Programs, NEW i \in Items
  PROVE  /\ Bound(i) \in Seq(Triples)
         /\ \A n \in 1..Len(Bound(i)) : \E k \in Nat : Bound(i)[n] = Late(i, k)
         /\ \A n \in DOMAIN program.signature[i] :
              \E m \in 1..Len(Bound(i)) : Bound(i)[m] = Late(i, program.signature[i][n])
         /\ program.kind[i] = "Closure" => 1 \in 1..Len(Bound(i)) /\ Bound(i)[1] = Late(i, ClosureEnv)
<1>1. program.signature[i] \in Seq(Nat) /\ i \in Nat
  BY ItemFacts, ProgramsAssumption DEF Items
<1>2. PICK signature \in Seq(Nat) : signature = program.signature[i]
  BY <1>1
<1>3. PICK env \in Seq(Nat) : env = IF program.kind[i] = "Closure" THEN <<ClosureEnv>> ELSE << >>
  <2>1. <<ClosureEnv>> \in Seq(Nat) /\ << >> \in Seq(Nat)
    BY DEF ClosureEnv
  <2> QED
    BY <2>1
<1>4. PICK bound : bound \in Seq(Nat) /\ bound = env \o signature
  <2>1. env \o signature \in Seq(Nat)
    BY <1>2, <1>3
  <2> QED
    BY <2>1
<1>5. compute_inputs_and_output(i) = bound
  BY <1>2, <1>3, <1>4 DEF compute_inputs_and_output
<1>6. \A n \in 1..Len(bound) : bound[n] \in Nat /\ Late(i, bound[n]) \in Triples
  BY <1>1, <1>4 DEF Late, Triples
<1>7. Bound(i) = [n \in 1..Len(bound) |-> Late(i, bound[n])]
  BY <1>5 DEF Bound, replace_bound_regions_with_nll_infer_vars
<1>8. Bound(i) \in Seq(Triples) /\ Len(Bound(i)) = Len(bound)
  BY <1>6, <1>7
<1>9. \A n \in 1..Len(Bound(i)) : \E k \in Nat : Bound(i)[n] = Late(i, k)
  BY <1>6, <1>7, <1>8
<1>10. ASSUME NEW n \in DOMAIN signature
       PROVE  \E m \in 1..Len(Bound(i)) : Bound(i)[m] = Late(i, signature[n])
  <2>1. Len(env) + n \in 1..Len(bound) /\ bound[Len(env) + n] = signature[n]
    <3>1. /\ Len(bound) = Len(env) + Len(signature) /\ Len(env) \in Nat /\ Len(signature) \in Nat
          /\ \A m \in 1..Len(signature) : bound[Len(env) + m] = signature[m]
      <4>1. PICK R : R = Nat
        OBVIOUS
      <4>2. env \in Seq(R) /\ signature \in Seq(R) /\ bound = env \o signature
        BY <1>2, <1>3, <1>4, <4>1
      <4> QED
        BY <4>2, Concatenated
    <3>2. n \in 1..Len(signature)
      BY <1>2, <1>10
    <3> QED
      BY <3>1, <3>2
  <2> QED
    BY <1>7, <1>8, <2>1
<1>11. program.kind[i] = "Closure" => 1 \in 1..Len(Bound(i)) /\ Bound(i)[1] = Late(i, ClosureEnv)
  <2>1. program.kind[i] = "Closure" => Len(env) = 1 /\ env[1] = ClosureEnv
    BY <1>3
  <2>2. program.kind[i] = "Closure" => 1 \in 1..Len(bound) /\ bound[1] = ClosureEnv
    BY <1>2, <1>3, <1>4, <2>1
  <2> QED
    BY <1>7, <1>8, <2>2
<1> QED
  BY <1>2, <1>8, <1>9, <1>10, <1>11

(* What build returns: the external regions first, the body last, between  *)
(* them those of the item; what is in scope and what its signature binds   *)
(* have a number.                                                          *)
Built(i) == build(i).regions

LEMMA BuildFacts ==
  ASSUME program \in Programs, NEW i \in Items
  PROVE  /\ Built(i) \in Seq(Triples)
         /\ build(i).first_local_index = IF i = 0 THEN 1 ELSE Len(ExternalNames(i))
         /\ Len(ExternalNames(i)) \in Nat \ {0} /\ Len(ExternalNames(i)) < Len(Built(i))
         /\ \A n \in 1..Len(ExternalNames(i)) : Built(i)[n] = ExternalNames(i)[n]
         /\ \A n \in Len(ExternalNames(i)) + 1..Len(Built(i)) :
              Built(i)[n] \in {VaList, FnBody(i)} \/ \E k \in Nat : Built(i)[n] = Late(i, k)
         /\ \A n \in 1..Len(Bound(i)) : Bound(i)[n] \in Elements(Built(i))
         /\ \A n \in 1..Len(OwnLate(i)) : OwnLate(i)[n] \in Elements(Built(i))
         /\ Built(i)[Len(Built(i))] = FnBody(i)
<1>1. PICK ext \in Seq(Triples) : ext = ExternalNames(i) /\ Len(ext) \in Nat \ {0}
  <2>1. num_args(i) \in Nat /\ (i # 0 => Len(Scope(Parent(i))) \in Nat)
    BY GivenFacts, ItemFacts, ScopeUnfolds
  <2> QED
    BY <2>1, ExternalNamesFacts
<1>2. PICK bound \in Seq(Triples) : bound = Bound(i)
  BY BoundFacts
<1>3. PICK own \in Seq(Triples) : own = OwnLate(i)
  BY OwnLateFacts
<1>4. PICK start : start \in Seq(Triples) /\ start = ext \o bound
  <2>1. ext \o bound \in Seq(Triples)
    BY <1>1, <1>2
  <2> QED
    BY <2>1
<1>5. PICK local : local = Inserted(start, own)
  OBVIOUS
<1>6. Extends(local, start, own, Triples) /\ Elements(own) \subseteq Elements(local)
  BY <1>3, <1>4, <1>5, InsertedExtends
<1>7. PICK va \in Seq(Triples) : va = IF i = 0 /\ program.c_variadic THEN <<VaList>> ELSE << >>
  <2>1. <<VaList>> \in Seq(Triples) /\ << >> \in Seq(Triples)
    BY DEF VaList, Triples
  <2> QED
    BY <2>1
<1>8. <<FnBody(i)>> \in Seq(Triples)
  BY ItemFacts DEF FnBody, Triples
<1>9. /\ Built(i) = local \o va \o <<FnBody(i)>>
      /\ build(i).first_local_index = IF i = 0 THEN 1 ELSE Len(ext)
  BY <1>1, <1>2, <1>3, <1>4, <1>5, <1>7
     DEF Built, build, ExternalNames, Given, Bound, OwnLate, Scope, Parent
<1>10. /\ local \in Seq(Triples) /\ Len(start) <= Len(local)
       /\ \A n \in 1..Len(start) : local[n] = start[n]
       /\ \A n \in Len(start) + 1..Len(local) : local[n] \in Elements(own)
       /\ Len(local) \in Nat
  BY <1>6 DEF Extends
<1>11. /\ Len(start) = Len(ext) + Len(bound)
       /\ \A n \in 1..Len(ext) : start[n] = ext[n]
       /\ \A n \in 1..Len(bound) : start[Len(ext) + n] = bound[n]
       /\ Len(bound) \in Nat /\ Len(own) \in Nat /\ Len(va) \in Nat /\ Len(start) \in Nat
  BY <1>1, <1>2, <1>3, <1>4, <1>7
<1>12. /\ Built(i) \in Seq(Triples) /\ Len(Built(i)) = Len(local) + Len(va) + 1
       /\ \A n \in 1..Len(local) : Built(i)[n] = local[n]
       /\ \A n \in 1..Len(va) : Built(i)[Len(local) + n] = va[n]
       /\ Built(i)[Len(Built(i))] = FnBody(i)
  <2>1. PICK both : both \in Seq(Triples) /\ both = local \o va
    <3>1. local \o va \in Seq(Triples)
      BY <1>7, <1>10
    <3> QED
      BY <3>1
  <2>2. /\ Len(both) = Len(local) + Len(va)
        /\ \A n \in 1..Len(local) : both[n] = local[n]
        /\ \A n \in 1..Len(va) : both[Len(local) + n] = va[n]
    BY <1>7, <1>10, <2>1
  <2>3. Built(i) = both \o <<FnBody(i)>>
    BY <1>9, <2>1
  <2>4. Built(i) \in Seq(Triples) /\ Len(Built(i)) = Len(both) + 1
        /\ Built(i)[Len(both) + 1] = FnBody(i) /\ \A n \in 1..Len(both) : Built(i)[n] = both[n]
    BY <1>8, <2>1, <2>3
  <2>5. /\ \A n \in 1..Len(local) : n \in 1..Len(both)
        /\ \A n \in 1..Len(va) : Len(local) + n \in 1..Len(both)
    BY <1>10, <1>11, <2>2
  <2> QED
    BY <1>10, <1>11, <2>2, <2>4, <2>5
<1>13. Len(ext) < Len(Built(i)) /\ \A n \in 1..Len(ext) : Built(i)[n] = ext[n]
  <2>1. \A n \in 1..Len(ext) : n \in 1..Len(start) /\ n \in 1..Len(local)
    BY <1>1, <1>10, <1>11
  <2>2. \A n \in 1..Len(ext) : Built(i)[n] = ext[n]
    BY <1>10, <1>11, <1>12, <2>1
  <2>3. Len(ext) < Len(Built(i))
    BY <1>1, <1>10, <1>11, <1>12
  <2> QED
    BY <2>2, <2>3
<1>14. \A n \in 1..Len(bound) : bound[n] \in Elements(Built(i))
  <2>1. \A n \in 1..Len(bound) :
          /\ Len(ext) + n \in 1..Len(start) /\ Len(ext) + n \in 1..Len(local)
          /\ Len(ext) + n \in 1..Len(Built(i))
    BY <1>1, <1>10, <1>11, <1>12
  <2>2. \A n \in 1..Len(bound) : Built(i)[Len(ext) + n] = bound[n]
    BY <1>10, <1>11, <1>12, <2>1
  <2>3. DOMAIN Built(i) = 1..Len(Built(i))
    BY <1>12
  <2> QED
    BY <2>1, <2>2, <2>3 DEF Elements
<1>15. \A n \in 1..Len(own) : own[n] \in Elements(Built(i))
  <2>1. DOMAIN own = 1..Len(own) /\ DOMAIN local = 1..Len(local)
        /\ DOMAIN Built(i) = 1..Len(Built(i))
    BY <1>10, <1>12
  <2>2. \A n \in 1..Len(local) : n \in 1..Len(Built(i))
    BY <1>10, <1>12
  <2>3. Elements(local) \subseteq Elements(Built(i))
    BY <1>12, <2>1, <2>2 DEF Elements
  <2> QED
    BY <1>6, <2>1, <2>3 DEF Elements
<1>16. ASSUME NEW n \in Len(ext) + 1..Len(Built(i))
       PROVE  Built(i)[n] \in {VaList, FnBody(i)} \/ \E k \in Nat : Built(i)[n] = Late(i, k)
  <2>1. CASE n \in 1..Len(start)
    <3>1. PICK k : k = n - Len(ext)
      OBVIOUS
    <3>2. k \in 1..Len(bound) /\ n \in 1..Len(local) /\ n = Len(ext) + k
      <4>1. PICK e, p, s, l \in Nat : e = Len(ext) /\ p = Len(bound) /\ s = Len(start) /\ l = Len(local)
        BY <1>1, <1>10, <1>11
      <4>2. s = e + p /\ s <= l /\ n \in 1..s /\ n \in e + 1..Len(Built(i)) /\ k = n - e
        BY <1>10, <1>11, <1>16, <2>1, <3>1, <4>1
      <4>3. k \in 1..p /\ n \in 1..l /\ n = e + k
        BY <4>1, <4>2
      <4> QED
        BY <4>1, <4>3
    <3>3. Built(i)[n] = start[n] /\ start[Len(ext) + k] = bound[k]
      BY <1>10, <1>11, <1>12, <2>1, <3>2
    <3> QED
      BY <1>2, <3>2, <3>3, BoundFacts
  <2>2. CASE n \in Len(start) + 1..Len(local)
    <3>1. n \in 1..Len(local)
      BY <1>11, <2>2
    <3>2. Built(i)[n] \in Elements(own)
      BY <1>10, <1>12, <2>2, <3>1
    <3>3. PICK m \in 1..Len(own) : Built(i)[n] = own[m]
      BY <3>2 DEF Elements
    <3> QED
      BY <1>3, <3>3, OwnLateFacts
  <2>3. CASE n \in Len(local) + 1..Len(local) + Len(va)
    <3>1. n - Len(local) \in 1..Len(va) /\ n = Len(local) + (n - Len(local))
      BY <1>10, <2>3
    <3>2. va[n - Len(local)] = VaList
      BY <1>7, <3>1
    <3> QED
      BY <1>12, <3>1, <3>2
  <2>4. CASE n = Len(Built(i))
    BY <1>12, <2>4
  <2>5. n \in 1..Len(start) \/ n \in Len(start) + 1..Len(local)
        \/ n \in Len(local) + 1..Len(local) + Len(va) \/ n = Len(Built(i))
    <3>1. n \in Nat /\ 1 <= n /\ n <= Len(local) + Len(va) + 1
      BY <1>1, <1>12, <1>16
    <3>2. PICK a, b, c : a = Len(start) /\ b = Len(local) /\ c = Len(va)
      OBVIOUS
    <3>3. a \in Nat /\ b \in Nat /\ c \in Nat /\ a <= b /\ Len(Built(i)) = b + c + 1
      BY <1>10, <1>11, <1>12, <3>2
    <3>4. n \in 1..a \/ n \in a + 1..b \/ n \in b + 1..b + c \/ n = b + c + 1
      BY <3>1, <3>2, <3>3
    <3> QED
      BY <3>2, <3>3, <3>4
  <2> QED
    BY <2>1, <2>2, <2>3, <2>4, <2>5
<1> QED
  BY <1>1, <1>2, <1>3, <1>9, <1>12, <1>13, <1>14, <1>15, <1>16

(* What an external region is by its number.                               *)
LEMMA ExternalIs ==
  ASSUME program \in Programs, NEW i \in Items, NEW n \in 1..Len(ExternalNames(i))
  PROVE  \/ n = 1 /\ Built(i)[n] = Static
         \/ /\ n - 1 \in 1..num_args(i)
            /\ Built(i)[n] = IF n - 1 <= program.early THEN Early(n - 1) ELSE Upvar(i, n - 1)
         \/ /\ i # 0 /\ n - 1 - num_args(i) \in 1..Len(Scope(Parent(i)))
            /\ n - 1 \notin 1..num_args(i) /\ n # 1
            /\ Built(i)[n] = Scope(Parent(i))[n - 1 - num_args(i)]
<1>1. num_args(i) \in Nat /\ Given(i)[1] = Static
      /\ \A k \in 1..num_args(i) :
           Given(i)[k + 1] = IF k <= program.early THEN Early(k) ELSE Upvar(i, k)
  BY GivenFacts
<1>2. n \in Nat /\ 1 <= n /\ n <= Len(ExternalNames(i)) /\ Built(i)[n] = ExternalNames(i)[n]
  BY BuildFacts
<1>3. CASE n = 1
  <2>1. Built(i)[n] = Given(i)[1]
    BY <1>1, <1>2, <1>3, ExternalNamesFacts
  <2> QED
    BY <1>1, <1>3, <2>1
<1>4. CASE n # 1 /\ n <= 1 + num_args(i)
  <2>1. n - 1 \in 1..num_args(i) /\ n \in 1..1 + num_args(i) /\ (n - 1) + 1 = n
    BY <1>1, <1>2, <1>4
  <2>2. Built(i)[n] = Given(i)[n]
    BY <1>2, <2>1, ExternalNamesFacts
  <2> QED
    BY <1>1, <2>1, <2>2
<1>5. CASE n > 1 + num_args(i)
  <2>1. i # 0
    BY <1>1, <1>2, <1>5, ExternalNamesFacts
  <2>2. Len(ExternalNames(i)) = 1 + num_args(i) + Len(Scope(Parent(i)))
        /\ Len(Scope(Parent(i))) \in Nat
    BY <2>1, ExternalNamesFacts, ItemFacts, ScopeUnfolds
  <2>3. PICK k : k = n - 1 - num_args(i)
    OBVIOUS
  <2>4. k \in 1..Len(Scope(Parent(i))) /\ n = 1 + num_args(i) + k
    BY <1>1, <1>2, <1>5, <2>2, <2>3
  <2>5. ExternalNames(i)[1 + num_args(i) + k] = Scope(Parent(i))[k]
    BY <2>1, <2>4, ExternalNamesFacts
  <2>6. n - 1 \notin 1..num_args(i) /\ n # 1
    BY <1>1, <1>2, <1>5
  <2> QED
    BY <1>2, <2>1, <2>3, <2>4, <2>5, <2>6
<1> QED
  BY <1>1, <1>2, <1>3, <1>4, <1>5

(* 'static and the early-bound regions have one number each, the same in   *)
(* every item, and what an item binds itself is not external to it.        *)
LEMMA NumbersAreUnique ==
  ASSUME program \in Programs, NEW i \in Items, NEW n \in 1..Len(Built(i))
  PROVE  /\ Built(i)[n] = Static => n = 1
         /\ \A k \in 1..program.early : Built(i)[n] = Early(k) => n = k + 1
         /\ i # 0 => \A k : Built(i)[n] = Late(i, k) => n \notin 1..Len(ExternalNames(i))
<1>1. /\ Len(ExternalNames(i)) \in Nat \ {0} /\ Len(ExternalNames(i)) < Len(Built(i))
      /\ \A m \in Len(ExternalNames(i)) + 1..Len(Built(i)) :
           Built(i)[m] \in {VaList, FnBody(i)} \/ \E k \in Nat : Built(i)[m] = Late(i, k)
      /\ Len(Built(i)) \in Nat
  BY BuildFacts
<1>2. CASE n \in 1..Len(ExternalNames(i))
  <2>1. CASE n = 1 /\ Built(i)[n] = Static
    BY <2>1, NamesDiffer
  <2>2. CASE /\ n - 1 \in 1..num_args(i)
             /\ Built(i)[n] = IF n - 1 <= program.early THEN Early(n - 1) ELSE Upvar(i, n - 1)
    <3>1. Built(i)[n] = Early(n - 1) \/ Built(i)[n] = Upvar(i, n - 1)
      BY <2>2
    <3>2. ASSUME NEW k \in 1..program.early, Built(i)[n] = Early(k)
          PROVE  n = k + 1
      <4>1. k = n - 1
        BY <3>1, <3>2, NamesDiffer
      <4> QED
        BY <1>2, <4>1
    <3> QED
      BY <3>1, <3>2, NamesDiffer
  <2>3. CASE /\ i # 0 /\ n - 1 - num_args(i) \in 1..Len(Scope(Parent(i)))
             /\ Built(i)[n] = Scope(Parent(i))[n - 1 - num_args(i)]
    <3>1. Parent(i) \in Items /\ Parent(i) \in 0..i - 1 /\ i \in Nat
      BY <2>3, ItemFacts
    <3>2. PICK j \in 0..Parent(i), k \in Nat : Built(i)[n] = Late(j, k)
      <4>1. PICK p \in Items : p = Parent(i)
        BY <3>1
      <4>2. PICK m \in 1..Len(Scope(p)) : Built(i)[n] = Scope(p)[m]
        BY <2>3, <4>1
      <4>3. \E j \in 0..p : \E k \in Nat : Scope(p)[m] = Late(j, k)
        BY <4>2, ScopeFacts
      <4> QED
        BY <4>1, <4>2, <4>3
    <3>3. j # i
      BY <3>1
    <3> QED
      BY <3>2, <3>3, NamesDiffer
  <2> QED
    BY <1>2, <2>1, <2>2, <2>3, ExternalIs
<1>3. CASE n \notin 1..Len(ExternalNames(i))
  <2>1. n \in Len(ExternalNames(i)) + 1..Len(Built(i))
    BY <1>1, <1>3
  <2>2. Built(i)[n] \in {VaList, FnBody(i)} \/ \E k \in Nat : Built(i)[n] = Late(i, k)
    BY <1>1, <2>1
  <2> QED
    BY <1>3, <2>2, NamesDiffer
<1> QED
  BY <1>2, <1>3

(* The number of a region that has one.                                    *)
LEMMA VidFacts ==
  ASSUME NEW u, NEW r, u.regions \in Seq(Triples), r \in Elements(u.regions), r[1] # "arg"
  PROVE  /\ to_region_vid(u, r) \in 0..Len(u.regions) - 1
         /\ u.regions[to_region_vid(u, r) + 1] = r
<1>1. PICK n : n = CHOOSE m \in DOMAIN u.regions : u.regions[m] = r
  OBVIOUS
<1>2. n \in DOMAIN u.regions /\ u.regions[n] = r
  BY <1>1 DEF Elements
<1>3. to_region_vid(u, r) = n - 1
  BY <1>1 DEF to_region_vid
<1>4. n \in 1..Len(u.regions) /\ Len(u.regions) \in Nat
  BY <1>2
<1>5. n - 1 \in 0..Len(u.regions) - 1 /\ (n - 1) + 1 = n
  BY <1>4
<1> QED
  BY <1>2, <1>3, <1>5

(* 'static, the early-bound regions, the body and the bound regions of the *)
(* signature of an item, and those in scope, are numbered in it.           *)
LEMMA Numbered ==
  ASSUME program \in Programs, NEW i \in Items
  PROVE  /\ Static \in Elements(Built(i)) /\ FnBody(i) \in Elements(Built(i))
         /\ \A k \in 1..program.early : Early(k) \in Elements(Built(i))
         /\ \A n \in 1..Len(Bound(i)) : Bound(i)[n] \in Elements(Built(i))
         /\ \A n \in 1..Len(Scope(i)) : Scope(i)[n] \in Elements(Built(i))
<1>1. /\ num_args(i) \in Nat /\ program.early \in 0..num_args(i)
      /\ Given(i)[1] = Static
      /\ \A n \in 1..num_args(i) :
           Given(i)[n + 1] = IF n <= program.early THEN Early(n) ELSE Upvar(i, n)
  BY GivenFacts
<1>2. /\ DOMAIN Built(i) = 1..Len(Built(i)) /\ Len(Built(i)) \in Nat
      /\ Len(ExternalNames(i)) \in Nat \ {0} /\ Len(ExternalNames(i)) < Len(Built(i))
      /\ Built(i)[Len(Built(i))] = FnBody(i)
      /\ \A n \in 1..Len(ExternalNames(i)) : Built(i)[n] = ExternalNames(i)[n]
  BY BuildFacts
<1>3. /\ \A n \in 1..1 + num_args(i) : ExternalNames(i)[n] = Given(i)[n]
      /\ 1 + num_args(i) <= Len(ExternalNames(i))
      /\ i # 0 => /\ Len(Scope(Parent(i))) \in Nat
                  /\ Len(ExternalNames(i)) = 1 + num_args(i) + Len(Scope(Parent(i)))
                  /\ \A n \in 1..Len(Scope(Parent(i))) :
                       ExternalNames(i)[1 + num_args(i) + n] = Scope(Parent(i))[n]
  <2>1. i # 0 => Len(Scope(Parent(i))) \in Nat
    BY ItemFacts, ScopeUnfolds
  <2> QED
    BY <1>1, <2>1, ExternalNamesFacts
<1>4. \A n \in 1..Len(Built(i)) : Built(i)[n] \in Elements(Built(i))
  BY <1>2 DEF Elements
<1>5. Static \in Elements(Built(i))
  <2>1. 1 \in 1..Len(Built(i)) /\ 1 \in 1..Len(ExternalNames(i)) /\ 1 \in 1..1 + num_args(i)
    BY <1>1, <1>2
  <2>2. Built(i)[1] = Static
    BY <1>1, <1>2, <1>3, <2>1
  <2> QED
    BY <1>4, <2>1, <2>2
<1>6. FnBody(i) \in Elements(Built(i))
  BY <1>2, <1>4
<1>7. ASSUME NEW k \in 1..program.early PROVE Early(k) \in Elements(Built(i))
  <2>1. /\ k \in 1..num_args(i) /\ k <= program.early /\ k + 1 \in 1..1 + num_args(i)
        /\ k + 1 \in 1..Len(ExternalNames(i)) /\ k + 1 \in 1..Len(Built(i))
    BY <1>1, <1>2, <1>3
  <2>2. Built(i)[k + 1] = Early(k)
    BY <1>1, <1>2, <1>3, <2>1
  <2> QED
    BY <1>4, <2>1, <2>2
<1>8. \A n \in 1..Len(Bound(i)) : Bound(i)[n] \in Elements(Built(i))
  BY BuildFacts
<1>9. ASSUME i # 0, NEW n \in 1..Len(Scope(Parent(i)))
      PROVE  Scope(Parent(i))[n] \in Elements(Built(i))
  <2>1. 1 + num_args(i) + n \in 1..Len(ExternalNames(i)) /\ 1 + num_args(i) + n \in 1..Len(Built(i))
    BY <1>1, <1>2, <1>3, <1>9
  <2>2. Built(i)[1 + num_args(i) + n] = Scope(Parent(i))[n]
    BY <1>2, <1>3, <1>9, <2>1
  <2> QED
    BY <1>4, <2>1, <2>2
<1>10. ASSUME NEW n \in 1..Len(Scope(i)) PROVE Scope(i)[n] \in Elements(Built(i))
  <2>1. PICK own \in Seq(Triples) : own = OwnLate(i)
    BY OwnLateFacts
  <2>2. PICK outer : outer = IF i = 0 THEN << >> ELSE Scope(Parent(i))
    OBVIOUS
  <2>3. outer \in Seq(Triples) /\ Scope(i) = own \o outer
    <3>1. i # 0 => Scope(Parent(i)) \in Seq(Triples)
      BY ItemFacts, ScopeUnfolds
    <3>2. << >> \in Seq(Triples)
      OBVIOUS
    <3> QED
      BY <2>1, <2>2, <3>1, <3>2, ScopeUnfolds
  <2>4. IF n <= Len(own) THEN Scope(i)[n] = own[n] /\ n \in 1..Len(own)
        ELSE Scope(i)[n] = outer[n - Len(own)] /\ n - Len(own) \in 1..Len(outer)
    BY <1>10, <2>1, <2>3
  <2>5. CASE n <= Len(own)
    BY <2>1, <2>4, <2>5, BuildFacts
  <2>6. CASE ~(n <= Len(own))
    <3>1. i # 0 /\ outer = Scope(Parent(i))
      <4>1. i = 0 => Len(outer) = 0
        BY <2>2
      <4> QED
        BY <2>2, <2>4, <2>6, <4>1
    <3> QED
      BY <1>9, <2>4, <2>6, <3>1
  <2> QED
    BY <2>5, <2>6
<1> QED
  BY <1>5, <1>6, <1>7, <1>8, <1>10

(* The numbers of 'static and of the early-bound regions.                  *)
LEMMA EarlyVids ==
  ASSUME program \in Programs, NEW i \in Items
  PROVE  /\ to_region_vid(build(i), Static) = 0
         /\ \A k \in 1..program.early : to_region_vid(build(i), Early(k)) = k
<1>1. PICK u : u = build(i)
  OBVIOUS
<1>2. u.regions = Built(i) /\ u.regions \in Seq(Triples) /\ Len(Built(i)) \in Nat
  BY <1>1, BuildFacts DEF Built
<1>3. ASSUME NEW r \in Elements(Built(i)), r[1] # "arg"
      PROVE  /\ to_region_vid(u, r) \in 0..Len(Built(i)) - 1
             /\ Built(i)[to_region_vid(u, r) + 1] = r
  BY <1>2, <1>3, VidFacts
<1>4. to_region_vid(u, Static) = 0
  <2>1. Static \in Elements(Built(i)) /\ Static[1] # "arg"
    BY Numbered DEF Static
  <2>2. PICK v \in 0..Len(Built(i)) - 1 : v = to_region_vid(u, Static) /\ Built(i)[v + 1] = Static
    BY <1>3, <2>1
  <2>3. v + 1 \in 1..Len(Built(i))
    BY <1>2, <2>2
  <2>4. v + 1 = 1
    BY <2>2, <2>3, NumbersAreUnique
  <2> QED
    BY <2>2, <2>4
<1>5. ASSUME NEW k \in 1..program.early PROVE to_region_vid(u, Early(k)) = k
  <2>1. Early(k) \in Elements(Built(i)) /\ Early(k)[1] # "arg"
    BY Numbered DEF Early
  <2>2. PICK v \in 0..Len(Built(i)) - 1 : v = to_region_vid(u, Early(k)) /\ Built(i)[v + 1] = Early(k)
    BY <1>3, <2>1
  <2>3. v + 1 \in 1..Len(Built(i))
    BY <1>2, <2>2
  <2>4. v + 1 = k + 1
    BY <2>2, <2>3, NumbersAreUnique
  <2> QED
    BY <2>2, <2>4
<1> QED
  BY <1>1, <1>4, <1>5

-----------------------------------------------------------------------------
(* Reachability.                                                           *)

(* A node is allowed on the way; the nodes allowed, one after the other.   *)
Through(nodes, k, R) ==
  R \cup ({a \in nodes : <<a, k>> \in R} \X {b \in nodes : <<k, b>> \in R})
Allows(iter, nodes, edges) ==
  iter = [s \in SUBSET nodes |->
            IF s = {} THEN edges
            ELSE LET x == CHOOSE x \in s : TRUE IN Through(nodes, x, iter[s \ {x}])]

(* This is well defined: on sets of one more node each time.               *)
LEMMA AllowsExists ==
  ASSUME NEW nodes, NEW edges, IsFiniteSet(nodes)
  PROVE  \E iter : Allows(iter, nodes, edges)
<1>1. PICK N \in Nat : N = Cardinality(nodes)
  BY FS_CardinalityType
<1>2. PICK V : V = SUBSET (edges \cup (nodes \X nodes))
  OBVIOUS
<1>3. PICK Card : Card = [s \in SUBSET nodes |-> Cardinality(s)]
  OBVIOUS
<1>4. /\ \A s \in SUBSET nodes : Card[s] \in 0..N /\ (Card[s] = 0 <=> s = {})
      /\ \A s \in SUBSET nodes : \A x \in s : Card[s \ {x}] = Card[s] - 1
  <2>1. ASSUME NEW s \in SUBSET nodes
        PROVE  IsFiniteSet(s) /\ Cardinality(s) \in 0..N /\ (Cardinality(s) = 0 <=> s = {})
    BY <1>1, FS_Subset, FS_CardinalityType, FS_EmptySet
  <2>2. ASSUME NEW s \in SUBSET nodes, NEW x \in s
        PROVE  Cardinality(s \ {x}) = Cardinality(s) - 1
    BY <2>1, FS_RemoveElement
  <2> QED
    BY <1>3, <2>1, <2>2
<1>5. PICK pick : pick = [s \in SUBSET nodes |-> CHOOSE x \in s : TRUE]
  OBVIOUS
<1>6. \A s \in SUBSET nodes : s # {} => pick[s] \in s /\ s \ {pick[s]} \in SUBSET nodes
  BY <1>5
<1> DEFINE Next1(n, h) == [s \in SUBSET nodes |->
                  IF Card[s] = n THEN Through(nodes, pick[s], h[s \ {pick[s]}]) ELSE h[s]]
           W == [SUBSET nodes -> V]
           base == [s \in SUBSET nodes |-> edges]
<1>7. PICK before : before = [n \in 1..N |-> n - 1]
  OBVIOUS
<1>8. PICK step : step = [n \in 1..N |-> [h \in W |-> Next1(n, h)]]
  OBVIOUS
<1>9. Recurs(W, base, N, before, step)
  <2>1. base \in W
    BY <1>2
  <2>2. ASSUME NEW n \in 1..N, NEW h \in W
        PROVE  Next1(n, h) \in W
    <3>1. ASSUME NEW s \in SUBSET nodes, Card[s] = n
          PROVE  Through(nodes, pick[s], h[s \ {pick[s]}]) \in V
      <4>1. s # {}
        BY <1>4, <3>1
      <4>2. h[s \ {pick[s]}] \in V
        BY <1>6, <4>1
      <4> QED
        BY <1>2, <4>2 DEF Through
    <3> QED
      BY <3>1
  <2> HIDE DEF W, base, Next1
  <2>3. step \in [1..N -> [W -> W]]
    BY <1>8, <2>2
  <2>4. \A n \in 1..N : before[n] \in 0..n - 1
    BY <1>7
  <2> QED
    BY <2>1, <2>3, <2>4 DEF Recurs
<1>10. PICK f : Recursed(f, W, base, N, before, step)
  BY <1>9, Recursion
<1>11. /\ f \in [0..N -> W]
       /\ f[0] = base /\ \A n \in 1..N : f[n] = step[n][f[n-1]]
  BY <1>7, <1>10 DEF Recursed
<1>12. ASSUME NEW n \in 1..N, NEW s \in SUBSET nodes
       PROVE  f[n][s] = IF Card[s] = n THEN Through(nodes, pick[s], f[n-1][s \ {pick[s]}])
                        ELSE f[n-1][s]
  <2>1. f[n-1] \in W
    BY <1>11
  <2>2. f[n] = Next1(n, f[n-1])
    BY <1>8, <1>11, <2>1
  <2> QED
    BY <2>2
<1>13. ASSUME NEW s \in SUBSET nodes
       PROVE  \A n \in 0..N : n >= Card[s] => f[n][s] = f[Card[s]][s]
  <2> DEFINE S == {n \in 0..N : n >= Card[s] => f[n][s] = f[Card[s]][s]}
  <2>1. ASSUME NEW n \in 0..N, \A k \in 0..n - 1 : k \in S
        PROVE  n \in S
    <3>1. CASE n <= Card[s]
      BY <1>4, <3>1
    <3>2. CASE n > Card[s]
      <4>1. n \in 1..N /\ n - 1 \in 0..n - 1 /\ n - 1 >= Card[s] /\ Card[s] # n
        BY <1>4, <3>2
      <4>2. f[n-1][s] = f[Card[s]][s]
        BY <2>1, <4>1
      <4>3. f[n][s] = f[n-1][s]
        BY <1>12, <4>1
      <4> QED
        BY <4>2, <4>3
    <3> QED
      BY <1>4, <3>1, <3>2
  <2> HIDE DEF S
  <2>2. 0..N \subseteq S
    BY <1>1, <2>1, UpTo
  <2> QED
    BY <2>2 DEF S
<1>14. PICK iter : iter = f[N]
  OBVIOUS
<1>15. ASSUME NEW s \in SUBSET nodes
       PROVE  iter[s] = IF s = {} THEN edges ELSE Through(nodes, pick[s], iter[s \ {pick[s]}])
  <2>1. iter[s] = f[Card[s]][s]
    BY <1>1, <1>4, <1>13, <1>14
  <2>2. CASE s = {}
    BY <1>4, <1>11, <2>1, <2>2
  <2>3. CASE s # {}
    <3>1. /\ Card[s] \in 1..N /\ s \ {pick[s]} \in SUBSET nodes
          /\ Card[s \ {pick[s]}] = Card[s] - 1
      <4>1. pick[s] \in s /\ s \ {pick[s]} \in SUBSET nodes
        BY <1>6, <2>3
      <4>2. Card[s] \in 0..N /\ Card[s] # 0 /\ Card[s \ {pick[s]}] = Card[s] - 1
        BY <1>4, <2>3, <4>1
      <4> QED
        BY <4>1, <4>2
    <3>2. iter[s \ {pick[s]}] = f[Card[s] - 1][s \ {pick[s]}]
      BY <1>1, <1>13, <1>14, <3>1
    <3> QED
      BY <1>12, <2>1, <2>3, <3>1, <3>2
  <2> QED
    BY <2>2, <2>3
<1>16. iter \in W
  <2> HIDE DEF W, base
  <2>1. N \in 0..N
    BY <1>1
  <2> QED
    BY <1>11, <1>14, <2>1
<1> DEFINE Body(s) == IF s = {} THEN edges
                      ELSE LET x == CHOOSE x \in s : TRUE IN Through(nodes, x, iter[s \ {x}])
<1>17. ASSUME NEW s \in SUBSET nodes PROVE iter[s] = Body(s)
  BY <1>5, <1>15
<1> HIDE DEF Body
<1>18. iter = [s \in SUBSET nodes |-> Body(s)]
  BY <1>16, <1>17
<1>19. Allows(iter, nodes, edges)
  BY <1>18 DEF Allows, Body
<1> QED
  BY <1>19

(* Reach is what is related once every node is allowed.                    *)
LEMMA ReachUnfolds ==
  ASSUME NEW nodes, NEW edges, IsFiniteSet(nodes)
  PROVE  \E iter : /\ Allows(iter, nodes, edges)
                   /\ Reach(nodes, edges) =
                        [a \in nodes |-> {a} \cup {b \in nodes : <<a, b>> \in iter[nodes]}]
<1> DEFINE Eq(h) == h = [s \in SUBSET nodes |->
              IF s = {} THEN edges
              ELSE LET x == CHOOSE x \in s : TRUE
                   IN  h[s \ {x}] \cup ({a \in nodes : <<a, x>> \in h[s \ {x}]}
                                          \X {b \in nodes : <<x, b>> \in h[s \ {x}]})]
<1>1. PICK iter : iter = CHOOSE h : Eq(h)
  OBVIOUS
<1>2. Reach(nodes, edges) = [a \in nodes |-> {a} \cup {b \in nodes : <<a, b>> \in iter[nodes]}]
  BY <1>1 DEF Reach, FoldSet, MapThenFoldSet
<1>3. \E h : Eq(h)
  <2>1. PICK h : Allows(h, nodes, edges)
    BY AllowsExists
  <2>2. Eq(h)
    BY <2>1 DEF Allows, Through
  <2> HIDE DEF Eq
  <2> QED
    BY <2>2
<1>4. Eq(iter)
  BY <1>1, <1>3
<1>5. Allows(iter, nodes, edges)
  BY <1>4 DEF Allows, Through
<1> QED
  BY <1>2, <1>5

(* Sets of nodes, one more each time.                                      *)
LEMMA NodeInduction ==
  ASSUME NEW nodes, IsFiniteSet(nodes), NEW S, {} \in S,
         \A s \in SUBSET nodes : s # {} /\ s \ {CHOOSE x \in s : TRUE} \in S => s \in S
  PROVE  nodes \in S
<1>1. PICK N \in Nat : N = Cardinality(nodes)
  BY FS_CardinalityType
<1> DEFINE T == {n \in 0..N : \A s \in SUBSET nodes : Cardinality(s) = n => s \in S}
<1>2. ASSUME NEW n \in 0..N, \A k \in 0..n - 1 : k \in T
      PROVE  n \in T
  <2>1. ASSUME NEW s \in SUBSET nodes, Cardinality(s) = n
        PROVE  s \in S
    <3>1. IsFiniteSet(s)
      BY FS_Subset
    <3>2. CASE s # {}
      <4>1. PICK x \in s : x = CHOOSE y \in s : TRUE
        BY <3>2
      <4>2. Cardinality(s \ {x}) = n - 1 /\ s \ {x} \in SUBSET nodes
        BY <2>1, <3>1, <4>1, FS_RemoveElement
      <4>3. Cardinality(s \ {x}) \in Nat
        BY <3>1, FS_RemoveElement, FS_CardinalityType
      <4>4. n - 1 \in 0..n - 1
        BY <4>2, <4>3
      <4>5. s \ {x} \in S
        BY <1>2, <4>2, <4>4
      <4> QED
        BY <3>2, <4>1, <4>5
    <3> QED
      BY <3>2
  <2> QED
    BY <2>1
<1> HIDE DEF T
<1>3. 0..N \subseteq T
  BY <1>1, <1>2, UpTo
<1>4. N \in T
  BY <1>1, <1>3
<1> QED
  BY <1>1, <1>4 DEF T

(* It is reflexive, transitive and closed under the edges.                 *)
LEMMA ReachIsClosure ==
  ASSUME NEW nodes, NEW edges, IsFiniteSet(nodes)
  PROVE  LET reach == Reach(nodes, edges)
         IN  /\ reach \in [nodes -> SUBSET nodes]
             /\ \A a \in nodes : a \in reach[a]
             /\ \A a, b, c \in nodes : b \in reach[a] /\ c \in reach[b] => c \in reach[a]
             /\ \A a, b \in nodes : <<a, b>> \in edges => b \in reach[a]
<1>1. PICK iter : /\ Allows(iter, nodes, edges)
                  /\ Reach(nodes, edges) =
                       [a \in nodes |-> {a} \cup {b \in nodes : <<a, b>> \in iter[nodes]}]
  BY ReachUnfolds
<1> DEFINE S == {s \in SUBSET nodes :
              /\ edges \subseteq iter[s]
              /\ \A k \in s : \A a, b \in nodes :
                   <<a, k>> \in iter[s] /\ <<k, b>> \in iter[s] => <<a, b>> \in iter[s]}
<1>2. {} \in S
  BY <1>1 DEF Allows
<1>3. ASSUME NEW s \in SUBSET nodes, s # {}, s \ {CHOOSE x \in s : TRUE} \in S
      PROVE  s \in S
  <2>1. PICK x \in s : x = CHOOSE y \in s : TRUE
    BY <1>3
  <2>2. PICK R : R = iter[s \ {x}]
    OBVIOUS
  <2>3. iter[s] = Through(nodes, x, R)
    BY <1>1, <1>3, <2>1, <2>2 DEF Allows
  <2>4. /\ edges \subseteq R
        /\ \A k \in s \ {x} : \A a, b \in nodes : <<a, k>> \in R /\ <<k, b>> \in R => <<a, b>> \in R
    BY <1>3, <2>1, <2>2
  <2>5. \A a, b \in nodes :
          <<a, b>> \in iter[s] <=> <<a, b>> \in R \/ (<<a, x>> \in R /\ <<x, b>> \in R)
    BY <2>3 DEF Through
  <2>6. edges \subseteq iter[s]
    BY <2>3, <2>4 DEF Through
  <2>7. ASSUME NEW k \in s, NEW a \in nodes, NEW b \in nodes,
               <<a, k>> \in iter[s], <<k, b>> \in iter[s]
        PROVE  <<a, b>> \in iter[s]
    <3>1. k \in nodes /\ x \in nodes
      OBVIOUS
    <3>2. <<a, k>> \in R \/ (<<a, x>> \in R /\ <<x, k>> \in R)
      BY <2>5, <2>7, <3>1
    <3>3. <<k, b>> \in R \/ (<<k, x>> \in R /\ <<x, b>> \in R)
      BY <2>5, <2>7, <3>1
    <3>4. <<a, b>> \in R \/ (<<a, x>> \in R /\ <<x, b>> \in R)
      BY <2>4, <3>1, <3>2, <3>3
    <3> QED
      BY <2>5, <3>4
  <2> QED
    BY <2>6, <2>7
<1>4. nodes \in S
  <2> HIDE DEF S
  <2> QED
    BY <1>2, <1>3, NodeInduction
<1> QED
  BY <1>1, <1>4

(* And nothing more: what is reached from a set closed under the edges is  *)
(* in it.                                                                  *)
LEMMA ReachIsLeast ==
  ASSUME NEW nodes, NEW edges, IsFiniteSet(nodes), NEW C, NEW r \in C, r \in nodes,
         \A a, b \in nodes : <<a, b>> \in edges /\ a \in C => b \in C
  PROVE  Reach(nodes, edges)[r] \subseteq C
<1>1. PICK iter : /\ Allows(iter, nodes, edges)
                  /\ Reach(nodes, edges) =
                       [a \in nodes |-> {a} \cup {b \in nodes : <<a, b>> \in iter[nodes]}]
  BY ReachUnfolds
<1> DEFINE S == {s \in SUBSET nodes :
              \A a, b \in nodes : <<a, b>> \in iter[s] /\ a \in C => b \in C}
<1>2. {} \in S
  BY <1>1 DEF Allows
<1>3. ASSUME NEW s \in SUBSET nodes, s # {}, s \ {CHOOSE x \in s : TRUE} \in S
      PROVE  s \in S
  <2>1. PICK x \in s : x = CHOOSE y \in s : TRUE
    BY <1>3
  <2>2. PICK R : R = iter[s \ {x}]
    OBVIOUS
  <2>3. iter[s] = Through(nodes, x, R)
    BY <1>1, <1>3, <2>1, <2>2 DEF Allows
  <2>4. \A a, b \in nodes : <<a, b>> \in R /\ a \in C => b \in C
    BY <1>3, <2>1, <2>2
  <2>5. ASSUME NEW a \in nodes, NEW b \in nodes, <<a, b>> \in iter[s], a \in C
        PROVE  b \in C
    <3>1. <<a, b>> \in R \/ (<<a, x>> \in R /\ <<x, b>> \in R)
      BY <2>3, <2>5 DEF Through
    <3> QED
      BY <2>4, <2>5, <3>1
  <2> QED
    BY <2>5
<1>4. nodes \in S
  <2> HIDE DEF S
  <2> QED
    BY <1>2, <1>3, NodeInduction
<1> QED
  BY <1>1, <1>4

-----------------------------------------------------------------------------
(* What is known of the universal regions, and what stands for one.        *)

Universals(u) == 0..Len(u.regions) - 1
Ordered(rel, u) ==
  /\ rel \in [Universals(u) -> SUBSET Universals(u)]
  /\ \A a \in Universals(u) : a \in rel[a]
  /\ \A a, b, c \in Universals(u) : b \in rel[a] /\ c \in rel[b] => c \in rel[a]

LEMMA ReachedByFacts ==
  ASSUME NEW u, NEW nodes, NEW edges
  PROVE  LET reach == U(u)!ReachedBy(nodes, edges)
         IN  /\ reach \in [nodes -> SUBSET nodes]
             /\ \A r \in nodes : r \in reach[r]
             /\ \A a, b, c \in nodes : b \in reach[a] /\ c \in reach[b] => c \in reach[a]
             /\ \A e \in edges : e[1] \in nodes /\ e[2] \in nodes => e[2] \in reach[e[1]]
             /\ \A S \in SUBSET nodes : \A r \in S :
                  (\A e \in edges : e[1] \in S => e[2] \in S) => reach[r] \subseteq S
  BY DEF U!ReachedBy

(* The declared relation, 'static above and the body below all.            *)
LEMMA RelationsFromFacts ==
  ASSUME NEW u, NEW declared
  PROVE  LET rel == U(u)!RelationsFrom(declared)
         IN  /\ Ordered(rel, u)
             /\ \A e \in declared : e[1] \in Universals(u) /\ e[2] \in Universals(u) => e[2] \in rel[e[1]]
             /\ \A S \in SUBSET Universals(u) : \A r \in S :
                  /\ \A e \in declared : e[1] \in S => e[2] \in S
                  /\ 0 \in S => Universals(u) \subseteq S
                  /\ Len(u.regions) - 1 \in S
                  => rel[r] \subseteq S
<1> DEFINE edges == declared \cup ({0} \X Universals(u)) \cup (Universals(u) \X {Len(u.regions) - 1})
<1>1. U(u)!RelationsFrom(declared) = U(u)!ReachedBy(Universals(u), edges)
  BY DEF U!RelationsFrom, U!universal_regions, U!fr_static, U!fr_fn_body, Universals
<1>2. ASSUME NEW S \in SUBSET Universals(u),
             \A e \in declared : e[1] \in S => e[2] \in S,
             0 \in S => Universals(u) \subseteq S,
             Len(u.regions) - 1 \in S
      PROVE  \A e \in edges : e[1] \in S => e[2] \in S
  BY <1>2
<1>3. declared \subseteq edges
  OBVIOUS
<1> HIDE DEF edges
<1>4. PICK rel : rel = U(u)!ReachedBy(Universals(u), edges)
  OBVIOUS
<1>5. /\ rel \in [Universals(u) -> SUBSET Universals(u)]
      /\ \A r \in Universals(u) : r \in rel[r]
      /\ \A a, b, c \in Universals(u) : b \in rel[a] /\ c \in rel[b] => c \in rel[a]
      /\ \A e \in edges : e[1] \in Universals(u) /\ e[2] \in Universals(u) => e[2] \in rel[e[1]]
      /\ \A S \in SUBSET Universals(u) : \A r \in S :
           (\A e \in edges : e[1] \in S => e[2] \in S) => rel[r] \subseteq S
  BY <1>4, ReachedByFacts
<1> QED
  BY <1>1, <1>2, <1>3, <1>4, <1>5 DEF Ordered

(* What is met on the way up from a region is in every set that holds it   *)
(* and, with a region, all that is above that; and none is local.          *)
LEMMA MetOnTheWay ==
  ASSUME NEW u, NEW rel \in [Universals(u) -> SUBSET Universals(u)],
         NEW S \in SUBSET Universals(u), NEW fr \in S,
         \A r \in S : rel[r] \subseteq S
  PROVE  /\ U(u)!non_local_bounds(rel, fr) \subseteq S
         /\ \A a \in U(u)!non_local_bounds(rel, fr) : ~U(u)!is_local_free_region(a)
<1> DEFINE expanded == {r \in Universals(u) : U(u)!is_local_free_region(r)}
           edges == UNION {{r} \X U(u)!parents(rel, r) : r \in expanded}
<1>1. \A r \in S : U(u)!parents(rel, r) \subseteq S
  BY DEF U!parents
<1>2. ASSUME NEW e \in edges, e[1] \in S
      PROVE  e[2] \in S
  <2>1. PICK r \in expanded : e \in {r} \X U(u)!parents(rel, r)
    OBVIOUS
  <2> QED
    BY <1>1, <1>2, <2>1
<1>3. U(u)!non_local_bounds(rel, fr) = U(u)!ReachedBy(Universals(u), edges)[fr] \ expanded
  BY DEF U!non_local_bounds, U!universal_regions, Universals
<1> HIDE DEF edges
<1>4. U(u)!ReachedBy(Universals(u), edges)[fr] \subseteq S
  BY <1>2, ReachedByFacts
<1> QED
  BY <1>3, <1>4

(* Those that stand for a region below it are outlived by it, those above  *)
(* it outlive it, and none is local.                                       *)
LEMMA BoundsFacts ==
  ASSUME NEW u, NEW rel, Ordered(rel, u), NEW fr \in Universals(u)
  PROVE  /\ \A a \in U(u)!non_local_lower_bound(rel, fr) :
              a \in rel[fr] /\ ~U(u)!is_local_free_region(a)
         /\ \A a \in U(u)!non_local_upper_bounds(rel, fr) :
              a \in Universals(u) /\ fr \in rel[a] /\ ~U(u)!is_local_free_region(a)
<1>1. /\ rel \in [Universals(u) -> SUBSET Universals(u)]
      /\ \A a \in Universals(u) : a \in rel[a]
      /\ \A a, b, c \in Universals(u) : b \in rel[a] /\ c \in rel[b] => c \in rel[a]
  BY DEF Ordered
<1>2. U(u)!non_local_bounds(rel, fr) \subseteq rel[fr]
  <2>1. rel[fr] \in SUBSET Universals(u) /\ fr \in rel[fr]
        /\ \A r \in rel[fr] : rel[r] \subseteq rel[fr]
    BY <1>1
  <2> QED
    BY <1>1, <2>1, MetOnTheWay
<1>3. ASSUME NEW a \in U(u)!non_local_lower_bound(rel, fr)
      PROVE  a \in rel[fr] /\ ~U(u)!is_local_free_region(a)
  <2> DEFINE bounds == U(u)!non_local_bounds(rel, fr)
             common == {c \in DOMAIN rel : \A r \in bounds : c \in rel[r]}
  <2>1. /\ bounds # {} /\ a \in U(u)!mutual_immediate_postdominator(rel, bounds)
        /\ ~U(u)!is_local_free_region(a)
    BY <1>3 DEF U!non_local_lower_bound
  <2>2. a \in bounds \/ a \in common
    BY <2>1 DEF U!mutual_immediate_postdominator
  <2> HIDE DEF bounds
  <2>3. a \in common => a \in rel[fr]
    <3>1. PICK r \in bounds : TRUE
      BY <2>1
    <3>2. r \in rel[fr] /\ r \in Universals(u)
      BY <1>1, <1>2, <3>1 DEF bounds
    <3> QED
      BY <1>1, <3>1, <3>2
  <2> QED
    BY <1>2, <2>1, <2>2, <2>3 DEF bounds
<1>4. ASSUME NEW a \in U(u)!non_local_upper_bounds(rel, fr)
      PROVE  a \in Universals(u) /\ fr \in rel[a] /\ ~U(u)!is_local_free_region(a)
  <2> DEFINE S == {b \in Universals(u) : fr \in rel[b]}
             inverse == U(u)!Inverse_(rel)
  <2>1. inverse = [b \in Universals(u) |-> {c \in Universals(u) : b \in rel[c]}]
    BY <1>1 DEF U!Inverse_
  <2>2. inverse \in [Universals(u) -> SUBSET Universals(u)] /\ \A r \in S : inverse[r] \subseteq S
    BY <1>1, <2>1
  <2>3. S \in SUBSET Universals(u) /\ fr \in S
    BY <1>1
  <2>4. a \in U(u)!non_local_bounds(inverse, fr)
    BY <1>4 DEF U!non_local_upper_bounds
  <2> HIDE DEF S, inverse
  <2>5. a \in S /\ ~U(u)!is_local_free_region(a)
    BY <2>2, <2>3, <2>4, MetOnTheWay
  <2> QED
    BY <2>5 DEF S
<1> QED
  BY <1>3, <1>4

-----------------------------------------------------------------------------
(* What the regions of a closure are where it is created.                  *)

IsNumbered(i) == universal[i] = build(i)

LEMMA NumberedSizes ==
  ASSUME program \in Programs, NEW i \in Items, IsNumbered(i)
  PROVE  /\ universal[i].regions = Built(i) /\ Len(Built(i)) \in Nat
         /\ universal_regions(i) = Universals(universal[i])
         /\ universal_regions(i) = 0..Len(Built(i)) - 1
         /\ i # 0 => External(i) = 0..Len(ExternalNames(i)) - 1
         /\ External(i) \subseteq universal_regions(i) /\ Len(Built(i)) - 1 \notin External(i)
         /\ 0 \in External(i)
<1>1. /\ Built(i) \in Seq(Triples)
      /\ build(i).first_local_index = IF i = 0 THEN 1 ELSE Len(ExternalNames(i))
      /\ Len(ExternalNames(i)) \in Nat \ {0} /\ Len(ExternalNames(i)) < Len(Built(i))
      /\ Len(Built(i)) \in Nat
  BY BuildFacts
<1>2. universal[i].regions = Built(i)
  BY DEF IsNumbered, Built
<1>3. External(i) = 0..(IF i = 0 THEN 1 ELSE Len(ExternalNames(i))) - 1
  BY <1>1 DEF External, num_global_and_external_regions, IsNumbered
<1> QED
  BY <1>1, <1>2, <1>3 DEF universal_regions, Universals

(* A region of an item with a number of its own is a universal region.     *)
LEMMA NumberedVids ==
  ASSUME program \in Programs, NEW i \in Items, IsNumbered(i),
         NEW r \in Elements(Built(i)), r[1] # "arg"
  PROVE  /\ to_region_vid(universal[i], r) \in universal_regions(i)
         /\ Built(i)[to_region_vid(universal[i], r) + 1] = r
<1>1. PICK u : u = universal[i]
  OBVIOUS
<1>2. u.regions = Built(i) /\ u.regions \in Seq(Triples)
      /\ universal_regions(i) = 0..Len(Built(i)) - 1
  BY <1>1, NumberedSizes, BuildFacts
<1>3. to_region_vid(u, r) \in 0..Len(u.regions) - 1 /\ u.regions[to_region_vid(u, r) + 1] = r
  BY <1>2, VidFacts
<1> QED
  BY <1>1, <1>2, <1>3

(* closure_mapping has a region of the creator for each external region of *)
(* the closure, and it is the one that was meant.                          *)
LEMMA MeaningIsMapped ==
  ASSUME program \in Programs, NEW c \in Items, c # 0, IsNumbered(c), IsNumbered(Parent(c)),
         NEW vid \in External(c)
  PROVE  /\ Meaning(c, vid) = closure_mapping(c)[vid + 1]
         /\ Meaning(c, vid) \in Regions(Parent(c))
         /\ vid = 0 => Meaning(c, vid) = 0
         /\ vid \in 1..num_args(c) => Meaning(c, vid) = closure_args(c)[vid]
<1>1. PICK p \in Items : p = Parent(c)
  BY ItemFacts
<1>2. /\ num_args(c) \in Nat /\ Len(ExternalNames(c)) \in Nat /\ vid \in Nat
      /\ universal[c].regions = Built(c) /\ vid + 1 \in 1..Len(ExternalNames(c))
  BY NumberedSizes, BuildFacts, GivenFacts
<1>3. PICK args : args = closure_args(c)
  OBVIOUS
<1>4. Len(args) = num_args(c) /\ DOMAIN args = 1..num_args(c)
      /\ args = [j \in 1..num_args(c) |-> args[j]]
  <2>1. args = [j \in 1..num_args(c) |-> Len(universal[p].regions)
                   + MapThenSumSet(num_args, {d \in Closures(p) : d < c}) + j - 1]
    BY <1>1, <1>3 DEF closure_args, Parent
  <2>2. DOMAIN args = 1..num_args(c) /\ args = [j \in 1..num_args(c) |-> args[j]]
    BY <2>1
  <2> QED
    BY <1>2, <2>2
<1>5. PICK scope : scope \in Seq(Triples) /\ scope = Scope(p)
  BY ScopeUnfolds
<1>6. PICK vids : vids = [n \in 1..Len(scope) |-> to_region_vid(universal[p], scope[n])]
  OBVIOUS
<1>7. PICK mapping : mapping = closure_mapping(c)
  OBVIOUS
<1>8. mapping = <<to_region_vid(universal[p], Static)>> \o args \o vids
  BY <1>1, <1>3, <1>5, <1>6, <1>7 DEF closure_mapping, Parent, Scope
<1>9. /\ mapping[1] = to_region_vid(universal[p], Static)
      /\ \A n \in 1..num_args(c) : mapping[n + 1] = args[n]
      /\ \A n \in 1..Len(scope) : mapping[1 + num_args(c) + n] = to_region_vid(universal[p], scope[n])
  <2> DEFINE Any == {to_region_vid(universal[p], Static)} \cup Elements(args) \cup Elements(vids)
  <2>1. PICK R : R = Any
    OBVIOUS
  <2>2. args \in Seq(R) /\ vids \in Seq(R) /\ Len(vids) = Len(scope)
        /\ \A n \in 1..Len(scope) : vids[n] = to_region_vid(universal[p], scope[n])
    <3>1. \A n \in 1..num_args(c) : args[n] \in R
      BY <1>4, <2>1 DEF Elements
    <3>2. \A n \in 1..Len(scope) : vids[n] \in R
      BY <1>6, <2>1 DEF Elements
    <3> HIDE DEF Any
    <3>3. args \in Seq(R)
      BY <1>2, <1>4, <3>1
    <3>4. Len(scope) \in Nat
      BY <1>5
    <3>5. vids = [n \in 1..Len(scope) |-> vids[n]]
          /\ \A n \in 1..Len(scope) : vids[n] = to_region_vid(universal[p], scope[n])
      BY <1>6
    <3>6. vids \in Seq(R) /\ Len(vids) = Len(scope)
      BY <3>2, <3>4, <3>5
    <3> QED
      BY <3>3, <3>5, <3>6
  <2>3. PICK head : head = <<to_region_vid(universal[p], Static)>>
    OBVIOUS
  <2>4. head \in Seq(R) /\ Len(head) = 1 /\ head[1] = to_region_vid(universal[p], Static)
    BY <2>1, <2>3
  <2> HIDE DEF Any
  <2>5. PICK front : front = head \o args
    OBVIOUS
  <2>6. front \in Seq(R) /\ Len(front) = 1 + num_args(c) /\ front[1] = head[1]
        /\ \A n \in 1..num_args(c) : front[1 + n] = args[n]
    <3>1. head \o args \in Seq(R)
      BY <2>2, <2>4
    <3>2. /\ Len(front) = Len(head) + Len(args)
          /\ \A n \in 1..Len(head) : front[n] = head[n]
          /\ \A n \in 1..Len(args) : front[Len(head) + n] = args[n]
      <4>1. head \in Seq(R) /\ args \in Seq(R)
        BY <2>2, <2>4
      <4> QED
        BY <2>5, <4>1, Concatenated
    <3>3. 1 \in 1..Len(head) /\ Len(args) = num_args(c)
      BY <1>4, <2>4
    <3> QED
      BY <2>4, <2>5, <3>1, <3>2, <3>3
  <2>7. mapping = front \o vids
    BY <1>8, <2>3, <2>5
  <2>8. /\ \A n \in 1..Len(front) : mapping[n] = front[n]
        /\ \A n \in 1..Len(vids) : mapping[Len(front) + n] = vids[n]
    BY <2>2, <2>6, <2>7, Concatenated
  <2>9. 1 \in 1..Len(front) /\ \A n \in 1..num_args(c) : 1 + n \in 1..Len(front) /\ 1 + n = n + 1
    BY <1>2, <2>6
  <2> QED
    BY <1>2, <2>2, <2>4, <2>6, <2>8, <2>9
<1>10. /\ universal_regions(p) \subseteq Regions(p)
       /\ \A n \in 1..num_args(c) : args[n] \in Regions(p)
  <2>1. c \in Closures(p)
    BY <1>1 DEF Closures, Parent
  <2>2. \A n \in 1..num_args(c) : args[n] \in Elements(closure_args(c))
    BY <1>3, <1>4 DEF Elements
  <2> QED
    BY <2>1, <2>2 DEF Regions
<1>11. PICK r : r = universal[c].regions[vid + 1]
  OBVIOUS
<1>12. Meaning(c, vid) = to_region_vid(universal[p],
                           IF r[1] \in {"early", "upvar"} THEN Arg(c, vid) ELSE r)
  BY <1>1, <1>11 DEF Meaning, Parent
<1>13. (vid + 1) - 1 = vid
  BY <1>2
<1>14. \/ vid = 0 /\ r = Static
       \/ vid \in 1..num_args(c) /\ (r = Early(vid) \/ r = Upvar(c, vid))
       \/ /\ vid - num_args(c) \in 1..Len(scope) /\ vid \notin 1..num_args(c) /\ vid # 0
          /\ r = scope[vid - num_args(c)]
  <2>1. PICK n \in 1..Len(ExternalNames(c)) : n = vid + 1
    BY <1>2
  <2>2. n - 1 = vid /\ n - 1 - num_args(c) = vid - num_args(c) /\ r = Built(c)[n] /\ (n = 1 <=> vid = 0)
    BY <1>2, <1>11, <2>1
  <2> QED
    BY <1>1, <1>5, <2>2, ExternalIs
<1>15. CASE vid = 0 /\ r = Static
  <2>1. Meaning(c, vid) = to_region_vid(universal[p], Static)
    BY <1>12, <1>15 DEF Static
  <2>2. to_region_vid(universal[p], Static) = 0
    BY <1>1, EarlyVids DEF IsNumbered
  <2>3. 0 \in universal_regions(p)
    BY <1>1, NumberedSizes
  <2> QED
    BY <1>1, <1>2, <1>7, <1>9, <1>10, <1>15, <2>1, <2>2, <2>3
<1>16. CASE vid \in 1..num_args(c) /\ (r = Early(vid) \/ r = Upvar(c, vid))
  <2>1. Meaning(c, vid) = to_region_vid(universal[p], Arg(c, vid))
    BY <1>12, <1>16 DEF Early, Upvar
  <2>2. Meaning(c, vid) = args[vid]
    BY <1>3, <2>1 DEF to_region_vid, Arg
  <2> QED
    BY <1>1, <1>3, <1>7, <1>9, <1>10, <1>16, <2>2
<1>17. CASE /\ vid - num_args(c) \in 1..Len(scope) /\ vid \notin 1..num_args(c) /\ vid # 0
            /\ r = scope[vid - num_args(c)]
  <2>1. PICK k \in 1..Len(scope) : k = vid - num_args(c)
    BY <1>17
  <2>2. r = scope[k] /\ vid + 1 = 1 + num_args(c) + k
    BY <1>2, <1>17, <2>1
  <2>3. r[1] = "late"
    <3>1. PICK j, m : r = Late(j, m)
      BY <1>5, <2>2, ScopeFacts
    <3> QED
      BY <3>1 DEF Late
  <2>4. Meaning(c, vid) = to_region_vid(universal[p], r)
    BY <1>12, <2>3
  <2>5. r \in Elements(Built(p))
    BY <1>5, <2>2, Numbered
  <2>6. Meaning(c, vid) \in universal_regions(p)
    BY <1>1, <2>3, <2>4, <2>5, NumberedVids
  <2> QED
    BY <1>1, <1>7, <1>9, <1>10, <1>17, <2>2, <2>4, <2>6
<1> QED
  BY <1>14, <1>15, <1>16, <1>17

(* What a function with a finite domain returns is a finite set.           *)
LEMMA ElementsAreFinite ==
  ASSUME NEW D, IsFiniteSet(D), NEW f, f = [n \in D |-> f[n]]
  PROVE  IsFiniteSet(Elements(f))
<1>1. DOMAIN f = D
  OBVIOUS
<1>2. f \in Surjection(D, Elements(f))
  BY <1>1 DEF Surjection, Elements
<1> QED
  BY <1>2, FS_Surjection

(* An item has finitely many regions.                                      *)
LEMMA RegionsAreFinite ==
  ASSUME program \in Programs, NEW i \in Items, IsNumbered(i)
  PROVE  /\ IsFiniteSet(universal_regions(i)) /\ IsFiniteSet(Regions(i))
         /\ universal_regions(i) \subseteq Regions(i)
<1>1. universal_regions(i) = 0..Len(Built(i)) - 1 /\ Len(Built(i)) \in Nat
  BY NumberedSizes
<1>2. IsFiniteSet(universal_regions(i))
  BY <1>1, FS_Interval
<1>3. IsFiniteSet(Closures(i))
  <2>1. PICK N \in Nat : Items = 0..N
    BY ItemFacts
  <2>2. IsFiniteSet(Items)
    BY <2>1, FS_Interval
  <2> QED
    BY <2>2, FS_Subset DEF Closures
<1>4. ASSUME NEW c \in Closures(i)
      PROVE  IsFiniteSet(Elements(closure_args(c)))
  <2>1. c \in Items /\ program.parent[c] = i
    BY <1>4 DEF Closures
  <2>2. num_args(c) \in Nat
    BY <2>1, GivenFacts
  <2>3. PICK args : args = closure_args(c)
    OBVIOUS
  <2>4. DOMAIN args = 1..num_args(c)
    BY <2>1, <2>3 DEF closure_args
  <2>5. IsFiniteSet(DOMAIN args)
    BY <2>2, <2>4, FS_Interval
  <2>6. args = [n \in 1..num_args(c) |-> args[n]]
    BY <2>1, <2>3 DEF closure_args
  <2> QED
    BY <2>3, <2>4, <2>5, <2>6, ElementsAreFinite
<1>5. PICK g : g = [c \in Closures(i) |-> Elements(closure_args(c))]
  OBVIOUS
<1>6. PICK S : S = {Elements(closure_args(c)) : c \in Closures(i)}
  OBVIOUS
<1>7. IsFiniteSet(S) /\ \A T \in S : IsFiniteSet(T)
  <2>1. S = Elements(g)
    BY <1>5, <1>6 DEF Elements
  <2>2. DOMAIN g = Closures(i) /\ g = [c \in Closures(i) |-> g[c]]
    BY <1>5
  <2>3. IsFiniteSet(Elements(g))
    BY <1>3, <2>2, ElementsAreFinite
  <2> QED
    BY <1>4, <1>6, <2>1, <2>3
<1>8. IsFiniteSet(UNION S)
  BY <1>7, FS_UNION
<1> QED
  BY <1>2, <1>6, <1>8, FS_Union DEF Regions

-----------------------------------------------------------------------------
(* The inductive invariant.                                                *)

TypeInv ==
  /\ program \in Programs /\ item \in Items
  /\ pc \in {"new", "typeck", "closures", "done", "panicked"}
  /\ pc = "done" => item = 0 /\ todo = {}
  /\ DOMAIN universal = Items /\ DOMAIN known = Items
  /\ DOMAIN constraints = Items /\ DOMAIN type_tests = Items
  /\ DOMAIN reaches = Items /\ DOMAIN errors = Items
  /\ DOMAIN requirements = Items /\ DOMAIN type_requirements = Items

(* An item whose check has begun has its regions and what is known of them.*)
HasRegions(i) == IsNumbered(i) /\ known[i] = create(universal[i], i)
NumberedInv == \A i \in Items : i > item \/ (i = item /\ pc # "new") => HasRegions(i)

(* An item is solved: its requirements are on regions that its creator can *)
(* name, and with them all that it found is granted, but for errors.       *)
Granted(i) == Reach(universal_regions(i), EdgesOf(known[i]) \cup requirements[i])
OwnBounds(i) == {to_region_vid(universal[i], r) :
                   r \in {FnBody(i)} \cup {Early(k) : k \in program.type_bounds}}
FoundGranted(i) ==
  \A fr \in universal_regions(i) : Values(i, reaches[i], fr) \subseteq Granted(i)[fr]
TestsGranted(i) ==
  \A lb \in type_tests[i] : \A fr \in Values(i, reaches[i], lb) :
    \E o \in OwnBounds(i) \cup type_requirements[i] : fr \in Granted(i)[o]
Solved(i) ==
  /\ reaches[i] = Reach(Regions(i), constraints[i] \cup ({0} \X Regions(i)))
  /\ requirements[i] \subseteq External(i) \X External(i)
  /\ type_requirements[i] \subseteq External(i)
  /\ i = 0 => requirements[i] = {} /\ type_requirements[i] = {}
  /\ errors[i] = {} => FoundGranted(i) /\ TestsGranted(i)
SolvedInv == \A i \in Items : i > item \/ (i = item /\ pc = "done") => Solved(i)

(* What a closure requires has become a constraint of its creator once the *)
(* creator has checked where the closure is created.                       *)
Equated(c) ==
  \A k \in 1..program.early :
    LET own == to_region_vid(universal[Parent(c)], Early(k))
    IN  /\ <<closure_args(c)[k], own>> \in constraints[Parent(c)]
        /\ <<own, closure_args(c)[k]>> \in constraints[Parent(c)]
Passed(c) ==
  /\ apply_closure_requirements(c) \subseteq constraints[Parent(c)]
  /\ convert(c) \subseteq type_tests[Parent(c)]
  /\ Equated(c)
IsChecked(c) ==
  \/ Parent(c) > item
  \/ Parent(c) = item /\ pc \in {"closures", "done", "panicked"} /\ c \notin todo
PassedInv == \A c \in Items : c # 0 /\ IsChecked(c) => Passed(c)

Inv == TypeInv /\ NumberedInv /\ SolvedInv /\ PassedInv

-----------------------------------------------------------------------------
(* What a step leaves alone.                                               *)

LEMMA ProgramKept ==
  ASSUME program' = program
  PROVE  /\ Items' = Items
         /\ \A i : Parent(i)' = Parent(i) /\ build(i)' = build(i) /\ Closures(i)' = Closures(i)
         /\ \A i : num_args(i)' = num_args(i) /\ Scope(i)' = Scope(i)
<1>1. Items' = Items
  BY DEF Items
<1>2. ASSUME NEW i
      PROVE  Parent(i)' = Parent(i) /\ Closures(i)' = Closures(i) /\ num_args(i)' = num_args(i)
  BY DEF Parent, Closures, Items, num_args
<1>3. ASSUME NEW i PROVE Scope(i)' = Scope(i)
  BY DEF Scope, for_each_late_bound_region_in_recursive_scope, for_each_late_bound_region_in_item,
         Items
<1>4. ASSUME NEW i PROVE build(i)' = build(i)
  BY DEF build, compute_indices, defining_ty, num_args, Inserted, Elements, Items,
         for_each_late_bound_region_in_recursive_scope, for_each_late_bound_region_in_item,
         replace_bound_regions_with_nll_infer_vars, compute_inputs_and_output
<1> QED
  BY <1>1, <1>2, <1>3, <1>4

LEMMA ArgsKept ==
  ASSUME program' = program, NEW c, universal'[program.parent[c]] = universal[program.parent[c]]
  PROVE  closure_args(c)' = closure_args(c)
  BY DEF closure_args, num_args, Closures, Items, MapThenSumSet, MapThenFoldSet

(* A region that is not an argument's variable has the same number.        *)
LEMMA VidKept ==
  ASSUME NEW u, NEW r, r[1] # "arg"
  PROVE  to_region_vid(u, r)' = to_region_vid(u, r)
  BY DEF to_region_vid

LEMMA EarlyVidKept ==
  ASSUME NEW i, universal'[i] = universal[i]
  PROVE  /\ \A k : to_region_vid(universal[i], Early(k))' = to_region_vid(universal[i], Early(k))
         /\ \A j : to_region_vid(universal[i], FnBody(j))' = to_region_vid(universal[i], FnBody(j))
         /\ \A j, n : to_region_vid(universal[i], Late(j, n))' = to_region_vid(universal[i], Late(j, n))
         /\ to_region_vid(universal[i], Static)' = to_region_vid(universal[i], Static)
  BY DEF to_region_vid, Early, FnBody, Late, Static

LEMMA RegionsKept ==
  ASSUME program' = program, NEW i, universal'[i] = universal[i]
  PROVE  /\ universal_regions(i)' = universal_regions(i)
         /\ External(i)' = External(i)
         /\ Regions(i)' = Regions(i)
<1>1. universal_regions(i)' = universal_regions(i) /\ External(i)' = External(i)
  BY DEF universal_regions, External, num_global_and_external_regions
<1>2. Closures(i)' = Closures(i)
  BY ProgramKept
<1>3. ASSUME NEW c \in Closures(i)
      PROVE  Elements(closure_args(c))' = Elements(closure_args(c))
  <2>1. program.parent[c] = i
    BY <1>3 DEF Closures
  <2>2. closure_args(c)' = closure_args(c)
    BY <2>1, ArgsKept
  <2> QED
    BY <2>2 DEF Elements
<1>4. Regions(i) = universal_regions(i) \cup UNION {Elements(closure_args(c)) : c \in Closures(i)}
  BY DEF Regions
<1>5. Regions(i)' = universal_regions(i)' \cup UNION {Elements(closure_args(c))' : c \in Closures(i)'}
  BY DEF Regions
<1> QED
  BY <1>1, <1>2, <1>3, <1>4, <1>5

LEMMA CreateKept ==
  ASSUME program \in Programs, program' = program, NEW u, NEW i \in Items
  PROVE  create(u, i)' = create(u, i)
<1> DEFINE bounds == {<<Early(b[1]), Early(b[2])>> : b \in program.bounds}
<1>1. program.bounds' = program.bounds /\ program.implied[i]' = program.implied[i] /\ bounds' = bounds
  OBVIOUS
<1>2. ASSUME NEW B, \A e \in B : e[1][1] # "arg" /\ e[2][1] # "arg"
      PROVE  add_outlives_bounds(u, B)' = add_outlives_bounds(u, B)
  <2>1. \A e \in B : /\ to_region_vid(u, e[1])' = to_region_vid(u, e[1])
                     /\ to_region_vid(u, e[2])' = to_region_vid(u, e[2])
    BY <1>2, VidKept
  <2>2. add_outlives_bounds(u, B) = {<<to_region_vid(u, e[1]), to_region_vid(u, e[2])>> : e \in B}
    BY DEF add_outlives_bounds
  <2>3. add_outlives_bounds(u, B)' = {<<to_region_vid(u, e[1])', to_region_vid(u, e[2])'>> : e \in B}
    BY DEF add_outlives_bounds
  <2> QED
    BY <2>1, <2>2, <2>3
<1>3. \A e \in bounds : e[1][1] # "arg" /\ e[2][1] # "arg"
  BY DEF Early
<1>4. \A e \in program.implied[i] : e[1][1] # "arg" /\ e[2][1] # "arg"
  <2>1. \A r \in InputRegions(program, i) : r[1] # "arg"
    BY DEF InputRegions, Static, Early, Upvar, Late
  <2> QED
    BY <2>1, ProgramsAssumption DEF Items
<1>5. PICK B : B = bounds
  OBVIOUS
<1>6. PICK C : C = program.implied[i]
  OBVIOUS
<1>7. B = bounds' /\ C = program.implied[i]'
  BY <1>1, <1>5, <1>6
<1>8. /\ add_outlives_bounds(u, B)' = add_outlives_bounds(u, B)
      /\ add_outlives_bounds(u, C)' = add_outlives_bounds(u, C)
  BY <1>2, <1>3, <1>4, <1>5, <1>6
<1>9. create(u, i) = U(u)!RelationsFrom(add_outlives_bounds(u, B) \cup add_outlives_bounds(u, C))
  BY <1>5, <1>6 DEF create
<1>10. create(u, i)' = U(u)!RelationsFrom(add_outlives_bounds(u, B)' \cup add_outlives_bounds(u, C)')
  BY <1>7 DEF create
<1> QED
  BY <1>8, <1>9, <1>10

LEMMA HasRegionsKept ==
  ASSUME program \in Programs, program' = program, NEW i \in Items,
         universal'[i] = universal[i], known'[i] = known[i], HasRegions(i)
  PROVE  HasRegions(i)'
<1>1. PICK u : u = universal[i]
  OBVIOUS
<1>2. create(u, i)' = create(u, i)
  BY CreateKept
<1>3. known[i]' = create(u, i) /\ u = universal[i]' /\ u = build(i)'
  BY <1>1, ProgramKept DEF HasRegions, IsNumbered
<1> QED
  BY <1>2, <1>3 DEF HasRegions, IsNumbered

(* What an item is solved from does not change later.                      *)
LEMMA SolvedKept ==
  ASSUME program' = program, NEW i, universal'[i] = universal[i], known'[i] = known[i],
         constraints'[i] = constraints[i], type_tests'[i] = type_tests[i],
         reaches'[i] = reaches[i], errors'[i] = errors[i], requirements'[i] = requirements[i],
         type_requirements'[i] = type_requirements[i], Solved(i)
  PROVE  Solved(i)'
<1>1. /\ universal_regions(i)' = universal_regions(i) /\ External(i)' = External(i)
      /\ Regions(i)' = Regions(i)
  BY RegionsKept
<1>2. Granted(i)' = Granted(i)
  BY <1>1 DEF Granted, EdgesOf
<1>3. OwnBounds(i)' = OwnBounds(i)
  <2>1. ASSUME NEW r \in {FnBody(i)} \cup {Early(k) : k \in program.type_bounds}
        PROVE  to_region_vid(universal[i], r)' = to_region_vid(universal[i], r)
    BY EarlyVidKept
  <2>2. OwnBounds(i)' = {to_region_vid(universal[i], r)' :
                           r \in {FnBody(i)} \cup {Early(k) : k \in program.type_bounds}}
    BY DEF OwnBounds
  <2> QED
    BY <2>1, <2>2 DEF OwnBounds
<1>4. ASSUME NEW r PROVE Values(i, reaches[i], r)' = Values(i, reaches[i], r)
  BY <1>1 DEF Values
<1>5. FoundGranted(i) => FoundGranted(i)'
  BY <1>1, <1>2, <1>4 DEF FoundGranted
<1>6. TestsGranted(i) => TestsGranted(i)'
  BY <1>2, <1>3, <1>4 DEF TestsGranted
<1> QED
  BY <1>1, <1>5, <1>6 DEF Solved

(* Nor does what a closure's regions are for its creator.                  *)
LEMMA MappingKept ==
  ASSUME program \in Programs, program' = program, NEW c \in Items, c # 0,
         universal'[Parent(c)] = universal[Parent(c)]
  PROVE  closure_mapping(c)' = closure_mapping(c) /\ closure_args(c)' = closure_args(c)
<1>1. PICK p \in Items : p = Parent(c)
  BY ItemFacts
<1>2. closure_args(c)' = closure_args(c)
  BY ArgsKept DEF Parent
<1>3. PICK scope \in Seq(Triples) : scope = Scope(p)
  BY ScopeUnfolds
<1>4. \A n \in DOMAIN scope :
        to_region_vid(universal[p], scope[n])' = to_region_vid(universal[p], scope[n])
  <2>1. ASSUME NEW n \in DOMAIN scope
        PROVE  to_region_vid(universal[p], scope[n])' = to_region_vid(universal[p], scope[n])
    <3>1. n \in 1..Len(scope)
      BY <1>3
    <3>2. PICK j, k : scope[n] = Late(j, k)
      BY <1>3, <3>1, ScopeFacts
    <3> QED
      BY <1>1, <3>2, EarlyVidKept
  <2> QED
    BY <2>1
<1>5. to_region_vid(universal[p], Static)' = to_region_vid(universal[p], Static)
  BY <1>1, EarlyVidKept
<1>6. closure_mapping(c) = <<to_region_vid(universal[p], Static)>> \o closure_args(c)
                             \o [n \in DOMAIN scope |-> to_region_vid(universal[p], scope[n])]
  BY <1>1, <1>3 DEF closure_mapping, Parent, Scope
<1>7. closure_mapping(c)' = <<to_region_vid(universal[p], Static)'>> \o closure_args(c)'
                              \o [n \in DOMAIN scope |-> to_region_vid(universal[p], scope[n])']
  <2>1. p = Parent(c)' /\ scope = Scope(p)'
    BY <1>1, <1>3, ProgramKept
  <2> QED
    BY <2>1 DEF closure_mapping, Parent, Scope
<1>8. [n \in DOMAIN scope |-> to_region_vid(universal[p], scope[n])']
        = [n \in DOMAIN scope |-> to_region_vid(universal[p], scope[n])]
  BY <1>4
<1> QED
  BY <1>2, <1>5, <1>6, <1>7, <1>8

LEMMA PassedKept ==
  ASSUME program \in Programs, program' = program, NEW c \in Items, c # 0,
         universal'[Parent(c)] = universal[Parent(c)],
         requirements'[c] = requirements[c], type_requirements'[c] = type_requirements[c],
         constraints[Parent(c)] \subseteq constraints'[Parent(c)],
         type_tests[Parent(c)] \subseteq type_tests'[Parent(c)], Passed(c)
  PROVE  Passed(c)'
<1>1. closure_mapping(c)' = closure_mapping(c) /\ closure_args(c)' = closure_args(c)
  BY MappingKept
<1>2. Parent(c)' = Parent(c) /\ program.early' = program.early
  BY ProgramKept
<1>3. apply_closure_requirements(c)' = apply_closure_requirements(c) /\ convert(c)' = convert(c)
  BY <1>1 DEF apply_closure_requirements, convert
<1>4. \A k : to_region_vid(universal[Parent(c)], Early(k))' = to_region_vid(universal[Parent(c)], Early(k))
  <2>1. PICK p : p = Parent(c)
    OBVIOUS
  <2>2. universal'[p] = universal[p] /\ p = Parent(c)'
    BY <1>2, <2>1
  <2>3. \A k : to_region_vid(universal[p], Early(k))' = to_region_vid(universal[p], Early(k))
    BY <2>2, EarlyVidKept
  <2> QED
    BY <2>1, <2>2, <2>3
<1>5. Equated(c)'
  BY <1>1, <1>2, <1>4 DEF Equated, Passed
<1> QED
  BY <1>2, <1>3, <1>5 DEF Passed

-----------------------------------------------------------------------------
(* What solve finds is granted.                                            *)

(* What is known is a reflexive and transitive relation between universal  *)
(* regions; what stands for one of them is external.                       *)
LEMMA KnownFacts ==
  ASSUME program \in Programs, NEW i \in Items, HasRegions(i)
  PROVE  /\ known[i] \in [universal_regions(i) -> SUBSET universal_regions(i)]
         /\ \A a \in universal_regions(i) : a \in known[i][a]
         /\ \A a, b, c \in universal_regions(i) :
              b \in known[i][a] /\ c \in known[i][b] => c \in known[i][a]
         /\ \A fr \in universal_regions(i) :
              /\ \A a \in fr_minus(i, fr) : a \in known[i][fr] /\ a \in External(i)
              /\ \A a \in fr_plus(i, fr) : fr \in known[i][a] /\ a \in External(i)
<1>1. PICK u : u = universal[i]
  OBVIOUS
<1>2. PICK declared : known[i] = U(u)!RelationsFrom(declared)
  <2>1. known[i] = create(u, i)
    BY <1>1 DEF HasRegions
  <2> QED
    BY <2>1 DEF create
<1>3. Ordered(known[i], u)
  BY <1>2, RelationsFromFacts
<1>4. /\ universal_regions(i) = Universals(u) /\ Universals(u) = 0..Len(u.regions) - 1
      /\ External(i) = 0..u.first_local_index - 1
      /\ u.first_local_index \in Nat /\ Len(u.regions) \in Nat
  <2>1. u.first_local_index \in Nat
    <3>1. u.first_local_index = IF i = 0 THEN 1 ELSE Len(ExternalNames(i))
      BY <1>1, BuildFacts DEF HasRegions, IsNumbered
    <3> QED
      BY <3>1, BuildFacts
  <2> QED
    BY <1>1, <2>1, NumberedSizes
       DEF HasRegions, Universals, External, num_global_and_external_regions
<1>5. ASSUME NEW a \in Universals(u), ~U(u)!is_local_free_region(a)
      PROVE  a \in External(i)
  <2>1. a \notin u.first_local_index..Len(u.regions) - 1
    BY <1>5 DEF U!is_local_free_region
  <2> QED
    BY <1>4, <2>1
<1>6. /\ known[i] \in [Universals(u) -> SUBSET Universals(u)]
      /\ \A a \in Universals(u) : a \in known[i][a]
      /\ \A a, b, c \in Universals(u) : b \in known[i][a] /\ c \in known[i][b] => c \in known[i][a]
  BY <1>3 DEF Ordered
<1>7. ASSUME NEW fr \in Universals(u), NEW a \in fr_minus(i, fr)
      PROVE  a \in known[i][fr] /\ a \in External(i)
  <2>1. a \in U(u)!non_local_lower_bound(known[i], fr)
    BY <1>1, <1>7 DEF fr_minus
  <2>2. a \in known[i][fr] /\ ~U(u)!is_local_free_region(a)
    BY <1>3, <2>1, BoundsFacts
  <2> QED
    BY <1>5, <1>6, <2>2
<1>8. ASSUME NEW fr \in Universals(u), NEW a \in fr_plus(i, fr)
      PROVE  fr \in known[i][a] /\ a \in External(i)
  <2>1. a \in U(u)!non_local_upper_bounds(known[i], fr)
    BY <1>1, <1>8 DEF fr_plus
  <2>2. a \in Universals(u) /\ fr \in known[i][a] /\ ~U(u)!is_local_free_region(a)
    BY <1>3, <2>1, BoundsFacts
  <2> QED
    BY <1>5, <2>2
<1> QED
  BY <1>4, <1>6, <1>7, <1>8

(* What is granted contains what is known and what is asked for.           *)
LEMMA GrantedFacts ==
  ASSUME program \in Programs, NEW i \in Items, HasRegions(i), NEW asked
  PROVE  LET granted == Reach(universal_regions(i), EdgesOf(known[i]) \cup asked)
         IN  /\ granted \in [universal_regions(i) -> SUBSET universal_regions(i)]
             /\ \A a, b, c \in universal_regions(i) :
                  b \in granted[a] /\ c \in granted[b] => c \in granted[a]
             /\ \A a \in universal_regions(i) : known[i][a] \subseteq granted[a]
             /\ \A a, b \in universal_regions(i) : <<a, b>> \in asked => b \in granted[a]
<1>1. IsFiniteSet(universal_regions(i))
  BY RegionsAreFinite DEF HasRegions
<1>2. known[i] \in [universal_regions(i) -> SUBSET universal_regions(i)]
  BY KnownFacts
<1>3. PICK edges : edges = EdgesOf(known[i]) \cup asked
  OBVIOUS
<1>4. \A a \in universal_regions(i) : \A b \in known[i][a] : <<a, b>> \in edges
  BY <1>2, <1>3 DEF EdgesOf
<1>5. PICK granted : granted = Reach(universal_regions(i), edges)
  OBVIOUS
<1>6. /\ granted \in [universal_regions(i) -> SUBSET universal_regions(i)]
      /\ \A a, b, c \in universal_regions(i) :
           b \in granted[a] /\ c \in granted[b] => c \in granted[a]
      /\ \A a, b \in universal_regions(i) : <<a, b>> \in edges => b \in granted[a]
  BY <1>1, <1>5, ReachIsClosure
<1>7. \A a \in universal_regions(i) : known[i][a] \subseteq granted[a]
  BY <1>2, <1>4, <1>6
<1> QED
  BY <1>3, <1>5, <1>6, <1>7

(* Each universal region is compared with its component's representative,  *)
(* and that with all that the value holds.                                 *)
LEMMA CheckedSuffices ==
  ASSUME program \in Programs, NEW i \in Items, IsNumbered(i),
         NEW reached, NEW edges, reached = Reach(Regions(i), edges),
         NEW fr \in universal_regions(i), NEW v \in Values(i, reached, fr)
  PROVE  \E rep \in universal_regions(i) :
           /\ rep \in CheckedAgainst(i, reached, fr) \/ rep = fr
           /\ v \in CheckedAgainst(i, reached, rep)
<1>1. /\ IsFiniteSet(Regions(i)) /\ universal_regions(i) \subseteq Regions(i)
      /\ universal_regions(i) \subseteq Nat
  BY RegionsAreFinite, NumberedSizes
<1>2. /\ reached \in [Regions(i) -> SUBSET Regions(i)]
      /\ \A a \in Regions(i) : a \in reached[a]
      /\ \A a, b, c \in Regions(i) : b \in reached[a] /\ c \in reached[b] => c \in reached[a]
  BY <1>1, ReachIsClosure
<1> DEFINE Same(a) == {r \in Values(i, reached, a) : a \in reached[r]}
           Rep(a) == CHOOSE r \in Values(i, reached, a) :
                       a \in reached[r] /\ \A q \in Values(i, reached, a) : a \in reached[q] => r <= q
<1>3. ASSUME NEW a \in universal_regions(i)
      PROVE  /\ Rep(a) \in Same(a) /\ \A q \in Same(a) : Rep(a) <= q
             /\ CheckedAgainst(i, reached, a) = IF Rep(a) = a THEN Values(i, reached, a) ELSE {Rep(a)}
  <2>1. a \in Same(a) /\ Same(a) \in SUBSET Nat
    BY <1>1, <1>2, <1>3 DEF Values
  <2>2. PICK m \in Same(a) : \A q \in Same(a) : m <= q
    <3> HIDE DEF Same
    <3> QED
      BY <2>1, LeastElement
  <2>3. m \in Values(i, reached, a) /\ a \in reached[m]
        /\ \A q \in Values(i, reached, a) : a \in reached[q] => m <= q
    BY <2>2
  <2>4. /\ Rep(a) \in Values(i, reached, a) /\ a \in reached[Rep(a)]
        /\ \A q \in Values(i, reached, a) : a \in reached[q] => Rep(a) <= q
    BY <2>3
  <2>5. CheckedAgainst(i, reached, a) = IF Rep(a) = a THEN Values(i, reached, a) ELSE {Rep(a)}
    BY DEF CheckedAgainst
  <2> HIDE DEF Rep
  <2> QED
    BY <2>4, <2>5
<1>4. PICK rep : rep = Rep(fr)
  OBVIOUS
<1>5. /\ rep \in Same(fr) /\ \A q \in Same(fr) : rep <= q
      /\ CheckedAgainst(i, reached, fr) = IF rep = fr THEN Values(i, reached, fr) ELSE {rep}
  BY <1>3, <1>4
<1>6. rep \in universal_regions(i) /\ rep \in reached[fr] /\ fr \in reached[rep]
  BY <1>5 DEF Values
<1>7. reached[rep] = reached[fr]
  <2>1. rep \in Regions(i) /\ fr \in Regions(i)
    BY <1>1, <1>6
  <2>2. reached[rep] \subseteq Regions(i) /\ reached[fr] \subseteq Regions(i)
    BY <1>2, <2>1
  <2>3. \A c \in Regions(i) : c \in reached[rep] <=> c \in reached[fr]
    BY <1>2, <1>6, <2>1
  <2> QED
    BY <2>2, <2>3
<1>8. Values(i, reached, rep) = Values(i, reached, fr) /\ Same(rep) = Same(fr)
  <2>1. Values(i, reached, rep) = Values(i, reached, fr)
    BY <1>7 DEF Values
  <2>2. \A r \in universal_regions(i) : fr \in reached[r] <=> rep \in reached[r]
    BY <1>1, <1>2, <1>6
  <2> QED
    BY <2>1, <2>2 DEF Values
<1>9. PICK first : first = Rep(rep)
  OBVIOUS
<1>10. /\ first \in Same(rep) /\ \A q \in Same(rep) : first <= q
       /\ CheckedAgainst(i, reached, rep) = IF first = rep THEN Values(i, reached, rep) ELSE {first}
  BY <1>3, <1>6, <1>9
<1>11. first = rep
  <2>1. first <= rep /\ rep <= first
    BY <1>5, <1>8, <1>10
  <2>2. first \in Nat /\ rep \in Nat
    BY <1>1, <1>6, <1>10 DEF Values
  <2> QED
    BY <2>1, <2>2
<1>12. v \in CheckedAgainst(i, reached, rep)
  BY <1>8, <1>10, <1>11
<1> QED
  BY <1>5, <1>6, <1>12

(* If the item has no error and its assertions hold, what it found is      *)
(* known or follows from what it asks of its creator.                      *)
LEMMA SolutionIsGranted ==
  ASSUME program \in Programs, NEW i \in Items, HasRegions(i),
         NEW reached, NEW edges, reached = Reach(Regions(i), edges),
         \A e \in Unproven(i, reached) : e \in Propagates(i, Unproven(i, reached)),
         \A e \in Propagates(i, Unproven(i, reached)) : fr_plus(i, e[2]) # {},
         \A fr \in Unshown(i, reached) : fr_plus(i, fr) # {},
         i = 0 => Failed(i, reached) = {},
         NEW asked, Propagated(i, Unproven(i, reached)) \subseteq asked,
         NEW bounds, OwnBounds(i) \subseteq bounds,
         \A fr \in Unshown(i, reached) : fr_plus(i, fr) \subseteq bounds
  PROVE  LET granted == Reach(universal_regions(i), EdgesOf(known[i]) \cup asked)
         IN  /\ \A fr \in universal_regions(i) : Values(i, reached, fr) \subseteq granted[fr]
             /\ \A lb \in type_tests[i] : \A fr \in Values(i, reached, lb) :
                  \E o \in bounds : fr \in granted[o]
<1>1. PICK granted : granted = Reach(universal_regions(i), EdgesOf(known[i]) \cup asked)
  OBVIOUS
<1>2. /\ granted \in [universal_regions(i) -> SUBSET universal_regions(i)]
      /\ \A a, b, c \in universal_regions(i) : b \in granted[a] /\ c \in granted[b] => c \in granted[a]
      /\ \A a \in universal_regions(i) : known[i][a] \subseteq granted[a]
      /\ \A a, b \in universal_regions(i) : <<a, b>> \in asked => b \in granted[a]
  BY <1>1, GrantedFacts
<1>3. /\ known[i] \in [universal_regions(i) -> SUBSET universal_regions(i)]
      /\ \A a \in universal_regions(i) : a \in known[i][a]
      /\ \A fr \in universal_regions(i) :
           /\ \A a \in fr_minus(i, fr) : a \in known[i][fr] /\ a \in External(i)
           /\ \A a \in fr_plus(i, fr) : fr \in known[i][a] /\ a \in External(i)
  BY KnownFacts
<1>4. External(i) \subseteq universal_regions(i) /\ IsFiniteSet(Regions(i))
      /\ universal_regions(i) \subseteq Regions(i) /\ IsNumbered(i)
  BY NumberedSizes, RegionsAreFinite DEF HasRegions
<1>5. ASSUME NEW a \in universal_regions(i), NEW b \in universal_regions(i),
             b \in CheckedAgainst(i, reached, a)
      PROVE  b \in granted[a]
  <2>1. CASE b \in known[i][a]
    BY <1>2, <2>1
  <2>2. CASE b \notin known[i][a]
    <3>1. PICK e : e = <<a, b>>
      OBVIOUS
    <3>2. e \in Unproven(i, reached)
      BY <1>5, <2>2, <3>1 DEF Unproven
    <3>3. e \in Propagates(i, Unproven(i, reached))
      BY <3>2
    <3>4. PICK m \in fr_minus(i, a) : TRUE
      BY <3>1, <3>3 DEF Propagates
    <3>5. PICK p \in fr_plus(i, b) : TRUE
      BY <3>1, <3>3
    <3>6. <<m, p>> \in asked
      BY <3>1, <3>2, <3>4, <3>5 DEF Propagated
    <3>7. m \in known[i][a] /\ b \in known[i][p] /\ m \in universal_regions(i) /\ p \in universal_regions(i)
      BY <1>3, <1>4, <3>4, <3>5
    <3>8. m \in granted[a] /\ p \in granted[m] /\ b \in granted[p]
      BY <1>2, <3>6, <3>7
    <3> QED
      BY <1>2, <3>7, <3>8
  <2> QED
    BY <2>1, <2>2
<1>6. ASSUME NEW fr \in universal_regions(i), NEW v \in Values(i, reached, fr)
      PROVE  v \in granted[fr]
  <2>1. PICK rep \in universal_regions(i) :
           /\ rep \in CheckedAgainst(i, reached, fr) \/ rep = fr
           /\ v \in CheckedAgainst(i, reached, rep)
    BY <1>4, CheckedSuffices
  <2>2. v \in universal_regions(i)
    BY DEF Values
  <2>3. v \in granted[rep]
    BY <1>5, <2>1, <2>2
  <2>4. rep = fr \/ rep \in granted[fr]
    BY <1>5, <2>1
  <2> QED
    BY <1>2, <2>1, <2>2, <2>3, <2>4
<1>7. ASSUME NEW lb, eval_verify_bound(i, reached, lb), NEW fr \in Values(i, reached, lb)
      PROVE  \E o \in bounds : fr \in granted[o]
  <2>1. PICK r \in {FnBody(i)} \cup {Early(k) : k \in program.type_bounds} :
           eval_outlives(i, reached, to_region_vid(universal[i], r), lb)
    BY <1>7 DEF eval_verify_bound
  <2>2. PICK o : o = to_region_vid(universal[i], r)
    OBVIOUS
  <2>3. o \in bounds
    BY <2>2 DEF OwnBounds
  <2>4. o \in universal_regions(i)
    <3>1. r \in Elements(Built(i)) /\ r[1] # "arg"
      <4>1. program.type_bounds \subseteq 1..program.early
        BY ProgramsAssumption
      <4>2. CASE r = FnBody(i)
        BY <4>2, Numbered DEF FnBody
      <4>3. CASE r # FnBody(i)
        <5>1. PICK k \in 1..program.early : r = Early(k)
          BY <2>1, <4>1, <4>3
        <5> QED
          BY <5>1, Numbered DEF Early
      <4> QED
        BY <4>2, <4>3
    <3> QED
      BY <1>4, <2>2, <3>1, NumberedVids
  <2>5. PICK r2 \in Values(i, reached, o) : fr \in known[i][r2]
    BY <1>7, <2>1, <2>2 DEF eval_outlives
  <2>6. r2 \in universal_regions(i) /\ fr \in universal_regions(i)
    BY <1>7 DEF Values
  <2>7. r2 \in granted[o] /\ fr \in granted[r2]
    BY <1>2, <1>6, <2>4, <2>5, <2>6
  <2> QED
    BY <1>2, <2>3, <2>4, <2>6, <2>7
<1>8. ASSUME NEW lb \in type_tests[i], NEW fr \in Values(i, reached, lb)
      PROVE  \E o \in bounds : fr \in granted[o]
  <2>1. CASE eval_verify_bound(i, reached, lb)
    BY <1>7, <1>8, <2>1
  <2>2. CASE ~eval_verify_bound(i, reached, lb)
    <3>1. lb \in Failed(i, reached) /\ i # 0
      BY <1>8, <2>2 DEF Failed
    <3>2. fr \in universal_regions(i) /\ fr \in Values(i, reached, fr)
      <4>1. fr \in universal_regions(i)
        BY <1>8 DEF Values
      <4>2. fr \in reached[fr]
        BY <1>4, <4>1, ReachIsClosure
      <4> QED
        BY <4>1, <4>2 DEF Values
    <3>3. CASE eval_verify_bound(i, reached, fr)
      BY <1>7, <3>2, <3>3
    <3>4. CASE ~eval_verify_bound(i, reached, fr)
      <4>1. fr \in Unshown(i, reached)
        BY <1>8, <3>1, <3>4 DEF Unshown
      <4>2. PICK o \in fr_plus(i, fr) : TRUE
        BY <4>1
      <4>3. o \in bounds /\ fr \in known[i][o] /\ o \in universal_regions(i)
        BY <1>3, <1>4, <3>2, <4>1, <4>2
      <4> QED
        BY <1>2, <4>3
    <3> QED
      BY <3>3, <3>4
  <2> QED
    BY <2>1, <2>2
<1> QED
  BY <1>1, <1>6, <1>8

-----------------------------------------------------------------------------
(* The invariant holds.                                                    *)

LEMMA InvInit == Init => Inv
<1> SUFFICES ASSUME Init PROVE Inv
  OBVIOUS
<1>1. program \in Programs /\ item = Cardinality(Items) - 1 /\ pc = "new" /\ todo = {}
  BY DEF Init
<1>2. item \in Items /\ \A i \in Items : ~(i > item)
  BY <1>1, ItemFacts
<1>3. TypeInv
  BY <1>1, <1>2 DEF Init, TypeInv
<1>4. NumberedInv /\ SolvedInv
  BY <1>1, <1>2 DEF NumberedInv, SolvedInv
<1>5. PassedInv
  <2>1. \A c \in Items : c # 0 => Parent(c) \in Items
    BY <1>1, ItemFacts
  <2> QED
    BY <1>1, <1>2, <2>1 DEF PassedInv, IsChecked
<1> QED
  BY <1>3, <1>4, <1>5 DEF Inv

(* The item that is checked is a number, and items stay what they are.     *)
LEMMA ItemIsNumber ==
  ASSUME TypeInv, program' = program
  PROVE  /\ program \in Programs /\ item \in Items /\ item \in Nat
         /\ Items' = Items
         /\ \A i \in Items : i \in Nat /\ (i # 0 => Parent(i) \in Items /\ Parent(i) < i)
<1>1. program \in Programs /\ item \in Items
  BY DEF TypeInv
<1>2. PICK N \in Nat : Items = 0..N
  BY <1>1, ItemFacts
<1>3. \A i \in Items : i \in Nat
  BY <1>2
<1>4. \A i \in Items : i # 0 => Parent(i) \in Items /\ Parent(i) < i
  BY <1>1, <1>3, ItemFacts
<1>5. Items' = Items
  BY ProgramKept
<1> QED
  BY <1>1, <1>3, <1>4, <1>5

LEMMA InvNew ==
  ASSUME Inv, new
  PROVE  Inv'
<1>1. TypeInv /\ NumberedInv /\ SolvedInv /\ PassedInv
  BY DEF Inv
<1>2. /\ pc = "new" /\ pc' = "typeck"
      /\ program' = program /\ item' = item /\ todo' = todo
      /\ universal' = [universal EXCEPT ![item] = build(item)]
      /\ known' = [known EXCEPT ![item] = create(build(item), item)]
      /\ constraints' = constraints /\ type_tests' = type_tests /\ reaches' = reaches
      /\ requirements' = requirements /\ type_requirements' = type_requirements
      /\ errors' = errors
  BY DEF new, graph, results
<1>3. program \in Programs /\ item \in Items /\ item \in Nat /\ Items' = Items
      /\ DOMAIN universal = Items /\ DOMAIN known = Items
  BY <1>1, <1>2, ItemIsNumber DEF TypeInv
<1>4. TypeInv'
  BY <1>1, <1>2, <1>3 DEF TypeInv
<1>5. \A i \in Items : i # item => universal'[i] = universal[i] /\ known'[i] = known[i]
  BY <1>2, <1>3
<1>6. NumberedInv'
  <2>1. ASSUME NEW i \in Items, i > item PROVE HasRegions(i)'
    <3>1. HasRegions(i)
      BY <1>1, <2>1 DEF NumberedInv
    <3>2. universal'[i] = universal[i] /\ known'[i] = known[i]
      BY <1>3, <1>5, <2>1
    <3> QED
      BY <1>2, <1>3, <3>1, <3>2, HasRegionsKept
  <2>2. HasRegions(item)'
    <3>1. PICK u : u = build(item)
      OBVIOUS
    <3>0. PICK i \in Items : i = item
      BY <1>3
    <3>2. u = build(i)' /\ universal'[i] = u /\ known'[i] = create(u, i)
      BY <1>2, <1>3, <3>0, <3>1, ProgramKept
    <3>3. create(u, i)' = create(u, i)
      BY <1>2, <1>3, CreateKept
    <3>4. HasRegions(i)'
      BY <3>2, <3>3 DEF HasRegions, IsNumbered
    <3> QED
      BY <1>2, <3>0, <3>4
  <2> QED
    BY <1>2, <1>3, <2>1, <2>2 DEF NumberedInv
<1>7. SolvedInv'
  <2>1. ASSUME NEW i \in Items, i > item PROVE Solved(i)'
    <3>1. Solved(i) /\ i # item
      BY <1>1, <1>3, <2>1 DEF SolvedInv
    <3> QED
      BY <1>2, <1>5, <3>1, SolvedKept
  <2> QED
    BY <1>2, <1>3, <2>1 DEF SolvedInv
<1>8. PassedInv'
  <2>1. ASSUME NEW c \in Items, c # 0, Parent(c) > item
        PROVE  Passed(c)'
    <3>1. Passed(c)
      BY <1>1, <2>1 DEF PassedInv, IsChecked
    <3>2. Parent(c) \in Items /\ Parent(c) # item
      BY <1>3, <2>1, ItemFacts
    <3>3. universal'[Parent(c)] = universal[Parent(c)]
      BY <1>5, <3>2
    <3> QED
      BY <1>2, <1>3, <2>1, <3>1, <3>3, PassedKept
  <2>2. \A c : IsChecked(c)' => Parent(c) > item
    BY <1>2, ProgramKept DEF IsChecked
  <2> QED
    BY <1>3, <2>1, <2>2 DEF PassedInv
<1> QED
  BY <1>4, <1>6, <1>7, <1>8 DEF Inv

LEMMA InvTypeck ==
  ASSUME Inv, typeck_mir
  PROVE  Inv'
<1>1. TypeInv /\ NumberedInv /\ SolvedInv /\ PassedInv
  BY DEF Inv
<1>2. /\ pc = "typeck" /\ pc' = "closures"
      /\ program' = program /\ item' = item /\ todo' = Closures(item)
      /\ universal' = universal /\ known' = known /\ reaches' = reaches
      /\ requirements' = requirements /\ type_requirements' = type_requirements
      /\ errors' = errors
      /\ \E C : constraints' = [constraints EXCEPT ![item] = C]
      /\ \E T : type_tests' = [type_tests EXCEPT ![item] = T]
  BY DEF typeck_mir, facts, results
<1>3. program \in Programs /\ item \in Items /\ item \in Nat /\ Items' = Items
      /\ DOMAIN constraints = Items /\ DOMAIN type_tests = Items
  BY <1>1, <1>2, ItemIsNumber DEF TypeInv
<1>4. TypeInv'
  BY <1>1, <1>2, <1>3 DEF TypeInv
<1>5. \A i \in Items : i # item => constraints'[i] = constraints[i] /\ type_tests'[i] = type_tests[i]
  BY <1>2, <1>3
<1>6. NumberedInv'
  <2>1. ASSUME NEW i \in Items, i > item \/ i = item
        PROVE  HasRegions(i)'
    <3>1. HasRegions(i)
      BY <1>1, <1>2, <2>1 DEF NumberedInv
    <3> QED
      BY <1>2, <1>3, <3>1, HasRegionsKept
  <2> QED
    BY <1>2, <1>3, <2>1 DEF NumberedInv
<1>7. SolvedInv'
  <2>1. ASSUME NEW i \in Items, i > item PROVE Solved(i)'
    <3>1. Solved(i) /\ i # item
      BY <1>1, <1>3, <2>1 DEF SolvedInv
    <3> QED
      BY <1>2, <1>5, <3>1, SolvedKept
  <2> QED
    BY <1>2, <1>3, <2>1 DEF SolvedInv
<1>8. PassedInv'
  <2>1. ASSUME NEW c \in Items, c # 0, Parent(c) > item
        PROVE  Passed(c)'
    <3>1. Passed(c)
      BY <1>1, <2>1 DEF PassedInv, IsChecked
    <3>2. Parent(c) \in Items /\ Parent(c) # item
      BY <1>3, <2>1, ItemFacts
    <3>3. constraints'[Parent(c)] = constraints[Parent(c)] /\ type_tests'[Parent(c)] = type_tests[Parent(c)]
      BY <1>5, <3>2
    <3> QED
      BY <1>2, <1>3, <2>1, <3>1, <3>3, PassedKept
  <2>2. \A c \in Items : c # 0 /\ IsChecked(c)' => Parent(c) > item
    <3>1. ASSUME NEW c \in Items, c # 0, IsChecked(c)'
          PROVE  Parent(c) > item
      <4>1. Parent(c) > item \/ (Parent(c) = item /\ c \notin Closures(item))
        BY <1>2, <3>1, ProgramKept DEF IsChecked
      <4>2. Parent(c) = item => c \in Closures(item)
        BY <3>1 DEF Closures, Parent
      <4> QED
        BY <4>1, <4>2
    <3> QED
      BY <3>1
  <2> QED
    BY <1>3, <2>1, <2>2 DEF PassedInv
<1> QED
  BY <1>4, <1>6, <1>7, <1>8 DEF Inv

LEMMA InvProve ==
  ASSUME Inv, NEW c \in todo, prove_closure_bounds(c)
  PROVE  Inv'
<1>1. TypeInv /\ NumberedInv /\ SolvedInv /\ PassedInv
  BY DEF Inv
<1>2. /\ pc = "closures" /\ pc' \in {pc, "panicked"}
      /\ program' = program /\ item' = item /\ todo' = todo \ {c}
      /\ universal' = universal /\ known' = known /\ reaches' = reaches
      /\ requirements' = requirements /\ type_requirements' = type_requirements
      /\ errors' = errors
      /\ constraints' = [constraints EXCEPT ![item] =
                           constraints[item] \cup apply_closure_requirements(c) \cup equated_args(c)]
      /\ type_tests' = [type_tests EXCEPT ![item] = type_tests[item] \cup convert(c)]
  BY DEF prove_closure_bounds, facts, results
<1>3. program \in Programs /\ item \in Items /\ item \in Nat /\ Items' = Items
      /\ DOMAIN constraints = Items /\ DOMAIN type_tests = Items
  BY <1>1, <1>2, ItemIsNumber DEF TypeInv
<1>4. TypeInv'
  BY <1>1, <1>2, <1>3 DEF TypeInv
<1>5. /\ \A i \in Items : i # item => constraints'[i] = constraints[i] /\ type_tests'[i] = type_tests[i]
      /\ constraints'[item] = constraints[item] \cup apply_closure_requirements(c) \cup equated_args(c)
      /\ type_tests'[item] = type_tests[item] \cup convert(c)
  BY <1>2, <1>3
<1>6. NumberedInv'
  <2>1. ASSUME NEW i \in Items, i > item \/ i = item
        PROVE  HasRegions(i)'
    <3>1. HasRegions(i)
      BY <1>1, <1>2, <2>1 DEF NumberedInv
    <3> QED
      BY <1>2, <1>3, <3>1, HasRegionsKept
  <2> QED
    BY <1>2, <1>3, <2>1 DEF NumberedInv
<1>7. SolvedInv'
  <2>1. ASSUME NEW i \in Items, i > item PROVE Solved(i)'
    <3>1. Solved(i) /\ i # item
      BY <1>1, <1>3, <2>1 DEF SolvedInv
    <3> QED
      BY <1>2, <1>5, <3>1, SolvedKept
  <2> QED
    BY <1>2, <1>3, <2>1 DEF SolvedInv
<1>8. PassedInv'
  <2>1. ASSUME NEW d \in Items, d # 0, IsChecked(d)
        PROVE  Passed(d)'
    <3>1. Passed(d)
      BY <1>1, <2>1 DEF PassedInv
    <3>2. Parent(d) \in Items
      BY <1>3, <2>1, ItemFacts
    <3>3. constraints[Parent(d)] \subseteq constraints'[Parent(d)]
          /\ type_tests[Parent(d)] \subseteq type_tests'[Parent(d)]
      BY <1>5, <3>2
    <3> QED
      BY <1>2, <1>3, <2>1, <3>1, <3>3, PassedKept
  <2>2. ASSUME c \in Items, c # 0, Parent(c) = item
        PROVE  Passed(c)'
    <3>1. PICK p \in Items : p = item /\ p = Parent(c) /\ p = Parent(c)'
      BY <1>2, <1>3, <2>2, ProgramKept
    <3>2. closure_mapping(c)' = closure_mapping(c) /\ closure_args(c)' = closure_args(c)
      BY <1>2, <1>3, <2>2, MappingKept
    <3>3. apply_closure_requirements(c)' = apply_closure_requirements(c) /\ convert(c)' = convert(c)
      BY <1>2, <3>2 DEF apply_closure_requirements, convert
    <3>4. ASSUME NEW k \in 1..program.early
          PROVE  LET own == to_region_vid(universal[p], Early(k))
                 IN  /\ own' = own /\ <<closure_args(c)[k], own>> \in equated_args(c)
                     /\ <<own, closure_args(c)[k]>> \in equated_args(c)
      <4>1. to_region_vid(universal[p], Early(k))' = to_region_vid(universal[p], Early(k))
        BY <1>2, EarlyVidKept
      <4> QED
        BY <3>1, <4>1 DEF equated_args
    <3>5. /\ equated_args(c) \subseteq constraints'[p]
          /\ apply_closure_requirements(c) \subseteq constraints'[p]
          /\ convert(c) \subseteq type_tests'[p]
      BY <1>5, <3>1
    <3>6. program.early' = program.early
      BY <1>2
    <3>7. Equated(c)'
      BY <3>1, <3>2, <3>4, <3>5, <3>6 DEF Equated
    <3> QED
      BY <3>1, <3>3, <3>5, <3>7 DEF Passed
  <2>3. \A d : IsChecked(d)' => IsChecked(d) \/ (d = c /\ Parent(c) = item)
    BY <1>2, ProgramKept DEF IsChecked
  <2> QED
    BY <1>3, <2>1, <2>2, <2>3 DEF PassedInv
<1> QED
  BY <1>4, <1>6, <1>7, <1>8 DEF Inv

(* What solve asks of the creator is about regions that the creator can    *)
(* name; the function asks for nothing.                                    *)
LEMMA AskedFacts ==
  ASSUME program \in Programs, NEW i \in Items, HasRegions(i), NEW reached
  PROVE  /\ Propagated(i, Unproven(i, reached)) \subseteq External(i) \X External(i)
         /\ UNION {fr_plus(i, fr) : fr \in Unshown(i, reached)} \subseteq External(i)
         /\ i = 0 => /\ Propagated(i, Unproven(i, reached)) = {}
                     /\ Unshown(i, reached) = {}
<1>1. \A fr \in universal_regions(i) :
        fr_minus(i, fr) \subseteq External(i) /\ fr_plus(i, fr) \subseteq External(i)
  BY KnownFacts
<1>2. ASSUME NEW e \in Unproven(i, reached)
      PROVE  e[1] \in universal_regions(i) /\ e[2] \in universal_regions(i)
  BY <1>2 DEF Unproven
<1>3. ASSUME NEW fr \in Unshown(i, reached)
      PROVE  fr \in universal_regions(i)
  BY <1>3 DEF Unshown, Values
<1>4. \A e \in Unproven(i, reached) :
        fr_minus(i, e[1]) \subseteq External(i) /\ fr_plus(i, e[2]) \subseteq External(i)
  BY <1>1, <1>2
<1>5. Propagated(i, Unproven(i, reached)) \subseteq External(i) \X External(i)
  BY <1>4 DEF Propagated
<1>6. i = 0 => \A e : fr_minus(i, e) = {}
  BY DEF fr_minus
<1>7. i = 0 => Propagated(i, Unproven(i, reached)) = {}
  BY <1>6 DEF Propagated
<1>8. i = 0 => Unshown(i, reached) = {}
  BY DEF Unshown
<1> QED
  BY <1>1, <1>3, <1>5, <1>7, <1>8

LEMMA InvSolve ==
  ASSUME Inv, solve
  PROVE  Inv'
<1>1. TypeInv /\ NumberedInv /\ SolvedInv /\ PassedInv
  BY DEF Inv
<1>2. PICK reached : reached = Reach(Regions(item), constraints[item] \cup ({0} \X Regions(item)))
  OBVIOUS
<1>3. PICK unproven : unproven = Unproven(item, reached)
  OBVIOUS
<1>4. PICK asked : asked = Propagated(item, unproven)
  OBVIOUS
<1>5. PICK tests : tests = UNION {fr_plus(item, fr) : fr \in Unshown(item, reached)}
  OBVIOUS
<1>6. PICK found : found = {<<"RegionError", e[1], e[2]>> : e \in unproven \ Propagates(item, unproven)}
                    \cup {<<"TypeTestError", lb, lb>> : lb \in {l \in Failed(item, reached) : item = 0}}
  OBVIOUS
<1>7. PICK raised : raised = Unshown(item, reached) \cup {e[2] : e \in Propagates(item, unproven)}
  OBVIOUS
<1>8. /\ pc = "closures" /\ todo = {} /\ todo' = todo
      /\ program' = program /\ universal' = universal /\ known' = known
      /\ constraints' = constraints /\ type_tests' = type_tests
      /\ reaches' = [reaches EXCEPT ![item] = reached]
      /\ requirements' = [requirements EXCEPT ![item] = asked]
      /\ type_requirements' = [type_requirements EXCEPT ![item] = tests]
      /\ errors' = [errors EXCEPT ![item] = found]
      /\ \/ pc' = "panicked" /\ item' = item
         \/ /\ \A fr \in raised : fr_plus(item, fr) # {}
            /\ \/ item = 0 /\ pc' = "done" /\ item' = item
               \/ item # 0 /\ pc' = "new" /\ item' = item - 1
  BY <1>2, <1>3, <1>4, <1>5, <1>6, <1>7 DEF solve, facts, graph, U!fr_static
<1>9. /\ program \in Programs /\ item \in Items /\ item \in Nat /\ Items' = Items
      /\ DOMAIN reaches = Items /\ DOMAIN errors = Items
      /\ DOMAIN requirements = Items /\ DOMAIN type_requirements = Items
      /\ \A i \in Items : i \in Nat /\ (i # 0 => Parent(i) \in Items /\ Parent(i) < i)
  BY <1>1, <1>8, ItemIsNumber DEF TypeInv
<1>10. item # 0 => item - 1 \in Items
  <2>1. PICK N \in Nat : Items = 0..N
    BY <1>9, ItemFacts
  <2> QED
    BY <1>9, <2>1
<1>11. TypeInv'
  BY <1>1, <1>8, <1>9, <1>10 DEF TypeInv
<1>12. /\ \A i \in Items : i # item =>
            /\ reaches'[i] = reaches[i] /\ errors'[i] = errors[i]
            /\ requirements'[i] = requirements[i] /\ type_requirements'[i] = type_requirements[i]
       /\ reaches'[item] = reached /\ errors'[item] = found
       /\ requirements'[item] = asked /\ type_requirements'[item] = tests
  BY <1>8, <1>9
<1>13. \A i \in Items : (i > item' => i > item \/ i = item) /\ (i = item' /\ pc' # "new" => i = item)
  BY <1>8, <1>9
<1>14. NumberedInv'
  <2>1. ASSUME NEW i \in Items, i > item \/ i = item
        PROVE  HasRegions(i)'
    <3>1. HasRegions(i)
      BY <1>1, <1>8, <2>1 DEF NumberedInv
    <3> QED
      BY <1>8, <1>9, <3>1, HasRegionsKept
  <2> QED
    BY <1>9, <1>13, <2>1 DEF NumberedInv
<1>15. SolvedInv'
  <2>1. ASSUME NEW i \in Items, i > item PROVE Solved(i)'
    <3>1. Solved(i) /\ i # item
      BY <1>1, <1>9, <2>1 DEF SolvedInv
    <3> QED
      BY <1>8, <1>12, <3>1, SolvedKept
  <2>2. ASSUME pc' # "panicked", NEW i \in Items, i = item
        PROVE  Solved(i)'
    <3>1. HasRegions(i)
      BY <1>1, <1>8, <2>2 DEF NumberedInv
    <3>2. /\ universal_regions(i)' = universal_regions(i) /\ External(i)' = External(i)
          /\ Regions(i)' = Regions(i)
      BY <1>8, RegionsKept
    <3>3. /\ reached = Reach(Regions(i), constraints[i] \cup ({0} \X Regions(i)))
          /\ unproven = Unproven(i, reached) /\ asked = Propagated(i, unproven)
          /\ tests = UNION {fr_plus(i, fr) : fr \in Unshown(i, reached)}
          /\ found = {<<"RegionError", e[1], e[2]>> : e \in unproven \ Propagates(i, unproven)}
                      \cup {<<"TypeTestError", lb, lb>> : lb \in {l \in Failed(i, reached) : i = 0}}
          /\ raised = Unshown(i, reached) \cup {e[2] : e \in Propagates(i, unproven)}
          /\ \A fr \in raised : fr_plus(i, fr) # {}
      BY <1>2, <1>3, <1>4, <1>5, <1>6, <1>7, <1>8, <2>2
    <3>4. /\ reaches[i]' = reached /\ requirements[i]' = asked
          /\ type_requirements[i]' = tests /\ errors[i]' = found
      BY <1>12, <2>2
    <3>5. /\ asked \subseteq External(i) \X External(i) /\ tests \subseteq External(i)
          /\ i = 0 => asked = {} /\ tests = {}
      BY <1>9, <3>1, <3>3, AskedFacts
    <3>6. ASSUME found = {}
          PROVE  /\ \A e \in Unproven(i, reached) : e \in Propagates(i, Unproven(i, reached))
                 /\ i = 0 => Failed(i, reached) = {}
      <4>1. PICK propagates : propagates = Propagates(i, unproven)
        OBVIOUS
      <4>2. PICK failed : failed = Failed(i, reached)
        OBVIOUS
      <4>3. /\ {<<"RegionError", e[1], e[2]>> : e \in unproven \ propagates} = {}
            /\ {<<"TypeTestError", lb, lb>> : lb \in {l \in failed : i = 0}} = {}
        BY <3>3, <3>6, <4>1, <4>2
      <4>4. \A e \in unproven : e \in propagates
        BY <4>3
      <4>5. i = 0 => failed = {}
        BY <4>3
      <4> QED
        BY <3>3, <4>1, <4>2, <4>4, <4>5
    <3>7. /\ \A e \in Propagates(i, Unproven(i, reached)) : fr_plus(i, e[2]) # {}
          /\ \A fr \in Unshown(i, reached) : fr_plus(i, fr) # {} /\ fr_plus(i, fr) \subseteq tests
      BY <3>3
    <3>8. PICK granted : granted = Reach(universal_regions(i), EdgesOf(known[i]) \cup asked)
      OBVIOUS
    <3>9. PICK bounds : bounds = OwnBounds(i) \cup tests
      OBVIOUS
    <3>10. ASSUME found = {}
           PROVE  /\ \A fr \in universal_regions(i) : Values(i, reached, fr) \subseteq granted[fr]
                  /\ \A lb \in type_tests[i] : \A fr \in Values(i, reached, lb) :
                       \E o \in bounds : fr \in granted[o]
      <4>1. /\ \A e \in Unproven(i, reached) : e \in Propagates(i, Unproven(i, reached))
            /\ i = 0 => Failed(i, reached) = {}
        BY <3>6, <3>10
      <4>2. PICK edges : reached = Reach(Regions(i), edges)
        BY <3>3
      <4>3. Propagated(i, Unproven(i, reached)) \subseteq asked
        BY <3>3
      <4>4. /\ OwnBounds(i) \subseteq bounds
            /\ \A fr \in Unshown(i, reached) : fr_plus(i, fr) \subseteq bounds
        BY <3>7, <3>9
      <4> QED
        BY <1>9, <3>1, <3>7, <3>8, <4>1, <4>2, <4>3, <4>4, SolutionIsGranted
    <3>11. Granted(i)' = granted
      <4>1. EdgesOf(known[i])' = EdgesOf(known[i])
        BY <1>8 DEF EdgesOf
      <4> QED
        BY <3>2, <3>4, <3>8, <4>1 DEF Granted
    <3>12. \A r : Values(i, reaches[i], r)' = Values(i, reached, r)
      BY <3>2, <3>4 DEF Values
    <3>13. OwnBounds(i)' = OwnBounds(i)
      <4>1. ASSUME NEW r \in {FnBody(i)} \cup {Early(k) : k \in program.type_bounds}
            PROVE  to_region_vid(universal[i], r)' = to_region_vid(universal[i], r)
        BY <1>8, EarlyVidKept
      <4>2. OwnBounds(i)' = {to_region_vid(universal[i], r)' :
                               r \in {FnBody(i)} \cup {Early(k) : k \in program.type_bounds}}
        BY <1>8 DEF OwnBounds
      <4> QED
        BY <4>1, <4>2 DEF OwnBounds
    <3>14. found = {} => FoundGranted(i)' /\ TestsGranted(i)'
      <4>1. found = {} => FoundGranted(i)'
        BY <3>2, <3>10, <3>11, <3>12 DEF FoundGranted
      <4>2. (OwnBounds(i) \cup type_requirements[i])' = bounds
        BY <3>4, <3>9, <3>13
      <4>3. found = {} => TestsGranted(i)'
        BY <1>8, <3>10, <3>11, <3>12, <4>2 DEF TestsGranted
      <4> QED
        BY <4>1, <4>3
    <3>15. reached = Reach(Regions(i)', constraints[i]' \cup ({0} \X Regions(i)'))
      BY <1>8, <3>2, <3>3
    <3> QED
      BY <3>2, <3>4, <3>5, <3>14, <3>15 DEF Solved
  <2>3. \A i \in Items : i > item' \/ (i = item' /\ pc' = "done") =>
                           i > item \/ (i = item /\ pc' # "panicked")
    BY <1>8, <1>9
  <2> QED
    BY <1>9, <2>1, <2>2, <2>3 DEF SolvedInv
<1>16. PassedInv'
  <2>1. ASSUME NEW c \in Items, c # 0, Parent(c) > item \/ Parent(c) = item
        PROVE  Passed(c)'
    <3>1. Passed(c)
      BY <1>1, <1>8, <2>1 DEF PassedInv, IsChecked
    <3>2. Parent(c) \in Items /\ Parent(c) < c /\ c \in Nat /\ Parent(c) \in Nat
      BY <1>9, <2>1
    <3>3. c # item
      BY <1>9, <2>1, <3>2
    <3>4. requirements'[c] = requirements[c] /\ type_requirements'[c] = type_requirements[c]
      BY <1>12, <2>1, <3>3
    <3> QED
      BY <1>8, <1>9, <2>1, <3>1, <3>4, PassedKept
  <2>2. ASSUME NEW c \in Items, c # 0, IsChecked(c)'
        PROVE  Parent(c) > item \/ Parent(c) = item
    <3>1. Parent(c) > item' \/ (Parent(c) = item' /\ pc' # "new")
      BY <1>8, <2>2, ProgramKept DEF IsChecked
    <3>2. Parent(c) \in Items
      BY <1>9, <2>2
    <3> QED
      BY <1>13, <3>1, <3>2
  <2> QED
    BY <1>9, <2>1, <2>2 DEF PassedInv
<1> QED
  BY <1>11, <1>14, <1>15, <1>16 DEF Inv

(* From each step to the next.                                             *)
LEMMA InvStep == Inv /\ [Next]_vars => Inv'
<1> SUFFICES ASSUME Inv, [Next]_vars PROVE Inv'
  OBVIOUS
<1>1. CASE new
  BY <1>1, InvNew
<1>2. CASE typeck_mir
  BY <1>2, InvTypeck
<1>3. CASE \E c \in todo : prove_closure_bounds(c)
  BY <1>3, InvProve
<1>4. CASE solve
  BY <1>4, InvSolve
<1>5. CASE UNCHANGED vars
  <2>1. /\ program' = program /\ item' = item /\ pc' = pc /\ todo' = todo
        /\ universal' = universal /\ known' = known
        /\ constraints' = constraints /\ type_tests' = type_tests
        /\ reaches' = reaches /\ errors' = errors
        /\ requirements' = requirements /\ type_requirements' = type_requirements
    BY <1>5 DEF vars, facts, graph, results
  <2>2. TypeInv /\ NumberedInv /\ SolvedInv /\ PassedInv
    BY DEF Inv
  <2>3. /\ program \in Programs /\ Items' = Items
        /\ \A i \in Items : i # 0 => Parent(i) \in Items
    BY <2>1, <2>2, ItemIsNumber
  <2>4. TypeInv'
    BY <2>1, <2>2, <2>3 DEF TypeInv
  <2>5. ASSUME NEW i \in Items, HasRegions(i) PROVE HasRegions(i)'
    BY <2>1, <2>3, <2>5, HasRegionsKept
  <2>6. ASSUME NEW i \in Items, Solved(i) PROVE Solved(i)'
    BY <2>1, <2>6, SolvedKept
  <2>7. ASSUME NEW c \in Items, c # 0, Passed(c) PROVE Passed(c)'
    BY <2>1, <2>3, <2>7, PassedKept
  <2>8. \A c : IsChecked(c)' => IsChecked(c)
    BY <2>1, ProgramKept DEF IsChecked
  <2>9. NumberedInv'
    BY <2>1, <2>2, <2>3, <2>5 DEF NumberedInv
  <2>10. SolvedInv'
    BY <2>1, <2>2, <2>3, <2>6 DEF SolvedInv
  <2>11. PassedInv'
    BY <2>2, <2>3, <2>7, <2>8 DEF PassedInv
  <2> QED
    BY <2>4, <2>9, <2>10, <2>11 DEF Inv
<1> QED
  BY <1>1, <1>2, <1>3, <1>4, <1>5 DEF Next

(* In every state, what has been checked so far satisfies the invariant.   *)
LEMMA InvHolds == Spec => []Inv
BY InvInit, InvStep, PTL DEF Spec

-----------------------------------------------------------------------------
(* Nothing is lost on the way up.                                          *)

(* With more edges, more is reached.                                       *)
LEMMA ReachIsMonotone ==
  ASSUME NEW nodes, IsFiniteSet(nodes), NEW few, NEW many,
         \A a, b \in nodes : <<a, b>> \in few => b \in Reach(nodes, many)[a]
  PROVE  \A a \in nodes : Reach(nodes, few)[a] \subseteq Reach(nodes, many)[a]
<1>1. PICK reach : reach = Reach(nodes, many)
  OBVIOUS
<1>2. /\ reach \in [nodes -> SUBSET nodes]
      /\ \A a \in nodes : a \in reach[a]
      /\ \A a, b, c \in nodes : b \in reach[a] /\ c \in reach[b] => c \in reach[a]
  BY <1>1, ReachIsClosure
<1>3. ASSUME NEW a \in nodes
      PROVE  Reach(nodes, few)[a] \subseteq reach[a]
  <2>1. PICK C : C = reach[a]
    OBVIOUS
  <2>2. \A x, y \in nodes : <<x, y>> \in few /\ x \in C => y \in C
    BY <1>1, <1>2, <2>1
  <2>3. a \in C
    BY <1>2, <2>1
  <2> QED
    BY <2>1, <2>2, <2>3, ReachIsLeast
<1> QED
  BY <1>1, <1>3

(* What T outlives by declaration is a universal region.                   *)
LEMMA OwnBoundsAreNumbered ==
  ASSUME program \in Programs, NEW i \in Items, IsNumbered(i)
  PROVE  OwnBounds(i) \subseteq universal_regions(i)
<1>1. program.type_bounds \subseteq 1..program.early
  BY ProgramsAssumption
<1>2. ASSUME NEW r \in {FnBody(i)} \cup {Early(k) : k \in program.type_bounds}
      PROVE  to_region_vid(universal[i], r) \in universal_regions(i)
  <2>1. r \in Elements(Built(i)) /\ r[1] # "arg"
    <3>1. CASE r = FnBody(i)
      BY <3>1, Numbered DEF FnBody
    <3>2. CASE r # FnBody(i)
      <4>1. PICK k \in 1..program.early : r = Early(k)
        BY <1>1, <1>2, <3>2
      <4> QED
        BY <4>1, Numbered DEF Early
    <3> QED
      BY <3>1, <3>2
  <2> QED
    BY <2>1, NumberedVids
<1> QED
  BY <1>2 DEF OwnBounds

(* When all is done, every item has been solved and its closures checked.  *)
LEMMA DoneFacts ==
  ASSUME Inv, pc = "done"
  PROVE  /\ program \in Programs /\ 0 \in Items
         /\ \A i \in Items : HasRegions(i) /\ IsNumbered(i) /\ Solved(i)
         /\ \A i \in Items : i # 0 => Parent(i) \in Items /\ Passed(i)
<1>1. TypeInv /\ NumberedInv /\ SolvedInv /\ PassedInv
  BY DEF Inv
<1>2. program \in Programs /\ item = 0 /\ todo = {} /\ 0 \in Items
  BY <1>1 DEF TypeInv
<1>3. \A i \in Items : i > item \/ i = item
  <2>1. PICK N \in Nat : Items = 0..N
    BY <1>2, ItemFacts
  <2> QED
    BY <1>2, <2>1
<1>4. \A i \in Items : HasRegions(i) /\ Solved(i)
  BY <1>1, <1>3 DEF NumberedInv, SolvedInv
<1>5. \A i \in Items : i # 0 => Parent(i) \in Items
  BY <1>2, ItemFacts
<1>6. \A i \in Items : i # 0 => Passed(i)
  BY <1>1, <1>2, <1>3, <1>5 DEF PassedInv, IsChecked
<1> QED
  BY <1>2, <1>4, <1>5, <1>6 DEF HasRegions

(* What a closure requires holds between the regions that were meant.      *)
LEMMA RequirementsAreImposed ==
  ASSUME Inv, pc = "done", NEW i \in Items, i # 0
  PROVE  /\ \A q \in requirements[i] :
              /\ q[1] \in External(i) /\ q[2] \in External(i)
              /\ Meaning(i, q[2]) \in reaches[Parent(i)][Meaning(i, q[1])]
         /\ \A o \in type_requirements[i] :
              /\ o \in External(i)
              /\ \E lb \in type_tests[Parent(i)] : Meaning(i, o) \in reaches[Parent(i)][lb]
<1>1. PICK p \in Items : p = Parent(i)
  BY DoneFacts
<1>2. /\ program \in Programs /\ IsNumbered(i) /\ IsNumbered(p) /\ Solved(i) /\ Solved(p) /\ Passed(i)
  BY <1>1, DoneFacts
<1>3. IsFiniteSet(Regions(p))
  BY <1>2, RegionsAreFinite
<1>4. PICK edges : edges = constraints[p] \cup ({0} \X Regions(p))
  OBVIOUS
<1>5. reaches[p] = Reach(Regions(p), edges)
  BY <1>2, <1>4 DEF Solved
<1>6. /\ \A a \in Regions(p) : a \in reaches[p][a]
      /\ \A a, b \in Regions(p) : <<a, b>> \in edges => b \in reaches[p][a]
  BY <1>3, <1>5, ReachIsClosure
<1>7. requirements[i] \subseteq External(i) \X External(i) /\ type_requirements[i] \subseteq External(i)
  BY <1>2 DEF Solved
<1>8. \A o \in External(i) : Meaning(i, o) = closure_mapping(i)[o + 1] /\ Meaning(i, o) \in Regions(p)
  BY <1>1, <1>2, MeaningIsMapped
<1>9. ASSUME NEW q \in requirements[i]
      PROVE  /\ q[1] \in External(i) /\ q[2] \in External(i)
             /\ Meaning(i, q[2]) \in reaches[p][Meaning(i, q[1])]
  <2>1. q[1] \in External(i) /\ q[2] \in External(i)
    BY <1>7
  <2>2. <<closure_mapping(i)[q[1] + 1], closure_mapping(i)[q[2] + 1]>> \in constraints[p]
    BY <1>1, <1>2 DEF Passed, apply_closure_requirements
  <2>3. <<Meaning(i, q[1]), Meaning(i, q[2])>> \in edges
    BY <1>4, <1>8, <2>1, <2>2
  <2> QED
    BY <1>6, <1>8, <2>1, <2>3
<1>10. ASSUME NEW o \in type_requirements[i]
       PROVE  /\ o \in External(i)
              /\ \E lb \in type_tests[p] : Meaning(i, o) \in reaches[p][lb]
  <2>1. o \in External(i)
    BY <1>7
  <2>2. closure_mapping(i)[o + 1] \in type_tests[p]
    BY <1>1, <1>2 DEF Passed, convert
  <2>3. Meaning(i, o) \in type_tests[p] /\ Meaning(i, o) \in reaches[p][Meaning(i, o)]
    BY <1>6, <1>8, <2>1, <2>2
  <2> QED
    BY <2>1, <2>3
<1> QED
  BY <1>1, <1>9, <1>10

(* So each relation that an item's constraints ask for is granted it.      *)
LEMMA InvArrives ==
  ASSUME Inv
  PROVE  RequirementsArrive
<1> SUFFICES ASSUME pc = "done", \A i \in Items : errors[i] = {}, NEW i \in Items
             PROVE  LET creator == program.parent[i]
                        asked == IF i = 0 THEN {} ELSE External(i)
                        imposed == {e \in asked \X asked :
                                      Meaning(i, e[2]) \in reaches[creator][Meaning(i, e[1])]}
                        granted == Reach(universal_regions(i), EdgesOf(known[i]) \cup imposed)
                        bounds == {to_region_vid(universal[i], r) :
                                     r \in {FnBody(i)} \cup {Early(k) : k \in program.type_bounds}}
                                  \cup {o \in asked : \E lb \in type_tests[creator] :
                                                       Meaning(i, o) \in reaches[creator][lb]}
                    IN  /\ \A fr \in universal_regions(i) : Values(i, reaches[i], fr) \subseteq granted[fr]
                        /\ \A lb \in type_tests[i] : \A fr \in Values(i, reaches[i], lb) :
                             \E o \in bounds : fr \in granted[o]
  BY DEF RequirementsArrive
<1>1. /\ program \in Programs /\ HasRegions(i) /\ IsNumbered(i) /\ Solved(i) /\ errors[i] = {}
  BY DoneFacts
<1>2. PICK asked : asked = IF i = 0 THEN {} ELSE External(i)
  OBVIOUS
<1>3. PICK imposed : imposed = {e \in asked \X asked :
                        Meaning(i, e[2]) \in reaches[program.parent[i]][Meaning(i, e[1])]}
  OBVIOUS
<1>4. PICK granted : granted = Reach(universal_regions(i), EdgesOf(known[i]) \cup imposed)
  OBVIOUS
<1>5. PICK more : more = {o \in asked : \E lb \in type_tests[program.parent[i]] :
                             Meaning(i, o) \in reaches[program.parent[i]][lb]}
  OBVIOUS
<1>6. requirements[i] \subseteq imposed
  <2>1. CASE i = 0
    BY <1>1, <2>1 DEF Solved
  <2>2. CASE i # 0
    <3>1. ASSUME NEW q \in requirements[i]
          PROVE  /\ q \in asked \X asked
                 /\ Meaning(i, q[2]) \in reaches[program.parent[i]][Meaning(i, q[1])]
      <4>1. q \in External(i) \X External(i)
        BY <1>1 DEF Solved
      <4>2. Meaning(i, q[2]) \in reaches[program.parent[i]][Meaning(i, q[1])]
        BY <2>2, RequirementsAreImposed DEF Parent
      <4> QED
        BY <1>2, <2>2, <4>1, <4>2
    <3> QED
      BY <1>3, <3>1
  <2> QED
    BY <2>1, <2>2
<1>7. type_requirements[i] \subseteq more
  <2>1. CASE i = 0
    BY <1>1, <2>1 DEF Solved
  <2>2. CASE i # 0
    BY <1>2, <1>5, <2>2, RequirementsAreImposed DEF Parent
  <2> QED
    BY <2>1, <2>2
<1>8. /\ granted \in [universal_regions(i) -> SUBSET universal_regions(i)]
      /\ \A a \in universal_regions(i) : known[i][a] \subseteq granted[a]
      /\ \A a, b \in universal_regions(i) : <<a, b>> \in imposed => b \in granted[a]
  BY <1>1, <1>4, GrantedFacts
<1>9. known[i] \in [universal_regions(i) -> SUBSET universal_regions(i)]
  BY <1>1, KnownFacts
<1>10. PICK few : few = EdgesOf(known[i]) \cup requirements[i]
  OBVIOUS
<1>11. PICK many : many = EdgesOf(known[i]) \cup imposed
  OBVIOUS
<1>12. \A a, b \in universal_regions(i) : <<a, b>> \in few => b \in granted[a]
  <2>1. ASSUME NEW a \in universal_regions(i), NEW b \in universal_regions(i),
               <<a, b>> \in EdgesOf(known[i])
        PROVE  b \in known[i][a]
    BY <1>9, <2>1 DEF EdgesOf
  <2> QED
    BY <1>6, <1>8, <1>10, <2>1
<1>13. \A a \in universal_regions(i) : Granted(i)[a] \subseteq granted[a]
  <2>1. IsFiniteSet(universal_regions(i))
    BY <1>1, RegionsAreFinite
  <2>2. Granted(i) = Reach(universal_regions(i), few) /\ granted = Reach(universal_regions(i), many)
    BY <1>4, <1>10, <1>11 DEF Granted
  <2> QED
    BY <1>12, <2>1, <2>2, ReachIsMonotone
<1>14. FoundGranted(i) /\ TestsGranted(i) /\ type_requirements[i] \subseteq External(i)
  BY <1>1 DEF Solved
<1>15. \A fr \in universal_regions(i) : Values(i, reaches[i], fr) \subseteq granted[fr]
  BY <1>13, <1>14 DEF FoundGranted
<1>16. ASSUME NEW lb \in type_tests[i], NEW fr \in Values(i, reaches[i], lb)
       PROVE  \E o \in OwnBounds(i) \cup more : fr \in granted[o]
  <2>1. PICK o \in OwnBounds(i) \cup type_requirements[i] : fr \in Granted(i)[o]
    BY <1>14, <1>16 DEF TestsGranted
  <2>2. o \in universal_regions(i)
    BY <1>1, <1>14, <2>1, OwnBoundsAreNumbered, NumberedSizes
  <2> QED
    BY <1>7, <1>13, <2>1, <2>2
<1>17. \A lb \in type_tests[i] : \A fr \in Values(i, reaches[i], lb) :
         \E o \in OwnBounds(i) \cup more : fr \in granted[o]
  BY <1>16
<1> QED
  BY <1>2, <1>3, <1>4, <1>5, <1>15, <1>17 DEF OwnBounds

(* Whatever the function and the closures inside it ask for, and however   *)
(* they are nested: when solve has accepted every item, all that one needs *)
(* is known to it or follows from what its creator has made constraints of *)
(* its own, through closure_mapping and apply_closure_requirements.        *)
THEOREM ClosureRegionsRequirementsArrive == Spec => []RequirementsArrive
<1>1. Inv => RequirementsArrive
  BY InvArrives
<1> QED
  BY <1>1, InvHolds, PTL

-----------------------------------------------------------------------------
(* What an item assumes is true where it is created.                       *)

(* What is declared of the regions of an item: the bounds of the function, *)
(* by the numbers of its early-bound regions, and what its inputs imply.   *)
Declared(i) ==
  add_outlives_bounds(build(i), {<<Early(b[1]), Early(b[2])>> : b \in program.bounds})
    \cup add_outlives_bounds(build(i), program.implied[i])

(* All the regions that the types of its inputs mention are numbered.      *)
LEMMA InputsAreNumbered ==
  ASSUME program \in Programs, NEW i \in Items, NEW r \in InputRegions(program, i)
  PROVE  r \in Elements(Built(i)) /\ r[1] # "arg"
<1>1. CASE r = Static
  BY <1>1, Numbered DEF Static
<1>2. ASSUME NEW k \in 1..program.early, r = Early(k)
      PROVE  r \in Elements(Built(i)) /\ r[1] # "arg"
  BY <1>2, Numbered DEF Early
<1>3. ASSUME NEW j \in program.early + 1..program.early + program.upvars[i], r = Upvar(i, j)
      PROVE  r \in Elements(Built(i)) /\ r[1] # "arg"
  <2>1. program.early \in Nat /\ program.upvars[i] \in Nat
    BY ProgramsAssumption DEF Items
  <2>2. /\ j \in 1..num_args(i) /\ ~(j <= program.early) /\ num_args(i) \in Nat
        /\ j + 1 \in 1..1 + num_args(i)
    BY <1>3, <2>1 DEF num_args
  <2>3. Given(i)[j + 1] = r
    BY <1>3, <2>2, GivenFacts
  <2>4. i # 0 => Len(Scope(Parent(i))) \in Nat
    BY ItemFacts, ScopeUnfolds
  <2>5. 1 + num_args(i) <= Len(ExternalNames(i)) /\ ExternalNames(i)[j + 1] = r
    BY <2>2, <2>3, <2>4, ExternalNamesFacts
  <2>6. /\ Len(ExternalNames(i)) \in Nat /\ Len(Built(i)) \in Nat
        /\ Len(ExternalNames(i)) < Len(Built(i)) /\ DOMAIN Built(i) = 1..Len(Built(i))
        /\ \A n \in 1..Len(ExternalNames(i)) : Built(i)[n] = ExternalNames(i)[n]
    BY BuildFacts
  <2>7. j + 1 \in 1..Len(ExternalNames(i)) /\ j + 1 \in 1..Len(Built(i))
    BY <2>2, <2>5, <2>6
  <2>8. Built(i)[j + 1] = r
    BY <2>5, <2>6, <2>7
  <2> QED
    BY <1>3, <2>6, <2>7, <2>8 DEF Elements, Upvar
<1>4. ASSUME NEW m \in 1..Len(Bound(i)), r = Bound(i)[m]
      PROVE  r \in Elements(Built(i)) /\ r[1] # "arg"
  BY <1>4, BoundFacts, Numbered DEF Late
<1>5. ASSUME NEW n \in DOMAIN program.signature[i], r = Late(i, program.signature[i][n])
      PROVE  r \in Elements(Built(i)) /\ r[1] # "arg"
  BY <1>4, <1>5, BoundFacts
<1>6. ASSUME program.kind[i] = "Closure", r = Late(i, ClosureEnv)
      PROVE  r \in Elements(Built(i)) /\ r[1] # "arg"
  BY <1>4, <1>6, BoundFacts
<1> QED
  BY <1>1, <1>2, <1>3, <1>5, <1>6 DEF InputRegions

LEMMA DeclaredFacts ==
  ASSUME program \in Programs, NEW i \in Items, HasRegions(i)
  PROVE  /\ known[i] = U(universal[i])!RelationsFrom(Declared(i))
         /\ Declared(i) = program.bounds \cup add_outlives_bounds(universal[i], program.implied[i])
         /\ \A e \in add_outlives_bounds(universal[i], program.implied[i]) :
              /\ e[1] \in universal_regions(i) /\ e[2] \in universal_regions(i)
              /\ e = <<e[1], e[2]>>
<1>1. PICK u : u = universal[i] /\ u = build(i)
  BY DEF HasRegions, IsNumbered
<1>2. IsNumbered(i) /\ i \in Nat
  BY ItemFacts DEF HasRegions
<1>3. known[i] = U(u)!RelationsFrom(Declared(i))
  <2>1. known[i] = create(u, i)
    BY <1>1 DEF HasRegions
  <2>2. PICK declared : declared = Declared(i)
    OBVIOUS
  <2>3. create(u, i) = U(u)!RelationsFrom(declared)
    BY <1>1, <2>2 DEF create, Declared
  <2> QED
    BY <2>1, <2>2, <2>3
<1>4. \A b \in program.bounds :
        /\ b[1] \in 1..program.early /\ b[2] \in 1..program.early /\ b = <<b[1], b[2]>>
  BY ProgramsAssumption
<1>5. \A b \in program.bounds :
        <<to_region_vid(u, Early(b[1])), to_region_vid(u, Early(b[2]))>> = b
  BY <1>1, <1>4, EarlyVids
<1>6. PICK stated : stated = {<<Early(b[1]), Early(b[2])>> : b \in program.bounds}
  OBVIOUS
<1>7. PICK implied : implied = program.implied[i]
  OBVIOUS
<1>8. Declared(i) = add_outlives_bounds(u, stated) \cup add_outlives_bounds(u, implied)
  BY <1>1, <1>6, <1>7 DEF Declared
<1>9. add_outlives_bounds(u, stated) = program.bounds
  <2>1. ASSUME NEW e \in stated
        PROVE  <<to_region_vid(u, e[1]), to_region_vid(u, e[2])>> \in program.bounds
    <3>1. PICK b \in program.bounds : e = <<Early(b[1]), Early(b[2])>>
      BY <1>6, <2>1
    <3>2. e[1] = Early(b[1]) /\ e[2] = Early(b[2])
      BY <3>1
    <3> QED
      BY <1>5, <3>2
  <2>2. ASSUME NEW b \in program.bounds
        PROVE  \E e \in stated : b = <<to_region_vid(u, e[1]), to_region_vid(u, e[2])>>
    <3>1. PICK e : e = <<Early(b[1]), Early(b[2])>>
      OBVIOUS
    <3>2. e \in stated /\ e[1] = Early(b[1]) /\ e[2] = Early(b[2])
      BY <1>6, <3>1
    <3> QED
      BY <1>5, <3>2
  <2> QED
    BY <2>1, <2>2 DEF add_outlives_bounds
<1>10. ASSUME NEW d \in add_outlives_bounds(u, implied)
       PROVE  d[1] \in universal_regions(i) /\ d[2] \in universal_regions(i) /\ d = <<d[1], d[2]>>
  <2>1. PICK e \in implied : d = <<to_region_vid(u, e[1]), to_region_vid(u, e[2])>>
    BY <1>10 DEF add_outlives_bounds
  <2>2. e[1] \in InputRegions(program, i) /\ e[2] \in InputRegions(program, i)
    BY <1>7, ProgramsAssumption DEF Items
  <2>3. /\ to_region_vid(u, e[1]) \in universal_regions(i)
        /\ to_region_vid(u, e[2]) \in universal_regions(i)
    BY <1>1, <1>2, <2>2, InputsAreNumbered, NumberedVids
  <2> QED
    BY <2>1, <2>3
<1> QED
  BY <1>1, <1>3, <1>7, <1>8, <1>9, <1>10

(* A bound that is declared holds between the regions given for the two    *)
(* early-bound ones, and 'static outlives whatever is given.               *)
LEMMA BoundsAreGiven ==
  ASSUME Inv, pc = "done", NEW i \in Items, i # 0, NEW there,
         there = Reach(Regions(Parent(i)), EdgesOf(known[Parent(i)]) \cup EdgesOf(reaches[Parent(i)]))
  PROVE  /\ there \in [Regions(Parent(i)) -> SUBSET Regions(Parent(i))]
         /\ \A a \in Regions(Parent(i)) : a \in there[a]
         /\ \A a, b, c \in Regions(Parent(i)) : b \in there[a] /\ c \in there[b] => c \in there[a]
         /\ \A b \in program.bounds :
              /\ b[1] \in External(i) /\ b[2] \in External(i)
              /\ Meaning(i, b[2]) \in there[Meaning(i, b[1])]
         /\ \A x \in External(i) : Meaning(i, x) \in there[Meaning(i, 0)]
<1>1. PICK p \in Items : p = Parent(i)
  BY DoneFacts
<1>2. /\ program \in Programs /\ IsNumbered(i) /\ IsNumbered(p) /\ HasRegions(p)
      /\ Solved(p) /\ Passed(i)
  BY <1>1, DoneFacts
<1>3. IsFiniteSet(Regions(p)) /\ universal_regions(p) \subseteq Regions(p)
  BY <1>2, RegionsAreFinite
<1>4. PICK edges : edges = constraints[p] \cup ({0} \X Regions(p))
  OBVIOUS
<1>5. reaches[p] = Reach(Regions(p), edges)
  BY <1>2, <1>4 DEF Solved
<1>6. /\ reaches[p] \in [Regions(p) -> SUBSET Regions(p)]
      /\ \A a, b \in Regions(p) : <<a, b>> \in edges => b \in reaches[p][a]
  BY <1>3, <1>5, ReachIsClosure
<1>7. known[p] \in [universal_regions(p) -> SUBSET universal_regions(p)]
  BY <1>2, KnownFacts
<1>8. PICK all : all = EdgesOf(known[p]) \cup EdgesOf(reaches[p])
  OBVIOUS
<1>9. /\ \A a \in Regions(p) : \A b \in reaches[p][a] : <<a, b>> \in all
      /\ \A a \in universal_regions(p) : \A b \in known[p][a] : <<a, b>> \in all
  BY <1>6, <1>7, <1>8 DEF EdgesOf
<1>10. /\ there \in [Regions(p) -> SUBSET Regions(p)]
       /\ \A a \in Regions(p) : a \in there[a]
       /\ \A a, b, c \in Regions(p) : b \in there[a] /\ c \in there[b] => c \in there[a]
       /\ \A a, b \in Regions(p) : <<a, b>> \in all => b \in there[a]
  <2>1. PICK nodes : nodes = Regions(p)
    OBVIOUS
  <2>2. there = Reach(nodes, all) /\ IsFiniteSet(nodes)
    BY <1>1, <1>3, <1>8, <2>1
  <2>3. /\ there \in [nodes -> SUBSET nodes]
        /\ \A a \in nodes : a \in there[a]
        /\ \A a, b, c \in nodes : b \in there[a] /\ c \in there[b] => c \in there[a]
        /\ \A a, b \in nodes : <<a, b>> \in all => b \in there[a]
    <3>1. PICK reach : reach = Reach(nodes, all)
      OBVIOUS
    <3>2. /\ reach \in [nodes -> SUBSET nodes]
          /\ \A a \in nodes : a \in reach[a]
      BY <2>2, <3>1, ReachIsClosure
    <3>3. \A a, b, c \in nodes : b \in reach[a] /\ c \in reach[b] => c \in reach[a]
      BY <2>2, <3>1, ReachIsClosure
    <3>4. \A a, b \in nodes : <<a, b>> \in all => b \in reach[a]
      BY <2>2, <3>1, ReachIsClosure
    <3>5. reach = there
      BY <2>2, <3>1
    <3> QED
      BY <3>2, <3>3, <3>4, <3>5
  <2> QED
    BY <2>1, <2>3
<1>11. \A x \in External(i) :
         /\ Meaning(i, x) \in Regions(p)
         /\ x = 0 => Meaning(i, x) = 0
         /\ x \in 1..num_args(i) => Meaning(i, x) = closure_args(i)[x]
  BY <1>1, <1>2, MeaningIsMapped
<1>12. 0 \in External(i) /\ 1..program.early \subseteq External(i)
       /\ 1..program.early \subseteq 1..num_args(i)
  <2>1. /\ num_args(i) \in Nat /\ program.early \in 0..num_args(i)
        /\ Len(ExternalNames(i)) = 1 + num_args(i) + Len(Scope(Parent(i)))
    BY <1>2, GivenFacts, ExternalNamesFacts
  <2>2. PICK scope \in Seq(Triples) : scope = Scope(p)
    BY <1>2, ScopeUnfolds
  <2>3. PICK more \in Nat : more = Len(scope)
    BY <2>2
  <2>4. External(i) = 0..Len(ExternalNames(i)) - 1 /\ 0 \in External(i)
    BY <1>2, NumberedSizes
  <2>5. Len(ExternalNames(i)) = 1 + num_args(i) + more
    BY <1>1, <2>1, <2>2, <2>3
  <2> QED
    BY <2>1, <2>3, <2>4, <2>5
<1>13. ASSUME NEW x \in External(i)
       PROVE  Meaning(i, x) \in there[Meaning(i, 0)]
  <2>1. Meaning(i, 0) = 0 /\ 0 \in Regions(p) /\ Meaning(i, x) \in Regions(p)
    BY <1>11, <1>12
  <2>2. <<0, Meaning(i, x)>> \in edges
    BY <1>4, <2>1
  <2>3. Meaning(i, x) \in reaches[p][0]
    BY <1>6, <2>1, <2>2
  <2> QED
    BY <1>9, <1>10, <2>1, <2>3
<1>14. ASSUME NEW k \in 1..program.early
       PROVE  /\ k \in Regions(p) /\ k \in universal_regions(p)
              /\ Meaning(i, k) \in Regions(p)
              /\ k \in there[Meaning(i, k)] /\ Meaning(i, k) \in there[k]
  <2>1. Meaning(i, k) = closure_args(i)[k] /\ Meaning(i, k) \in Regions(p)
    BY <1>11, <1>12
  <2>2. to_region_vid(universal[p], Early(k)) = k
    BY <1>2, EarlyVids DEF IsNumbered
  <2>3. <<Meaning(i, k), k>> \in edges /\ <<k, Meaning(i, k)>> \in edges
    BY <1>1, <1>2, <1>4, <2>1, <2>2 DEF Passed, Equated
  <2>4. k \in universal_regions(p) /\ k \in Regions(p)
    <3>1. Early(k) \in Elements(Built(p)) /\ Early(k)[1] # "arg"
      BY <1>2, Numbered DEF Early
    <3> QED
      BY <1>2, <1>3, <2>2, <3>1, NumberedVids
  <2>5. k \in reaches[p][Meaning(i, k)] /\ Meaning(i, k) \in reaches[p][k]
    BY <1>6, <2>1, <2>3, <2>4
  <2> QED
    BY <1>9, <1>10, <2>1, <2>4, <2>5
<1>15. ASSUME NEW b \in program.bounds
       PROVE  /\ b[1] \in External(i) /\ b[2] \in External(i)
              /\ Meaning(i, b[2]) \in there[Meaning(i, b[1])]
  <2>1. PICK j \in 1..program.early, k \in 1..program.early : b = <<j, k>>
    BY <1>2, ProgramsAssumption
  <2>2. k \in known[p][j]
    <3>1. PICK u : u = universal[p]
      OBVIOUS
    <3>2. <<j, k>> \in Declared(p)
      BY <1>2, <1>15, <2>1, DeclaredFacts
    <3>3. j \in Universals(u) /\ k \in Universals(u)
      BY <1>2, <1>14, <3>1, NumberedSizes
    <3>4. PICK declared : declared = Declared(p)
      OBVIOUS
    <3>5. known[p] = U(u)!RelationsFrom(declared)
      BY <1>2, <3>1, <3>4, DeclaredFacts
    <3>6. PICK e \in declared : e[1] = j /\ e[2] = k
      BY <3>2, <3>4
    <3> QED
      BY <3>3, <3>5, <3>6, RelationsFromFacts
  <2>3. k \in there[j]
    BY <1>9, <1>10, <1>14, <2>2
  <2>4. Meaning(i, k) \in there[Meaning(i, j)]
    BY <1>10, <1>14, <2>3
  <2> QED
    BY <1>12, <2>1, <2>4
<1> QED
  BY <1>1, <1>10, <1>13, <1>15

(* So all that an item knows follows from what holds there and from what   *)
(* its inputs imply.                                                       *)
LEMMA InvAssumptions ==
  ASSUME Inv
  PROVE  AssumptionsHold
<1> SUFFICES ASSUME pc = "done", NEW i \in Items \ {0}, NEW fr \in universal_regions(i)
             PROVE  LET creator == program.parent[i]
                        there == Reach(Regions(creator),
                                       EdgesOf(known[creator]) \cup EdgesOf(reaches[creator]))
                        given == {e \in External(i) \X External(i) :
                                    Meaning(i, e[2]) \in there[Meaning(i, e[1])]}
                        inputs == add_outlives_bounds(universal[i], program.implied[i])
                        always == ({U(universal[i])!fr_static} \X universal_regions(i))
                                    \cup (universal_regions(i) \X {U(universal[i])!fr_fn_body})
                        granted == Reach(universal_regions(i), given \cup inputs \cup always)
                    IN  known[i][fr] \subseteq granted[fr]
  BY DEF AssumptionsHold
<1>1. PICK there : there = Reach(Regions(Parent(i)),
                                 EdgesOf(known[Parent(i)]) \cup EdgesOf(reaches[Parent(i)]))
  OBVIOUS
<1>2. PICK given : given = {e \in External(i) \X External(i) :
                              Meaning(i, e[2]) \in there[Meaning(i, e[1])]}
  OBVIOUS
<1>3. PICK inputs : inputs = add_outlives_bounds(universal[i], program.implied[i])
  OBVIOUS
<1>4. PICK u : u = universal[i]
  OBVIOUS
<1>5. /\ program \in Programs /\ HasRegions(i) /\ IsNumbered(i) /\ i \in Items /\ i # 0
  BY DoneFacts
<1>6. PICK nodes : nodes = universal_regions(i)
  OBVIOUS
<1>7. /\ Universals(u) = nodes /\ nodes = 0..Len(u.regions) - 1 /\ Len(u.regions) \in Nat
      /\ External(i) \subseteq nodes /\ 0 \in nodes /\ IsFiniteSet(nodes)
  BY <1>4, <1>5, <1>6, NumberedSizes, RegionsAreFinite
<1>8. Len(u.regions) - 1 \in nodes
  BY <1>7
<1>9. PICK always : always = ({0} \X nodes) \cup (nodes \X {Len(u.regions) - 1})
  OBVIOUS
<1>10. PICK granted : granted = Reach(nodes, given \cup inputs \cup always)
  OBVIOUS
<1>11. /\ granted \in [nodes -> SUBSET nodes]
       /\ \A a \in nodes : a \in granted[a]
       /\ \A a, b, c \in nodes : b \in granted[a] /\ c \in granted[b] => c \in granted[a]
       /\ \A a, b \in nodes : <<a, b>> \in given \cup inputs \cup always => b \in granted[a]
  <2>1. PICK edges : edges = given \cup inputs \cup always
    OBVIOUS
  <2>2. granted = Reach(nodes, edges)
    BY <1>10, <2>1
  <2>3. /\ granted \in [nodes -> SUBSET nodes]
        /\ \A a \in nodes : a \in granted[a]
    BY <1>7, <2>2, ReachIsClosure
  <2>4. \A a, b, c \in nodes : b \in granted[a] /\ c \in granted[b] => c \in granted[a]
    BY <1>7, <2>2, ReachIsClosure
  <2>5. \A a, b \in nodes : <<a, b>> \in edges => b \in granted[a]
    BY <1>7, <2>2, ReachIsClosure
  <2> QED
    BY <2>1, <2>3, <2>4, <2>5
<1>12. PICK declared : declared = Declared(i)
  OBVIOUS
<1>13. /\ known[i] = U(u)!RelationsFrom(declared)
       /\ declared = program.bounds \cup inputs
       /\ \A e \in inputs : e[1] \in nodes /\ e[2] \in nodes /\ e = <<e[1], e[2]>>
  BY <1>3, <1>4, <1>5, <1>6, <1>12, DeclaredFacts
<1>14. ASSUME NEW b \in program.bounds
       PROVE  b[1] \in nodes /\ b[2] \in nodes /\ <<b[1], b[2]>> \in given
  <2>1. /\ b[1] \in External(i) /\ b[2] \in External(i)
        /\ Meaning(i, b[2]) \in there[Meaning(i, b[1])]
    BY <1>1, <1>5, BoundsAreGiven
  <2>2. PICK j, k : j = b[1] /\ k = b[2]
    OBVIOUS
  <2>3. <<j, k>> \in External(i) \X External(i) /\ <<j, k>>[1] = j /\ <<j, k>>[2] = k
    BY <2>1, <2>2
  <2>4. <<j, k>> \in given
    BY <1>2, <2>1, <2>2, <2>3
  <2> QED
    BY <1>7, <2>1, <2>2, <2>4
<1>15. \A e \in declared : e[1] \in nodes /\ e[2] \in nodes /\ e[2] \in granted[e[1]]
  BY <1>11, <1>13, <1>14
<1>16. PICK S : S = granted[fr]
  OBVIOUS
<1>17. /\ S \in SUBSET Universals(u) /\ fr \in S
       /\ \A e \in declared : e[1] \in S => e[2] \in S
       /\ 0 \in S => Universals(u) \subseteq S
       /\ Len(u.regions) - 1 \in S
  <2>1. fr \in nodes /\ S \subseteq nodes
    BY <1>6, <1>11, <1>16
  <2>2. \A a, b \in nodes : a \in S /\ b \in granted[a] => b \in S
    BY <1>11, <1>16, <2>1
  <2>3. \A x \in nodes : <<0, x>> \in always /\ <<x, Len(u.regions) - 1>> \in always
    BY <1>7, <1>8, <1>9
  <2>4. \A x \in nodes : x \in granted[0] /\ Len(u.regions) - 1 \in granted[x]
    BY <1>7, <1>8, <1>11, <2>3
  <2> QED
    BY <1>7, <1>8, <1>11, <1>15, <1>16, <2>1, <2>2, <2>4
<1>18. known[i][fr] \subseteq S
  BY <1>13, <1>17, RelationsFromFacts
<1>19. /\ U(u)!fr_static = 0 /\ U(u)!fr_fn_body = Len(u.regions) - 1
  BY DEF U!fr_static, U!fr_fn_body
<1> QED
  BY <1>1, <1>2, <1>3, <1>4, <1>6, <1>9, <1>10, <1>16, <1>18, <1>19 DEF Parent

(* Whatever the function and the closures inside it, and whatever the types*)
(* of their inputs imply: when the check is done, what an item took as     *)
(* known follows from what is known, or a constraint, where it is created, *)
(* because its creator equated the arguments of the early-bound regions    *)
(* with its own, and from what its inputs imply.                           *)
THEOREM ClosureRegionsAssumptionsHold == Spec => []AssumptionsHold
<1>1. Inv => AssumptionsHold
  BY InvAssumptions
<1> QED
  BY <1>1, InvHolds, PTL

=============================================================================

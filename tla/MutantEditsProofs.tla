------------------------- MODULE MutantEditsProofs -------------------------
(***************************************************************************)
(* Theorems about MutantEdits, for any places, locals, borrow edges, and   *)
(* any number of statements: every mutant is the body with its one edit,   *)
(* and is about a place that is still lent where it is edited.             *)
(***************************************************************************)
EXTENDS MutantEdits, FiniteSetTheorems, SequenceTheorems, TLAPS

Statements == {Orig(b, i) : b \in Nat, i \in Nat}
Blocks == [stmts : Seq(Statements), term : Terminators]

(* The body is one of the two blocks Init makes, curr one of its           *)
(* statements, and the last mutant is made of the last pick.               *)
BodyInv ==
  /\ body \in [locals : Nat, blocks : Seq(Blocks)] /\ Len(body.blocks) = 2
  /\ curr \in {1} \X Nat /\ curr[2] \in 1..Len(body.blocks[1].stmts)
  /\ kind \in Kinds

PCGs == [borrows : SUBSET Borrows, write_only : SUBSET Places]
StateInv ==
  /\ at_curr \in PCGs /\ at_next \in PCGs
  /\ blocking \in [Places -> SUBSET Places]

EditInv ==
  /\ BodyInv /\ StateInv
  /\ pending \in Seq(Picks) /\ made \in Seq(Picks)
  /\ made # << >> => mutant = MutantOf(body, curr, kind, Pick)

-----------------------------------------------------------------------------

(* A stream has finitely many picks, so the Vec holds each.                *)
LEMMA PicksAreFinite ==
  ASSUME kind \in Kinds, StateInv
  PROVE  IsFiniteSet(Picks) /\ \A x \in Picks : x[1] \in Places
<1> DEFINE R == {e.region : e \in Borrows}
           T == (R \cup {"no region"}) \cup Places
<1>1. \A e \in Borrows : e.place \in Places /\ e.region \in R
  BY BodyAssumption DEF BorrowEdges
<1>2. \A k : borrowed_places(at_curr, k) \subseteq Places \X R
             /\ borrowed_places(at_next, k) \subseteq Places \X R
  BY <1>1 DEF borrowed_places, StateInv, PCGs
<1>3. R \subseteq T /\ "no region" \in T /\ Places \subseteq T
  OBVIOUS
<1>4. /\ at_curr.write_only \subseteq Places
      /\ \A p \in Places : blocking[p] \subseteq Places
  BY DEF StateInv, PCGs
<1> HIDE DEF R, T
<1>5. Picks \subseteq Places \X T
  <2>1. Places \X R \subseteq Places \X T
    BY <1>3
  <2>2. CASE kind = "mutably-lend-shared"
    <3>1. Picks \subseteq borrowed_places(at_curr, "shared")
      BY <2>2 DEF Picks, Named
    <3> QED
      BY <1>2, <2>1, <3>1
  <2>3. CASE kind = "write-to-shared"
    <3>1. Picks \subseteq borrowed_places(at_next, "shared")
      BY <2>3 DEF Picks, Named
    <3> QED
      BY <1>2, <2>1, <3>1
  <2>4. CASE kind = "move-from-borrowed"
    <3>1. PlacesOf(Named(borrowed_places(at_curr, "mut"))) \subseteq Places
      BY <1>2 DEF PlacesOf, Named
    <3>2. \A x \in Picks : \E p \in PlacesOf(Named(borrowed_places(at_curr, "mut"))) :
            x = <<p, "no region">>
      BY <2>4 DEF Picks
    <3> SUFFICES ASSUME NEW x \in Picks
                 PROVE  x \in Places \X T
      OBVIOUS
    <3>3. PICK p \in Places : x = <<p, "no region">>
      BY <3>1, <3>2
    <3> QED
      BY <1>3, <3>3
  <2>5. CASE kind = "read-from-write-only"
    <3>1. \A x \in Picks : \E p \in at_curr.write_only : x = <<p, "no region">>
      BY <2>5 DEF Picks
    <3> SUFFICES ASSUME NEW x \in Picks
                 PROVE  x \in Places \X T
      OBVIOUS
    <3>2. PICK p \in Places : x = <<p, "no region">>
      BY <1>4, <3>1
    <3> QED
      BY <1>3, <3>2
  <2>6. CASE kind \in ExpiryKinds
    <3>1. PlacesOf(Named(borrowed_places(at_next, "mut"))) \subseteq Places
      BY <1>2 DEF PlacesOf, Named
    <3>2. \A x \in Picks : \E p \in PlacesOf(Named(borrowed_places(at_next, "mut"))) :
            \E q \in blocking[p] : x = <<p, q>>
      <4>1. Picks = UNION {{<<p, q>> : q \in {q \in blocking[p] : has_named_local(q)}} :
                             p \in PlacesOf(Named(borrowed_places(at_next, "mut")))}
        BY <2>6 DEF Picks, ExpiryKinds
      <4> QED
        BY <4>1
    <3> SUFFICES ASSUME NEW x \in Picks
                 PROVE  x \in Places \X T
      OBVIOUS
    <3>3. PICK p \in Places, q \in Places : x = <<p, q>>
      BY <1>4, <3>1, <3>2
    <3> QED
      BY <1>3, <3>3
  <2> QED
    BY <2>2, <2>3, <2>4, <2>5, <2>6 DEF Kinds
<1>6. IsFiniteSet(T)
  <2>1. IsFiniteSet(R) /\ IsFiniteSet(Places)
    BY BodyAssumption DEF R
  <2>2. IsFiniteSet(R \cup {"no region"})
    BY <2>1, FS_AddElement
  <2> QED
    BY <2>1, <2>2, FS_Union DEF T
<1>7. IsFiniteSet(Places \X T)
  BY <1>6, BodyAssumption, FS_Product
<1> QED
  BY <1>5, <1>7, FS_Subset

LEMMA EditInvInit == Init => EditInv
<1> SUFFICES ASSUME Init
             PROVE  EditInv
  OBVIOUS
<1>1. PICK n \in 1..MaxStmts, term \in Terminators :
        body = [locals |-> UserLocals + OtherLocals,
                blocks |-> <<Block([i \in 1..n |-> Orig(1, i)], term),
                             Block(<<Orig(2, 1)>>, [op |-> "return"])>>]
  BY DEF Init
<1>2. [i \in 1..n |-> Orig(1, i)] \in Seq(Statements)
      /\ Len([i \in 1..n |-> Orig(1, i)]) = n
  <2>1. \A i \in 1..n : Orig(1, i) \in Statements
    BY BodyAssumption DEF Statements
  <2> QED
    BY <2>1, BodyAssumption
<1>3. <<Orig(2, 1)>> \in Seq(Statements) /\ [op |-> "return"] \in Terminators
  BY DEF Statements, Terminators
<1>4. /\ Block([i \in 1..n |-> Orig(1, i)], term) \in Blocks
      /\ Block(<<Orig(2, 1)>>, [op |-> "return"]) \in Blocks
  BY <1>2, <1>3 DEF Block, Blocks
<1>5. body \in [locals : Nat, blocks : Seq(Blocks)] /\ Len(body.blocks) = 2
      /\ body.blocks[1].stmts = [i \in 1..n |-> Orig(1, i)]
  <2>1. body.locals \in Nat /\ body.blocks \in Seq(Blocks)
    BY <1>1, <1>4, BodyAssumption
  <2> QED
    BY <1>1, <2>1 DEF Block
<1>6. BodyInv
  BY <1>2, <1>5 DEF Init, BodyInv
<1>7. StateInv
  BY DEF Init, States, BorrowStates, Nothing, StateInv, PCGs
<1>8. Cardinality(Picks) \in Nat
  <2>1. kind \in Kinds
    BY DEF Init
  <2> QED
    BY <1>7, <2>1, PicksAreFinite, FS_CardinalityType
<1>9. pending \in Seq(Picks)
  <2>1. pending \in [1..Cardinality(Picks) -> Picks]
    BY DEF Init, Orders
  <2> QED
    BY <1>8, <2>1
<1> QED
  BY <1>6, <1>7, <1>9 DEF Init, EditInv

LEMMA EditInvStep == EditInv /\ [Next]_vars => EditInv'
<1> SUFFICES ASSUME EditInv, [Next]_vars
             PROVE  EditInv'
  OBVIOUS
<1>1. CASE UNCHANGED vars
  <2>1. UNCHANGED inputs /\ UNCHANGED <<pending, mutant, made>>
    BY <1>1 DEF vars
  <2>2. Picks' = Picks
    BY <2>1 DEF inputs, Picks, PlacesOf, Named, borrowed_places
  <2>3. BodyInv' /\ StateInv' /\ MutantOf(body, curr, kind, Pick)' = MutantOf(body, curr, kind, Pick)
    BY <2>1 DEF inputs, EditInv, BodyInv, StateInv, Pick
  <2> QED
    BY <2>1, <2>2, <2>3 DEF EditInv
<1>2. CASE MakeMutant
  <2> DEFINE pick == pending[Len(pending)]
  <2>1. pending # << >> /\ pick \in Picks
    BY <1>2, ElementOfSeq DEF MakeMutant, EditInv
  <2> UNCHANGED inputs
    BY <1>2 DEF MakeMutant
  <2>2. Picks' = Picks /\ BodyInv' /\ StateInv'
    <3>1. Picks' = Picks
      BY DEF inputs, Picks, PlacesOf, Named, borrowed_places
    <3>2. BodyInv' /\ StateInv'
      BY DEF inputs, EditInv, BodyInv, StateInv
    <3> QED
      BY <3>1, <3>2
  <2>3. pending' \in Seq(Picks)
    BY <1>2, <2>1 DEF MakeMutant, EditInv
  <2>4. made' = Append(made, pick) /\ made' \in Seq(Picks) /\ made'[Len(made')] = pick
    BY <1>2, <2>1 DEF MakeMutant, EditInv
  <2>5. mutant' = MutantOf(body', curr', kind', pick)
    BY <1>2 DEF MakeMutant, inputs
  <2> QED
    BY <2>2, <2>3, <2>4, <2>5 DEF EditInv, Pick
<1> QED
  BY <1>1, <1>2 DEF Next

LEMMA EditInvHolds == Spec => []EditInv
  BY EditInvInit, EditInvStep, PTL DEF Spec

-----------------------------------------------------------------------------
(* Sequences that are edited.                                              *)

(* Erasing what was inserted gives the sequence back.                      *)
LEMMA EraseInserted ==
  ASSUME NEW S, NEW s \in Seq(S), NEW x \in S, NEW c \in 1..Len(s)
  PROVE  LET t == SubSeq(s, 1, c) \o <<x>> \o SubSeq(s, c + 1, Len(s))
         IN  SubSeq(t, 1, c) \o SubSeq(t, c + 2, Len(t)) = s
<1> DEFINE a == SubSeq(s, 1, c)
           b == SubSeq(s, c + 1, Len(s))
           h == a \o <<x>>
           t == h \o b
           front == SubSeq(t, 1, c)
           rest  == SubSeq(t, c + 2, Len(t))
<1>1. c \in Nat /\ Len(s) \in Nat /\ c <= Len(s)
  OBVIOUS
<1>2. /\ a \in Seq(S) /\ Len(a) = c /\ \A i \in 1..c : a[i] = s[i]
      /\ b \in Seq(S) /\ Len(b) = Len(s) - c /\ \A i \in 1..Len(s) - c : b[i] = s[c + i]
  BY SubSeqProperties
<1> HIDE DEF a, b
<1>3. h \in Seq(S) /\ Len(h) = c + 1 /\ \A i \in 1..c : h[i] = s[i]
  <2>1. <<x>> \in Seq(S) /\ Len(<<x>>) = 1
    OBVIOUS
  <2> QED
    BY <1>1, <1>2, <2>1, ConcatProperties
<1> HIDE DEF h
<1>4. /\ t \in Seq(S) /\ Len(t) = Len(s) + 1
      /\ \A i \in 1..Len(s) + 1 : t[i] = IF i <= c + 1 THEN h[i] ELSE b[i - (c + 1)]
  <2>1. /\ t \in Seq(S) /\ Len(t) = Len(h) + Len(b)
        /\ \A i \in 1..Len(h) + Len(b) : t[i] = IF i <= Len(h) THEN h[i] ELSE b[i - Len(h)]
    BY <1>2, <1>3, ConcatProperties
  <2>2. Len(h) + Len(b) = Len(s) + 1
    BY <1>1, <1>2, <1>3
  <2> QED
    BY <1>3, <2>1, <2>2
<1>5. \A i \in 1..Len(s) : (i <= c => t[i] = s[i]) /\ (i > c => t[i + 1] = s[i])
  <2> SUFFICES ASSUME NEW i \in 1..Len(s)
               PROVE  (i <= c => t[i] = s[i]) /\ (i > c => t[i + 1] = s[i])
    OBVIOUS
  <2>1. CASE i <= c
    BY <1>1, <1>3, <1>4, <2>1
  <2>2. CASE i > c
    <3>1. t[i + 1] = b[i - c]
      <4>1. i + 1 \in 1..Len(s) + 1 /\ ~(i + 1 <= c + 1) /\ i + 1 - (c + 1) = i - c
        BY <1>1, <2>2
      <4> QED
        BY <1>4, <4>1
    <3>2. i - c \in 1..Len(s) - c /\ c + (i - c) = i
      BY <1>1, <2>2
    <3> QED
      BY <1>1, <1>2, <2>2, <3>1, <3>2
  <2> QED
    BY <1>1, <2>1, <2>2
<1> HIDE DEF t
<1> HIDE DEF front, rest
<1>6. front \in Seq(S) /\ Len(front) = c /\ \A i \in 1..c : front[i] = s[i]
  <2>1. \A i \in 1..c : t[i] \in S
    BY <1>1, <1>5
  <2>2. /\ front \in Seq(S) /\ Len(front) = c
        /\ \A i \in 1..c - 1 + 1 : front[i] = t[1 + i - 1]
    BY <1>1, <2>1, SubSeqProperties DEF front
  <2> QED
    BY <1>1, <1>5, <2>2
<1>7. /\ rest \in Seq(S) /\ Len(rest) = Len(s) - c
      /\ \A i \in 1..Len(s) - c : rest[i] = s[c + i]
  <2>1. \A i \in c + 2..Len(s) + 1 : t[i] \in S
    BY <1>1, <1>4
  <2>2. /\ rest \in Seq(S)
        /\ Len(rest) = IF c + 2 <= Len(s) + 1 THEN Len(s) + 1 - (c + 2) + 1 ELSE 0
        /\ \A i \in 1..Len(s) + 1 - (c + 2) + 1 : rest[i] = t[c + 2 + i - 1]
    BY <1>1, <1>4, <2>1, SubSeqProperties DEF rest
  <2>3. ASSUME NEW i \in 1..Len(s) - c
        PROVE  rest[i] = s[c + i]
    <3>1. i \in 1..Len(s) + 1 - (c + 2) + 1 /\ c + 2 + i - 1 = c + i + 1
          /\ c + i \in 1..Len(s) /\ c + i > c
      BY <1>1
    <3> QED
      BY <1>5, <2>2, <3>1
  <2>4. Len(rest) = Len(s) - c
    BY <1>1, <2>2
  <2> QED
    BY <2>2, <2>3, <2>4
<1>8. front \o rest = s
  <2>1. /\ front \o rest \in Seq(S) /\ Len(front \o rest) = Len(s)
        /\ \A i \in 1..Len(s) : (front \o rest)[i] = IF i <= c THEN front[i] ELSE rest[i - c]
    <3>1. Len(front) + Len(rest) = Len(s)
      BY <1>1, <1>6, <1>7
    <3>2. /\ front \o rest \in Seq(S) /\ Len(front \o rest) = Len(front) + Len(rest)
          /\ \A i \in 1..Len(front) + Len(rest) :
               (front \o rest)[i] = IF i <= Len(front) THEN front[i] ELSE rest[i - Len(front)]
      BY <1>6, <1>7, ConcatProperties
    <3> QED
      BY <1>6, <3>1, <3>2
  <2>2. ASSUME NEW i \in 1..Len(s)
        PROVE  (front \o rest)[i] = s[i]
    <3>1. CASE i <= c
      BY <1>1, <1>6, <2>1, <3>1
    <3>2. CASE ~(i <= c)
      <4>1. i - c \in 1..Len(s) - c /\ c + (i - c) = i
        BY <1>1, <3>2
      <4> QED
        BY <1>7, <2>1, <3>2, <4>1
    <3> QED
      BY <3>1, <3>2
  <2> QED
    BY <2>1, <2>2, SeqEqual
<1> QED
  BY <1>8 DEF front, rest, t, h, a, b

(* Splitting a sequence loses nothing.                                     *)
LEMMA JoinSplit ==
  ASSUME NEW S, NEW s \in Seq(S), NEW c \in 1..Len(s)
  PROVE  /\ SubSeq(s, 1, c) \o SubSeq(s, c + 1, Len(s)) = s
         /\ Len(SubSeq(s, 1, c)) = c
  BY ConcatAdjacentSubSeq, SubSeqFull, SubSeqProperties

-----------------------------------------------------------------------------
(* The edits.                                                              *)

LEMMA BodyFacts ==
  ASSUME BodyInv
  PROVE  /\ curr[1] = 1 /\ curr = <<1, curr[2]>> /\ NextLoc = <<1, curr[2] + 1>>
         /\ curr[2] \in 1..Len(body.blocks[1].stmts)
         /\ body = [locals |-> body.locals, blocks |-> body.blocks]
         /\ body.locals \in Nat /\ body.blocks \in Seq(Blocks) /\ DOMAIN body.blocks = 1..2
         /\ body.blocks[1] \in Blocks /\ body.blocks[1].stmts \in Seq(Statements)
<1>1. curr[1] = 1 /\ curr = <<1, curr[2]>> /\ curr[2] \in 1..Len(body.blocks[1].stmts)
  BY DEF BodyInv
<1>2. /\ body = [locals |-> body.locals, blocks |-> body.blocks]
      /\ body.locals \in Nat /\ body.blocks \in Seq(Blocks) /\ DOMAIN body.blocks = 1..2
  BY DEF BodyInv
<1>3. body.blocks[1] \in Blocks
  BY <1>2
<1> QED
  BY <1>1, <1>2, <1>3 DEF NextLoc, Blocks

(* Where one statement is inserted, nothing else is changed.               *)
LEMMA InsertionChangesOne ==
  ASSUME BodyInv, NEW stmt, NEW fresh \in 0..1, mutant = Insertion(body, curr, stmt, fresh)
  PROVE  /\ mutant.body.locals = body.locals + fresh
         /\ mutant.body.blocks = [body.blocks EXCEPT ![1].stmts = mutant.body.blocks[1].stmts]
         /\ SubSeq(mutant.body.blocks[1].stmts, 1, curr[2])
              \o SubSeq(mutant.body.blocks[1].stmts, curr[2] + 2, Len(mutant.body.blocks[1].stmts))
              = body.blocks[1].stmts
         /\ mutant.first = NextLoc /\ mutant.last = NextLoc
<1> DEFINE c  == curr[2]
           s  == body.blocks[1].stmts
           t  == SubSeq(s, 1, c) \o <<stmt>> \o SubSeq(s, c + 1, Len(s))
<1>1. mutant = Made(InsertAfter(WithFresh(body, fresh), curr, stmt), NextLoc, NextLoc)
  BY BodyFacts DEF Insertion
<1>2. WithFresh(body, fresh) = [locals |-> body.locals + fresh, blocks |-> body.blocks]
  BY BodyFacts DEF WithFresh
<1>3. InsertAfter(WithFresh(body, fresh), curr, stmt) =
        [locals |-> body.locals + fresh, blocks |-> [body.blocks EXCEPT ![1].stmts = t]]
  <2> DEFINE body_0 == WithFresh(body, fresh)
             u == SubSeq(body.blocks[1].stmts, 1, curr[2]) \o <<stmt>>
                    \o SubSeq(body.blocks[1].stmts, curr[2] + 1, Len(body.blocks[1].stmts))
  <2>1. body_0.blocks = body.blocks /\ curr[1] = 1
    BY <1>2, BodyFacts
  <2>2. InsertAfter(body_0, curr, stmt) = [body_0 EXCEPT !.blocks[1].stmts = u]
    <3> HIDE DEF body_0
    <3> QED
      BY <2>1 DEF InsertAfter
  <2> HIDE DEF u
  <2>3. [body_0 EXCEPT !.blocks[1].stmts = u] =
          [locals |-> body.locals + fresh, blocks |-> [body.blocks EXCEPT ![1].stmts = u]]
    BY <1>2
  <2> QED
    BY <2>2, <2>3 DEF u
<1>4. c \in 1..Len(s) /\ s \in Seq(Statements)
  BY BodyFacts
<1> HIDE DEF c, s
<1>5. SubSeq(t, 1, c) \o SubSeq(t, c + 2, Len(t)) = s
  <2> DEFINE U == Statements \cup {stmt}
  <2>1. s \in Seq(U) /\ stmt \in U
    BY <1>4, SeqMonotonic
  <2> HIDE DEF U
  <2> QED
    BY <1>4, <2>1, EraseInserted
<1> HIDE DEF t
<1>6. /\ mutant.body = [locals |-> body.locals + fresh, blocks |-> [body.blocks EXCEPT ![1].stmts = t]]
      /\ mutant.first = NextLoc /\ mutant.last = NextLoc
  BY <1>1, <1>3 DEF Made
<1>7. mutant.body.locals = body.locals + fresh /\ mutant.body.blocks = [body.blocks EXCEPT ![1].stmts = t]
  BY <1>6
<1>8. mutant.body.blocks[1].stmts = t
  <2>1. mutant.body.blocks[1] = [body.blocks[1] EXCEPT !.stmts = t]
    BY <1>7, BodyFacts
  <2>2. "stmts" \in DOMAIN body.blocks[1]
    BY BodyFacts DEF Blocks
  <2> QED
    BY <2>1, <2>2
<1>9. mutant.body.blocks = [body.blocks EXCEPT ![1].stmts = mutant.body.blocks[1].stmts]
  BY <1>7, <1>8
<1>10. SubSeq(mutant.body.blocks[1].stmts, 1, curr[2])
         \o SubSeq(mutant.body.blocks[1].stmts, curr[2] + 2, Len(mutant.body.blocks[1].stmts))
         = body.blocks[1].stmts
  BY <1>5, <1>8 DEF c, s
<1> QED
  BY <1>6, <1>7, <1>9, <1>10

(* A statement that is inserted is one of those of InsertionOf.            *)
LEMMA InsertionOfInserts ==
  ASSUME BodyInv, kind \notin ExpiryKinds, NEW pick
  PROVE  \E stmt, fresh : /\ fresh \in 0..1
                          /\ MutantOf(body, curr, kind, pick) = Insertion(body, curr, stmt, fresh)
<1>1. MutantOf(body, curr, kind, pick) = InsertionOf(body, curr, kind, pick)
  BY DEF MutantOf
<1>2. kind \in {"mutably-lend-shared", "read-from-write-only", "write-to-shared", "move-from-borrowed"}
  BY DEF BodyInv, Kinds
<1>3. CASE kind = "mutably-lend-shared"
  <2> DEFINE stmt == [op |-> "borrow mut", dst |-> FreshLocal(body), place |-> pick[1],
                     region |-> pick[2]]
  <2>1. InsertionOf(body, curr, kind, pick) = Insertion(body, curr, stmt, 1)
    BY <1>3 DEF InsertionOf
  <2>2. 1 \in 0..1
    OBVIOUS
  <2> HIDE DEF stmt
  <2> QED
    BY <1>1, <2>1, <2>2
<1>4. CASE kind = "write-to-shared"
  <2> DEFINE stmt == [op |-> "assign", dst |-> pick[1], place |-> pick[1]]
  <2>1. InsertionOf(body, curr, kind, pick) = Insertion(body, curr, stmt, 0)
    BY <1>4 DEF InsertionOf
  <2>2. 0 \in 0..1
    OBVIOUS
  <2> HIDE DEF stmt
  <2> QED
    BY <1>1, <2>1, <2>2
<1>5. CASE kind = "move-from-borrowed"
  <2> DEFINE stmt == [op |-> "move", dst |-> FreshLocal(body), place |-> pick[1]]
  <2>1. InsertionOf(body, curr, kind, pick) = Insertion(body, curr, stmt, 1)
    BY <1>5 DEF InsertionOf
  <2>2. 1 \in 0..1
    OBVIOUS
  <2> HIDE DEF stmt
  <2> QED
    BY <1>1, <2>1, <2>2
<1>6. CASE kind = "read-from-write-only"
  <2> DEFINE stmt == [op |-> "fake read", local |-> FreshLocal(body)]
  <2>1. InsertionOf(body, curr, kind, pick) = Insertion(body, curr, stmt, 1)
    BY <1>6 DEF InsertionOf
  <2>2. 1 \in 0..1
    OBVIOUS
  <2> HIDE DEF stmt
  <2> QED
    BY <1>1, <2>1, <2>2
<1> QED
  BY <1>2, <1>3, <1>4, <1>5, <1>6

(* Where a block is split, two blocks come to the end.                     *)
LEMMA SplitMakesTwo ==
  ASSUME BodyInv, mutant = ExpiryMutant(body, curr, Pick)
  PROVE  LET s      == body.blocks[1].stmts
             blocks == mutant.body.blocks
         IN  /\ mutant.body.locals = body.locals + 2 /\ Len(blocks) = 4
             /\ blocks[1].stmts = SubSeq(s, 1, curr[2])
             /\ blocks[1].term.op = "false edge"
             /\ blocks[1].term.real = 3 /\ blocks[1].term.imaginary = 4
             /\ blocks[2] = body.blocks[2]
             /\ blocks[3].stmts = SubSeq(s, curr[2] + 1, Len(s))
             /\ blocks[3].term = body.blocks[1].term
             /\ blocks[4].stmts = places_to_statements(body, Pick[1], Pick[2])
             /\ blocks[4].term.op = "unreachable"
<1> DEFINE old  == body.blocks[1]
           head == Block(SubSeq(old.stmts, 1, curr[2]),
                         [op |-> "false edge", real |-> 3, imaginary |-> 4])
           tail == Block(SubSeq(old.stmts, curr[2] + 1, Len(old.stmts)), old.term)
           branch == Block(places_to_statements(body, Pick[1], Pick[2]), [op |-> "unreachable"])
           X == Blocks \cup {head, tail, branch}
           front == [body.blocks EXCEPT ![1] = head]
<1>1. curr[1] = 1 /\ Len(body.blocks) = 2 /\ body.blocks \in Seq(Blocks)
  BY BodyFacts DEF BodyInv
<1>2. mutant = Made([locals |-> body.locals + 2, blocks |-> front \o <<tail, branch>>],
                    <<4, 1>>, <<4, curr[2]>>)
  <2>1. Len(body.blocks) + 1 = 3 /\ Len(body.blocks) + 2 = 4
    BY <1>1
  <2> QED
    BY <1>1, <2>1, Zenon DEF ExpiryMutant
<1> HIDE DEF head, tail, branch
<1>3. front \in Seq(X) /\ Len(front) = 2 /\ front[1] = head /\ front[2] = body.blocks[2]
  <2>1. body.blocks \in Seq(X) /\ head \in X
    BY <1>1, SeqMonotonic
  <2> HIDE DEF X
  <2> QED
    BY <1>1, <2>1, ExceptSeq
<1>4. <<tail, branch>> \in Seq(X) /\ Len(<<tail, branch>>) = 2
      /\ <<tail, branch>>[1] = tail /\ <<tail, branch>>[2] = branch
  <2>1. tail \in X /\ branch \in X
    OBVIOUS
  <2> HIDE DEF X
  <2> QED
    BY <2>1
<1> DEFINE end == <<tail, branch>>
           b == front \o end
<1> HIDE DEF front, X, end
<1>5. Len(b) = 4 /\ b[1] = head /\ b[2] = body.blocks[2] /\ b[3] = tail /\ b[4] = branch
  <2>1. /\ Len(b) = Len(front) + Len(end)
        /\ \A i \in 1..Len(front) + Len(end) :
             b[i] = IF i <= Len(front) THEN front[i] ELSE end[i - Len(front)]
    BY <1>3, <1>4, ConcatProperties DEF end
  <2>2. Len(front) = 2 /\ Len(end) = 2 /\ end[1] = tail /\ end[2] = branch
    BY <1>3, <1>4 DEF end
  <2> HIDE DEF b
  <2> QED
    BY <1>3, <2>1, <2>2
<1>6. mutant.body.locals = body.locals + 2 /\ mutant.body.blocks = b
  BY <1>2 DEF Made, end
<1>7. /\ head.stmts = SubSeq(old.stmts, 1, curr[2]) /\ head.term.op = "false edge"
      /\ head.term.real = 3 /\ head.term.imaginary = 4
  BY DEF head, Block
<1>8. tail.stmts = SubSeq(old.stmts, curr[2] + 1, Len(old.stmts)) /\ tail.term = old.term
  BY DEF tail, Block
<1>9. /\ branch.stmts = places_to_statements(body, Pick[1], Pick[2])
      /\ branch.term.op = "unreachable"
  BY DEF branch, Block
<1> HIDE DEF b
<1> QED
  BY <1>5, <1>6, <1>7, <1>8, <1>9

LEMMA TargetsOfTerminators ==
  /\ \A term \in Terminators : Targets(term) \subseteq 1..2
  /\ \A term : term.op = "false edge" => Targets(term) = {term.real, term.imaginary}
  /\ \A term : term.op = "unreachable" => Targets(term) = {}
<1>1. ASSUME NEW term \in Terminators
      PROVE  Targets(term) \subseteq 1..2
  <2>1. \/ term.op = "goto" /\ term.target \in 1..2
        \/ term.op = "return"
    BY DEF Terminators
  <2>2. CASE term.op = "goto" /\ term.target \in 1..2
    <3>1. Targets(term) = {term.target}
      BY <2>2 DEF Targets
    <3> QED
      BY <2>2, <3>1
  <2>3. CASE term.op = "return"
    <3>1. Targets(term) = {}
      BY <2>3 DEF Targets
    <3> QED
      BY <3>1
  <2> QED
    BY <2>1, <2>2, <2>3
<1>2. ASSUME NEW term, term.op = "false edge"
      PROVE  Targets(term) = {term.real, term.imaginary}
  BY <1>2 DEF Targets
<1>3. ASSUME NEW term, term.op = "unreachable"
      PROVE  Targets(term) = {}
  BY <1>3 DEF Targets
<1> QED
  BY <1>1, <1>2, <1>3

(* Each mutant is the original body with its one edit, whatever mutants    *)
(* were made before, and a body: its blocks end in blocks that exist       *)
(* (src/mutator/, maybe_next of the six mutations).                        *)
THEOREM MutantEditsMutantIsTheEdit == Spec => []MutantIsTheEdit
<1>1. ASSUME EditInv
      PROVE  MutantIsTheEdit
  <2>1. BodyInv /\ Exists(body, curr)
    BY <1>1, BodyFacts DEF EditInv, Exists, BodyInv
  <2>2. CASE made = << >>
    BY <2>1, <2>2 DEF MutantIsTheEdit, IsWellFormed, InsertionIsAnEdit, SplitRunsTheOriginal,
                      Inserts, Splits
  <2>3. CASE made # << >> /\ kind \notin ExpiryKinds
    <3>1. PICK stmt, fresh : fresh \in 0..1 /\ mutant = Insertion(body, curr, stmt, fresh)
      BY <1>1, <2>1, <2>3, InsertionOfInserts DEF EditInv
    <3> DEFINE stmts == mutant.body.blocks[1].stmts
    <3>2. /\ mutant.body.locals = body.locals + fresh
          /\ mutant.body.blocks = [body.blocks EXCEPT ![1].stmts = stmts]
          /\ SubSeq(stmts, 1, curr[2]) \o SubSeq(stmts, curr[2] + 2, Len(stmts)) = body.blocks[1].stmts
          /\ mutant.first = NextLoc /\ mutant.last = NextLoc
      BY <2>1, <3>1, InsertionChangesOne
    <3>3. NextLoc[1] = 1
      BY <2>1, BodyFacts
    <3>4. InsertionIsAnEdit
      BY <3>2, <3>3 DEF InsertionIsAnEdit
    <3>5. mutant.body.locals \in body.locals..body.locals + 2
      BY <2>1, <3>1, <3>2, BodyFacts
    <3>6. /\ Len(mutant.body.blocks) = 2
          /\ \A b \in 1..2 : mutant.body.blocks[b].term \in Terminators
      <4> HIDE DEF stmts
      <4>1. body.blocks \in Seq(Blocks) /\ Len(body.blocks) = 2
        BY <2>1 DEF BodyInv
      <4>2. \A b \in 1..2 : body.blocks[b] \in Blocks
        BY <4>1
      <4>3. \A b \in 1..2 : body.blocks[b].term \in Terminators
                          /\ body.blocks[b] = [stmts |-> body.blocks[b].stmts, term |-> body.blocks[b].term]
        BY <4>2 DEF Blocks
      <4>4. Len(mutant.body.blocks) = 2 /\ mutant.body.blocks[2] = body.blocks[2]
            /\ mutant.body.blocks[1] = [body.blocks[1] EXCEPT !.stmts = stmts]
        BY <3>2, <4>1
      <4>5. [body.blocks[1] EXCEPT !.stmts = stmts].term = body.blocks[1].term
        BY <4>3
      <4> QED
        BY <4>3, <4>4, <4>5
    <3>7. IsWellFormed
      BY <2>1, <3>5, <3>6, TargetsOfTerminators DEF IsWellFormed
    <3> QED
      BY <2>3, <3>4, <3>7 DEF MutantIsTheEdit, SplitRunsTheOriginal, Splits
  <2>4. CASE made # << >> /\ kind \in ExpiryKinds
    <3> DEFINE s == body.blocks[1].stmts
               blocks == mutant.body.blocks
    <3>1. mutant = ExpiryMutant(body, curr, Pick)
      BY <1>1, <2>4 DEF EditInv, MutantOf
    <3>2. /\ mutant.body.locals = body.locals + 2 /\ Len(blocks) = 4
          /\ blocks[1].stmts = SubSeq(s, 1, curr[2])
          /\ blocks[1].term.op = "false edge"
          /\ blocks[1].term.real = 3 /\ blocks[1].term.imaginary = 4
          /\ blocks[2] = body.blocks[2]
          /\ blocks[3].stmts = SubSeq(s, curr[2] + 1, Len(s))
          /\ blocks[3].term = body.blocks[1].term
          /\ blocks[4].stmts = places_to_statements(body, Pick[1], Pick[2])
          /\ blocks[4].term.op = "unreachable"
      BY <2>1, <3>1, SplitMakesTwo
    <3> HIDE DEF blocks
    <3>3. curr[1] = 1 /\ Len(body.blocks) = 2 /\ body.blocks \in Seq(Blocks)
      BY <2>1, BodyFacts DEF BodyInv
    <3>4. body.blocks[1].term \in Terminators /\ body.blocks[2].term \in Terminators
      <4>1. body.blocks[1] \in Blocks /\ body.blocks[2] \in Blocks
        BY <3>3
      <4> QED
        BY <4>1 DEF Blocks
    <3>5. \A b \in 1..4 : Targets(blocks[b].term) \subseteq 1..4
      <4>1. Targets(blocks[1].term) = {3, 4} /\ Targets(blocks[4].term) = {}
        BY <3>2, TargetsOfTerminators
      <4>2. Targets(blocks[2].term) \subseteq 1..2 /\ Targets(blocks[3].term) \subseteq 1..2
        BY <3>2, <3>4, TargetsOfTerminators
      <4> QED
        BY <4>1, <4>2
    <3>6. IsWellFormed
      <4>1. mutant.body.locals \in body.locals..body.locals + 2
        <5>1. body.locals \in Nat /\ mutant.body.locals = body.locals + 2
          BY <2>1, <3>2, BodyFacts
        <5> QED
          BY <5>1
      <4>2. \A b \in 1..Len(blocks) : Targets(blocks[b].term) \subseteq 1..Len(blocks)
        BY <3>2, <3>5
      <4> QED
        BY <2>1, <4>1, <4>2 DEF IsWellFormed, blocks
    <3>7. blocks[1].stmts \o blocks[3].stmts = s /\ Len(blocks[1].stmts) = curr[2]
      BY <2>1, <3>2, BodyFacts, JoinSplit
    <3>8. blocks[4].stmts[1].place = Pick[1] /\ blocks[4].stmts[2].place = Pick[2]
      <4> DEFINE uses == places_to_statements(body, Pick[1], Pick[2])
      <4>1. uses[1].place = Pick[1] /\ uses[2].place = Pick[2]
        BY DEF places_to_statements, Reborrow
      <4>2. blocks[4].stmts = uses
        BY <3>2
      <4> HIDE DEF uses
      <4> QED
        BY <4>1, <4>2
    <3>9. \A b \in 1..Len(body.blocks) : b # curr[1] => blocks[b] = body.blocks[b]
      <4>1. blocks[2] = body.blocks[2] /\ Len(body.blocks) = 2 /\ curr[1] = 1
        BY <3>2, <3>3
      <4> SUFFICES ASSUME NEW b \in 1..2, b # 1
                   PROVE  blocks[b] = body.blocks[b]
        BY <4>1
      <4>2. b = 2
        OBVIOUS
      <4> QED
        BY <4>1, <4>2
    <3>10. Pick[2] \in blocking[Pick[1]]
      <4>1. Pick \in Picks
        BY <1>1, <2>4, ElementOfSeq DEF EditInv, Pick
      <4>2. Picks = UNION {{<<p, q>> : q \in {q \in blocking[p] : has_named_local(q)}} :
                             p \in PlacesOf(Named(borrowed_places(at_next, "mut")))}
        BY <2>4 DEF Picks, ExpiryKinds
      <4>3. PICK p, q : q \in blocking[p] /\ Pick = <<p, q>>
        BY <4>1, <4>2
      <4> QED
        BY <4>3
    <3>11. SplitRunsTheOriginal
      BY <3>2, <3>3, <3>7, <3>8, <3>9, <3>10 DEF SplitRunsTheOriginal, blocks
    <3> QED
      BY <2>4, <3>6, <3>11 DEF MutantIsTheEdit, InsertionIsAnEdit, Inserts
  <2> QED
    BY <2>2, <2>3, <2>4
<1> QED
  BY <1>1, EditInvHolds, PTL

(* An inserted statement is about a place of a user variable that is lent  *)
(* on both sides, in the way the mutation breaks, or write-only on both    *)
(* (src/mutator/, make_stream).                                            *)
THEOREM MutantEditsPlaceIsStillLent == Spec => []PlaceIsStillLent
<1>1. ASSUME EditInv
      PROVE  PlaceIsStillLent
  <2> SUFFICES ASSUME Inserts
               PROVE  PlaceIsStillLent
    BY DEF PlaceIsStillLent
  <2> DEFINE lent(state, k) == \E e \in state.borrows : e.place = Pick[1] /\ e.kind = k /\ ~e.old
  <2>1. Pick \in Picks
    BY <1>1, ElementOfSeq DEF EditInv, Inserts, Pick
  <2>2. Pick[1] \in Places
    BY <1>1, <2>1, PicksAreFinite DEF EditInv, BodyInv
  <2>3. \A state, k : Pick[1] \in PlacesOf(borrowed_places(state, k)) => lent(state, k)
    BY DEF PlacesOf, borrowed_places
  <2>4. \A pairs : \A x \in Named(pairs) : x \in pairs /\ has_named_local(x[1])
    BY DEF Named
  <2>5. has_named_local(Pick[1]) => LocalOf[Pick[1]] \in 1..UserLocals
    BY <2>2, BodyAssumption DEF has_named_local
  <2>6. CASE kind = "mutably-lend-shared"
    <3>1. /\ has_named_local(Pick[1]) /\ Pick[1] \in PlacesOf(borrowed_places(at_curr, "shared"))
          /\ Pick[1] \in PlacesOf(borrowed_places(at_next, "shared"))
      BY <2>1, <2>4, <2>6 DEF Picks, PlacesOf
    <3> QED
      BY <2>3, <2>5, <2>6, <3>1 DEF PlaceIsStillLent
  <2>7. CASE kind = "write-to-shared"
    <3>1. /\ has_named_local(Pick[1]) /\ Pick[1] \in PlacesOf(borrowed_places(at_curr, "shared"))
          /\ Pick[1] \in PlacesOf(borrowed_places(at_next, "shared"))
      BY <2>1, <2>4, <2>7 DEF Picks, PlacesOf
    <3> QED
      BY <2>3, <2>5, <2>7, <3>1 DEF PlaceIsStillLent
  <2>8. CASE kind = "move-from-borrowed"
    <3>1. PICK p \in PlacesOf(Named(borrowed_places(at_curr, "mut"))) :
            p \in PlacesOf(borrowed_places(at_next, "mut")) /\ Pick = <<p, "no region">>
      BY <2>1, <2>8 DEF Picks
    <3>2. has_named_local(p) /\ p \in PlacesOf(borrowed_places(at_curr, "mut")) /\ Pick[1] = p
      BY <2>4, <3>1 DEF PlacesOf
    <3> QED
      BY <2>3, <2>5, <2>8, <3>1, <3>2 DEF PlaceIsStillLent
  <2>9. CASE kind = "read-from-write-only"
    <3>1. PICK p \in at_curr.write_only \cap at_next.write_only :
            has_named_local(p) /\ Pick = <<p, "no region">>
      BY <2>1, <2>9 DEF Picks
    <3> QED
      BY <2>5, <2>9, <3>1 DEF PlaceIsStillLent
  <2> QED
    BY <1>1, <2>6, <2>7, <2>8, <2>9 DEF EditInv, BodyInv, Kinds, Inserts
<1> QED
  BY <1>1, EditInvHolds, PTL

=============================================================================

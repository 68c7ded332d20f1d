---------------------------- MODULE MCPlaceOverlap ----------------------------
(* Two loans, of x and of the field x.f, in a loop or a diamond; and a loan *)
(* with a statement that names any other place, for places of five types,  *)
(* each the sets of projections possible level by level: slices are matched *)
(* from either end, arrays from the front.                                 *)
EXTENDS PlaceOverlap

Deref(p) == [elem |-> "Deref", of |-> p]
Field(n, t) == [elem |-> "Field", field |-> n, of |-> t]
Index == [elem |-> "Index"]
ConstantIndex(o, m, e) ==
  [elem |-> "ConstantIndex", offset |-> o, min_length |-> m, from_end |-> e]
Subslice(f, t, e) == [elem |-> "Subslice", from |-> f, to |-> t, from_end |-> e]
Downcast(v) == [elem |-> "Downcast", variant |-> v]

OfSlice ==
  {Index} \cup {ConstantIndex(o, m, FALSE) : o \in 0..1, m \in 2..3}
          \cup {ConstantIndex(o, m, TRUE) : o \in 1..2, m \in 2..3}
          \cup {Subslice(f, t, TRUE) : f \in 0..1, t \in 0..1}
OfArray ==
  {Index} \cup {ConstantIndex(o, 3, FALSE) : o \in 0..2}
          \cup {Subslice(f, t, FALSE) : f \in 0..1, t \in 2..3}

Types ==
  {<<{Deref("RefMut")}, OfSlice, {Deref("RefMut")}>>,
   <<OfArray, {Field(1, "Struct"), Field(2, "Struct")}>>,
   <<{Field(1, "Struct"), Field(2, "Struct")}, {Deref("Box")}, {Field(1, "Dtor")}, {Deref("RefMut")}>>,
   <<{Deref("Box")}, {Field(1, "Union"), Field(2, "Union")}, {Deref("RawPtr")}>>,
   <<{Downcast(0), Downcast(1)}, {Field(1, "Struct"), Field(2, "Struct")}, {Deref("RefMut")}>>}

Projections(t) ==
  {<< >>} \cup {<<x>> : x \in t[1]}
    \cup (IF Len(t) >= 2 THEN {<<x, y>> : x \in t[1], y \in t[2]} ELSE {})
    \cup (IF Len(t) >= 3 THEN {<<x, y, z>> : x \in t[1], y \in t[2], z \in t[3]} ELSE {})
    \cup (IF Len(t) >= 4
          THEN {<<w, x, y, z>> : w \in t[1], x \in t[2], y \in t[3], z \in t[4]} ELSE {})

Place(l, p) == [local |-> l, projection |-> p]
Ref(l, w) == [op |-> "ref", loan |-> l, writes |-> {w}]
Stmt(o, ws) == [op |-> o, writes |-> ws]
Other == Stmt("other", {})

x == Place("x", << >>)
f == Place("x", <<Field(1, "Struct")>>)
ff == Place("x", <<Field(1, "Struct"), Field(1, "Struct")>>)
g == Place("x", <<Field(2, "Struct")>>)
r == Place("r", << >>)

(* Two loans in one loop, entered from the first block: the block of the   *)
(* first loan is reached again from its own successor.                     *)
Loop(s) == [places |-> <<x, f>>,
            blocks |-> <<<<Ref(1, r), Other>>, <<Ref(2, r), s, Other>>, <<Other>>>>,
            succ   |-> <<{2, 3}, {1, 2}, {}>>]

(* The second loan is taken on one arm of a diamond.                       *)
Diamond(s) == [places |-> <<x, f>>,
               blocks |-> <<<<Ref(1, r), Other>>, <<Ref(2, r), Other>>, <<s>>, <<Other>>>>,
               succ   |-> <<{2, 3}, {4}, {4}, {}>>]

Straight(p, q) == [places |-> <<p>>, blocks |-> <<<<Ref(1, r), Stmt("assign", {q})>>>>,
                   succ |-> <<{}>>]

Loops == {Loop(s) : s \in {Stmt("assign", {x}), Stmt("assign", {ff}), Stmt("assign", {g}),
                           Stmt("storage_dead", {x}), Stmt("ignored_ref", {x})}}
Diamonds == {Diamond(s) : s \in {Other, Stmt("asm", {f, g})}}

MCBodies ==
  Loops \cup Diamonds \cup
    UNION {{Straight(Place(l, p), Place("y", q)) :
              l \in {"y", "z"}, p \in Projections(t), q \in Projections(t)} : t \in Types}

(* A straight body is checked with its loan live to the end; in the loops, *)
(* where the loans are in scope is all that matters.                       *)
MCInit ==
  /\ Init /\ InitCompare
  /\ \/ body \in Loops \cup Diamonds
     \/ is_ref_to_static = {} /\ region = [l \in Loans |-> Locations]
MCNext == NextCompare /\ (body \in Loops => UNCHANGED compared)
MCSpec == MCInit /\ [][MCNext]_<<vars, compared>> /\ WF_vars(Next)
=============================================================================

---------------------------- MODULE PlacesConflict ----------------------------
(***************************************************************************)
(* Whether an access to a place conflicts with a borrow of a place:        *)
(* borrow_conflicts_with_place (borrowck/src/places_conflict.rs).          *)
(*                                                                         *)
(* A place is a local and a sequence of projections.  What the code looks  *)
(* up of the type of a projection's base is a field `of` of the projection *)
(* here: the pointer of a Deref, the kind of ADT of a Field.  Casts are    *)
(* left out: they compare as equal.                                        *)
(***************************************************************************)
EXTENDS Integers, Sequences, FiniteSets

Depths == {"Shallow", "ShallowLength", "ShallowFakeBorrow", "Deep", "Drop"}
Biases == {"Overlap", "NoOverlap"}

(* Of two projections of one array or slice, in this order.                *)
DisjointIndicesIgnoringLengths(e1, e2) ==
  CASE e1.elem = "ConstantIndex" /\ e2.elem = "ConstantIndex" ->
         e1.from_end = e2.from_end /\ e1.offset # e2.offset
    [] OTHER -> FALSE

DisjointIndices(e1, e2) ==
  CASE e1.elem = "ConstantIndex" /\ e2.elem = "ConstantIndex" ->
         \/ e1.from_end = e2.from_end /\ e1.offset # e2.offset
         \/ /\ ~e1.from_end /\ e2.from_end
            /\ \E m \in {e1.min_length, e2.min_length} : e1.offset < m - e2.offset
    [] e1.elem = "ConstantIndex" /\ e2.elem = "Subslice" ->
         \/ ~e1.from_end /\ ~e2.from_end /\ e1.offset \notin e2.from..e2.to - 1
         \/ ~e1.from_end /\ e2.from_end /\ e1.offset < e2.from
         \/ e1.from_end /\ e2.from_end /\ e1.offset <= e2.to
    [] e1.elem = "Subslice" /\ e2.elem = "Subslice" ->
         ~e1.from_end /\ ~e2.from_end /\ e2.from >= e1.to
    [] OTHER -> FALSE

(* Overlap::{EqualOrDisjoint, Disjoint, Arbitrary} of two projections whose *)
(* bases are equal or disjoint.                                            *)
place_projection_conflict(e1, e2, bias) ==
  CASE e1.elem = "Field" /\ e1.field # e2.field ->
         IF e1.of = "Union" THEN "Arbitrary" ELSE "Disjoint"
    [] e1.elem = "Downcast" /\ e1.variant # e2.variant -> "Disjoint"
    [] "Index" \in {e1.elem, e2.elem} /\ bias = "NoOverlap" -> "Disjoint"
    [] DisjointIndices(e1, e2) \/ DisjointIndices(e2, e1) -> "Disjoint"
    [] OTHER -> "EqualOrDisjoint"

(* The access cannot get to what a further projection of the borrow holds. *)
OutOfReach(e, sd) ==
  \/ sd \in {"ShallowLength", "ShallowFakeBorrow"}
  \/ e.elem = "Deref" /\ sd = "Shallow"
  \/ e.elem = "Deref" /\ e.of = "RefMut" /\ sd = "Drop"

(* A destructor gets to all of its value.                                  *)
GetsToAll(e, sd) == e.elem = "Field" /\ e.of = "Dtor" /\ sd = "Drop"

First(positions) == CHOOSE i \in positions : \A j \in positions : i <= j

place_components_conflict(borrow, kind, access, sd, bias) ==
  LET common == 1..(IF Len(borrow) < Len(access) THEN Len(borrow) ELSE Len(access))
      overlap(i) == place_projection_conflict(borrow[i], access[i], bias)
      parted == {i \in common : overlap(i) # "EqualOrDisjoint"}
      further == {i \in DOMAIN borrow \ common :
                    OutOfReach(borrow[i], sd) \/ GetsToAll(borrow[i], sd)}
  IN  CASE parted # {} -> overlap(First(parted)) = "Arbitrary"
        [] parted = {} /\ further # {} -> ~OutOfReach(borrow[First(further)], sd)
        [] OTHER -> ~(kind = "FakeShallow" /\ Len(borrow) < Len(access))

borrow_conflicts_with_place(borrow, kind, access, sd, bias) ==
  /\ borrow.local = access.local
  /\ place_components_conflict(borrow.projection, kind, access.projection, sd, bias)

(* As a mutable borrow and a deep access would.                            *)
places_conflict(borrow, access, bias) ==
  borrow_conflicts_with_place(borrow, "TwoPhase", access, "Deep", bias)

=============================================================================

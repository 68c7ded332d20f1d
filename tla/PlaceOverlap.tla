----------------------------- MODULE PlaceOverlap -----------------------------
(***************************************************************************)
(* The loans that are in scope at a statement, the places it names and the *)
(* decision of PlacesConflict between the two, compared with the memory    *)
(* that places denote.  An element of an array or slice is a set of        *)
(* positions once the length is known; two places may overlap if, at each  *)
(* level that both have, some length lets them share a position.           *)
(***************************************************************************)
EXTENDS LoanScopes

CONSTANT MaxIndex   \* no offset, length or bound in a projection is greater

(* Projections as MIR has them: an element matched from the front or the   *)
(* end is in the least length that matches.  A subslice of an array holds  *)
(* something: one that does not is borrowed as if it held its bounds.      *)
WellFormed(e) ==
  CASE e.elem = "ConstantIndex" ->
         /\ {e.offset, e.min_length} \subseteq 0..MaxIndex /\ e.from_end \in BOOLEAN
         /\ IF e.from_end THEN e.offset \in 1..e.min_length ELSE e.offset < e.min_length
    [] e.elem = "Subslice" ->
         /\ {e.from, e.to} \subseteq 0..MaxIndex /\ e.from_end \in BOOLEAN
         /\ ~e.from_end => e.from < e.to
    [] OTHER -> e.elem \in {"Index", "Field", "Deref", "Downcast"}

(* Of bases of one type, as place_projection_conflict requires ("mismatched *)
(* projections"): slices are cut from the end, arrays from the front.      *)
InSlice(e) == e.elem \in {"Index", "ConstantIndex"} \/ (e.elem = "Subslice" /\ e.from_end)
InArray(e) == e.elem = "Index" \/ (e.elem \in {"ConstantIndex", "Subslice"} /\ ~e.from_end)
OfOneBase(e1, e2) ==
  \/ e1.elem = e2.elem /\ e1.elem \in {"Deref", "Downcast"}
  \/ e1.elem = "Field" /\ e2.elem = "Field" /\ e1.of = e2.of
  \/ InSlice(e1) /\ InSlice(e2)
  \/ InArray(e1) /\ InArray(e2)

(* After different fields or variants the types need not agree.            *)
Parting(e1, e2) ==
  \/ e1.elem = "Field" /\ e1.field # e2.field
  \/ e1.elem = "Downcast" /\ e1.variant # e2.variant

ASSUME PlacesAssumption ==
  /\ MaxIndex \in Nat
  /\ \A m \in Bodies : \A l \in DOMAIN m.places, p \in StatementsOf(m) :
       \A w \in m.blocks[p[1]][p[2]].writes :
         LET s == m.places[l].projection
             t == w.projection
         IN  /\ IsSeq(s) /\ \A i \in DOMAIN s : WellFormed(s[i])
             /\ IsSeq(t) /\ \A i \in DOMAIN t : WellFormed(t[i])
             /\ m.places[l].local = w.local =>
                  \A i \in DOMAIN s \cap DOMAIN t :
                    (\A j \in 1..i-1 : ~Parting(s[j], t[j])) => OfOneBase(s[i], t[i])

VARIABLE compared  \* none, or the arguments and the result of a comparison

(* A loan in scope before p is compared with a place named there: by an    *)
(* access of any depth, or, in the dataflow, as if two indices differ.     *)
Compare(p, l) ==
  /\ Done /\ compared = << >>
  /\ l \in Before(entry[p[1]], p[1], p[2])
  /\ \E w \in At(p).writes, k \in {"TwoPhase", "FakeShallow"}, d \in Depths, o \in Biases :
       /\ o = "NoOverlap" => k = "TwoPhase" /\ d = "Deep"   \* places_conflict
       /\ compared' =
            [borrow |-> body.places[l], kind |-> k, access |-> w, sd |-> d, bias |-> o,
             conflict |-> borrow_conflicts_with_place(body.places[l], k, w, d, o)]
  /\ UNCHANGED vars

InitCompare == compared = << >>
NextCompare == \/ Next /\ UNCHANGED compared
               \/ \E p \in Locations, l \in Loans : Compare(p, l)
SpecCompare == Init /\ InitCompare /\ [][NextCompare]_<<vars, compared>>

-----------------------------------------------------------------------------
(* What places denote.                                                     *)

(* Lengths of arrays and slices: any two projections that can overlap do   *)
(* so for one of these.                                                    *)
Lengths == 1..2 * MaxIndex + 1

Fits(e, n) ==
  CASE e.elem = "ConstantIndex" -> e.min_length <= n
    [] e.elem = "Subslice" -> IF e.from_end THEN e.from + e.to <= n ELSE e.to <= n
    [] OTHER -> TRUE

Parts(e, n) ==
  CASE e.elem = "Index" -> 0..n - 1
    [] e.elem = "ConstantIndex" -> {IF e.from_end THEN n - e.offset ELSE e.offset}
    [] e.elem = "Subslice" -> e.from..(IF e.from_end THEN n - e.to ELSE e.to) - 1
    [] e.elem = "Field" -> {e.field}
    [] e.elem = "Downcast" -> {e.variant}
    [] OTHER -> {0}

Sharing(e1, e2) == {n \in Lengths : Fits(e1, n) /\ Fits(e2, n)}
MayMeet(e1, e2) == \E n \in Sharing(e1, e2) : Parts(e1, n) \cap Parts(e2, n) # {}

(* What lies `below` the accessed place is accessed too: all of it, what is *)
(* not behind a pointer, or what dropping gets to: what Boxes own, and all *)
(* of a value with a destructor.  What is behind a raw pointer counts as   *)
(* dropped, too, as the code takes any Deref that is of no reference; no   *)
(* loan is tracked through one (place_ext.rs:47-56).                       *)
TouchesBelow(below) ==
  CASE compared.sd = "Deep" -> TRUE
    [] compared.sd = "Shallow" -> \A i \in DOMAIN below : below[i].elem # "Deref"
    [] compared.sd = "Drop" ->
         \E k \in 0..Len(below) :
           /\ \A i \in 1..k : ~(below[i].elem = "Deref" /\ below[i].of = "RefMut")
           /\ k = Len(below) \/ (below[k + 1].elem = "Field" /\ below[k + 1].of = "Dtor")
    [] OTHER -> below = << >>

b == compared.borrow.projection
a == compared.access.projection

(* Different fields of a union overlap in a way nothing is known of.       *)
UnionSplits == {i \in DOMAIN b \cap DOMAIN a :
                  b[i].elem = "Field" /\ b[i].of = "Union" /\ b[i].field # a[i].field}

Overlaps ==
  /\ compared.borrow.local = compared.access.local
  /\ \A i \in DOMAIN b \cap DOMAIN a :
       (\A s \in UnionSplits : i < s) => MayMeet(b[i], a[i])
  /\ UnionSplits = {} =>
       /\ TouchesBelow(SubSeq(b, Len(a) + 1, Len(b)))
       /\ compared.kind = "FakeShallow" => Len(a) <= Len(b)   \* covers the place itself

(* A conflict with a loan is found exactly when the access may touch what  *)
(* is borrowed, whatever the lengths and indices; and with the bias that   *)
(* two indices differ, only when it may.                                   *)
ConflictIsOverlap ==
  compared # << >> =>
    IF compared.bias = "Overlap" THEN compared.conflict <=> Overlaps
    ELSE compared.conflict => Overlaps

=============================================================================

--------------------------- MODULE MCMutantEdits ---------------------------
(* Instances of MutantEdits for TLC: p and q belong to user variables, t   *)
(* to a temporary.                                                         *)
EXTENDS MutantEdits, TLC

CONSTANTS p, q, t, r1, r2

MCLocalOf == p :> 1 @@ q :> 2 @@ t :> 3

Edge(place, k, r, old) == [place |-> place, kind |-> k, region |-> r, old |-> old]

(* Two shared borrows of one place, mutable borrows of two, a borrow of a  *)
(* temporary, of a snapshot, and a two-phase one.                          *)
MCBorrows ==
  {Edge(p, "shared", r1, FALSE), Edge(p, "shared", r2, FALSE),
   Edge(p, "mut", r1, FALSE), Edge(q, "mut", r1, FALSE),
   Edge(t, "mut", r1, FALSE), Edge(t, "shared", r1, FALSE),
   Edge(q, "shared", r1, TRUE), Edge(q, "two_phase", r1, FALSE)}
=============================================================================

------------------------------ MODULE BorrowSet ------------------------------
(***************************************************************************)
(* The loans of a MIR body and where two-phase borrows are activated:      *)
(* GatherBorrows (borrowck/src/borrow_set.rs) visits the locations of a    *)
(* body in preorder.                                                       *)
(*                                                                         *)
(* A block is one statement or terminator and a goto; its location is a    *)
(* number, numbers are in reverse postorder and the body starts at 1.      *)
(* A statement consumes operands, may borrow, may end the storage of       *)
(* locals or drop places, and may write one place, in this order.          *)
(***************************************************************************)
EXTENDS PlacesConflict

CONSTANTS
  Bodies,   \* families of bodies there may be
  Locals,
  Paths     \* the move paths: places that go through no reference

VARIABLES
  body,     \* [stmts, succ, preorder, args, mut, user, is_fn,
              \*  user: the locals that are variables of the program,
              \*  refs and guards: locals that hold a reference, and those
              \*  with a destructor that uses it; returned: one of refs;
              \*  polonius: -Zpolonius=legacy]
  pc,       \* "gather", "infer", "visit", "run"; "panic" is a compiler bug reported
  todo,     \* the locations left to visit
  location_map,        \* of each borrow that is tracked: kind, place, assigned
  activation_location, \* of each two-phase one: a location, 0 for NotActivated
  pending_activations  \* temporaries and their borrows

borrow_set == <<location_map, activation_location, pending_activations>>

Points == DOMAIN body.stmts
At(p) == body.stmts[p]
Local(x) == [local |-> x, projection |-> << >>]
Whole(place) == place.projection = << >>
DerefOf(e, kinds) == e.elem = "Deref" /\ e.of \in kinds
MutableKinds == {"Mut", "TwoPhase"}

(* Locals that a statement reads, or writes a part of; writes as a whole.  *)
Reads(s) ==
  {s.operands[i].place.local : i \in DOMAIN s.operands}
    \cup {r.place.local : r \in s.ref} \cup {d.local : d \in s.drop}
    \cup {w.local : w \in {w \in s.to : ~Whole(w)}}
Stores(s) == {w.local : w \in {w \in s.to : Whole(w)}}

(* What points reach `from` or follow it, through points that go on.       *)
Closure(from, next(_), goesOn(_)) ==
  LET reached[n \in 0..Len(body.stmts)] ==
        IF n = 0 THEN from
        ELSE LET before == reached[n-1]
             IN  before \cup UNION {next(p) : p \in {p \in before : goesOn(p)}}
  IN  reached[Len(body.stmts)]
Succ(p) == body.succ[p]
Pred(p) == {q \in Points : p \in body.succ[q]}

-----------------------------------------------------------------------------

(* LocalsStateAtExit: a function invalidates its locals when it returns.   *)
has_storage_dead_or_moved ==
  UNION {At(p).dead \cup {d.local : d \in At(p).drop}
           \cup {o.place.local : o \in {At(p).operands[i] : i \in DOMAIN At(p).operands} \cap
                                         [move : {TRUE}, place : Paths]} : p \in Points}

(* Nothing the function may do to the place can invalidate the borrow.     *)
ignore_borrow(place) ==
  \/ ~body.is_fn /\ place.local \notin has_storage_dead_or_moved \cup body.mut
  \/ \E i \in DOMAIN place.projection : DerefOf(place.projection[i], {"Ref"})

Init ==
  /\ \E family \in Bodies : body \in family
  /\ pc = "gather" /\ todo = body.preorder
  /\ location_map = << >> /\ activation_location = << >> /\ pending_activations = << >>

BorrowAt(p) ==
  LET r == CHOOSE r \in At(p).ref : TRUE
  IN  [kind |-> r.kind, place |-> r.place, assigned |-> CHOOSE w \in At(p).to : TRUE]

Extend(f, keys, value) == [k \in DOMAIN f \cup keys |-> IF k \in keys THEN value ELSE f[k]]

Tracked(p) == {r \in At(p).ref : ~ignore_borrow(r.place)}

TempsOfIgnored(p) ==
  IF \E r \in At(p).ref : r.kind = "TwoPhase" THEN Stores(At(p)) ELSE {}

(* insert_as_pending_if_two_phase.                                         *)
Temps(p) ==
  IF \E r \in Tracked(p) : r.kind = "TwoPhase" THEN Stores(At(p)) ELSE {}

(* How often a statement mentions a local, the store of a borrow aside.    *)
Mentions(p, v, pending) ==
  LET s == At(p)
  IN  Cardinality({i \in DOMAIN s.operands : s.operands[i].place.local = v})
        + Cardinality({r \in s.ref : r.place.local = v}) + Cardinality({d \in s.drop : d.local = v})
        + Cardinality({w \in s.to : w.local = v /\ ~(Whole(w) /\ pending[v] = p)})

(* visit_assign registers the borrow; visit_local finds the one use of a   *)
(* two-phase temporary, the borrow's own store to it aside.  A statement   *)
(* whose borrow is ignored is not looked into.                             *)
GatherLocation ==
  /\ pc = "gather" /\ todo # << >>
  /\ LET p        == Head(todo)
         temps    == Temps(p)
         pending  == Extend(pending_activations, temps, p)
         used     == IF At(p).ref # Tracked(p) THEN {}
                     ELSE {t \in DOMAIN pending : Mentions(p, t, pending) > 0}
         known    == Extend(activation_location, IF temps = {} THEN {} ELSE {p}, 0)
         twice    == {t \in used : Mentions(p, t, pending) > 1 \/ known[pending[t]] # 0}
     IN  IF temps \cap DOMAIN pending_activations # {} \/ twice # {}
           THEN pc' = "panic" /\ UNCHANGED <<todo, borrow_set>>
           ELSE /\ location_map' = Extend(location_map, {p : r \in Tracked(p)}, BorrowAt(p))
                /\ activation_location' = Extend(known, {pending[t] : t \in used}, p)
                /\ pending_activations' = pending
                /\ todo' = Tail(todo)
                /\ UNCHANGED pc
  /\ UNCHANGED body

Loans == DOMAIN location_map

-----------------------------------------------------------------------------

(* Every path from the start to p goes through a.                          *)
Dominates(a, p) == p = a \/ p \notin Closure({1} \ {a}, Succ, LAMBDA q : q # a)

is_activeOnceDominated(l, p) ==
  LET a == activation_location[l]
  IN  IF location_map[l].kind # "TwoPhase" THEN TRUE ELSE a # 0 /\ Dominates(a, p)

(* A two-phase borrow is active except where control is between its        *)
(* reservation and its activation; the location after the reservation in   *)
(* its block is the goto.                                                  *)
is_active(l, p) ==
  LET a == activation_location[l]
  IN  CASE location_map[l].kind # "TwoPhase" -> TRUE
        [] location_map[l].kind = "TwoPhase" /\ a = 0 -> FALSE
        [] OTHER -> Dominates(a, p) \/ ~(p # l /\ Dominates(l, p))

=============================================================================

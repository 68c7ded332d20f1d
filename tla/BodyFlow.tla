------------------------------ MODULE BodyFlow ------------------------------
(***************************************************************************)
(* What the borrow check knows of a body before it visits it: where places *)
(* may be initialised, where locals are live (type_check/liveness), which  *)
(* references may come from which, and with it the regions and the loans   *)
(* in scope.  References are held in whole locals.                         *)
(***************************************************************************)
EXTENDS Diagnostics

Derefs(place) == {i \in DOMAIN place.projection : DerefOf(place.projection[i], {"Ref", "RefMut"})}
Upto(place, n) == [place EXCEPT !.projection = SubSeq(@, 1, n)]
Last(S) == CHOOSE i \in S : \A j \in S : j <= i

(* MaybeUninitializedPlaces, MaybeInitializedPlaces, EverInitializedPlaces *)
(* on entry to a location.                                                 *)
Inits(p, m) == \E w \in At(p).to : Prefix(w, m)
MovesOut(p, m) ==
  \/ m.local \in At(p).dead
  \/ \E d \in At(p).drop : Prefix(d, m)
  \/ \E o \in Operands(At(p)) : o.move /\ Prefix(o.place, m)
After(points) == UNION {Succ(p) : p \in points}
Entry(v, arg) == IF (v \in body.args) = arg THEN {1} ELSE {}
MaybeUninit(m) ==
  Closure(Entry(m.local, FALSE) \cup After({p \in Points : MovesOut(p, m) /\ ~Inits(p, m)}),
          Succ, LAMBDA p : ~Inits(p, m))
MaybeInit(m) ==
  Closure(Entry(m.local, TRUE) \cup After({p \in Points : Inits(p, m)}),
          Succ, LAMBDA p : ~MovesOut(p, m))
EverInit(v) ==
  Closure(Entry(v, TRUE) \cup After({p \in Points : v \in Stores(At(p))}),
          Succ, LAMBDA p : v \notin At(p).dead)

(* use_live_at: backwards from the uses to the definitions of a local.  A  *)
(* use in a statement that defines the local is its end, too.              *)
Defines(p, v) == v \in Stores(At(p)) \cup At(p).dead
Uses(s) == Reads([s EXCEPT !.drop = {d \in @ : ~Whole(d)}])
Live(v) == Closure({p \in Points : v \in Uses(At(p)) /\ ~Defines(p, v)},
                   LAMBDA p : {q \in Pred(p) : ~Defines(q, v)}, LAMBDA p : TRUE)

(* drop_live_at: backwards from where a value that may be there is dropped *)
(* to where it is not there yet, or used anyway.  What a call writes is    *)
(* not there at its exit.                                                  *)
initialized_at_terminator(p, v) == \E m \in Paths : m.local = v /\ p \in MaybeInit(m)
initialized_at_exit(p, v) ==
  \E m \in Paths : m.local = v /\ \/ p \in MaybeInit(m) /\ ~MovesOut(p, m)
                                  \/ At(p).depth = "Shallow" /\ Inits(p, m)
DropLive(v) ==
  LET used == Live(v)
  IN  Closure({p \in Points : Local(v) \in At(p).drop /\ initialized_at_terminator(p, v)},
              LAMBDA p : {q \in Pred(p) : initialized_at_exit(q, v) /\ ~Defines(q, v) /\ q \notin used},
              LAMBDA p : TRUE)

(* The references in v given to a function, for the regions of its         *)
(* signature, which are live at the call; a destructor, too, may touch     *)
(* what a guard refers to.                                                 *)
Given(p, v) == At(p).depth = "Deep" /\ \E o \in Operands(At(p)) : o.place = Local(v)
LiveAt(v) ==
  Live(v) \cup {p \in Points : Given(p, v)} \cup (IF v \in body.guards THEN DropLive(v) ELSE {})

(* The goto after a statement is a point of its own.                       *)
initialized_at_goto(p, v) ==
  \E m \in Paths : m.local = v /\ ((p \in MaybeInit(m) /\ ~MovesOut(p, m)) \/ Inits(p, m))
LiveAfter(v) ==
  LET used    == Live(v)
      dropped == IF v \in body.guards THEN DropLive(v) ELSE {}
  IN  {p \in Points : \/ Succ(p) \cap used # {}
                      \/ Succ(p) \cap dropped # {} /\ initialized_at_goto(p, v)}

(* Locals whose references a statement makes from those in v: assigned, or *)
(* returned by a function that v was given to (its signature has one       *)
(* region), or a reborrow, whose region is tied to those of the references *)
(* it goes through.                                                        *)
Assigned(p, v) == At(p).depth = "Shallow" /\ \E o \in Operands(At(p)) : o.place = Local(v)
Returned(p, v, w) == Given(p, v) /\ w \in Stores(At(p))
Reborrowed(p, v) == \E r \in At(p).ref : r.place.local = v /\ Derefs(r.place) # {}
Flows(v) ==
  UNION {Stores(At(p)) : p \in {p \in Points : Given(p, v) \/ Assigned(p, v) \/ Reborrowed(p, v)}}

(* The locals whose references may come from those in v.                   *)
Holders(v) ==
  LET onto == [u \in Locals |-> Flows(u)]
      holders[n \in 0..Cardinality(Locals)] ==
        IF n = 0 THEN {v}
        ELSE LET before == holders[n-1] IN before \cup UNION {onto[u] : u \in before}
  IN  holders[Cardinality(Locals)]

(* The references returned are live in the caller: no liveness is computed *)
(* for the locals they come from.                                          *)
boring(holders) == body.returned \in holders
RegionOf(v) ==
  LET holders == Holders(v)
  IN  IF boring(holders) THEN [at |-> Points, after |-> Points]
      ELSE [at |-> UNION {LiveAt(w) : w \in holders}, after |-> UNION {LiveAfter(w) : w \in holders}]

(* kill_borrows_on_place, at the end of storage and at an assignment; an   *)
(* ignored borrow and the destination of a call are none.                  *)
Kills(p, l) ==
  LET place   == location_map[l].place
      assigns == At(p).depth = "Shallow" /\ At(p).ref = Tracked(p)
  IN  \/ place.local \in At(p).dead
      \/ assigns /\ place.local \in Stores(At(p))
      \/ assigns /\ \E w \in At(p).to : ~Whole(w) /\ places_conflict(place, w, "NoOverlap")

(* Borrows: a loan is in scope on the paths from it that stay in its       *)
(* region, at statements and the gotos after them, and on which its place  *)
(* is not overwritten.                                                     *)
InScope(l) ==
  LET region == RegionOf(location_map[l].assigned.local)
      at     == region.at \cup {l}
      Leaves(p) == ~Kills(p, l) /\ p \in region.after
  IN  at \cap Closure(IF Leaves(l) THEN Succ(l) ELSE {}, Succ, LAMBDA p : p \in at /\ Leaves(p))

-----------------------------------------------------------------------------

(* What a statement does to a place.                                       *)
Access(place, depth, rw, kind) ==
  [place |-> place, depth |-> depth, rw |-> rw, kind |-> kind,
   local_mutation |-> kind \in {"Move", "StorageDeadOrDrop"}, loan |-> 0]

(* Of a borrow.                                                            *)
BorrowAccess(r) ==
  CASE r.kind = "TwoPhase" -> Access(r.place, "Deep", "Reservation", "MutableBorrow")
    [] r.kind = "Mut" -> Access(r.place, "Deep", "Write", "MutableBorrow")
    [] r.kind = "FakeShallow" -> Access(r.place, "ShallowFakeBorrow", "Read", r.kind)
    [] OTHER -> Access(r.place, "Deep", "Read", r.kind)
Dies(place, depth) == Access(place, depth, "Write", "StorageDeadOrDrop")
Activates(l) == [Access(location_map[l].place, "Deep", "Activation", "MutableBorrow") EXCEPT !.loan = l]
Activated(p) == {l \in DOMAIN activation_location : activation_location[l] = p}

=============================================================================

------------------------------- MODULE Polonius -------------------------------
(***************************************************************************)
(* -Zpolonius=legacy: the facts about a body (borrowck/src/polonius,       *)
(* type_check/liveness/polonius.rs), and what the naive rules of the       *)
(* Polonius engine, an outside library, derive from them.                  *)
(*                                                                         *)
(* A location has two points, its start and its mid-point, where its       *)
(* effects are.  Facts are kept by location; which point they are at is in *)
(* their comment.  Origins are the locals that hold a reference, each with *)
(* the one region of its type, and the locations of borrows.  Subsets of   *)
(* universal regions are left out, but for the one that is returned.       *)
(***************************************************************************)
EXTENDS BodyFlow

(* At the mid-point.  A loan is killed when the storage of its local ends, *)
(* and by an assignment or call that overwrites the local or what it       *)
(* refers to, or definitely the place.                                     *)
ThroughLocal(w) == Len(w.projection) = 1 /\ w.projection[1].elem = "Deref"
loan_killed_at(l, p) ==
  LET place == location_map[l].place
  IN  \/ place.local \in At(p).dead
      \/ \E w \in At(p).to : /\ w.local = place.local
                             /\ \/ Whole(w) \/ ThroughLocal(w)
                                \/ places_conflict(place, w, "NoOverlap")

(* The accesses to a location's places, as the borrow check makes them.    *)
Accesses(p) ==
  LET s == At(p)
  IN  {Activates(l) : l \in Activated(p)}
        \cup {BorrowAccess(r) : r \in s.ref}
        \cup {IF o.move THEN Access(o.place, "Deep", "Write", "Move")
                        ELSE Access(o.place, "Deep", "Read", "Copy") : o \in Operands(s)}
        \cup {Dies(Local(v), "Shallow") : v \in s.dead}
        \cup {Dies(d, "Drop") : d \in s.drop}
        \cup {Access(w, s.depth, "Write", "Mutate") : w \in s.to}

(* Anything but a read invalidates, save the activation of the loan itself. *)
Invalidates(a, l, p) ==
  LET loan == location_map[l]
  IN  /\ borrow_conflicts_with_place(loan.place, loan.kind, a.place, a.depth, "Overlap")
      /\ ~(a.rw = "Activation" /\ a.loan = l)
      /\ a.rw = "Read" => loan.kind \in MutableKinds /\ a.kind # "FakeShallow" /\ is_active(l, p)

(* At the start.  A return invalidates all loans of locals.                *)
borrow_of_local_data(place) == \A i \in DOMAIN place.projection : place.projection[i].elem # "Deref"
loan_invalidated_at(p) ==
  {l \in Loans : \/ \E a \in Accesses(p) : Invalidates(a, l, p)
                 \/ At(p).returns /\ borrow_of_local_data(location_map[l].place)}

(* At the mid-point: the outlives constraints of the location.             *)
subset_base ==
  UNION {{<<e[1], e[2], p>> : e \in
           ({v \in body.refs : Assigned(p, v)} \X Stores(At(p)))
           \cup {e \in body.refs \X Stores(At(p)) : Returned(p, e[1], e[2])}
           \cup {<<r.place.local, p>> : r \in {r \in At(p).ref : Derefs(r.place) # {}}}
           \cup ({p : r \in At(p).ref} \X Stores(At(p)))} : p \in Points}

-----------------------------------------------------------------------------

(* var_used_at and var_dropped_at are at the mid-point, as are the         *)
(* definitions: a variable used where it is defined is live before.        *)
var_use_live_anyway(v) == Closure({p \in Points : v \in Uses(At(p))}, Pred, LAMBDA p : TRUE)
var_use_live_on_entry(v) ==
  Closure({p \in Points : v \in Uses(At(p))}, LAMBDA p : {q \in Pred(p) : ~Defines(q, v)}, LAMBDA p : TRUE)
var_drop_live_on_entry(v) ==
  Closure({p \in Points : Local(v) \in At(p).drop /\ initialized_at_terminator(p, v)},
          LAMBDA p : {q \in Pred(p) : ~Defines(q, v) /\ initialized_at_exit(q, v)}, LAMBDA p : TRUE)

(* The region of what is returned is universal.                            *)
origin_live_on_entry(v) ==
  IF v = body.returned THEN Points
  ELSE var_use_live_on_entry(v) \cup (IF v \in body.guards THEN var_drop_live_on_entry(v) ELSE {})

(* The rules, a round of all at a time: a subset or a loan of an origin is *)
(* carried on to where the origins are live, a loan unless it is killed.   *)
OnEntry(k, live, killed) ==
  [subset   |-> UNION {{<<e[1], e[2], q>> : q \in {q \in Succ(e[3]) : {e[1], e[2]} \X {q} \subseteq live}} :
                         e \in k.subset},
   contains |-> UNION {{<<c[1], c[2], q>> : q \in {q \in Succ(c[3]) : <<c[1], q>> \in live}} :
                         c \in {c \in k.contains : <<c[2], c[3]>> \notin killed}}]
Round(k, entry) ==
  LET subset == k.subset \cup entry.subset
        \cup UNION {{<<e[1], f[2], e[3]>> : f \in {f \in k.subset : f[1] = e[2] /\ f[3] = e[3]}} : e \in k.subset}
      contains == k.contains \cup entry.contains
        \cup UNION {{<<e[2], c[2], c[3]>> : c \in {c \in k.contains : c[1] = e[1] /\ c[3] = e[3]}} : e \in k.subset}
  IN  [subset |-> subset, contains |-> contains]

(* No fact takes more rounds than it takes to visit each location twice    *)
(* with each of three rules.                                               *)
MaxRounds == 6 * Len(body.stmts)

(* Output::compute: loans that are live and invalidated.  Rounds are made  *)
(* until one brings nothing new.                                           *)
errors ==
  LET live   == UNION {{v} \X origin_live_on_entry(v) : v \in body.refs}
      killed == {k \in Loans \X Points : loan_killed_at(k[1], k[2])}
      base   == [subset |-> subset_base, contains |-> {<<l, l, l>> : l \in Loans}]
      known[n \in 0..MaxRounds] ==
        IF n = 0 THEN <<base, Round(base, OnEntry(base, live, killed))>>
        ELSE LET k == known[n-1]
             IN  IF k[1] = k[2] THEN k ELSE <<k[2], Round(k[2], OnEntry(k[2], live, killed))>>
      entry  == OnEntry(known[MaxRounds][2], live, killed)
  IN  [p \in Points |-> loan_invalidated_at(p) \cap {c[2] : c \in {c \in entry.contains : c[3] = p}}]

=============================================================================

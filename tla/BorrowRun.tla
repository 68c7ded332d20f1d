------------------------------ MODULE BorrowRun ------------------------------
(***************************************************************************)
(* What the borrow check is for: the runs of the bodies it accepts.        *)
(*                                                                         *)
(* Memory is a set of cells, a local and one of its fields.  A borrow      *)
(* makes a tag for the cells it lends; a reference is a tag.  An access    *)
(* ends the tags that may not be used after it, and using one that is      *)
(* ended is an error of the run, as is reading a cell that holds nothing.  *)
(***************************************************************************)
EXTENDS BorrowCheck

CONSTANTS
  Fields,   \* of every local
  MaxSteps  \* of a run

VARIABLE run \* [at, steps, store, tags, last, init, ever, mutated, ub]

vars == <<body, pc, todo, borrow_set, flow, mbcx, run>>

CellsOf(v) == {v} \X Fields

(* The cells a place denotes, and the tag they are reached by (0: owned).  *)
Via(m, place) == IF Derefs(place) = {} THEN 0 ELSE m.store[place.local]
Cells(m, place) ==
  LET base   == IF Via(m, place) = 0 THEN CellsOf(place.local) ELSE m.tags[Via(m, place)].cells
      fields == {place.projection[i].field : i \in {i \in DOMAIN place.projection :
                                                      place.projection[i].elem = "Field"}}
  IN  {c \in base : fields \subseteq {c[2]}}

(* A tag and those it was made from.                                       *)
Lineage(m, t) ==
  LET up[n \in 0..Len(m.tags)] ==
        IF n = 0 THEN {t} ELSE LET below == up[n-1] IN below \cup {m.tags[u].parent : u \in below \ {0}}
  IN  up[Len(m.tags)] \ {0}

(* An access by tag t: others may not write what is lent, nor read what is *)
(* lent mutably.  What was made from a tag ends with it.                   *)
Touch(m, t, cells, writes) ==
  LET ended == {u \in DOMAIN m.tags \ Lineage(m, t) :
                  m.tags[u].cells \cap cells # {} /\ (writes \/ m.tags[u].kind = "Mut")}
  IN  [m EXCEPT
     !.tags = [u \in DOMAIN m.tags |-> [m.tags[u] EXCEPT !.valid = @ /\ Lineage(m, u) \cap ended = {}]],
     !.ub = @ \/ (t # 0 /\ (~m.tags[t].valid \/ (writes /\ m.tags[t].kind = "Shared")))]

(* Of a place: through a reference, which must be there, or of a local.    *)
Held(m, place) == (place.local \in body.refs) => m.store[place.local] # 0
TouchPlace(m, place, writes, needs) ==
  IF Derefs(place) # {} /\ ~Held(m, place)
    THEN [m EXCEPT !.ub = TRUE]
    ELSE [Touch(m, Via(m, place), Cells(m, place), writes)
            EXCEPT !.ub = @ \/ (needs /\ ~(Cells(m, place) \subseteq m.init))]

(* The first use of a reserved reference makes it the only one.            *)
Activate(m, v) ==
  LET t == m.store[v]
  IN  IF t = 0 \/ m.tags[t].kind # "TwoPhase" THEN m
      ELSE [Touch(m, t, m.tags[t].cells, TRUE) EXCEPT !.tags[t].kind = "Mut"]

(* A reference may only be passed on while it may be used, and one given   *)
(* to a callee is used by it.                                              *)
UseReference(m, t) == IF t = 0 THEN m ELSE Touch(m, t, m.tags[t].cells, m.tags[t].kind = "Mut")
PassOn(m, t, called) ==
  IF called THEN UseReference(m, t) ELSE [m EXCEPT !.ub = @ \/ (t # 0 /\ ~m.tags[t].valid)]

Consume(m, o, called) ==
  LET v     == o.place.local
      read  == TouchPlace(m, o.place, o.move, TRUE)
      used  == IF Whole(o.place) THEN PassOn(read, m.store[v], called) ELSE read
  IN  IF o.move THEN [used EXCEPT !.init = @ \ Cells(m, o.place)] ELSE used

Note(m, place, mutates) ==
  IF mutates /\ Derefs(place) = {} /\ place.local \in m.ever
    THEN [m EXCEPT !.mutated = @ \cup {place.local}] ELSE m

Lend(m, r, p) ==
  LET touched == TouchPlace(Note(m, r.place, r.kind \in MutableKinds), r.place, r.kind = "Mut", TRUE)
  IN  [touched EXCEPT
         !.tags = Append(@, [cells |-> Cells(m, r.place), parent |-> Via(m, r.place),
                             kind |-> r.kind, valid |-> TRUE]),
         !.last = [@ EXCEPT ![p] = Len(m.tags) + 1]]

Release(m, v) == [TouchPlace(m, Local(v), TRUE, FALSE)
                    EXCEPT !.init = @ \ CellsOf(v), !.ever = @ \ {v}, !.store[v] = 0]
Write(m, w, value) ==
  LET noted   == Note(m, w, TRUE)
      written == TouchPlace(noted, w, TRUE, FALSE)
  IN  [written EXCEPT !.init = @ \cup Cells(m, w),
                      !.ever = IF Whole(w) THEN @ \cup {w.local} ELSE @,
                      !.store[w.local] = IF Whole(w) THEN value ELSE @]

(* What was moved out is not dropped; a guard's destructor uses what it    *)
(* refers to, and needs all of the guard.                                  *)
Destroy(m, d) ==
  LET there == Cells(m, d) \cap m.init
      run_dtor == d.local \in body.guards /\ there # {}
      used  == IF run_dtor THEN UseReference(m, m.store[d.local]) ELSE m
  IN  [Touch(used, Via(m, d), there, TRUE)
         EXCEPT !.init = @ \ there, !.ub = @ \/ (run_dtor /\ there # Cells(m, d))]

(* The reference a statement puts into its destination; a callee may give  *)
(* back the one it got.                                                    *)
Value(before, after, s) ==
  CASE s.ref # {} -> Len(after.tags)
    [] s.ref = {} /\ \E o \in Operands(s) : o.place.local \in body.refs /\ Whole(o.place)
         -> before.store[(CHOOSE o \in Operands(s) : TRUE).place.local]
    [] OTHER -> 0

Execute(m, s, p) ==
  LET readied  == Each(LAMBDA n, v : Activate(n, v), m, Reads(s) \cap body.refs)
      lent     == Each(LAMBDA n, r : Lend(n, r, p), readied, s.ref)
      consumed == Lists!FoldLeft(LAMBDA n, o : Consume(n, o, s.depth = "Deep"), lent, s.operands)
      dead     == Each(LAMBDA n, v : Release(n, v), consumed, s.dead)
      dropped  == Each(LAMBDA n, d : Destroy(n, d), dead, s.drop)
  IN  Each(LAMBDA n, w : Write(n, w, Value(m, lent, s)), dropped, s.to)

(* A function's locals die with it, the reference it returns is used.      *)
Return(m) ==
  LET left == IF body.is_fn THEN Touch(m, 0, (Locals \ {body.returned}) \X Fields, TRUE) ELSE m
  IN  UseReference(left, m.store[body.returned])

RunInit ==
  /\ CheckInit
  /\ run = [at |-> 1, steps |-> 0, store |-> [v \in Locals |-> 0], tags |-> << >>,
            last |-> [p \in Points |-> 0], init |-> UNION {CellsOf(v) : v \in body.args},
            ever |-> body.args, mutated |-> {}, ub |-> FALSE]

(* Only a body without an error is compiled; the others are run, too, to   *)
(* see what their errors are about.                                        *)
Start ==
  /\ pc = "checked"
  /\ pc' = "run"
  /\ UNCHANGED <<body, todo, borrow_set, flow, mbcx, run>>

Step ==
  /\ pc = "run" /\ run.at # 0 /\ run.steps < MaxSteps /\ ~run.ub
  /\ LET s     == At(run.at)
         after == Execute(run, s, run.at)
     IN  \/ /\ s.returns
            /\ run' = [Return(after) EXCEPT !.at = 0]
         \/ \E q \in Succ(run.at) : run' = [after EXCEPT !.at = q, !.steps = @ + 1]
  /\ UNCHANGED <<body, pc, todo, borrow_set, flow, mbcx>>

Next == (CheckNext /\ UNCHANGED run) \/ Start \/ Step
Spec == RunInit /\ [][Next]_vars

-----------------------------------------------------------------------------

(* Type invariant.                                                         *)
TypeOK ==
  /\ pc \in {"gather", "panic", "visit", "checked", "run"}
  /\ Loans \subseteq Points
  /\ \A l \in DOMAIN activation_location : l \in Loans /\ activation_location[l] \in Points \cup {0}
  /\ pc \notin {"gather", "panic"} => borrows \in [Points -> SUBSET Loans]
  /\ mbcx.used_mut \subseteq Locals
  /\ run.at \in Points \cup {0} /\ run.init \subseteq Locals \X Fields

(* No run of an accepted body uses a reference after what it points to was *)
(* written, lent mutably, moved or freed by another, writes through a      *)
(* shared one, or reads what was never written or was moved: what the      *)
(* access checks, the loans in scope and the moved-out paths promise       *)
(* together (borrowck/src/lib.rs 1000-1189).                               *)
AcceptedIsSafe == pc = "run" /\ Accepted => ~run.ub

(* Along every run of an accepted body, is_active, which only knows        *)
(* dominators, says of a two-phase loan in scope whether its reference has *)
(* been used yet (the diamond drawn in path_utils.rs 92-131).              *)
ActiveWhenUsed ==
  pc = "run" /\ Accepted /\ run.at # 0 =>
    \A l \in borrows_in_scope(run.at) :
      location_map[l].kind = "TwoPhase" /\ run.last[l] # 0 /\ run.tags[run.last[l]].valid
        => /\ is_active(l, run.at) => \/ run.tags[run.last[l]].kind = "Mut"
                                      \/ activation_location[l] = run.at
           /\ run.tags[run.last[l]].kind = "Mut" => is_active(l, run.at)

(* What Polonius has an error for, the borrow check without it has in      *)
(* scope, too, though its facts come from other visits of the body         *)
(* (polonius/loan_kills.rs, loan_invalidations.rs and the liveness it is   *)
(* given): it accepts more.  Only of a reference that one statement both   *)
(* uses and redefines it may know more: it is live before that statement   *)
(* for Polonius, and not for compute_use_live_points_for.                  *)
Redefines(l) ==
  \E p \in Points : \E v \in Holders(location_map[l].assigned.local) : v \in Uses(At(p)) /\ Defines(p, v)
PoloniusIsMorePrecise ==
  pc = "visit" /\ body.polonius =>
    \A p \in Points : \A l \in polonius_output[p] : l \in borrows[p] \/ Redefines(l)

(* A variable whose mut the lint calls unused is never assigned again nor  *)
(* lent mutably on any run (used_mut, add_used_mut, gather_used_muts).     *)
UnusedMutIsNeverMutated ==
  pc = "run" /\ Accepted => run.mutated \cap UnusedMut = {}

(* A conflict is reported for a reason: in a body without branches, each   *)
(* of whose references is assigned once, so that its region is about one   *)
(* value, some access or later use of the run does go wrong.  (The mutants *)
(* this tool counts as rejected are rejected by such errors.)              *)
AssignedOnce ==
  \A v \in body.refs : Cardinality({p \in Points : v \in Stores(At(p))}) <= 1
Straight == \A p \in Points : Succ(p) \subseteq {p + 1}
ConflictErrors ==
  {"use_while_mutably_borrowed", "conflicting_borrow", "move_out_while_borrowed",
   "illegal_mutation_of_borrowed", "does_not_live_long_enough"}
ConflictIsReal ==
  pc = "run" /\ run.at = 0 /\ Straight /\ AssignedOnce /\ ~Accepted
    /\ (\A diag \in mbcx.emitted : diag[1] \in ConflictErrors) => run.ub

=============================================================================

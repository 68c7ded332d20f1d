----------------------------- MODULE BorrowCheck -----------------------------
(***************************************************************************)
(* The borrow check of a body (borrowck/src/lib.rs): regions, loans in     *)
(* scope and initialisation first, then a visit of every location in       *)
(* reverse postorder that checks each access against them.                 *)
(*                                                                         *)
(* No closures, coroutines, raw pointers or unions; references are held in *)
(* whole locals.                                                           *)
(***************************************************************************)
EXTENDS Polonius

VARIABLES
  borrows,         \* state.borrows: the loans in scope at each location
  polonius_output, \* with -Zpolonius=legacy: its errors at each location
  uninits,         \* state.uninits: the move paths that may be uninitialised
  ever_inits,      \* state.ever_inits: the locals that may have been initialised
  mbcx             \* MirBorrowckCtxt: its diagnostics and used_mut

flow == <<borrows, polonius_output, uninits, ever_inits>>

(* nll::compute_regions and get_flow_results.                              *)
Infer ==
  /\ pc = "gather" /\ todo = << >>
  /\ borrows' = LET scope == [l \in Loans |-> InScope(l)]
                IN  [p \in Points |-> {l \in Loans : p \in scope[l]}]
  /\ polonius_output' = IF body.polonius THEN errors ELSE << >>
  /\ uninits' = LET at == [m \in Paths |-> MaybeUninit(m)]
                IN  [p \in Points |-> {m \in Paths : p \in at[m]}]
  /\ ever_inits' = LET at == [v \in Locals |-> EverInit(v)]
                   IN  [p \in Points |-> {v \in Locals : p \in at[v]}]
  /\ pc' = "visit" /\ todo' = [p \in Points |-> p]
  /\ UNCHANGED <<body, borrow_set, mbcx>>

-----------------------------------------------------------------------------

CompatibleIfShared(a, l, p) ==
  LET kind == location_map[l].kind
  IN  \/ a.rw = "Activation" /\ a.loan = l
      \/ a.rw \in {"Read", "Reservation"} /\ (kind \notin MutableKinds \/ a.kind = "FakeShallow")
      \/ a.rw = "Write" /\ a.kind = "Move" /\ kind = "FakeShallow"

CompatibleIfMoved(a, l, p) ==
  LET kind == location_map[l].kind
  IN  \/ a.rw = "Activation" /\ a.loan = l
      \/ a.rw = "Read" /\ (kind \notin MutableKinds \/ a.kind = "FakeShallow" \/ ~is_active(l, p))
      \/ a.rw = "Reservation" /\ kind \notin MutableKinds
      \/ a.rw = "Write" /\ a.kind = "Move" /\ kind \notin MutableKinds

(* check_access_for_conflict: may this access meet a loan in scope?        *)
Compatible(a, l, p) ==
  LET kind == location_map[l].kind
  IN  \/ a.rw = "Activation" /\ a.loan = l
      \/ a.rw = "Read" /\ (kind \notin MutableKinds \/ a.kind = "FakeShallow" \/ ~is_active(l, p))
      \/ a.rw = "Reservation" /\ kind \notin MutableKinds
      \/ a.rw = "Write" /\ a.kind = "Move" /\ kind = "FakeShallow"

(* The loans to ask about are those in scope, or those that Polonius says  *)
(* something is wrong with.                                                *)
borrows_in_scope(p) == IF body.polonius THEN polonius_output[p] ELSE borrows[p]
Conflicts(a, p) ==
  {l \in borrows_in_scope(p) :
     /\ borrow_conflicts_with_place(location_map[l].place, location_map[l].kind, a.place, a.depth, "Overlap")
     /\ ~Compatible(a, l, p)}


(* is_mutable and the root it finds: mutable data behind a unique path, or *)
(* a local that is declared so.                                            *)
Barriers(place) == {i \in DOMAIN place.projection : DerefOf(place.projection[i], {"Ref"})}
ThroughRefMut(place) == \E i \in DOMAIN place.projection : DerefOf(place.projection[i], {"RefMut"})
is_mutable(a) ==
  /\ Barriers(a.place) = {}
  /\ a.place.local \in body.mut \/ a.local_mutation \/ ThroughRefMut(a.place)

Mutates(a) == a.rw \in {"Write", "Reservation"} /\ a.kind \in {"Mutate", "MutableBorrow"}

(* An attempt to initialise a part is another error's business.            *)
MutabilityError(a, p) == Mutates(a) /\ ~is_mutable(a) /\ a.place.local \in ever_inits[p]
UsesMutByWrite(a, p) ==
  a.rw = "Write" /\ a.kind \in {"Mutate", "MutableBorrow"} /\ is_mutable(a) /\ ~a.local_mutation
    /\ ~ThroughRefMut(a.place) /\ a.place.local \in ever_inits[p]
UsesMut(a, p) ==
  Mutates(a) /\ is_mutable(a) /\ ~a.local_mutation /\ ~ThroughRefMut(a.place)
    /\ a.place.local \in ever_inits[p]

(* The barrier, or the local, that keeps a place from being mutable.       *)
PlaceErr(place) == IF Barriers(place) = {} THEN Local(place.local) ELSE Upto(place, Last(Barriers(place)))

check_access_permissions(m, a, p) ==
  CASE UsesMut(a, p) -> [m EXCEPT !.used_mut = @ \cup {a.place.local}]
    [] MutabilityError(a, p) /\ a.kind = "Mutate" /\ Whole(a.place) -> report_illegal_reassignment(m, a.place, p)
    [] MutabilityError(a, p) /\ ~(a.kind = "Mutate" /\ Whole(a.place)) ->
         report_mutability_error(m, a.place, PlaceErr(a.place), a.kind, p)
    [] OTHER -> m

(* One loan, the first gathered, is told of.                               *)
check_access_for_conflict(m, a, p) ==
  LET order    == Lists!SelectSeq(body.preorder, LAMBDA l : l \in Conflicts(a, p))
      recorded == IF a.rw = "Reservation"
                    THEN [m EXCEPT !.reservation_error_reported = @ \cup {a.place}] ELSE m
  IN  IF order = << >> THEN m
      ELSE CASE a.rw = "Read" /\ a.kind = "Copy" -> report_use_while_mutably_borrowed(m, a.place, p)
             [] a.rw = "Read" /\ a.kind # "Copy" -> report_conflicting_borrow(m, a.place, p)
             [] a.kind = "MutableBorrow" -> report_conflicting_borrow(recorded, a.place, p)
             [] a.kind = "StorageDeadOrDrop" -> report_borrowed_value_does_not_live_long_enough(m, order[1], p)
             [] a.kind = "Mutate" -> report_illegal_mutation_of_borrowed(m, a.place, p)
             [] a.kind = "Move" -> report_move_out_while_borrowed(m, a.place, p)

access_place(m, a, p) ==
  LET suppressed == \/ a.rw = "Activation" /\ a.place \in m.reservation_error_reported
                    \/ <<a.place, p>> \in m.access_place_error_reported
      checked    == check_access_for_conflict(check_access_permissions(m, a, p), a, p)
  IN  IF suppressed THEN m
      ELSE IF Conflicts(a, p) = {} /\ ~MutabilityError(a, p) THEN checked
           ELSE [checked EXCEPT !.access_place_error_reported = @ \cup {<<a.place, p>>}]

(* The part of a place that initialisation is known of: it goes neither    *)
(* through a reference nor into a type with a destructor.                  *)
move_path_closest_to(place) == Upto(place, Last({i \in 0..Len(place.projection) : Upto(place, i) \in Paths}))

check_if_full_path_is_moved(m, place, p) ==
  LET path == move_path_closest_to(place)
  IN  IF path \in uninits[p] THEN report_use_of_moved_or_uninitialized(m, place, path, p) ELSE m

(* Of several descendants that may be uninitialised, some one.             *)
check_if_path_or_subpath_is_moved(m, place, p) ==
  LET full  == check_if_full_path_is_moved(m, place, p)
      below == {n \in uninits[p] : Prefix(place, n)}
  IN  IF below = {} THEN full
      ELSE report_use_of_moved_or_uninitialized(
             full, place, IF place \in below THEN place ELSE CHOOSE n \in below : TRUE, p)

(* Writing a field needs what it is a field of, up to a reference; no      *)
(* complaint about mut where a part was to be initialised.                 *)
check_parent_of_field(m, base, p) ==
  LET uninit == {i \in 0..Len(base.projection) :
                   Upto(base, i) \in uninits[p] /\ \A j \in Derefs(base) : j <= i}
  IN  IF uninit = {} THEN m
      ELSE [report_use_of_moved_or_uninitialized(m, base, Upto(base, First(uninit)), p)
              EXCEPT !.used_mut = @ \cup {base.local}]

(* Fields of types with a destructor.                                      *)
OfDtor(place) == {i \in DOMAIN place.projection : place.projection[i].elem = "Field" /\ place.projection[i].of = "Dtor"}

(* From the last projection on.  Writing through a reference needs the     *)
(* reference, writing a field of what has a destructor all of that.        *)
check_if_assigned_path_is_moved(m, place, p) ==
  LET end     == Last({0} \cup Derefs(place) \cup OfDtor(place))
      bases   == Lists!Reverse([i \in 1..Len(place.projection) - end |-> Upto(place, end + i - 1)])
      parents == Lists!FoldLeft(LAMBDA n, base : check_parent_of_field(n, base, p), m, bases)
  IN  CASE end = 0 -> parents
        [] end \in Derefs(place) -> check_if_full_path_is_moved(parents, Upto(place, end - 1), p)
        [] end \in OfDtor(place) -> check_if_path_or_subpath_is_moved(parents, Upto(place, end - 1), p)

(* Only what is owned may be moved, and not out of what has a destructor.  *)
check_movable_place(m, place, p) ==
  IF Derefs(place) \cup OfDtor(place) = {} THEN m ELSE [m EXCEPT !.move_errors = @ \cup {<<place, p>>}]

consume_operand(m, o, p) ==
  LET accessed == IF o.move THEN access_place(check_movable_place(m, o.place, p),
                                              Access(o.place, "Deep", "Write", "Move"), p)
                            ELSE access_place(m, Access(o.place, "Deep", "Read", "Copy"), p)
  IN  check_if_path_or_subpath_is_moved(accessed, o.place, p)

(* consume_rvalue of a borrow.                                             *)
consume_ref(m, r, p) ==
  check_if_path_or_subpath_is_moved(access_place(m, BorrowAccess(r), p), r.place, p)

mutate_place(m, w, depth, p) ==
  access_place(check_if_assigned_path_is_moved(m, w, p), Access(w, depth, "Write", "Mutate"), p)

(* Borrows of locals that are still in scope when the function returns.    *)
check_for_invalidation_at_exit(m, p) ==
  LET dying(l) == /\ body.is_fn
                  /\ borrow_conflicts_with_place(location_map[l].place, location_map[l].kind,
                                                 Local(location_map[l].place.local), "Shallow", "Overlap")
  IN  IF ~At(p).returns THEN m
      ELSE Each(LAMBDA n, l : report_borrowed_value_does_not_live_long_enough(n, l, p),
                m, {l \in borrows[p] : dying(l)})

check_activations(m, p) ==
  Each(LAMBDA n, l : access_place(n, Activates(l), p), m, Activated(p))

(* The visit of a location.                                                *)
VisitLocation ==
  /\ pc = "visit" /\ todo # << >>
  /\ LET p == Head(todo)
         s == At(p)
         activated == check_activations(mbcx, p)
         borrowed  == Each(LAMBDA m, r : consume_ref(m, r, p), activated, s.ref)
         consumed  == Lists!FoldLeft(LAMBDA m, o : consume_operand(m, o, p), borrowed, s.operands)
         dead      == Each(LAMBDA m, v : access_place(m, Dies(Local(v), "Shallow"), p), consumed, s.dead)
         dropped   == Each(LAMBDA m, d : access_place(m, Dies(d, "Drop"), p), dead, s.drop)
         written   == Each(LAMBDA m, w : mutate_place(m, w, s.depth, p), dropped, s.to)
     IN  mbcx' = check_for_invalidation_at_exit(written, p)
  /\ todo' = Tail(todo)
  /\ UNCHANGED <<body, pc, borrow_set, flow>>

(* A variable that is never written needs no warning, nor one that moves   *)
(* into a temporary which is changed then.                                 *)
gather_used_muts(m) ==
  LET temporary_used_locals == m.used_mut \ body.user
      into == {p \in Points : Stores(At(p)) \cap temporary_used_locals # {}}
      moved == UNION {{o.place : o \in {o \in Operands(At(p)) : o.move}} : p \in into}
      never_initialized_mut_locals ==
        {v \in (body.mut \cap body.user) \ body.args : \A p \in Points : \A w \in At(p).to : w.local # v}
  IN  [m EXCEPT !.used_mut = @ \cup {w.local : w \in {w \in moved : Whole(w)}}
                               \cup never_initialized_mut_locals]

Finish ==
  /\ pc = "visit" /\ todo = << >>
  /\ mbcx' = emit_errors(gather_used_muts(report_move_errors(mbcx)))
  /\ pc' = "checked"
  /\ UNCHANGED <<body, todo, borrow_set, flow>>

CheckInit ==
  /\ Init
  /\ borrows = << >> /\ polonius_output = << >> /\ uninits = << >> /\ ever_inits = << >>
  /\ mbcx = NoErrors

CheckNext ==
  \/ GatherLocation /\ UNCHANGED <<flow, mbcx>>
  \/ Infer \/ VisitLocation \/ Finish

(* tainted_by_errors: the body may be compiled.                            *)
Accepted == mbcx.emitted = {}

(* The mut of a variable that the lint calls unused.                       *)
UnusedMut == (body.mut \cap body.user) \ mbcx.used_mut

=============================================================================

----------------------------- MODULE Diagnostics -----------------------------
(***************************************************************************)
(* The errors of a borrow check (borrowck/src/diagnostics, mod diags of    *)
(* lib.rs): what a report buffers, which reports stand in for another, and *)
(* what is emitted.  m is the MirBorrowckCtxt; a diagnostic is its kind,   *)
(* the place it is about and the location; a span is a location, that of a *)
(* declaration a local.  Labels, notes and suggestions are left out.       *)
(***************************************************************************)
EXTENDS BorrowSet

Lists == INSTANCE SequencesExt

Prefix(a, b) == a.local = b.local /\ Lists!IsPrefix(a.projection, b.projection)
Operands(s) == {s.operands[i] : i \in DOMAIN s.operands}

(* Fold a check over what a statement has of something.                    *)
Each(check(_, _), m, xs) == Lists!FoldLeft(check, m, Lists!SetToSeq(xs))

(* MirBorrowckCtxt at the start of a body.                                 *)
NoErrors ==
  [buffered_diags |-> {}, buffered_move_errors |-> << >>, buffered_mut_errors |-> << >>,
   move_errors |-> {}, access_place_error_reported |-> {}, reservation_error_reported |-> {},
   uninitialized_error_reported |-> {}, used_mut |-> {}, emitted |-> {}]

buffer_error(m, kind, place, p) == [m EXCEPT !.buffered_diags = @ \cup {<<kind, place, p>>}]

(* A diagnostic about the same moves is cancelled for the new one.         *)
buffer_move_error(m, moves, place, p) ==
  [m EXCEPT !.buffered_move_errors = Extend(@, {moves}, <<"use_of_moved", place, p>>)]

(* A later attempt to borrow mutably is added to the first about a local.  *)
buffer_mut_error(m, v, place, p) ==
  [m EXCEPT !.buffered_mut_errors = Extend(@, {v} \ DOMAIN @, <<"mutability", place, p>>)]

Values(f) == {f[k] : k \in DOMAIN f}
emit_errors(m) ==
  [m EXCEPT !.emitted = m.buffered_diags \cup Values(m.buffered_move_errors) \cup Values(m.buffered_mut_errors),
            !.buffered_diags = {}, !.buffered_move_errors = << >>, !.buffered_mut_errors = << >>]

-----------------------------------------------------------------------------

(* The moves out of a path or its parents that an error at p comes from:   *)
(* the last ones on the way to p, or where a loop leads back to p those of *)
(* its last turn, unless the path may be uninitialised on entering it.  The *)
(* body is entered before 1, which a loop may lead back to.                *)
MovedOut(q) == {o.place : o \in {o \in Operands(At(q)) : o.move}} \cup At(q).drop
MoveSites(q, path) ==
  IF At(q).dead # {} THEN {} ELSE {q} \X {n \in Paths \cap MovedOut(q) : Prefix(n, path)}
Stops(q, path) == MoveSites(q, path) # {} \/ \E w \in At(q).to \cap Paths : Prefix(w, path)
Ahead(q) == {r \in Pred(q) : ~Dominates(q, r)}
get_moved_indexes(p, path) ==
  LET visited == Closure(Ahead(p), Ahead, LAMBDA q : ~Stops(q, path))
      through == {p} \cup {q \in visited : ~Stops(q, path)}
      around  == Closure(UNION {Pred(q) \ Ahead(q) : q \in through}, Pred,
                         LAMBDA q : q \notin visited /\ ~Stops(q, path))
      moves   == {q \in visited : MoveSites(q, path) # {}}
      origins == IF moves = {} /\ (path.local \in body.args \/ 1 \notin through)
                   THEN around ELSE moves
  IN  UNION {MoveSites(q, path) : q \in origins}

(* One error about what was never initialised per local.                   *)
report_use_of_uninitialized(m, used, p) ==
  IF used.local \in m.uninitialized_error_reported THEN m
  ELSE buffer_error([m EXCEPT !.uninitialized_error_reported = @ \cup {used.local}],
                    "use_of_uninitialized", used, p)

(* None where the place used is a prefix of the one that the same moves    *)
(* have an error about.                                                    *)
report_use_of_moved(m, moves, used, p) ==
  IF moves \in DOMAIN m.buffered_move_errors /\ Prefix(used, m.buffered_move_errors[moves][2])
    THEN m ELSE buffer_move_error(m, moves, used, p)

report_use_of_moved_or_uninitialized(m, used, path, p) ==
  Each(LAMBDA n, moves : IF moves = {} THEN report_use_of_uninitialized(n, used, p)
                                       ELSE report_use_of_moved(n, moves, used, p),
       m, {get_moved_indexes(p, path)})

report_use_while_mutably_borrowed(m, place, p) == buffer_error(m, "use_while_mutably_borrowed", place, p)
report_conflicting_borrow(m, place, p) == buffer_error(m, "conflicting_borrow", place, p)
report_move_out_while_borrowed(m, place, p) == buffer_error(m, "move_out_while_borrowed", place, p)
report_illegal_mutation_of_borrowed(m, place, p) == buffer_error(m, "illegal_mutation_of_borrowed", place, p)
report_illegal_reassignment(m, place, p) == buffer_error(m, "illegal_reassignment", place, p)

(* Once for a local and the location of the borrow.                        *)
report_borrowed_value_does_not_live_long_enough(m, l, p) ==
  LET place == location_map[l].place
      key   == <<Local(place.local), l>>
  IN  IF key \in m.access_place_error_reported THEN m
      ELSE buffer_error([m EXCEPT !.access_place_error_reported = @ \cup {key}],
                        "does_not_live_long_enough", place, p)

(* Borrows of a local that is not declared mut are told of together.       *)
report_mutability_error(m, place, place_err, access, p) ==
  IF access = "MutableBorrow" /\ Whole(place_err)
    THEN buffer_mut_error(m, place_err.local, place, p)
    ELSE buffer_error(m, "mutability", place, p)

(* Moves out of what is not owned, told of after all that is visited.      *)
report_move_errors(m) ==
  [m EXCEPT !.buffered_diags = @ \cup {<<"illegal_move", e[1], e[2]>> : e \in m.move_errors},
            !.move_errors = {}]

=============================================================================

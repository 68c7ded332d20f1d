----------------------------- MODULE MutantEdits -----------------------------
(***************************************************************************)
(* The six mutations (src/mutator/): which places each of them picks       *)
(* between two consecutive locations of a body, and the edit of the body   *)
(* that makes a mutant of each place.  One stream is one make_stream and   *)
(* the calls of next() that drain it.                                      *)
(*                                                                         *)
(* A body is its locals, numbered from 1, and its basic blocks, each a     *)
(* sequence of statements and a terminator.  Statements of the original    *)
(* body are opaque.  Blocks and statements are numbered from 1.            *)
(***************************************************************************)
EXTENDS Naturals, Sequences, FiniteSets

CONSTANTS
  UserLocals,   \* the locals that are user variables: 1..UserLocals
  OtherLocals,  \* the number of temporaries after them
  MaxStmts,     \* bound: statements in the block that is mutated
  Places,       \* places of the body
  LocalOf,      \* the local of a place
  Borrows,      \* the borrow edges there may be
  MaxEdges      \* bound: borrow edges at a location

BorrowEdges(R) ==
  [place : Places, kind : {"shared", "mut", "two_phase"}, region : R, old : BOOLEAN]

ASSUME BodyAssumption ==
  /\ Borrows \subseteq BorrowEdges({e.region : e \in Borrows})
  /\ IsFiniteSet(Places) /\ IsFiniteSet({e.region : e \in Borrows})
  /\ UserLocals \in Nat /\ OtherLocals \in Nat /\ MaxStmts \in Nat \ {0}
  /\ LocalOf \in [Places -> 1..UserLocals + OtherLocals]

VARIABLES
  body,      \* the body being mutated
  curr,      \* the location after which a mutant is made; next is its successor
  kind,      \* the mutation
  at_curr,   \* the PCG after curr (PostMain)
  at_next,   \* the PCG before the main effect of next (PostOperands)
  blocking,  \* for a place, the places blocking it (PlacesBlocking.tla)
  pending,   \* what the stream has yet to make mutants of, a Vec
  mutant,    \* the mutant last made; the body itself before the first
  made       \* history: the picks of which mutants were made, in order

inputs == <<body, curr, kind, at_curr, at_next, blocking>>
vars == <<inputs, pending, mutant, made>>

-----------------------------------------------------------------------------

ExpiryKinds == {"borrow-expiry-order", "abstract-expiry-order"}
Kinds == ExpiryKinds \cup
  {"mutably-lend-shared", "read-from-write-only", "write-to-shared", "move-from-borrowed"}

(* What a mutation looks at in the PCG of a location: the borrow edges,    *)
(* with the place each blocks (old if that is a snapshot), or the places   *)
(* with W capability.  A two-phase borrow is neither is_shared nor is_mut. *)
BorrowStates ==
  [borrows : {E \in SUBSET Borrows : Cardinality(E) <= MaxEdges}, write_only : {{}}]
States(k) ==
  IF k = "read-from-write-only" THEN [borrows : {{}}, write_only : SUBSET Places]
                                ELSE BorrowStates

Nothing == [borrows |-> {}, write_only |-> {}]

has_named_local(place) == LocalOf[place] <= UserLocals

(* borrowed_places, with the regions of the borrows.                       *)
borrowed_places(state, k) ==
  {<<e.place, e.region>> : e \in {e \in state.borrows : e.kind = k /\ ~e.old}}

Named(pairs) == {x \in pairs : has_named_local(x[1])}
PlacesOf(pairs) == {x[1] : x \in pairs}

PicksOfCurr ==
  CASE kind = "read-from-write-only" ->
         {<<p, "no region">> : p \in {p \in at_curr.write_only : has_named_local(p)}}
    [] kind \in ExpiryKinds -> {}
    [] kind = "move-from-borrowed" ->
         {<<p, "no region">> : p \in PlacesOf(Named(borrowed_places(at_curr, "mut")))}
    [] OTHER -> Named(borrowed_places(at_curr, "shared"))

(* make_stream collects its picks: a place and the region of its borrow,   *)
(* or a mutably borrowed place and one that blocks it.  write-to-shared    *)
(* walks the edges of next, so it picks a place as often as it is          *)
(* borrowed, though the region plays no part in its mutant.  Edges of one  *)
(* place and one region make one pick here and as many in the code, all of *)
(* the same mutant.                                                        *)
Picks ==
  CASE kind = "mutably-lend-shared" ->
         {x \in Named(borrowed_places(at_curr, "shared")) :
            x[1] \in PlacesOf(borrowed_places(at_next, "shared"))}
    [] kind = "write-to-shared" ->
         {x \in Named(borrowed_places(at_next, "shared")) :
            x[1] \in PlacesOf(borrowed_places(at_curr, "shared"))}
    [] kind = "move-from-borrowed" ->
         {<<p, "no region">> : p \in PlacesOf(Named(borrowed_places(at_curr, "mut")))
                                  \cap PlacesOf(borrowed_places(at_next, "mut"))}
    [] kind = "read-from-write-only" ->
         {<<p, "no region">> : p \in {p \in at_curr.write_only \cap at_next.write_only :
                                        has_named_local(p)}}
    [] OTHER ->
         UNION {{<<p, q>> : q \in {q \in blocking[p] : has_named_local(q)}} :
                  p \in PlacesOf(Named(borrowed_places(at_next, "mut")))}

(* The Vec a set is collected into is in no particular order.              *)
Orders(S) == {f \in [1..Cardinality(S) -> S] : \A i, j \in 1..Cardinality(S) : f[i] = f[j] => i = j}

-----------------------------------------------------------------------------

Orig(b, i) == [op |-> "orig", block |-> b, index |-> i]
Block(stmts, term) == [stmts |-> stmts, term |-> term]

(* fresh_local: push a local, a user variable, on the local_decls.         *)
FreshLocal(b) == b.locals + 1
WithFresh(b, n) == [b EXCEPT !.locals = @ + n]

InsertAfter(b, loc, stmt) ==
  [b EXCEPT !.blocks[loc[1]].stmts =
     SubSeq(@, 1, loc[2]) \o <<stmt>> \o SubSeq(@, loc[2] + 1, Len(@))]

Made(b, first, last) == [body |-> b, first |-> first, last |-> last]

(* The mutants of one inserted statement, between curr and next.           *)
Insertion(b, loc, stmt, fresh) ==
  LET here == <<loc[1], loc[2] + 1>>
  IN  Made(InsertAfter(WithFresh(b, fresh), loc, stmt), here, here)

(* The statement that read-from-write-only inserts reads the fresh local,  *)
(* and write-to-shared writes into no fresh local.                         *)
InsertionOf(b, loc, k, pick) ==
  CASE k = "mutably-lend-shared" ->
         Insertion(b, loc, [op |-> "borrow mut", dst |-> FreshLocal(b), place |-> pick[1],
                            region |-> pick[2]], 1)
    [] k = "write-to-shared" ->
         Insertion(b, loc, [op |-> "assign", dst |-> pick[1], place |-> pick[1]], 0)
    [] k = "move-from-borrowed" ->
         Insertion(b, loc, [op |-> "move", dst |-> FreshLocal(b), place |-> pick[1]], 1)
    [] k = "read-from-write-only" ->
         Insertion(b, loc, [op |-> "fake read", local |-> FreshLocal(b)], 1)

(* places_to_statements: a shared reborrow of each place, in this order,   *)
(* into a fresh local each.                                                *)
Reborrow(place, local) == [op |-> "borrow shared", dst |-> local, place |-> place]
SwappedStatements(b, p, q) ==
  <<Reborrow(q, b.locals + 1), Reborrow(p, b.locals + 2)>>

places_to_statements(b, p, q) ==
  <<Reborrow(p, b.locals + 1), Reborrow(q, b.locals + 2)>>

(* The block is split between curr and next.  Its tail goes to a new block *)
(* with its terminator; a second new block uses p2 before p1 and ends in   *)
(* Unreachable; a FalseEdge leads to both, to the first in reality.  The   *)
(* range ends at the index curr has in the old block.                      *)
ExpiryMutant(b, loc, pick) ==
  LET old     == b.blocks[loc[1]]
      tail    == Len(b.blocks) + 1
      branch  == Len(b.blocks) + 2
      head    == Block(SubSeq(old.stmts, 1, loc[2]),
                       [op |-> "false edge", real |-> tail, imaginary |-> branch])
  IN  Made([locals |-> b.locals + 2,
            blocks |-> [b.blocks EXCEPT ![loc[1]] = head]
                         \o <<Block(SubSeq(old.stmts, loc[2] + 1, Len(old.stmts)), old.term),
                              Block(places_to_statements(b, pick[1], pick[2]),
                                    [op |-> "unreachable"])>>],
           <<branch, 1>>, <<branch, loc[2]>>)

MutantOf(b, loc, k, pick) ==
  IF k \in ExpiryKinds THEN ExpiryMutant(b, loc, pick) ELSE InsertionOf(b, loc, k, pick)

-----------------------------------------------------------------------------

(* The mutated block loops back to itself, goes to the other, or returns.  *)
Terminators == {[op |-> "goto", target |-> 1], [op |-> "goto", target |-> 2], [op |-> "return"]}

Init ==
  /\ \E n \in 1..MaxStmts, term \in Terminators :
       body = [locals |-> UserLocals + OtherLocals,
               blocks |-> <<Block([i \in 1..n |-> Orig(1, i)], term),
                            Block(<<Orig(2, 1)>>, [op |-> "return"])>>]
  /\ curr \in {1} \X (1..Len(body.blocks[1].stmts))
  /\ kind \in Kinds
  /\ at_curr \in IF kind \in ExpiryKinds THEN {Nothing} ELSE States(kind)
  /\ at_next \in States(kind)
  /\ blocking \in IF kind \in ExpiryKinds
                    THEN {b \in [Places -> SUBSET Places] : \A p \in Places : p \notin b[p]}
                    ELSE {[p \in Places |-> {}]}
  /\ pending \in Orders(Picks)
  /\ mutant = Made(body, curr, curr)
  /\ made = << >>

(* maybe_next: a clone of the body is edited for the last place of the Vec.*)
MakeMutant ==
  /\ pending # << >>
  /\ mutant' = MutantOf(body, curr, kind, pending[Len(pending)])
  /\ made' = Append(made, pending[Len(pending)])
  /\ pending' = SubSeq(pending, 1, Len(pending) - 1)
  /\ UNCHANGED inputs

Next == MakeMutant

Spec == Init /\ [][Next]_vars /\ WF_vars(Next)

-----------------------------------------------------------------------------

NextLoc == <<curr[1], curr[2] + 1>>
Inserts == made # << >> /\ kind \notin ExpiryKinds
Splits == made # << >> /\ kind \in ExpiryKinds
Pick == made[Len(made)]

StmtAt(b, loc) == b.blocks[loc[1]].stmts[loc[2]]
Exists(b, loc) == loc[1] \in 1..Len(b.blocks) /\ loc[2] \in 1..Len(b.blocks[loc[1]].stmts)

Targets(term) ==
  CASE term.op = "goto" -> {term.target}
    [] term.op = "false edge" -> {term.real, term.imaginary}
    [] OTHER -> {}

(* A mutant is a well-formed body: each block has a terminator with its    *)
(* targets in the body, and there are few locals more than before.         *)
IsWellFormed ==
  /\ Exists(body, curr)
  /\ made # << >> =>
       /\ mutant.body.locals \in body.locals..body.locals + 2
       /\ \A b \in 1..Len(mutant.body.blocks) :
            Targets(mutant.body.blocks[b].term) \subseteq 1..Len(mutant.body.blocks)

(* Erasing the one inserted statement gives the original body back, its    *)
(* locals but the fresh ones included: mutants do not accumulate edits.    *)
InsertionIsAnEdit ==
  Inserts =>
    LET stmts == mutant.body.blocks[NextLoc[1]].stmts
    IN  /\ mutant.body.blocks =
             [body.blocks EXCEPT ![NextLoc[1]].stmts = stmts]
        /\ SubSeq(stmts, 1, curr[2]) \o SubSeq(stmts, curr[2] + 2, Len(stmts)) =
             body.blocks[NextLoc[1]].stmts
        /\ mutant.first = NextLoc /\ mutant.last = NextLoc

(* Along the real edges an expiry mutant runs the original body: head and  *)
(* tail of the split block are its statements, the tail ends as it ended,  *)
(* and no other block has changed.  The branch no execution takes uses the *)
(* borrowed place first, then the place that blocks it.                    *)
SplitRunsTheOriginal ==
  Splits =>
    LET blocks == mutant.body.blocks
        head   == blocks[curr[1]]
        tail   == blocks[head.term.real]
        branch == blocks[head.term.imaginary]
    IN  /\ head.term.op = "false edge"
        /\ head.stmts \o tail.stmts = body.blocks[curr[1]].stmts
        /\ Len(head.stmts) = curr[2]
        /\ tail.term = body.blocks[curr[1]].term
        /\ \A b \in 1..Len(body.blocks) : b # curr[1] => blocks[b] = body.blocks[b]
        /\ branch.term.op = "unreachable"
        /\ branch.stmts[1].place = Pick[1] /\ branch.stmts[2].place = Pick[2]
        /\ Pick[2] \in blocking[Pick[1]]

(* Every mutant is the original body with its one edit, and a body,        *)
(* whatever mutants were made before it.                                   *)
MutantIsTheEdit == IsWellFormed /\ InsertionIsAnEdit /\ SplitRunsTheOriginal

(* The places the mutants are about are lent (or write-only) on both sides *)
(* of the inserted statement, in the way the mutation is to break, and     *)
(* belong to user variables.                                               *)
PlaceIsStillLent ==
  Inserts =>
    LET breaks == IF kind = "move-from-borrowed" THEN "mut" ELSE "shared"
        lent(state) == \E e \in state.borrows : e.place = Pick[1] /\ e.kind = breaks /\ ~e.old
    IN  /\ LocalOf[Pick[1]] \in 1..UserLocals
        /\ IF kind = "read-from-write-only"
             THEN Pick[1] \in at_curr.write_only \cap at_next.write_only
             ELSE lent(at_curr) /\ lent(at_next)

(* "creates mutants which read from places with W capability", says the    *)
(* comment on ReadFromWriteOnly: the inserted statement mentions the place.*)
ReadsTheWriteOnlyPlace ==
  made # << >> /\ kind = "read-from-write-only" =>
    LET stmt == StmtAt(mutant.body, mutant.first)
    IN  "place" \in DOMAIN stmt /\ stmt.place = Pick[1]

=============================================================================

----------------------------- MODULE LoanScopes -----------------------------
(***************************************************************************)
(* Where the loans of a MIR body are in scope (borrowck/src/dataflow.rs):  *)
(* OutOfScopePrecomputer finds the locations at which the region of a loan *)
(* ends, one loan after the other, and the Borrows dataflow starts a loan  *)
(* at its borrow, ends it there, and where its place is assigned or dies.  *)
(*                                                                         *)
(* A location is <<block, i>>, the i-th statement of the block, the last   *)
(* one its terminator.  The regions are the result of region inference.    *)
(***************************************************************************)
EXTENDS PlacesConflict

CONSTANT Bodies   \* bodies there may be: the borrowed places of their loans,
                  \* in the order of their BorrowIndex, their blocks, and
                  \* the set of successors of each block

(* A statement is a borrow, one that is not tracked (ignore_borrow), an    *)
(* assignment of another rvalue, a StorageDead or a terminator with inline *)
(* assembly outputs, with the places `writes` that it overwrites; or none  *)
(* of these.                                                               *)
Statements == {"ref", "ignored_ref", "assign", "storage_dead", "asm", "other"}

IsSeq(s) == s \in Seq({s[i] : i \in DOMAIN s})
StatementsOf(b) == UNION {{<<i, j>> : j \in DOMAIN b.blocks[i]} : i \in DOMAIN b.blocks}

(* A block ends with a terminator; the borrow set holds a loan for each    *)
(* borrow that is tracked.                                                 *)
ASSUME BodiesAssumption ==
  \A b \in Bodies :
    /\ IsSeq(b.places) /\ IsSeq(b.blocks)
    /\ \A i \in DOMAIN b.blocks :
         /\ IsSeq(b.blocks[i]) /\ b.blocks[i] # << >>
         /\ b.succ[i] \subseteq DOMAIN b.blocks
    /\ \A p \in StatementsOf(b) : LET s == b.blocks[p[1]][p[2]] IN
         s.op \in Statements /\ (s.op = "ref" => s.loan \in DOMAIN b.places)
    /\ \A l \in DOMAIN b.places : \E p \in StatementsOf(b) :
         {q \in StatementsOf(b) : b.blocks[q[1]][q[2]].op = "ref" /\ b.blocks[q[1]][q[2]].loan = l} = {p}

VARIABLES
  body,          \* the body that is checked
  region,        \* the points of each loan's region
  is_ref_to_static, \* locals that refer to a static
  pc,            \* precomputing: "start", "visit"; then "flow"
  loan,          \* the loan whose region is followed
  visited, visit_stack,
  borrows_out_of_scope_at_location,
  entry,         \* dataflow: the loans in scope on entry to each block
  dirty          \* dataflow: the blocks to process

input == <<body, region, is_ref_to_static>>
precomputer == <<loan, visited, visit_stack, borrows_out_of_scope_at_location>>
vars == <<input, pc, precomputer, entry, dirty>>

-----------------------------------------------------------------------------

Loans == DOMAIN body.places
Blocks == DOMAIN body.blocks
Locations == StatementsOf(body)
At(p) == body.blocks[p[1]][p[2]]

(* borrow_data.reserve_location.  Type checking makes the region of a      *)
(* borrow live there, so the region contains it.                           *)
ReserveLocation(l) == CHOOSE p \in Locations : At(p).op = "ref" /\ At(p).loan = l

first_non_contained_inclusive(l, b, start, end) ==
  LET out == {i \in start..end : <<b, i>> \notin region[l]}
  IN  IF out = {} THEN {} ELSE {CHOOSE i \in out : \A j \in out : i <= j}

Init ==
  /\ body \in Bodies
  /\ region \in [Loans -> SUBSET Locations]
  /\ \A l \in Loans : ReserveLocation(l) \in region[l]
  /\ is_ref_to_static \in SUBSET {body.places[l].local : l \in Loans}
  /\ pc = "start"
  /\ loan = 1 /\ visited = {} /\ visit_stack = << >>
  /\ borrows_out_of_scope_at_location = [p \in Locations |-> << >>]
  /\ entry = [b \in Blocks |-> {}]
  /\ dirty = Blocks

(* Successors not seen before go on the stack, each once, in any order.    *)
Orders(S) ==
  {f \in [1..Cardinality(S) -> S] : \A i, j \in 1..Cardinality(S) : f[i] = f[j] => i = j}

PushSuccessors(b, stack) ==
  /\ \E fresh \in Orders(body.succ[b] \ visited) : visit_stack' = stack \o fresh
  /\ visited' = visited \cup body.succ[b]

Push(p) ==
  borrows_out_of_scope_at_location' =
    [borrows_out_of_scope_at_location EXCEPT ![p] = Append(@, loan)]

(* The first block is followed from the borrow on; a kill there is the end.*)
StartLoan ==
  /\ pc = "start" /\ loan \in Loans
  /\ LET p    == ReserveLocation(loan)
         kill == first_non_contained_inclusive(loan, p[1], p[2], Len(body.blocks[p[1]]))
     IN  \/ /\ kill # {}
            /\ \E i \in kill : Push(<<p[1], i>>)
            /\ loan' = loan + 1 /\ pc' = pc
            /\ UNCHANGED <<visited, visit_stack>>
         \/ /\ kill = {}
            /\ PushSuccessors(p[1], visit_stack)
            /\ pc' = "visit"
            /\ UNCHANGED <<loan, borrows_out_of_scope_at_location>>
  /\ UNCHANGED <<input, entry, dirty>>

(* Any other block, the first one included if it is reached again.         *)
VisitBlock ==
  /\ pc = "visit" /\ visit_stack # << >>
  /\ LET b    == visit_stack[Len(visit_stack)]
         rest == SubSeq(visit_stack, 1, Len(visit_stack) - 1)
         kill == first_non_contained_inclusive(loan, b, 1, Len(body.blocks[b]))
     IN  \/ /\ kill # {}
            /\ \E i \in kill : Push(<<b, i>>)
            /\ visit_stack' = rest
            /\ UNCHANGED visited
         \/ /\ kill = {}
            /\ PushSuccessors(b, rest)
            /\ UNCHANGED borrows_out_of_scope_at_location
  /\ UNCHANGED <<input, pc, loan, entry, dirty>>

FinishLoanKeepingVisited ==
  /\ pc = "visit" /\ visit_stack = << >>
  /\ loan' = loan + 1 /\ pc' = "start"
  /\ UNCHANGED <<input, visited, visit_stack, borrows_out_of_scope_at_location, entry, dirty>>

(* visited is cleared for the next loan.                                   *)
FinishLoan ==
  /\ pc = "visit" /\ visit_stack = << >>
  /\ visited' = {}
  /\ loan' = loan + 1 /\ pc' = "start"
  /\ UNCHANGED <<input, visit_stack, borrows_out_of_scope_at_location, entry, dirty>>

(* All loans are done: the dataflow analysis runs.                         *)
StartFlow ==
  /\ pc = "start" /\ loan \notin Loans
  /\ pc' = "flow"
  /\ UNCHANGED <<input, precomputer, entry, dirty>>

-----------------------------------------------------------------------------

as_local(place) == place.projection = << >>

(* kill_borrows_on_place: all loans of a local that is written as a whole, *)
(* else those of places that, if two indices always differ, overlap.       *)
KilledOn(place) ==
  LET of_local == {l \in Loans : body.places[l].local = place.local}
  IN  IF as_local(place) THEN {l \in of_local : place.local \notin is_ref_to_static}
      ELSE {l \in of_local : places_conflict(body.places[l], place, "NoOverlap")}

OutOfScope(p) ==
  {borrows_out_of_scope_at_location[p][i] : i \in DOMAIN borrows_out_of_scope_at_location[p]}

(* apply_early_*_effect.                                                   *)
EarlyEffect(state, p) == state \ OutOfScope(p)

KilledAt(p) ==
  IF At(p).op \in {"ignored_ref", "other"} THEN {} ELSE UNION {KilledOn(w) : w \in At(p).writes}

PrimaryEffectKeepingOverwritten(state, p) ==
  IF At(p).op = "ref" THEN state \cup {At(p).loan}
  ELSE state \ (IF At(p).op = "assign" THEN {} ELSE KilledAt(p))

(* apply_primary_*_effect: an untracked borrow returns before the kill.    *)
PrimaryEffect(state, p) ==
  (IF At(p).op = "ref" THEN state \cup {At(p).loan} ELSE state) \ KilledAt(p)

(* The loans in scope before location <<b, i>>, given those on entry to b. *)
Before(start, b, i) ==
  LET after[n \in 0..Len(body.blocks[b])] ==
        IF n = 0 THEN start ELSE PrimaryEffect(EarlyEffect(after[n-1], <<b, n>>), <<b, n>>)
  IN  after[i-1]

FlowBlockRequeueing(b) ==
  /\ pc = "flow" /\ b \in dirty
  /\ LET out  == Before(entry[b], b, Len(body.blocks[b]) + 1)
         succs == body.succ[b]
     IN  /\ entry' = [s \in Blocks |-> IF s \in succs THEN entry[s] \cup out ELSE entry[s]]
         /\ dirty' = (dirty \ {b}) \cup succs
  /\ UNCHANGED <<input, pc, precomputer>>

(* iterate_to_fixpoint joins the effect of a block into its successors.    *)
FlowBlock(b) ==
  /\ pc = "flow" /\ b \in dirty
  /\ LET out  == Before(entry[b], b, Len(body.blocks[b]) + 1)
         succs == body.succ[b]
         grow == {s \in succs : ~(out \subseteq entry[s])}
     IN  /\ entry' = [s \in Blocks |-> IF s \in succs THEN entry[s] \cup out ELSE entry[s]]
         /\ dirty' = (dirty \ {b}) \cup grow
  /\ UNCHANGED <<input, pc, precomputer>>

Next == StartLoan \/ VisitBlock \/ FinishLoan \/ StartFlow \/ \E b \in Blocks : FlowBlock(b)

(* Sequential code; the worklist of the dataflow engine is drained.        *)
Spec == Init /\ [][Next]_vars /\ WF_vars(Next)

-----------------------------------------------------------------------------

Precomputed(l) == loan > l
Done == pc = "flow" /\ dirty = {}

Successors(p) ==
  IF p[2] < Len(body.blocks[p[1]])
    THEN {<<p[1], p[2] + 1>>}
    ELSE {<<s, 1>> : s \in body.succ[p[1]]}

(* The points that paths from `from` reach through points in `inside`: the *)
(* least set that holds the first and what follows the second.             *)
Reached(from, inside) ==
  {p \in Locations :
     \A S \in SUBSET Locations :
       from \subseteq S /\ (\A q \in S \cap inside : Successors(q) \subseteq S) => p \in S}

(* A loan's kills are the frontier of its region: the points outside it    *)
(* that execution can come to from the borrow without having left it       *)
(* before, and each is recorded once, though blocks are visited whole,     *)
(* once, and the first one from its middle.                                *)
KillsAreFrontier ==
  \A l \in Loans : Precomputed(l) =>
    LET reached == Reached({ReserveLocation(l)}, region[l])
    IN  \A p \in Locations :
          Cardinality({i \in DOMAIN borrows_out_of_scope_at_location[p] :
                         borrows_out_of_scope_at_location[p][i] = l}) =
            (IF p \in reached \ region[l] THEN 1 ELSE 0)

(* The place of a loan is written or dies at p.                            *)
Ends(l, p) ==
  /\ At(p).op \notin {"ignored_ref", "other"}
  /\ \E w \in At(p).writes :
       /\ w.local = body.places[l].local
       /\ IF w.projection = << >> THEN w.local \notin is_ref_to_static
          ELSE places_conflict(body.places[l], w, "NoOverlap")

(* A loan is in scope at a point exactly when there is a path to it from   *)
(* the borrow that stays in the region and on which nothing ends the loan. *)
InScopeIsPath ==
  Done =>
    \A l \in Loans :
      LET start == ReserveLocation(l)
          live  == Reached(IF Ends(l, start) THEN {} ELSE Successors(start),
                           {p \in region[l] : p # start /\ ~Ends(l, p)})
      IN  \A p \in Locations : l \in Before(entry[p[1]], p[1], p[2]) <=> p \in live

(* The precomputation and the dataflow end.                                *)
ReachesFixpoint == <>Done

=============================================================================

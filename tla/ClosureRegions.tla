---------------------------- MODULE ClosureRegions ----------------------------
(***************************************************************************)
(* A function and the closures, coroutines and inline constants inside it, *)
(* each borrow-checked by itself: how UniversalRegions::new numbers the    *)
(* regions an item is given (borrowck/src/universal_regions.rs), what it   *)
(* takes as known of them (type_check/free_region_relations.rs), what it   *)
(* asks of its creator, and how the creator reads that                     *)
(* (prove_closure_bounds of type_check/mod.rs, apply_closure_requirements  *)
(* of type_check/constraint_conversion.rs).                                *)
(*                                                                         *)
(* Item 0 is the function, the typeck root; an item comes after the one it *)
(* is in.  A region as the compiler names it is a triple, as an item       *)
(* numbers it a RegionVid.  Types are the regions they mention and one     *)
(* type parameter T.  Universes and points of the CFG are in RegionInfer.  *)
(***************************************************************************)
EXTENDS Naturals, Sequences, FiniteSets, FiniteSetsExt

CONSTANTS
  Bodies(_, _), \* of a program and an item of it, what its statements may ask
                \* for: pairs of regions, and regions that T must outlive
  Programs
    (* Records of a function and what is inside:                           *)
    (*   parent: of each item but the function, the one that creates it    *)
    (*   kind: "FnDef", "Closure", "FnOnceClosure", "Coroutine" or         *)
    (*     "InlineConst" of each item                                      *)
    (*   early: the number of early-bound regions of the function          *)
    (*   upvars: of each item, the regions its arguments mention besides   *)
    (*   signature: the bound regions that its signature mentions          *)
    (*   late: late_bound_vars, those that it declares                     *)
    (*   c_variadic: whether the function is                               *)
    (*   bounds, type_bounds: the declared 'a: 'b and T: 'a                *)
    (*   implied: the pairs of regions that the types of its inputs imply  *)

Static == <<"static", 0, 0>>
Early(k) == <<"early", 0, k>>
Late(i, n) == <<"late", i, n>>
ClosureEnv == 0
Upvar(i, j) == <<"upvar", i, j>>    \* in the item, the j-th region of its arguments
Arg(i, j) == <<"arg", i, j>>        \* in its creator, the variable given for that
VaList == <<"va_list", 0, 0>>
FnBody(i) == <<"fn_body", i, 0>>

(* The regions that the types of an item's inputs mention: those it is     *)
(* given, and the bound ones of its own.  A closure called by reference    *)
(* has one for its environment.                                            *)
InputRegions(f, i) ==
  {Static} \cup {Early(k) : k \in 1..f.early}
    \cup {Upvar(i, j) : j \in f.early + 1..f.early + f.upvars[i]}
    \cup {Late(i, f.signature[i][n]) : n \in DOMAIN f.signature[i]}
    \cup {Late(i, ClosureEnv) : k \in {f.kind[i]} \cap {"Closure"}}

(* What the compiler hands over: an item is inside one before it, and      *)
(* declares a region once.  The types of its inputs imply bounds between   *)
(* any regions that they mention.                                          *)
ASSUME ProgramsAssumption ==
  \A f \in Programs :
    LET items == DOMAIN f.kind
    IN  /\ Cardinality(items) \in Nat \ {0} /\ items = 0..Cardinality(items) - 1
        /\ \A c \in items \ {0} : f.parent[c] \in 0..c - 1
        /\ f.early \in Nat /\ f.type_bounds \subseteq 1..f.early
        /\ f.bounds \subseteq (1..f.early) \X (1..f.early)
        /\ \A i \in items :
             /\ f.upvars[i] \in Nat /\ f.signature[i] \in Seq(Nat) /\ f.late[i] \in Seq(Nat)
             /\ \A m, n \in DOMAIN f.late[i] : f.late[i][m] = f.late[i][n] => m = n
             /\ f.implied[i] \subseteq InputRegions(f, i) \X InputRegions(f, i)

VARIABLES
  program,
  item,               \* the item that is checked; those inside it are done
  pc,                 \* the next step of its check
  universal,          \* of each item, regions by RegionVid and first_local_index
  known,              \* universal_region_relations
  constraints, type_tests,
  todo,               \* closures whose creation is still to be checked
  reaches,            \* what each region reaches along the constraints
  requirements, type_requirements, \* outlives_requirements
  errors

facts == <<universal, known>>
graph == <<constraints, type_tests>>
results == <<reaches, requirements, type_requirements, errors>>
vars == <<program, item, pc, todo, facts, graph, results>>

Items == DOMAIN program.kind
Elements(s) == {s[n] : n \in DOMAIN s}
Closures(i) == {c \in Items \ {0} : program.parent[c] = i}

(* What each node reaches along the edges: a node at a time is allowed on  *)
(* the way.                                                                *)
Reach(nodes, edges) ==
  LET through(k, R) == R \cup ({a \in nodes : <<a, k>> \in R} \X {b \in nodes : <<k, b>> \in R})
      pairs == FoldSet(through, edges, nodes)
  IN  [a \in nodes |-> {a} \cup {b \in nodes : <<a, b>> \in pairs}]

-----------------------------------------------------------------------------
(* UniversalRegionsBuilder::build.                                         *)

(* Each region that has no index yet gets the next one.                    *)
Inserted(indices, regions) ==
  LET upto[n \in 0..Len(regions)] ==
        IF n = 0 THEN indices
        ELSE IF regions[n] \in Elements(upto[n-1]) THEN upto[n-1]
        ELSE Append(upto[n-1], regions[n])
  IN  upto[Len(regions)]

for_each_late_bound_region_in_item(i) ==
  IF program.kind[i] = "InlineConst" THEN << >>
  ELSE [n \in DOMAIN program.late[i] |-> Late(i, program.late[i][n])]

(* Those of the item, then of the items around it, up to the typeck root.  *)
for_each_late_bound_region_in_recursive_scope(i) ==
  LET scope[j \in Items] ==
        for_each_late_bound_region_in_item(j)
          \o (IF j = 0 THEN << >> ELSE scope[program.parent[j]])
  IN  scope[i]

(* The free regions of its arguments each become a variable.               *)
num_args(i) == program.early + program.upvars[i]

(* First come the early-bound regions of the root.                         *)
defining_ty(i) ==
  [j \in 1..num_args(i) |-> IF j <= program.early THEN Early(j) ELSE Upvar(i, j)]

compute_indices(i) == <<Static>> \o defining_ty(i)

(* The bound regions, in the order in which the inputs and the output      *)
(* mention them: a closure called by reference is its own first input.     *)
compute_inputs_and_output(i) ==
  (IF program.kind[i] = "Closure" THEN <<ClosureEnv>> ELSE << >>) \o program.signature[i]

replace_bound_regions_with_nll_infer_vars(i) ==
  LET bound == compute_inputs_and_output(i)
  IN  [n \in DOMAIN bound |-> Late(i, bound[n])]

build(i) ==
  LET given == compute_indices(i)
      external == IF i = 0 THEN given
                  ELSE Inserted(given, for_each_late_bound_region_in_recursive_scope(program.parent[i]))
      local == Inserted(external \o replace_bound_regions_with_nll_infer_vars(i),
                        for_each_late_bound_region_in_item(i))
  IN  [regions |-> local \o (IF i = 0 /\ program.c_variadic THEN <<VaList>> ELSE << >>)
                         \o <<FnBody(i)>>,
       first_local_index |-> IF i = 0 THEN 1 ELSE Len(external)]

U(u) == INSTANCE UniversalRelations
          WITH first_local_index <- u.first_local_index, num_universals <- Len(u.regions)

universal_regions(i) == 0..Len(universal[i].regions) - 1
num_global_and_external_regions(i) == universal[i].first_local_index
External(i) == 0..num_global_and_external_regions(i) - 1

(* The variables made for the arguments of a closure, after those of the   *)
(* closures before it.                                                     *)
closure_args(c) ==
  LET i == program.parent[c]
      before == MapThenSumSet(num_args, {d \in Closures(i) : d < c})
  IN  [j \in 1..num_args(c) |-> Len(universal[i].regions) + before + j - 1]

Regions(i) == universal_regions(i) \cup UNION {Elements(closure_args(c)) : c \in Closures(i)}

(* A variable is itself; any other region must be in the indices.          *)
to_region_vid(u, r) ==
  IF r[1] = "arg" THEN closure_args(r[2])[r[3]]
  ELSE (CHOOSE n \in DOMAIN u.regions : u.regions[n] = r) - 1

(* UniversalRegionRelationsBuilder::create.                                *)
add_outlives_bounds(u, bounds) ==
  {<<to_region_vid(u, e[1]), to_region_vid(u, e[2])>> : e \in bounds}

create(u, i) ==
  U(u)!RelationsFrom(
    add_outlives_bounds(u, {<<Early(b[1]), Early(b[2])>> : b \in program.bounds})
      \cup add_outlives_bounds(u, program.implied[i]))

new ==
  /\ pc = "new"
  /\ universal' = [universal EXCEPT ![item] = build(item)]
  /\ known' = [known EXCEPT ![item] = create(build(item), item)]
  /\ pc' = "typeck"
  /\ UNCHANGED <<program, item, todo, graph, results>>

-----------------------------------------------------------------------------
(* type_check.                                                             *)

typeck_mir ==
  LET vid(r) == to_region_vid(universal[item], r)
  IN  /\ pc = "typeck"
      /\ \E body \in Bodies(program, item) :
           /\ constraints' = [constraints EXCEPT ![item] =
                                {<<vid(e[1]), vid(e[2])>> : e \in body.outlives}]
           /\ type_tests' = [type_tests EXCEPT ![item] = {vid(r) : r \in body.types}]
      /\ todo' = Closures(item)
      /\ pc' = "closures"
      /\ UNCHANGED <<program, item, facts, results>>

closure_mappingScopeFirst(c) ==
  LET vid(r) == to_region_vid(universal[program.parent[c]], r)
      scope == for_each_late_bound_region_in_recursive_scope(program.parent[c])
  IN  <<vid(Static)>> \o [n \in DOMAIN scope |-> vid(scope[n])] \o closure_args(c)

(* Of each external region of the closure, what it is for the creator.     *)
closure_mapping(c) ==
  LET vid(r) == to_region_vid(universal[program.parent[c]], r)
      scope == for_each_late_bound_region_in_recursive_scope(program.parent[c])
  IN  <<vid(Static)>> \o closure_args(c) \o [n \in DOMAIN scope |-> vid(scope[n])]

apply_closure_requirements(c) ==
  LET given == closure_mapping(c)
  IN  {<<given[q[1] + 1], given[q[2] + 1]>> : q \in requirements[c]}

(* A requirement on T is a type test of the creator.                       *)
convert(c) ==
  LET given == closure_mapping(c) IN {given[lb + 1] : lb \in type_requirements[c]}

(* The regions given for the early-bound ones are the creator's own.       *)
equated_args(c) ==
  UNION {{<<closure_args(c)[k], to_region_vid(universal[item], Early(k))>>,
          <<to_region_vid(universal[item], Early(k)), closure_args(c)[k]>>} :
           k \in 1..program.early}

prove_closure_boundsRequirementsOnly(c) ==
  /\ pc = "closures" /\ c \in todo
  /\ constraints' = [constraints EXCEPT ![item] = @ \cup apply_closure_requirements(c)]
  /\ type_tests' = [type_tests EXCEPT ![item] = @ \cup convert(c)]
  /\ todo' = todo \ {c}
  /\ UNCHANGED <<program, item, pc, facts, results>>

(* That closure_mapping has a region for each is asserted.                 *)
prove_closure_bounds(c) ==
  /\ pc = "closures" /\ c \in todo
  /\ constraints' = [constraints EXCEPT ![item] =
                       @ \cup apply_closure_requirements(c) \cup equated_args(c)]
  /\ type_tests' = [type_tests EXCEPT ![item] = @ \cup convert(c)]
  /\ todo' = todo \ {c}
  /\ pc' = IF Len(closure_mapping(c)) = num_global_and_external_regions(c) THEN pc ELSE "panicked"
  /\ UNCHANGED <<program, item, facts, results>>

-----------------------------------------------------------------------------
(* solve, as RegionInfer has it, for regions of the root universe.         *)

Values(i, reached, r) == reached[r] \cap universal_regions(i)

(* A component's representative is its first universal region.             *)
CheckedAgainst(i, reached, fr) ==
  LET rep == CHOOSE r \in Values(i, reached, fr) :
               /\ fr \in reached[r]
               /\ \A q \in Values(i, reached, fr) : fr \in reached[q] => r <= q
  IN  IF rep = fr THEN Values(i, reached, fr) ELSE {rep}

eval_outlives(i, reached, sup, sub) ==
  \A r1 \in Values(i, reached, sub) : \E r2 \in Values(i, reached, sup) : r1 \in known[i][r2]

(* By region_bound_pairs, and by implicit_region_bound: T outlives the body. *)
eval_verify_bound(i, reached, lower_bound) ==
  \E r \in {FnBody(i)} \cup {Early(k) : k \in program.type_bounds} :
    eval_outlives(i, reached, to_region_vid(universal[i], r), lower_bound)

(* What the item's constraints ask for and what it does not know.          *)
Unproven(i, reached) ==
  {e \in universal_regions(i) \X universal_regions(i) :
     e[2] \in CheckedAgainst(i, reached, e[1]) \ known[i][e[1]]}

Failed(i, reached) == {lb \in type_tests[i] : ~eval_verify_bound(i, reached, lb)}

(* try_propagate_universal_region_error and try_promote_type_test: the     *)
(* regions that the creator is to relate instead.  The function has none.  *)
fr_minus(i, fr) == IF i = 0 THEN {} ELSE U(universal[i])!non_local_lower_bound(known[i], fr)
fr_plus(i, fr) == U(universal[i])!non_local_upper_bounds(known[i], fr)

Propagates(i, unproven) == {e \in unproven : fr_minus(i, e[1]) # {}}
Propagated(i, unproven) == UNION {fr_minus(i, e[1]) \X fr_plus(i, e[2]) : e \in unproven}

Unshown(i, reached) ==
  IF i = 0 THEN {}
  ELSE {fr \in UNION {Values(i, reached, lb) : lb \in Failed(i, reached)} :
          ~eval_verify_bound(i, reached, fr)}

(* Errors and requirements of the item whose closures are done.  That      *)
(* there is an upper bound is asserted ("can't find an upper bound!?").    *)
solve ==
  LET reached == Reach(Regions(item), constraints[item] \cup ({U(universal[item])!fr_static} \X Regions(item)))
      unproven == Unproven(item, reached)
      raised == Unshown(item, reached) \cup {e[2] : e \in Propagates(item, unproven)}
  IN  /\ pc = "closures" /\ todo = {}
      /\ reaches' = [reaches EXCEPT ![item] = reached]
      /\ requirements' = [requirements EXCEPT ![item] = Propagated(item, unproven)]
      /\ type_requirements' = [type_requirements EXCEPT ![item] =
                                 UNION {fr_plus(item, fr) : fr \in Unshown(item, reached)}]
      /\ errors' = [errors EXCEPT ![item] =
                      {<<"RegionError", e[1], e[2]>> : e \in unproven \ Propagates(item, unproven)}
                        \cup {<<"TypeTestError", lb, lb>> : lb \in {l \in Failed(item, reached) : item = 0}}]
      /\ IF \E fr \in raised : fr_plus(item, fr) = {} THEN pc' = "panicked" /\ item' = item
         ELSE IF item = 0 THEN pc' = "done" /\ item' = item
         ELSE pc' = "new" /\ item' = item - 1
      /\ UNCHANGED <<program, facts, graph, todo>>

Init ==
  /\ program \in Programs
  /\ item = Cardinality(Items) - 1 /\ pc = "new"
  /\ todo = {}
  /\ universal = [i \in Items |-> [regions |-> << >>, first_local_index |-> 0]]
  /\ known = [i \in Items |-> << >>] /\ reaches = known
  /\ constraints = [i \in Items |-> {}] /\ type_tests = constraints
  /\ requirements = constraints /\ type_requirements = constraints /\ errors = constraints

Next ==
  \/ new
  \/ typeck_mir
  \/ \E c \in todo : prove_closure_bounds(c)
  \/ solve

Spec == Init /\ [][Next]_vars

-----------------------------------------------------------------------------
(* Properties.                                                             *)

(* What an external region of the item c is in its creator's code.         *)
Meaning(c, vid) ==
  LET r == universal[c].regions[vid + 1]
      j == vid   \* 'static is the number 0, the arguments come next
      named == IF r[1] \in {"early", "upvar"} THEN Arg(c, j) ELSE r
  IN  to_region_vid(universal[program.parent[c]], named)

EdgesOf(rel) == UNION {{a} \X rel[a] : a \in DOMAIN rel}

(* Nothing that an item needs is lost on the way up: if no error is        *)
(* reported, each relation that its constraints ask for is known, or       *)
(* follows from relations that its creator has made constraints of its     *)
(* own, between the regions that were meant; and T outlives what it must.  *)
RequirementsArrive ==
  pc = "done" /\ (\A i \in Items : errors[i] = {}) =>
    \A i \in Items :
      LET creator == program.parent[i]
          asked == IF i = 0 THEN {} ELSE External(i)
          imposed == {e \in asked \X asked :
                        Meaning(i, e[2]) \in reaches[creator][Meaning(i, e[1])]}
          granted == Reach(universal_regions(i), EdgesOf(known[i]) \cup imposed)
          bounds == {to_region_vid(universal[i], r) :
                       r \in {FnBody(i)} \cup {Early(k) : k \in program.type_bounds}}
                    \cup {o \in asked : \E lb \in type_tests[creator] :
                                         Meaning(i, o) \in reaches[creator][lb]}
      IN  /\ \A fr \in universal_regions(i) : Values(i, reaches[i], fr) \subseteq granted[fr]
          /\ \A lb \in type_tests[i] : \A fr \in Values(i, reaches[i], lb) :
               \E o \in bounds : fr \in granted[o]

(* And what an item takes as known is true: it follows from what, of the   *)
(* regions that it is given, is known or a constraint where it is created, *)
(* and from what the types of its inputs imply of these and of its own,    *)
(* for which each call has to answer.  The declared bounds of the function,*)
(* taken as known of copies of its regions, are not granted: they have to  *)
(* be true there.                                                          *)
AssumptionsHold ==
  pc = "done" =>
    \A i \in Items \ {0} :
      LET creator == program.parent[i]
          there == Reach(Regions(creator), EdgesOf(known[creator]) \cup EdgesOf(reaches[creator]))
          given == {e \in External(i) \X External(i) : Meaning(i, e[2]) \in there[Meaning(i, e[1])]}
          inputs == add_outlives_bounds(universal[i], program.implied[i])
          always == ({U(universal[i])!fr_static} \X universal_regions(i))
                      \cup (universal_regions(i) \X {U(universal[i])!fr_fn_body})
          granted == Reach(universal_regions(i), given \cup inputs \cup always)
      IN  \A fr \in universal_regions(i) : known[i][fr] \subseteq granted[fr]

=============================================================================

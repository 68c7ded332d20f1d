----------------------------- MODULE RegionInfer -----------------------------
(***************************************************************************)
(* Region inference of the borrow checker: RegionInferenceContext::new and *)
(* solve (borrowck/src/region_infer/mod.rs, reverse_sccs.rs,               *)
(* constraints/mod.rs, member_constraints.rs).                             *)
(*                                                                         *)
(* A function's outlives constraints (sup, sub), bounds declared between   *)
(* its universal regions, liveness, member constraints and type tests are  *)
(* the input, and under -Zpolonius the subset errors that Polonius found.  *)
(* `new` ties the components that violate universes to 'static and gives   *)
(* each strongly connected component its initial value; the components are *)
(* then visited in dependency order, and last the values of the universal  *)
(* regions and placeholders, type tests and member constraints are checked.*)
(*                                                                         *)
(* A value is a set of elements: points of the CFG, and universal regions  *)
(* and placeholders, each standing for its end.  In the initial states the *)
(* first compute_sccs has run.  Which constraint is blamed is RegionErrors;*)
(* not modelled: the opaque types.                                         *)
(***************************************************************************)
EXTENDS UniversalRelations, Sequences

CONSTANTS
  NumRegions,     \* region variables; the universal ones are the first
  Placeholders,   \* those that are placeholders
  Universe,       \* the universe each region was created in
  Points,         \* the points of the CFG
  Liveness,       \* the points each region is live at
  ConstraintSets, \* the sets of outlives constraints the type check may make
  BoundSets,      \* the declared bounds between the universal regions
  MemberSeqs,     \* the sequences of member constraints [region, choices]
  VerifyBounds,   \* bounds of type tests [kind, region, ty, of], with their parts
  TypeTestSets,   \* the sets of type tests [ty, lower_bound, verify_bound, span]
  ReBound         \* the region that `for` binds in a bound

Regions == 0..NumRegions - 1
ROOT == 0

ASSUME InferAssumption ==
  /\ NumRegions \in Nat /\ num_universals <= NumRegions
  /\ Placeholders \subseteq Regions \ universal_regions
  /\ Universe \in [Regions -> Nat]
  /\ \A r \in universal_regions : Universe[r] = ROOT
  /\ Points # {} /\ Points \cap Regions = {}   \* a body has a first block
  /\ Liveness \in [Regions -> SUBSET Points]
  /\ \A p \in Placeholders : Liveness[p] = {}   \* no variable's type has one
  /\ \A c \in ConstraintSets : c \subseteq Regions \X Regions
  /\ \A b \in BoundSets : b \subseteq universal_regions \X universal_regions
  /\ \A m \in MemberSeqs :
       /\ DOMAIN m \subseteq Nat
       /\ \A i \in DOMAIN m : /\ m[i].region \in Regions
                              /\ m[i].choices \subseteq universal_regions
  /\ \A b \in VerifyBounds : b.of \subseteq VerifyBounds
  /\ \A ts \in TypeTestSets : \A t \in ts :
       /\ t.ty \in [name : {t.ty.name}, regions : Seq(Regions)]
       /\ t.lower_bound \in Regions /\ t.verify_bound \in VerifyBounds

VARIABLES
  pc,           \* the next function of new and solve
  is_closure,   \* whether requirements can be propagated to a creator
  known,        \* universal_region_relations: what each region outlives
  members,      \* member_constraints
  type_tests,   \* type_tests
  polonius_output, \* none, or that of the subset errors Polonius found
  constraints,  \* constraints: the set of pairs (sup, sub)
  illegal,      \* those of them that add_outlives_static pushed
  reaches,      \* what each region reaches along the constraints
  scc_values,   \* the value of each component
  todo,         \* the components still to be visited
  to_apply,     \* member constraints of the component visited, still to apply
  applied,      \* member_constraints_applied: the pairs (constraint, choice)
  errors,       \* errors_buffer
  requirements, \* outlives_requirements: the pairs (fr_minus, shorter_fr_plus)
  type_requirements \* outlives_requirements whose subject is a type

vars == <<pc, is_closure, known, members, type_tests, polonius_output, constraints,
          illegal, reaches, scc_values, todo, to_apply, applied, errors,
          requirements, type_requirements>>

input == <<is_closure, known, members, type_tests, polonius_output>>
asked == <<requirements, type_requirements>>
graph == <<constraints, illegal, reaches>>

-----------------------------------------------------------------------------
(* The graph of the constraints.  'static has an edge to every region.     *)

GraphReach(cs) == ReachedBy(Regions, cs \cup ({fr_static} \X Regions))

Scc(r) == {q \in reaches[r] : r \in reaches[q]}
Sccs == {Scc(r) : r \in Regions}

(* A RegionTracker's merged fields.                                        *)
min_universe(r) ==
  CHOOSE u \in {Universe[q] : q \in reaches[r]} : \A q \in reaches[r] : u <= Universe[q]

has_incompatible_universes(r) ==
  \E p \in reaches[r] \cap Placeholders, q \in reaches[r] : Universe[q] < Universe[p]

(* A placeholder or free region before an existential one, then the least. *)
representative(s) ==
  LET named == s \cap (universal_regions \cup Placeholders)
      from == IF named = {} THEN s ELSE named
  IN  CHOOSE r \in from : \A q \in from : r <= q

IsSuccessorReversed(s, t) ==
  t # s /\ \E a \in s, b \in t : <<b, a>> \in constraints \/ a = fr_static

IsSuccessor(s, t) ==
  t # s /\ \E a \in s, b \in t : <<a, b>> \in constraints \/ a = fr_static

-----------------------------------------------------------------------------
(* RegionInferenceContext::new.                                            *)

IllegalUniverseOwnOnly ==
  {<<representative(Scc(r)), fr_static>> :
     r \in {q \in Regions \ Scc(fr_static) :
              \E p \in reaches[q] \cap Placeholders : Universe[q] < Universe[p]}}

(* A component other than 'static's that reaches a placeholder which some  *)
(* region it reaches cannot name is made to outlive 'static.               *)
IllegalUniverse ==
  {<<representative(Scc(r)), fr_static>> :
     r \in {q \in Regions \ Scc(fr_static) : has_incompatible_universes(q)}}

add_outlives_staticNotPushed ==
  /\ pc = "add_static"
  /\ illegal' = IllegalUniverse
  /\ constraints' = constraints
  /\ reaches' = GraphReach(constraints')
  /\ pc' = "init_values"
  /\ UNCHANGED <<input, scc_values, todo, to_apply, applied, errors, asked>>

add_outlives_static ==
  /\ pc = "add_static"
  /\ illegal' = IllegalUniverse
  /\ constraints' = constraints \cup IllegalUniverse
  /\ reaches' = GraphReach(constraints')
  /\ pc' = "init_values"
  /\ UNCHANGED <<input, scc_values, todo, to_apply, applied, errors, asked>>

(* What the liveness and init_free_and_bound_regions give one region.      *)
OwnElements(r) ==
  Liveness[r] \cup (IF r \in universal_regions THEN Points \cup {r} ELSE {})
              \cup (IF r \in Placeholders THEN {r} ELSE {})

init_free_and_bound_regions ==
  /\ pc = "init_values"
  /\ scc_values' = [s \in Sccs |-> UNION {OwnElements(r) : r \in s}]
  /\ todo' = Sccs
  /\ pc' = "propagate"
  /\ UNCHANGED <<input, graph, to_apply, applied, errors, asked>>

-----------------------------------------------------------------------------
(* propagate_constraints.                                                  *)

FreeIn(s) == scc_values[s] \cap universal_regions

compute_value_for_sccMembersLast(s) ==
  /\ pc = "propagate"
  /\ \A t \in Sccs : IsSuccessor(s, t) => t \notin todo
  /\ scc_values' = [scc_values EXCEPT ![s] =
                      @ \cup UNION {scc_values[t] : t \in {u \in Sccs : IsSuccessor(s, u)}}]
  /\ todo' = todo \ {s}
  /\ to_apply' = to_apply \cup {m \in DOMAIN members : members[m].region \in s}
  /\ UNCHANGED <<input, pc, graph, applied, errors, asked>>

(* compute_value_for_scc, up to its loop over the member constraints; the  *)
(* next component is visited only when that loop is over.                  *)
compute_value_for_scc(s) ==
  /\ pc = "propagate" /\ to_apply = {}
  /\ \A t \in Sccs : IsSuccessor(s, t) => t \notin todo
  /\ scc_values' = [scc_values EXCEPT ![s] =
                      @ \cup UNION {scc_values[t] : t \in {u \in Sccs : IsSuccessor(s, u)}}]
  /\ todo' = todo \ {s}
  /\ to_apply' = {m \in DOMAIN members : members[m].region \in s}
  /\ UNCHANGED <<input, pc, graph, applied, errors, asked>>

(* The linked list of a component's member constraints: into_mapped puts   *)
(* the regions pushed later first, push_constraint a region's newest.      *)
Before(m, n) ==
  LET first(i) == CHOOSE j \in DOMAIN members :
                    /\ members[j].region = members[i].region
                    /\ \A k \in DOMAIN members : members[k].region = members[i].region => j <= k
  IN  \/ first(m) > first(n)
      \/ first(m) = first(n) /\ m >= n

(* reverse_sccs.rs upper_bounds: the universal regions that reach s.       *)
upper_bounds(s) == {ub \in universal_regions : s \subseteq reaches[ub]}

OptionsAboveOnly(s, m) ==
  {o \in {representative(Scc(c)) : c \in members[m].choices} : FreeIn(s) \subseteq known[o]}

(* The choices left by the lower and the upper bounds of s.                *)
Options(s, m) ==
  {o \in {representative(Scc(c)) : c \in members[m].choices} :
     /\ FreeIn(s) \subseteq known[o]
     /\ \A ub \in upper_bounds(s) : o \in known[ub]}

(* The unique minimum: among those comparable with all, the least.         *)
MinChoice(options) ==
  LET ordered == {o \in options : \A p \in options : p \in known[o] \/ o \in known[p]}
  IN  {o \in ordered : \A p \in ordered : o \in known[p] /\ (p \in known[o] => o <= p)}

(* The choice is joined into s only in the root universe, and recorded if  *)
(* that made a difference.                                                 *)
apply_member_constraint(m) ==
  LET s == Scc(members[m].region)
      choice == IF min_universe(members[m].region) = ROOT
                THEN MinChoice(Options(s, m)) ELSE {}
      joined == scc_values[s] \cup UNION {scc_values[Scc(o)] : o \in choice}
  IN  /\ pc = "propagate"
      /\ \A n \in to_apply : Before(m, n)
      /\ scc_values' = [scc_values EXCEPT ![s] = joined]
      /\ applied' = IF joined = scc_values[s] THEN applied
                    ELSE applied \cup ({m} \X choice)
      /\ to_apply' = to_apply \ {m}
      /\ UNCHANGED <<input, pc, graph, todo, errors, asked>>

propagated ==
  /\ pc = "propagate" /\ todo = {} /\ to_apply = {}
  /\ pc' = "type_tests"
  /\ UNCHANGED <<input, graph, scc_values, todo, to_apply, applied, errors, asked>>

-----------------------------------------------------------------------------
(* check_universal_regions.                                                *)

CheckedAgainstRepresentatives(longer_fr) ==
  IF representative(Scc(longer_fr)) = longer_fr THEN FreeIn(Scc(longer_fr)) ELSE {}

CheckedAgainstAll(longer_fr) == FreeIn(Scc(longer_fr))

(* check_universal_region: only a component's representative is compared   *)
(* with all that its value holds, the others with the representative.      *)
CheckedAgainst(longer_fr) ==
  LET rep == representative(Scc(longer_fr))
  IN  IF rep = longer_fr THEN FreeIn(Scc(longer_fr)) ELSE {rep}

(* The relations to be proven: those found in the values, or the subset    *)
(* errors of Polonius (check_polonius_subset_errors).                      *)
RelationsFound ==
  IF polonius_output # {} THEN UNION polonius_output
  ELSE {e \in universal_regions \X universal_regions : e[2] \in CheckedAgainst(e[1])}

Unproven == {e \in RelationsFound : e[2] \notin known[e[1]]}

CanPropagate(longer_fr) == is_closure /\ non_local_lower_bound(known, longer_fr) # {}

RegionErrors == {<<"RegionError", e[1], e[2]>> : e \in {f \in Unproven : ~CanPropagate(f[1])}}

PropagatedErrors == {e \in Unproven : CanPropagate(e[1])}

Propagated ==
  UNION {non_local_lower_bound(known, e[1]) \X non_local_upper_bounds(known, e[2]) :
           e \in PropagatedErrors}

(* non_local_upper_bounds asserts that it finds one ("can't find an upper  *)
(* bound!?").                                                              *)
AssertFails(regions) == \E fr \in regions : non_local_upper_bounds(known, fr) = {}

(* check_bound_universal_region: the first element that is not the         *)
(* placeholder itself; points come before regions.                         *)
ErrorElements(p) ==
  LET others == scc_values[Scc(p)] \ {p}
  IN  CASE others \cap Points # {} -> others \cap Points
        [] others \cap Points = {} /\ others \cap universal_regions # {} ->
             others \cap universal_regions
        [] OTHER -> others

BoundErrors ==
  {<<"BoundUniversalRegionError", p>> : p \in {q \in Placeholders : ErrorElements(q) # {}}}

check_universal_regions ==
  /\ pc = "check"
  /\ errors' = errors \cup RegionErrors \cup BoundErrors
  /\ requirements' = requirements \cup Propagated
  /\ pc' = CASE AssertFails({e[2] : e \in PropagatedErrors}) -> "panicked"
             [] ~AssertFails({e[2] : e \in PropagatedErrors}) /\ errors' = {} -> "check_members"
             [] OTHER -> "done"
  /\ UNCHANGED <<input, graph, scc_values, todo, to_apply, applied, type_requirements>>

-----------------------------------------------------------------------------
(* eval_outlives and check_member_constraints.                             *)

universe_compatible(sub, sup) ==
  \/ min_universe(sub) <= min_universe(sup)
  \/ \A p \in reaches[sub] \cap Placeholders : Universe[p] <= min_universe(sup)

ValueOutlives(sup, sub) ==
  /\ \A r1 \in FreeIn(Scc(sub)) : \E r2 \in FreeIn(Scc(sup)) : r1 \in known[r2]
  /\ \/ sup \in universal_regions
     \/ scc_values[Scc(sub)] \cap Points \subseteq scc_values[Scc(sup)]

eval_outlives(sup, sub) ==
  IF universe_compatible(sub, sup) THEN ValueOutlives(sup, sub)
  ELSE ValueOutlives(sup, fr_static)   \* every region is reached from 'static

eval_equal(a, b) == eval_outlives(a, b) /\ eval_outlives(b, a)

check_member_constraints ==
  /\ pc = "check_members"
  /\ errors' = errors \cup {<<"UnexpectedHiddenRegion", m>> :
                    m \in {n \in DOMAIN members :
                              \A o \in members[n].choices : ~eval_equal(o, members[n].region)}}
  /\ pc' = "done"
  /\ UNCHANGED <<input, graph, scc_values, todo, to_apply, applied, asked>>

-----------------------------------------------------------------------------
(* check_type_tests.  A generic type is a name and the sequence of its     *)
(* regions; a test asks that it outlives a region, if its bound says so.   *)

normalize_to_scc_representatives(ty) ==
  [ty EXCEPT !.regions = [i \in DOMAIN @ |->
                            IF @[i] = ReBound THEN ReBound ELSE representative(Scc(@[i]))]]

(* test_type_match: the type with each occurrence of `for`'s region as r.  *)
Bind(ty, r) ==
  [ty EXCEPT !.regions = [i \in DOMAIN @ |-> IF @[i] = ReBound THEN r ELSE @[i]]]

(* The region of a clause <ty>: 'region that speaks of this very type; one *)
(* that `for` binds and the type does not mention is 'static.              *)
eval_if_eq(ty, lower_bound, bound) ==
  LET this == normalize_to_scc_representatives(ty)
      clause == normalize_to_scc_representatives(bound.ty)
      mentioned == \E i \in DOMAIN clause.regions : clause.regions[i] = ReBound
  IN  \E r \in IF mentioned THEN Regions ELSE {fr_static} :
        /\ Bind(clause, r) = this
        /\ eval_outlives(IF bound.region = ReBound THEN r
                         ELSE representative(Scc(bound.region)), lower_bound)

(* The bounds without parts that show that `ty` outlives `lower_bound`.    *)
ShownDirectly(ty, lower_bound) ==
  {b \in VerifyBounds :
     \/ b.kind = "OutlivedBy" /\ eval_outlives(b.region, lower_bound)
     \/ b.kind = "IfEq" /\ eval_if_eq(ty, lower_bound, b)
     \/ b.kind = "IsEmpty" /\ scc_values[Scc(lower_bound)] = {}}

(* With these, for each bound whether it shows it.                         *)
ShownBy(direct) ==
  LET holds[b \in VerifyBounds] ==
        CASE b.kind = "AnyBound" -> \E part \in b.of : holds[part]
          [] b.kind = "AllBounds" -> \A part \in b.of : holds[part]
          [] OTHER -> b \in direct
  IN  holds

eval_verify_bound(ty, lower_bound) == ShownBy(ShownDirectly(ty, lower_bound))

(* The non-local regions that the region r of a type can be replaced by.   *)
SubjectRegionsHeld(r) == {u \in FreeIn(Scc(r)) : ~is_local_free_region(u)}

SubjectRegions(r) ==
  {u \in FreeIn(Scc(r)) : ~is_local_free_region(u) /\ eval_equal(u, r)}

(* try_promote_type_test_subject: fails, or takes the first for each.      *)
CanPromote(t) ==
  is_closure /\ \A i \in DOMAIN t.ty.regions : SubjectRegions(t.ty.regions[i]) # {}

Subject(t) ==
  [t.ty EXCEPT !.regions =
     [i \in DOMAIN @ |-> CHOOSE u \in SubjectRegions(@[i]) :
                           \A v \in SubjectRegions(@[i]) : u <= v]]

(* The universal regions in the lower bound of which the bound does not    *)
(* show that the type outlives them; with a placeholder none is looked at. *)
Unshown(t) ==
  {u \in FreeIn(Scc(t.lower_bound)) :
     /\ scc_values[Scc(t.lower_bound)] \cap Placeholders = {}
     /\ ~eval_verify_bound(t.ty, u)[t.verify_bound]}

(* What the type must outlive so that it outlives the lower bound.         *)
LowerBounds(t) ==
  IF scc_values[Scc(t.lower_bound)] \cap Placeholders # {} THEN {fr_static}
  ELSE UNION {non_local_upper_bounds(known, ur) : ur \in Unshown(t)}

FailedTests ==
  {t \in type_tests : ~eval_verify_bound(t.ty, t.lower_bound)[t.verify_bound]}

(* A test is reported once for a type, a lower bound and a span.           *)
TypeTestError(t) == <<"TypeTestError", t.ty.name, t.lower_bound, t.span>>

PromotedTests == {t \in FailedTests : CanPromote(t)}

check_type_tests ==
  /\ pc = "type_tests"
  /\ errors' = errors \cup {TypeTestError(t) : t \in FailedTests \ PromotedTests}
  /\ type_requirements' = type_requirements \cup
       UNION {{[subject |-> Subject(t), outlived |-> lb] : lb \in LowerBounds(t)} :
                t \in PromotedTests}
  /\ pc' = IF AssertFails(UNION {Unshown(t) : t \in PromotedTests}) THEN "panicked" ELSE "check"
  /\ UNCHANGED <<input, graph, scc_values, todo, to_apply, applied, requirements>>

-----------------------------------------------------------------------------
(* find_constraint_paths_between_regions, when errors are blamed: a path   *)
(* along the constraints and the choices of applied member constraints,    *)
(* but not along those that violations of universes added.                 *)

BlameEdges ==
  (constraints \ illegal)
    \cup ({fr_static} \X Regions)
    \cup UNION {Scc(members[x[1]].region) \X {x[2]} : x \in applied}

Finds(from, targets) == ReachedBy(Regions, BlameEdges)[from] \cap targets # {}

cannot_name_placeholder(r1, r2) == r2 \in Placeholders /\ Universe[r1] < Universe[r2]

(* The regions that provides_universal_region accepts.                     *)
Provides(fr1, fr2) ==
  {r \in Regions : r = fr2 \/ (fr2 = fr_static /\ cannot_name_placeholder(fr1, r))}

LiveAt(r, p) == r \in universal_regions \/ p \in Liveness[r]

(* The regions find_sub_region_live_at looks for, in one try or another.   *)
SubRegionLiveAt(fr1, p) ==
  {r \in Regions : \/ LiveAt(r, p)
                   \/ cannot_name_placeholder(fr1, r)
                   \/ cannot_name_placeholder(r, fr1)}

-----------------------------------------------------------------------------
(* Polonius derives subsets from the constraints alone, and tells only     *)
(* those that are not known.                                               *)
ReachedUnknown ==
  {e \in universal_regions \X universal_regions : e[2] \in reaches[e[1]] \ known[e[1]]}

Init ==
  /\ pc = "add_static"
  /\ is_closure \in {b \in BOOLEAN : b \/ first_local_index = first_extern_index}
  /\ known \in {RelationsFrom(b) : b \in BoundSets}
  /\ members \in MemberSeqs
  /\ type_tests \in TypeTestSets
  /\ constraints \in ConstraintSets /\ illegal = {}
  /\ reaches = GraphReach(constraints)
  /\ polonius_output \in {{}} \cup {{errs} : errs \in SUBSET ReachedUnknown}
  /\ scc_values = << >>
  /\ todo = {} /\ to_apply = {} /\ applied = {} /\ errors = {}
  /\ requirements = {} /\ type_requirements = {}

Next ==
  \/ add_outlives_static
  \/ init_free_and_bound_regions
  \/ \E s \in todo : compute_value_for_scc(s)
  \/ \E m \in to_apply : apply_member_constraint(m)
  \/ propagated
  \/ check_type_tests
  \/ check_universal_regions
  \/ check_member_constraints

(* solve runs to its end: each step is taken once it can be.               *)
Spec == Init /\ [][Next]_vars /\ WF_vars(Next)

-----------------------------------------------------------------------------
(* Properties.                                                             *)

(* The state has its types: the values are of the components there are.    *)
TypeOK ==
  /\ pc \in {"add_static", "init_values", "propagate", "type_tests", "check",
            "check_members", "done", "panicked"}
  /\ is_closure \in BOOLEAN
  /\ known \in [universal_regions -> SUBSET universal_regions]
  /\ polonius_output \subseteq SUBSET (universal_regions \X universal_regions)
  /\ constraints \subseteq Regions \X Regions /\ illegal \subseteq constraints
  /\ reaches \in [Regions -> SUBSET Regions]
  /\ pc \notin {"add_static", "init_values"} => scc_values \in [Sccs -> SUBSET (Points \cup Regions)]
  /\ todo \subseteq Sccs
  /\ to_apply \subseteq DOMAIN members
  /\ applied \subseteq (DOMAIN members) \X universal_regions
  /\ requirements \subseteq universal_regions \X universal_regions
  /\ \A q \in type_requirements : q.outlived \in universal_regions

Solved == pc \in {"type_tests", "check", "check_members", "done"}

(* One pass over the components is enough: whatever the member constraints *)
(* added on the way, in the end each region holds what it must outlive,    *)
(* and what it started from.                                               *)
SolvesConstraints ==
  Solved => /\ \A c \in constraints : scc_values[Scc(c[2])] \subseteq scc_values[Scc(c[1])]
            /\ \A r \in Regions : OwnElements(r) \subseteq scc_values[Scc(r)]

(* And nothing more: without member constraints a region's value is what   *)
(* the regions it reaches started from.                                    *)
ValuesAreReached ==
  Solved /\ members = << >> =>
    \A r \in Regions : scc_values[Scc(r)] = UNION {OwnElements(q) : q \in reaches[r]}

(* One round of ties to 'static leaves no component but its own that       *)
(* reaches a placeholder which a region it reaches cannot name.            *)
UniversesRespected ==
  pc # "add_static" => \A r \in Regions \ Scc(fr_static) : ~has_incompatible_universes(r)

(* No unproven relation is missed, though only a component's               *)
(* representative is compared with all that its value holds: unless an     *)
(* error is reported, that each universal region outlives those in its     *)
(* value is known or follows from what the creator is asked for.  Only a   *)
(* closure asks, and it names no region local to it: what is to stand for  *)
(* one is found ("We always will", and an assertion), but above one that   *)
(* is known to outlive 'static.                                            *)
RequirementsSuffice ==
  /\ pc = "done" =>
       /\ requirements # {} => is_closure
       /\ \A q \in requirements : ~is_local_free_region(q[1]) /\ ~is_local_free_region(q[2])
       /\ errors = {} =>
            LET granted == ReachedBy(universal_regions,
                             requirements \cup {e \in universal_regions \X universal_regions :
                                                  e[2] \in known[e[1]]})
            IN  IF polonius_output # {}
                THEN \A e \in UNION polonius_output : e[2] \in granted[e[1]]
                ELSE \A fr \in universal_regions : FreeIn(Scc(fr)) \subseteq granted[fr]
  /\ pc = "panicked" =>
       \E fr \in universal_regions : is_local_free_region(fr) /\ fr_static \in known[fr]

Outlived(r) == UNION {known[u] : u \in FreeIn(Scc(r))}

(* A type that differs only in its regions: by ones that can be named and  *)
(* that outlive the same.                                                  *)
IsSameType(ty, other) ==
  /\ ty.name = other.name /\ DOMAIN ty.regions = DOMAIN other.regions
  /\ \A i \in DOMAIN ty.regions :
       /\ ~is_local_free_region(ty.regions[i])
       /\ Outlived(ty.regions[i]) = Outlived(other.regions[i])

Asked(ty, o) ==
  \E q \in type_requirements : IsSameType(q.subject, ty) /\ o \in known[q.outlived]

TestIsAnswered(t) ==
  \/ TypeTestError(t) \in errors
  \/ eval_verify_bound(t.ty, t.lower_bound)[t.verify_bound]
  \/ /\ is_closure
     /\ \A o \in FreeIn(Scc(t.lower_bound)) :
          eval_verify_bound(t.ty, o)[t.verify_bound] \/ Asked(t.ty, o)
     /\ scc_values[Scc(t.lower_bound)] \cap Placeholders # {} => Asked(t.ty, fr_static)

(* A type test that is not reported holds, or the creator is asked for     *)
(* what it takes: that the type, its regions replaced by equal ones that   *)
(* the creator can name, outlives regions that the creator can name and    *)
(* that outlive every universal region in the lower bound, 'static for a   *)
(* placeholder; but for those of which the bound shows it here.            *)
TypeTestsSuffice ==
  pc = "done" =>
    /\ \A q \in type_requirements : ~is_local_free_region(q.outlived)
    /\ \A t \in type_tests : TestIsAnswered(t)

(* The two readings of the solution agree: a constraint that was solved    *)
(* also evaluates as true, universes included.                             *)
SolvedEvaluatesTrue ==
  Solved => \A c \in constraints : eval_outlives(c[1], c[2])

(* The solution holds no more than it must, and reads as one.              *)
SolutionIsExact == ValuesAreReached /\ SolvedEvaluatesTrue

(* Picking choices of member constraints never makes the check of the      *)
(* universal regions fail in a function where it would pass without: what  *)
(* they add to the value of one region is not unknown to any above it.     *)
PassesWithout ==
  \A fr \in universal_regions :
    UNION {OwnElements(q) \cap universal_regions : q \in reaches[fr]} \subseteq known[fr]

MembersAddNoError ==
  Solved /\ PassesWithout =>
    \A fr \in universal_regions : FreeIn(Scc(fr)) \subseteq known[fr]

(* For what is reported or propagated there is a constraint to blame: the  *)
(* searches that are unwrapped find a region, though they do not follow    *)
(* the constraints that tie a component to 'static, and not the region     *)
(* they start from (best_blame_constraint takes one of the path found).    *)
BlameIsFound ==
  Solved =>
    /\ \A e \in Unproven : Finds(e[1], Provides(e[1], e[2])) /\ e[1] \notin Provides(e[1], e[2])
    /\ \A p \in Placeholders : \A x \in ErrorElements(p) :
         LET targets == IF x \in Points THEN SubRegionLiveAt(p, x) ELSE Provides(p, x)
         IN  Finds(p, targets) /\ p \notin targets

=============================================================================

-------------------------- MODULE RegionInferProofs --------------------------
(***************************************************************************)
(* Theorems about RegionInfer and RegionErrors, for any regions, universes,*)
(* points, constraints, member constraints, type tests and settings of     *)
(* what names the regions: the types, that                                 *)
(* one pass over the components solves the constraints, exactly where      *)
(* there are no member constraints, that these ask nothing of a universal  *)
(* region that is not known, that one round of ties to 'static leaves no   *)
(* violation of universes, that what is not known is reported or asked of  *)
(* the creator, that the type tests that are answered hold, that a         *)
(* constraint to blame is found, and that every error is told.             *)
(***************************************************************************)
EXTENDS RegionErrors, FiniteSetTheorems, WellFoundedInduction, TLAPS

USE DEF Regions, ROOT, fr_static

-----------------------------------------------------------------------------
(* Reachability.                                                           *)

(* ReachedBy is reflexive, transitive and closed under the edges.          *)
LEMMA ReachedByIsClosure ==
  ASSUME NEW nodes, NEW edges \in SUBSET (nodes \X nodes)
  PROVE  LET reach == ReachedBy(nodes, edges)
         IN  /\ reach \in [nodes -> SUBSET nodes]
             /\ \A r \in nodes : r \in reach[r]
             /\ \A a, b, c \in nodes : b \in reach[a] /\ c \in reach[b] => c \in reach[a]
             /\ \A e \in edges : e[2] \in reach[e[1]]
  BY DEF ReachedBy

(* What is reached from a set that is closed under the edges is in it.     *)
LEMMA ReachedByIsLeast ==
  ASSUME NEW nodes, NEW edges, NEW S \in SUBSET nodes, NEW r \in S,
         \A e \in edges : e[1] \in S => e[2] \in S
  PROVE  ReachedBy(nodes, edges)[r] \subseteq S
  BY DEF ReachedBy

(* More edges reach more.                                                  *)
LEMMA ReachedByIsMonotone ==
  ASSUME NEW nodes, NEW edges, NEW more, edges \subseteq more, NEW r \in nodes
  PROVE  ReachedBy(nodes, edges)[r] \subseteq ReachedBy(nodes, more)[r]
  BY DEF ReachedBy

(* A nonempty set of numbers has a least element.                          *)
LEMMA LeastElement ==
  ASSUME NEW S \in SUBSET Nat, S # {}
  PROVE  \E m \in S : \A k \in S : m <= k
<1> DEFINE less == {ss \in Nat \X Nat : ss[1] < ss[2]}
<1>1. IsWellFoundedOn(less, Nat)
  BY NatLessThanWellFounded DEF OpToRel
<1>0. \A a, b \in Nat : a < b => <<a, b>> \in less
  OBVIOUS
<1> HIDE DEF less
<1>2. PICK m \in S : \A k \in S : ~ (<<k, m>> \in less)
  BY <1>1, WFMin
<1>3. \A k \in S : m <= k
  <2> TAKE k \in S
  <2>1. k \in Nat /\ m \in Nat /\ ~ (k < m)
    BY <1>0, <1>2
  <2> QED
    BY <2>1
<1> QED
  BY <1>3

-----------------------------------------------------------------------------
(* The components are the classes of a reflexive and transitive relation   *)
(* that holds the constraints.                                             *)

Closed == /\ \A r \in Regions : r \in reaches[r]
          /\ \A a, b, c \in Regions : b \in reaches[a] /\ c \in reaches[b] => c \in reaches[a]
          /\ \A e \in constraints : e[2] \in reaches[e[1]]
          /\ \A r \in Regions : r \in reaches[fr_static]

(* A reflexive and transitive relation between universal regions.          *)
IsOrder(rel) ==
  /\ rel \in [universal_regions -> SUBSET universal_regions]
  /\ \A u \in universal_regions : u \in rel[u]
  /\ \A u, v, w \in universal_regions : v \in rel[u] /\ w \in rel[v] => w \in rel[u]

TypeInv ==
  /\ TypeOK
  /\ members \in MemberSeqs
  /\ IsOrder(known)
  /\ Closed
  /\ pc \in {"add_static", "init_values"} => todo = {} /\ to_apply = {} /\ applied = {}

(* The facts about one component.                                          *)
LEMMA SccFacts ==
  ASSUME TypeInv, NEW r \in Regions
  PROVE  /\ r \in Scc(r) /\ Scc(r) \in SUBSET Regions /\ Scc(r) \in Sccs
         /\ \A q \in Scc(r) : Scc(q) = Scc(r)
<1>1. reaches \in [Regions -> SUBSET Regions] /\ Closed
  BY DEF TypeInv, TypeOK
<1>2. r \in Scc(r) /\ Scc(r) \in SUBSET Regions /\ Scc(r) \in Sccs
  BY <1>1 DEF Closed, Scc, Sccs
<1>3. ASSUME NEW q \in Scc(r) PROVE Scc(q) = Scc(r)
  <2>1. q \in Regions /\ q \in reaches[r] /\ r \in reaches[q]
    BY <1>1 DEF Scc
  <2>2. ASSUME NEW x \in Regions
        PROVE  /\ x \in reaches[q] <=> x \in reaches[r]
               /\ q \in reaches[x] <=> r \in reaches[x]
    BY <1>1, <2>1 DEF Closed
  <2> QED
    BY <1>1, <2>1, <2>2 DEF Scc
<1> QED
  BY <1>2, <1>3

(* The graph of any set of constraints is closed in that sense.            *)
LEMMA GraphReachIsClosed ==
  ASSUME NEW cs \in SUBSET (Regions \X Regions)
  PROVE  LET reach == GraphReach(cs)
         IN  /\ reach \in [Regions -> SUBSET Regions]
             /\ \A r \in Regions : r \in reach[r]
             /\ \A a, b, c \in Regions : b \in reach[a] /\ c \in reach[b] => c \in reach[a]
             /\ \A e \in cs : e[2] \in reach[e[1]]
             /\ \A r \in Regions : r \in reach[fr_static]
<1> DEFINE edges == cs \cup ({fr_static} \X Regions)
<1>1. fr_static \in Regions
  BY UniversalAssumption, InferAssumption
<1>2. edges \in SUBSET (Regions \X Regions)
  BY <1>1
<1>3. \A r \in Regions : <<fr_static, r>> \in edges
  OBVIOUS
<1>4. cs \subseteq edges
  OBVIOUS
<1>5. GraphReach(cs) = ReachedBy(Regions, edges)
  BY DEF GraphReach
<1> HIDE DEF edges
<1> DEFINE reach == ReachedBy(Regions, edges)
<1>6. /\ reach \in [Regions -> SUBSET Regions]
      /\ \A r \in Regions : r \in reach[r]
      /\ \A a, b, c \in Regions : b \in reach[a] /\ c \in reach[b] => c \in reach[a]
      /\ \A e \in edges : e[2] \in reach[e[1]]
  BY <1>2, ReachedByIsClosure
<1> HIDE DEF reach
<1>7. ASSUME NEW r \in Regions PROVE r \in reach[fr_static]
  BY <1>3, <1>6
<1> QED
  BY <1>4, <1>5, <1>6, <1>7 DEF reach

(* A component's representative is one of its regions, and a universal one *)
(* if it has any.                                                          *)
LEMMA RepresentativeFacts ==
  ASSUME NEW s \in SUBSET Regions, s # {}
  PROVE  /\ representative(s) \in s
         /\ s \cap universal_regions # {} => representative(s) \in universal_regions
<1> DEFINE named == s \cap (universal_regions \cup Placeholders)
           from == IF named = {} THEN s ELSE named
<1>1. from # {} /\ from \in SUBSET Nat /\ from \subseteq s
  <2>1. from # {} /\ from \subseteq s
    OBVIOUS
  <2>2. s \subseteq Nat
    BY InferAssumption
  <2> QED
    BY <2>1, <2>2
<1>2. representative(s) = CHOOSE r \in from : \A q \in from : r <= q
  BY DEF representative
<1>3. s \cap universal_regions \subseteq from
  OBVIOUS
<1> HIDE DEF from
<1>4. \E r \in from : \A q \in from : r <= q
  BY <1>1, LeastElement
<1>5. representative(s) \in from /\ \A q \in from : representative(s) <= q
  BY <1>2, <1>4
<1>6. ASSUME NEW u \in s \cap universal_regions
      PROVE  representative(s) \in universal_regions
  <2>1. representative(s) \in Nat /\ u \in Nat /\ representative(s) <= u
    BY <1>1, <1>3, <1>5
  <2>2. u \in 0..num_universals - 1 /\ num_universals \in Nat
    BY UniversalAssumption DEF universal_regions
  <2> QED
    BY <2>1, <2>2 DEF universal_regions
<1> QED
  BY <1>1, <1>5, <1>6

-----------------------------------------------------------------------------
(* Types.                                                                  *)

(* The declared relation is a reflexive and transitive one between         *)
(* universal regions.                                                      *)
LEMMA KnownType ==
  ASSUME NEW b \in BoundSets
  PROVE  IsOrder(RelationsFrom(b))
<1> DEFINE edges == b \cup ({fr_static} \X universal_regions)
                      \cup (universal_regions \X {fr_fn_body})
<1>1. fr_static \in universal_regions /\ fr_fn_body \in universal_regions
  BY UniversalAssumption DEF universal_regions, fr_fn_body
<1>2. b \subseteq universal_regions \X universal_regions
  BY InferAssumption
<1>3. edges \in SUBSET (universal_regions \X universal_regions)
  BY <1>1, <1>2
<1>4. RelationsFrom(b) = ReachedBy(universal_regions, edges)
  BY DEF RelationsFrom
<1> HIDE DEF edges
<1> QED
  BY <1>3, <1>4, ReachedByIsClosure DEF IsOrder

(* What is met on the way up from a region is in every set that holds it   *)
(* and, with a region, all that is above that.                             *)
LEMMA MetOnTheWay ==
  ASSUME NEW rel \in [universal_regions -> SUBSET universal_regions],
         NEW S \in SUBSET universal_regions, NEW fr \in S,
         \A r \in S : rel[r] \subseteq S
  PROVE  /\ non_local_bounds(rel, fr) \subseteq S
         /\ \A u \in non_local_bounds(rel, fr) : ~is_local_free_region(u)
<1> DEFINE expanded == {r \in universal_regions : is_local_free_region(r)}
           edges == UNION {{r} \X parents(rel, r) : r \in expanded}
<1>1. \A r \in S : parents(rel, r) \subseteq S
  BY DEF parents
<1>2. ASSUME NEW e \in edges, e[1] \in S
      PROVE  e[2] \in S
  <2>1. PICK r \in expanded : e \in {r} \X parents(rel, r)
    OBVIOUS
  <2> QED
    BY <1>1, <1>2, <2>1
<1>3. non_local_bounds(rel, fr) = ReachedBy(universal_regions, edges)[fr] \ expanded
  BY DEF non_local_bounds
<1> HIDE DEF edges
<1>4. ReachedBy(universal_regions, edges)[fr] \subseteq S
  BY <1>2, ReachedByIsLeast
<1> QED
  BY <1>3, <1>4

(* The bounds a region is replaced by: those below are outlived by it and  *)
(* those above outlive it, and none is local.                              *)
LEMMA BoundsFacts ==
  ASSUME NEW rel, IsOrder(rel), NEW fr \in universal_regions
  PROVE  /\ \A a \in non_local_lower_bound(rel, fr) : a \in rel[fr] /\ ~is_local_free_region(a)
         /\ \A a \in non_local_upper_bounds(rel, fr) :
              a \in universal_regions /\ fr \in rel[a] /\ ~is_local_free_region(a)
<1>1. /\ rel \in [universal_regions -> SUBSET universal_regions]
      /\ \A u \in universal_regions : u \in rel[u]
      /\ \A u, v, w \in universal_regions : v \in rel[u] /\ w \in rel[v] => w \in rel[u]
  BY DEF IsOrder
<1>2. non_local_bounds(rel, fr) \subseteq rel[fr]
  <2>1. rel[fr] \in SUBSET universal_regions /\ fr \in rel[fr]
        /\ \A r \in rel[fr] : rel[r] \subseteq rel[fr]
    BY <1>1
  <2> QED
    BY <1>1, <2>1, MetOnTheWay
<1>3. ASSUME NEW a \in non_local_lower_bound(rel, fr)
      PROVE  a \in rel[fr] /\ ~is_local_free_region(a)
  <2> DEFINE bounds == non_local_bounds(rel, fr)
             common == {c \in DOMAIN rel : \A r \in bounds : c \in rel[r]}
  <2>1. /\ bounds # {} /\ a \in mutual_immediate_postdominator(rel, bounds)
        /\ ~is_local_free_region(a)
    BY DEF non_local_lower_bound
  <2>2. a \in bounds \/ a \in common
    BY <2>1 DEF mutual_immediate_postdominator
  <2> HIDE DEF bounds
  <2>3. a \in common => a \in rel[fr]
    <3>1. PICK r \in bounds : TRUE
      BY <2>1
    <3>2. r \in rel[fr] /\ r \in universal_regions
      BY <1>1, <1>2 DEF bounds
    <3> QED
      BY <1>1, <3>1, <3>2
  <2> QED
    BY <1>2, <2>1, <2>2, <2>3 DEF bounds
<1>4. ASSUME NEW a \in non_local_upper_bounds(rel, fr)
      PROVE  a \in universal_regions /\ fr \in rel[a] /\ ~is_local_free_region(a)
  <2> DEFINE S == {u \in universal_regions : fr \in rel[u]}
  <2>1. Inverse_(rel) \in [universal_regions -> SUBSET universal_regions]
    BY <1>1 DEF Inverse_
  <2>2. \A r \in S : Inverse_(rel)[r] \subseteq S
    <3>1. \A r \in universal_regions :
            Inverse_(rel)[r] = {c \in universal_regions : r \in rel[c]}
      BY <1>1 DEF Inverse_
    <3> QED
      BY <1>1, <3>1
  <2>3. S \in SUBSET universal_regions /\ fr \in S
    BY <1>1
  <2>4. a \in non_local_bounds(Inverse_(rel), fr)
    BY DEF non_local_upper_bounds
  <2> HIDE DEF S
  <2>5. a \in S /\ ~is_local_free_region(a)
    BY <2>1, <2>2, <2>3, <2>4, MetOnTheWay
  <2> QED
    BY <2>5 DEF S
<1> QED
  BY <1>3, <1>4

LEMMA BoundsType ==
  ASSUME NEW rel, IsOrder(rel), NEW fr \in universal_regions
  PROVE  /\ non_local_lower_bound(rel, fr) \subseteq universal_regions
         /\ non_local_upper_bounds(rel, fr) \subseteq universal_regions
  BY BoundsFacts DEF IsOrder

LEMMA TypeInvInit ==
  ASSUME Init
  PROVE  TypeInv
<1>1. constraints \in SUBSET (Regions \X Regions)
  BY InferAssumption DEF Init
<1>2. reaches = GraphReach(constraints)
  BY DEF Init
<1>3. reaches \in [Regions -> SUBSET Regions] /\ Closed
  BY <1>1, <1>2, GraphReachIsClosed DEF Closed
<1>4. known \in [universal_regions -> SUBSET universal_regions] /\ IsOrder(known)
  BY KnownType DEF Init, IsOrder
<1>5. polonius_output \subseteq SUBSET (universal_regions \X universal_regions)
  BY DEF Init, ReachedUnknown
<1>6. /\ pc = "add_static" /\ is_closure \in BOOLEAN /\ members \in MemberSeqs
      /\ illegal = {} /\ todo = {} /\ to_apply = {} /\ applied = {}
      /\ requirements = {} /\ type_requirements = {}
  BY DEF Init
<1> QED
  BY <1>1, <1>3, <1>4, <1>5, <1>6 DEF TypeInv, TypeOK

(* The ties to 'static are constraints.                                    *)
LEMMA IllegalUniverseType ==
  ASSUME TypeInv
  PROVE  IllegalUniverse \in SUBSET (Regions \X Regions)
<1>1. fr_static \in Regions
  BY UniversalAssumption, InferAssumption
<1>2. \A r \in Regions : representative(Scc(r)) \in Regions
  BY SccFacts, RepresentativeFacts
<1> QED
  BY <1>1, <1>2 DEF IllegalUniverse

(* What a member constraint picks is a universal region.                   *)
LEMMA ChoiceType ==
  ASSUME TypeInv, NEW m \in DOMAIN members, NEW s
  PROVE  MinChoice(Options(s, m)) \subseteq universal_regions
<1>1. members[m].choices \subseteq universal_regions
  BY InferAssumption DEF TypeInv
<1>2. universal_regions \subseteq Regions
  BY UniversalAssumption, InferAssumption DEF universal_regions
<1>3. ASSUME NEW c \in universal_regions
      PROVE  representative(Scc(c)) \in universal_regions
  BY <1>2, SccFacts, RepresentativeFacts
<1> QED
  BY <1>1, <1>3 DEF MinChoice, Options

(* Each action preserves TypeInv.                                          *)
LEMMA TypeInvAddStatic ==
  ASSUME TypeInv, add_outlives_static
  PROVE  TypeInv'
<1>1. constraints' = constraints \cup IllegalUniverse /\ illegal' = IllegalUniverse
  BY DEF add_outlives_static
<1>2. constraints' \in SUBSET (Regions \X Regions)
  BY <1>1, IllegalUniverseType DEF TypeInv, TypeOK
<1>3. reaches' = GraphReach(constraints')
  BY DEF add_outlives_static
<1>4. reaches' \in [Regions -> SUBSET Regions] /\ Closed'
  BY <1>2, <1>3, GraphReachIsClosed DEF Closed
<1>5. /\ pc' = "init_values" /\ UNCHANGED input
      /\ UNCHANGED <<todo, to_apply, applied, asked>>
      /\ todo = {} /\ to_apply = {} /\ applied = {}
  BY DEF add_outlives_static, TypeInv
<1> QED
  BY <1>1, <1>2, <1>4, <1>5 DEF TypeInv, TypeOK, input, asked

LEMMA TypeInvInitValues ==
  ASSUME TypeInv, init_free_and_bound_regions
  PROVE  TypeInv'
<1>1. UNCHANGED <<input, graph, to_apply, applied, asked>> /\ pc' = "propagate"
  BY DEF init_free_and_bound_regions
<1>2. Sccs' = Sccs /\ Closed'
  BY <1>1 DEF Sccs, Scc, Closed, graph, TypeInv
<1>3. todo' \subseteq Sccs
  BY DEF init_free_and_bound_regions
<1>4. ASSUME NEW s \in Sccs
      PROVE  UNION {OwnElements(r) : r \in s} \subseteq Points \cup Regions
  <2>1. s \subseteq Regions
    BY DEF Sccs, Scc, TypeInv, TypeOK
  <2>2. universal_regions \subseteq Regions
    BY UniversalAssumption, InferAssumption DEF universal_regions
  <2>3. ASSUME NEW r \in Regions PROVE OwnElements(r) \subseteq Points \cup Regions
    BY <2>2, InferAssumption DEF OwnElements
  <2> QED
    BY <2>1, <2>3
<1>5. scc_values' \in [Sccs -> SUBSET (Points \cup Regions)]
  BY <1>4 DEF init_free_and_bound_regions
<1> QED
  BY <1>1, <1>2, <1>3, <1>5 DEF TypeInv, TypeOK, input, asked, graph

LEMMA TypeInvComputeValue ==
  ASSUME TypeInv, NEW s \in todo, compute_value_for_scc(s)
  PROVE  TypeInv'
<1>1. UNCHANGED <<input, pc, graph, applied, asked>> /\ pc = "propagate"
  BY DEF compute_value_for_scc
<1>2. Sccs' = Sccs /\ Closed'
  BY <1>1 DEF Sccs, Scc, Closed, graph, TypeInv
<1>3. scc_values \in [Sccs -> SUBSET (Points \cup Regions)] /\ todo \subseteq Sccs
  BY <1>1 DEF TypeInv, TypeOK
<1>4. scc_values' \in [Sccs -> SUBSET (Points \cup Regions)]
  BY <1>3 DEF compute_value_for_scc
<1>5. todo' \subseteq Sccs /\ to_apply' \subseteq DOMAIN members
  BY <1>3 DEF compute_value_for_scc
<1> QED
  BY <1>1, <1>2, <1>4, <1>5 DEF TypeInv, TypeOK, input, asked, graph

LEMMA TypeInvApplyMember ==
  ASSUME TypeInv, NEW m \in to_apply, apply_member_constraint(m)
  PROVE  TypeInv'
<1> DEFINE s == Scc(members[m].region)
           choice == IF min_universe(members[m].region) = ROOT
                     THEN MinChoice(Options(s, m)) ELSE {}
           joined == scc_values[s] \cup UNION {scc_values[Scc(o)] : o \in choice}
<1>1. /\ UNCHANGED <<input, pc, graph, todo, asked>> /\ pc = "propagate"
      /\ scc_values' = [scc_values EXCEPT ![s] = joined]
      /\ applied' = IF joined = scc_values[s] THEN applied
                    ELSE applied \cup ({m} \X choice)
      /\ to_apply' = to_apply \ {m}
  BY DEF apply_member_constraint
<1>2. Sccs' = Sccs /\ Closed'
  BY <1>1 DEF Sccs, Scc, Closed, graph, TypeInv
<1>3. scc_values \in [Sccs -> SUBSET (Points \cup Regions)] /\ m \in DOMAIN members
  BY <1>1 DEF TypeInv, TypeOK
<1>4. choice \subseteq universal_regions
  BY <1>3, ChoiceType
<1>5. members[m].region \in Regions
  BY <1>3, InferAssumption DEF TypeInv
<1>6. s \in Sccs
  BY <1>5, SccFacts
<1>7. \A o \in choice : Scc(o) \in Sccs
  <2>1. universal_regions \subseteq Regions
    BY UniversalAssumption, InferAssumption DEF universal_regions
  <2> QED
    BY <1>4, <2>1, SccFacts
<1> HIDE DEF s, choice
<1>8. joined \subseteq Points \cup Regions
  BY <1>3, <1>6, <1>7
<1> HIDE DEF joined
<1>9. scc_values' \in [Sccs -> SUBSET (Points \cup Regions)]
  BY <1>1, <1>3, <1>8
<1>10. applied' \subseteq (DOMAIN members) \X universal_regions
  BY <1>1, <1>3, <1>4 DEF TypeInv, TypeOK
<1>11. to_apply' \subseteq DOMAIN members
  BY <1>1 DEF TypeInv, TypeOK
<1> QED
  BY <1>1, <1>2, <1>9, <1>10, <1>11 DEF TypeInv, TypeOK, input, asked, graph

LEMMA TypeInvPropagated ==
  ASSUME TypeInv, propagated
  PROVE  TypeInv'
<1>1. /\ UNCHANGED <<input, graph, scc_values, todo, to_apply, applied, asked>>
      /\ pc = "propagate" /\ pc' = "type_tests"
  BY DEF propagated
<1>2. Sccs' = Sccs /\ Closed'
  BY <1>1 DEF Sccs, Scc, Closed, graph, TypeInv
<1> QED
  BY <1>1, <1>2 DEF TypeInv, TypeOK, input, asked, graph

LEMMA TypeInvCheckTypeTests ==
  ASSUME TypeInv, check_type_tests
  PROVE  TypeInv'
<1> DEFINE new == UNION {{[subject |-> Subject(t), outlived |-> lb] : lb \in LowerBounds(t)} :
                           t \in PromotedTests}
<1>1. /\ UNCHANGED <<input, graph, scc_values, todo, to_apply, applied, requirements>>
      /\ pc = "type_tests" /\ pc' \in {"check", "panicked"}
      /\ type_requirements' = type_requirements \cup new
  BY DEF check_type_tests
<1>2. Sccs' = Sccs /\ Closed'
  BY <1>1 DEF Sccs, Scc, Closed, graph, TypeInv
<1>3. ASSUME NEW t PROVE LowerBounds(t) \subseteq universal_regions
  <2>1. IsOrder(known)
    BY DEF TypeInv
  <2>2. \A ur \in Unshown(t) : non_local_upper_bounds(known, ur) \subseteq universal_regions
    BY <2>1, BoundsType DEF FreeIn, Unshown
  <2>3. fr_static \in universal_regions
    BY UniversalAssumption DEF universal_regions
  <2> QED
    BY <2>2, <2>3 DEF LowerBounds
<1>4. \A q \in new : q.outlived \in universal_regions
  BY <1>3
<1> HIDE DEF new
<1> QED
  BY <1>1, <1>2, <1>4 DEF TypeInv, TypeOK, input, graph

LEMMA TypeInvCheckUniversal ==
  ASSUME TypeInv, check_universal_regions
  PROVE  TypeInv'
<1>1. /\ UNCHANGED <<input, graph, scc_values, todo, to_apply, applied>>
      /\ pc = "check" /\ pc' \in {"check_members", "done", "panicked"}
      /\ UNCHANGED type_requirements /\ requirements' = requirements \cup Propagated
  BY DEF check_universal_regions
<1>2. Sccs' = Sccs /\ Closed'
  BY <1>1 DEF Sccs, Scc, Closed, graph, TypeInv
<1>3. Propagated \subseteq universal_regions \X universal_regions
  <2>0. Unproven \subseteq universal_regions \X universal_regions
    BY DEF TypeInv, TypeOK, Unproven, RelationsFound
  <2>1. ASSUME NEW e \in universal_regions \X universal_regions
        PROVE  non_local_lower_bound(known, e[1]) \X non_local_upper_bounds(known, e[2])
                 \subseteq universal_regions \X universal_regions
    <3>1. IsOrder(known)
      BY DEF TypeInv
    <3>2. e[1] \in universal_regions /\ e[2] \in universal_regions
      OBVIOUS
    <3> QED
      BY <3>1, <3>2, BoundsType
  <2> QED
    BY <2>0, <2>1 DEF Propagated, PropagatedErrors
<1> QED
  BY <1>1, <1>2, <1>3 DEF TypeInv, TypeOK, input, graph

LEMMA TypeInvCheckMembers ==
  ASSUME TypeInv, check_member_constraints
  PROVE  TypeInv'
<1>1. /\ UNCHANGED <<input, graph, scc_values, todo, to_apply, applied, asked>>
      /\ pc = "check_members" /\ pc' = "done"
  BY DEF check_member_constraints
<1>2. Sccs' = Sccs /\ Closed'
  BY <1>1 DEF Sccs, Scc, Closed, graph, TypeInv
<1> QED
  BY <1>1, <1>2 DEF TypeInv, TypeOK, input, asked, graph

LEMMA TypeInvStep ==
  ASSUME TypeInv, [Next]_vars
  PROVE  TypeInv'
<1>1. CASE add_outlives_static
  BY <1>1, TypeInvAddStatic
<1>2. CASE init_free_and_bound_regions
  BY <1>2, TypeInvInitValues
<1>3. CASE \E s \in todo : compute_value_for_scc(s)
  BY <1>3, TypeInvComputeValue
<1>4. CASE \E m \in to_apply : apply_member_constraint(m)
  BY <1>4, TypeInvApplyMember
<1>5. CASE propagated
  BY <1>5, TypeInvPropagated
<1>6. CASE check_universal_regions
  BY <1>6, TypeInvCheckUniversal
<1>7. CASE check_member_constraints
  BY <1>7, TypeInvCheckMembers
<1>8. CASE check_type_tests
  BY <1>8, TypeInvCheckTypeTests
<1>9. CASE UNCHANGED vars
  BY <1>9 DEF vars, TypeInv, TypeOK, Closed, Sccs, Scc
<1> QED
  BY <1>1, <1>2, <1>3, <1>4, <1>5, <1>6, <1>7, <1>8, <1>9 DEF Next

LEMMA TypeInvHolds == Spec => []TypeInv
  BY TypeInvInit, TypeInvStep, PTL DEF Spec

(* The state has its types: the values are those of the components of the  *)
(* constraints, and only universal regions are asked for or picked.        *)
THEOREM RegionInferTypeOK == Spec => []TypeOK
<1>1. TypeInv => TypeOK
  BY DEF TypeInv
<1> QED
  BY <1>1, TypeInvHolds, PTL

-----------------------------------------------------------------------------
(* One pass solves the constraints.  A component is visited after those it *)
(* has an edge to, so it holds their values from then on (Settled): the    *)
(* only later change of a value is by a member constraint of the component *)
(* just visited, and those with an edge to that one are all still to come  *)
(* (NotYetRead).                                                           *)

Settled ==
  \A s \in Sccs \ todo, t \in Sccs :
    IsSuccessor(s, t) => t \notin todo /\ scc_values[t] \subseteq scc_values[s]

NotYetRead ==
  \A m \in to_apply :
    /\ Scc(members[m].region) \notin todo
    /\ \A s \in Sccs : IsSuccessor(s, Scc(members[m].region)) => s \in todo

OwnKept == \A r \in Regions : OwnElements(r) \subseteq scc_values[Scc(r)]

SolveInv ==
  /\ pc \notin {"add_static", "init_values"} => Settled /\ NotYetRead /\ OwnKept
  /\ Solved => todo = {} /\ to_apply = {}

LEMMA SolveInvInitValues ==
  ASSUME TypeInv, init_free_and_bound_regions
  PROVE  SolveInv'
<1>1. /\ UNCHANGED <<graph, members>> /\ todo' = Sccs /\ to_apply' = {} /\ pc' = "propagate"
      /\ scc_values' = [s \in Sccs |-> UNION {OwnElements(r) : r \in s}]
  BY DEF init_free_and_bound_regions, TypeInv, input
<1>2. Sccs' = Sccs /\ \A r \in Regions : Scc(r)' = Scc(r)
  BY <1>1 DEF Sccs, Scc, graph
<1>3. OwnKept'
  <2> SUFFICES ASSUME NEW r \in Regions
               PROVE  OwnElements(r) \subseteq scc_values'[Scc(r)]
    BY <1>2 DEF OwnKept, OwnElements
  <2>1. Scc(r) \in Sccs /\ r \in Scc(r)
    BY SccFacts
  <2> QED
    BY <1>1, <2>1
<1>4. Settled' /\ NotYetRead'
  BY <1>1, <1>2 DEF Settled, NotYetRead
<1> QED
  BY <1>1, <1>3, <1>4 DEF SolveInv, Solved

LEMMA SolveInvComputeValue ==
  ASSUME TypeInv, SolveInv, NEW s \in todo, compute_value_for_scc(s)
  PROVE  SolveInv'
<1> DEFINE read == UNION {scc_values[t] : t \in {u \in Sccs : IsSuccessor(s, u)}}
<1>1. /\ UNCHANGED <<graph, members, pc>> /\ pc = "propagate"
      /\ \A t \in Sccs : IsSuccessor(s, t) => t \notin todo
      /\ scc_values' = [scc_values EXCEPT ![s] = @ \cup read]
      /\ todo' = todo \ {s}
      /\ to_apply' = {m \in DOMAIN members : members[m].region \in s}
  BY DEF compute_value_for_scc, input
<1>2. /\ Sccs' = Sccs /\ \A r \in Regions : Scc(r)' = Scc(r)
      /\ \A u, t : IsSuccessor(u, t)' = IsSuccessor(u, t)
  BY <1>1 DEF Sccs, Scc, graph, IsSuccessor
<1>3. Settled /\ OwnKept
  BY <1>1 DEF SolveInv
<1>4. todo \subseteq Sccs /\ scc_values \in [Sccs -> SUBSET (Points \cup Regions)]
  BY <1>1 DEF TypeInv, TypeOK
<1>5. \A t \in Sccs : IsSuccessor(s, t) => scc_values[t] \subseteq read
  OBVIOUS
<1> HIDE DEF read
<1>6. \A t \in Sccs : scc_values'[t] = IF t = s THEN scc_values[s] \cup read ELSE scc_values[t]
  BY <1>1, <1>4
<1>7. Settled'
  <2> SUFFICES ASSUME NEW u \in Sccs \ todo', NEW t \in Sccs, IsSuccessor(u, t)
               PROVE  t \notin todo' /\ scc_values'[t] \subseteq scc_values'[u]
    BY <1>2 DEF Settled
  <2>1. t # u
    BY DEF IsSuccessor
  <2>2. CASE u = s
    BY <1>1, <1>5, <1>6, <2>1, <2>2
  <2>3. CASE u # s
    <3>1. u \notin todo /\ t \notin todo /\ scc_values[t] \subseteq scc_values[u]
      BY <1>1, <1>3, <2>3 DEF Settled
    <3> QED
      BY <1>1, <1>6, <2>3, <3>1
  <2> QED
    BY <2>2, <2>3
<1>8. NotYetRead'
  <2> SUFFICES ASSUME NEW m \in to_apply'
               PROVE  /\ Scc(members[m].region) \notin todo'
                      /\ \A u \in Sccs : IsSuccessor(u, Scc(members[m].region)) => u \in todo'
    <3>1. \A m \in to_apply' : members[m].region \in Regions
      BY <1>1, InferAssumption DEF TypeInv
    <3> QED
      BY <1>1, <1>2, <3>1 DEF NotYetRead
  <2>1. m \in DOMAIN members /\ members[m].region \in s /\ members[m].region \in Regions
    BY <1>1, InferAssumption DEF TypeInv
  <2>2. PICK r \in Regions : s = Scc(r)
    BY <1>4 DEF Sccs
  <2>3. Scc(members[m].region) = s
    BY <2>1, <2>2, SccFacts
  <2>4. ASSUME NEW u \in Sccs, IsSuccessor(u, s) PROVE u \in todo'
    BY <1>1, <1>3, <1>4, <2>4 DEF Settled, IsSuccessor
  <2> QED
    BY <1>1, <2>3, <2>4
<1>9. OwnKept'
  <2> SUFFICES ASSUME NEW r \in Regions
               PROVE  OwnElements(r) \subseteq scc_values'[Scc(r)]
    BY <1>2 DEF OwnKept, OwnElements
  <2>1. Scc(r) \in Sccs /\ OwnElements(r) \subseteq scc_values[Scc(r)]
    BY <1>3, SccFacts DEF OwnKept
  <2> QED
    BY <1>6, <2>1
<1> QED
  BY <1>1, <1>7, <1>8, <1>9 DEF SolveInv, Solved

LEMMA SolveInvApplyMember ==
  ASSUME TypeInv, SolveInv, NEW m \in to_apply, apply_member_constraint(m)
  PROVE  SolveInv'
<1> DEFINE s == Scc(members[m].region)
           choice == IF min_universe(members[m].region) = ROOT
                     THEN MinChoice(Options(s, m)) ELSE {}
           joined == scc_values[s] \cup UNION {scc_values[Scc(o)] : o \in choice}
<1>1. /\ UNCHANGED <<graph, members, pc, todo>> /\ pc = "propagate"
      /\ scc_values' = [scc_values EXCEPT ![s] = joined]
      /\ to_apply' = to_apply \ {m}
  BY DEF apply_member_constraint, input
<1>2. /\ Sccs' = Sccs /\ \A r \in Regions : Scc(r)' = Scc(r)
      /\ \A u, t : IsSuccessor(u, t)' = IsSuccessor(u, t)
  BY <1>1 DEF Sccs, Scc, graph, IsSuccessor
<1>3. Settled /\ NotYetRead /\ OwnKept
  BY <1>1 DEF SolveInv
<1>4. scc_values \in [Sccs -> SUBSET (Points \cup Regions)]
  BY <1>1 DEF TypeInv, TypeOK
<1>5. scc_values[s] \subseteq joined
  OBVIOUS
<1>6. s \notin todo /\ \A u \in Sccs : IsSuccessor(u, s) => u \in todo
  BY <1>3 DEF NotYetRead
<1> HIDE DEF s, choice, joined
<1>7. \A t \in Sccs : scc_values'[t] = IF t = s THEN joined ELSE scc_values[t]
  BY <1>1, <1>4
<1>8. Settled'
  <2> SUFFICES ASSUME NEW u \in Sccs \ todo, NEW t \in Sccs, IsSuccessor(u, t)
               PROVE  t \notin todo /\ scc_values'[t] \subseteq scc_values'[u]
    BY <1>1, <1>2 DEF Settled
  <2>1. t \notin todo /\ scc_values[t] \subseteq scc_values[u] /\ t # s
    BY <1>3, <1>6 DEF Settled
  <2> QED
    BY <1>5, <1>7, <2>1
<1>9. NotYetRead'
  <2> SUFFICES ASSUME NEW n \in to_apply'
               PROVE  /\ Scc(members[n].region) \notin todo
                      /\ \A u \in Sccs : IsSuccessor(u, Scc(members[n].region)) => u \in todo
    <3>1. \A n \in to_apply : members[n].region \in Regions
      BY <1>1, InferAssumption DEF TypeInv, TypeOK
    <3> QED
      BY <1>1, <1>2, <3>1 DEF NotYetRead
  <2> QED
    BY <1>1, <1>3 DEF NotYetRead
<1>10. OwnKept'
  <2> SUFFICES ASSUME NEW r \in Regions
               PROVE  OwnElements(r) \subseteq scc_values'[Scc(r)]
    BY <1>2 DEF OwnKept, OwnElements
  <2>1. Scc(r) \in Sccs /\ OwnElements(r) \subseteq scc_values[Scc(r)]
    BY <1>3, SccFacts DEF OwnKept
  <2> QED
    BY <1>5, <1>7, <2>1
<1> QED
  BY <1>1, <1>8, <1>9, <1>10 DEF SolveInv, Solved

(* The steps that leave the values alone.                                  *)
LEMMA SolveInvUnchanged ==
  ASSUME SolveInv, UNCHANGED <<graph, members, scc_values, todo, to_apply>>,
         \/ pc' = pc
         \/ pc = "propagate" /\ todo = {} /\ to_apply = {}
         \/ Solved
  PROVE  SolveInv'
<1>1. /\ Sccs' = Sccs /\ \A r : Scc(r)' = Scc(r)
      /\ \A u, t : IsSuccessor(u, t)' = IsSuccessor(u, t)
  BY DEF Sccs, Scc, graph, IsSuccessor
<1>2. /\ Settled => Settled'
      /\ NotYetRead => NotYetRead'
      /\ OwnKept => OwnKept'
  BY <1>1 DEF Settled, NotYetRead, OwnKept, OwnElements
<1> QED
  BY <1>2 DEF SolveInv, Solved

LEMMA SolveInvStep ==
  ASSUME TypeInv, SolveInv, [Next]_vars
  PROVE  SolveInv'
<1>1. CASE add_outlives_static
  BY <1>1 DEF add_outlives_static, SolveInv, Solved
<1>2. CASE init_free_and_bound_regions
  BY <1>2, SolveInvInitValues
<1>3. CASE \E s \in todo : compute_value_for_scc(s)
  BY <1>3, SolveInvComputeValue
<1>4. CASE \E m \in to_apply : apply_member_constraint(m)
  BY <1>4, SolveInvApplyMember
<1>5. CASE propagated
  BY <1>5, SolveInvUnchanged DEF propagated, input
<1>6. CASE check_universal_regions
  BY <1>6, SolveInvUnchanged DEF check_universal_regions, input, Solved
<1>7. CASE check_member_constraints
  BY <1>7, SolveInvUnchanged DEF check_member_constraints, input, Solved
<1>8. CASE check_type_tests
  BY <1>8, SolveInvUnchanged DEF check_type_tests, input, Solved
<1>9. CASE UNCHANGED vars
  BY <1>9, SolveInvUnchanged DEF vars, graph
<1> QED
  BY <1>1, <1>2, <1>3, <1>4, <1>5, <1>6, <1>7, <1>8, <1>9 DEF Next

(* Whatever member constraints are applied on the way, once propagation is *)
(* over every constraint holds between the values of its regions.          *)
THEOREM RegionInferSolvesConstraints == Spec => []SolvesConstraints
<1>1. Init => SolveInv
  BY DEF Init, SolveInv, Solved
<1>2. ASSUME TypeInv, SolveInv PROVE SolvesConstraints
  <2> SUFFICES ASSUME Solved PROVE SolvesConstraints
    BY DEF SolvesConstraints
  <2>1. todo = {} /\ Settled /\ OwnKept
    BY <1>2 DEF SolveInv, Solved
  <2>2. ASSUME NEW c \in constraints
        PROVE  scc_values[Scc(c[2])] \subseteq scc_values[Scc(c[1])]
    <3>1. c \in Regions \X Regions
      BY <1>2 DEF TypeInv, TypeOK
    <3>2. /\ c[1] \in Scc(c[1]) /\ c[2] \in Scc(c[2])
          /\ Scc(c[1]) \in Sccs /\ Scc(c[2]) \in Sccs
      BY <1>2, <3>1, SccFacts
    <3>3. CASE Scc(c[1]) = Scc(c[2])
      BY <3>3
    <3>4. CASE Scc(c[1]) # Scc(c[2])
      <4>1. c = <<c[1], c[2]>>
        BY <3>1
      <4>2. IsSuccessor(Scc(c[1]), Scc(c[2]))
        BY <3>2, <3>4, <4>1 DEF IsSuccessor
      <4> QED
        BY <2>1, <3>2, <4>2 DEF Settled
    <3> QED
      BY <3>3, <3>4
  <2> QED
    BY <2>1, <2>2 DEF SolvesConstraints, OwnKept
<1> QED
  BY <1>1, <1>2, SolveInvStep, TypeInvHolds, PTL DEF Spec

-----------------------------------------------------------------------------
(* One round of ties to 'static is enough.  A region outside the component *)
(* of 'static after the round reached none of the tied components before,  *)
(* so it still reaches only what it did, and was not a violation itself.   *)

ReachIsExact == reaches = GraphReach(constraints)

(* A region that reaches 'static is in its component.                      *)
LEMMA ReachesStatic ==
  ASSUME TypeInv, NEW r \in Regions, fr_static \in reaches[r]
  PROVE  r \in Scc(fr_static)
  BY DEF TypeInv, Closed, Scc

LEMMA OneRoundIsEnough ==
  ASSUME TypeInv, ReachIsExact, add_outlives_static,
         NEW r \in Regions, r \notin Scc(fr_static)'
  PROVE  ~has_incompatible_universes(r)'
<1>1. TypeInv' /\ IllegalUniverse \in SUBSET (Regions \X Regions)
  BY TypeInvAddStatic, IllegalUniverseType
<1>2. constraints' = constraints \cup IllegalUniverse /\ reaches' = GraphReach(constraints')
  BY DEF add_outlives_static
<1>3. fr_static \in Regions
  BY UniversalAssumption, InferAssumption
<1>4. /\ reaches \in [Regions -> SUBSET Regions] /\ Closed
      /\ reaches' \in [Regions -> SUBSET Regions] /\ Closed'
  BY <1>1 DEF TypeInv, TypeOK
<1>5. fr_static \notin reaches'[r]
  BY <1>1, <1>4 DEF Closed, Scc
<1>6. reaches[r] \subseteq reaches'[r]
  <2> DEFINE before == constraints \cup ({fr_static} \X Regions)
             after == constraints' \cup ({fr_static} \X Regions)
  <2>1. before \subseteq after
    BY <1>2
  <2>2. reaches = ReachedBy(Regions, before) /\ reaches' = ReachedBy(Regions, after)
    BY <1>2 DEF ReachIsExact, GraphReach
  <2> HIDE DEF before, after
  <2> QED
    BY <2>1, <2>2, ReachedByIsMonotone
<1>7. ASSUME NEW e \in IllegalUniverse PROVE e[1] \notin reaches[r]
  <2>1. e \in constraints' /\ e[1] \in Regions /\ e[2] = fr_static
    BY <1>1, <1>2 DEF IllegalUniverse
  <2>2. fr_static \in reaches'[e[1]]
    BY <1>4, <2>1 DEF Closed
  <2> QED
    BY <1>3, <1>4, <1>5, <1>6, <2>1, <2>2 DEF Closed
<1>8. reaches'[r] \subseteq reaches[r]
  <2> DEFINE edges == constraints' \cup ({fr_static} \X Regions)
  <2>1. ASSUME NEW e \in edges, e[1] \in reaches[r] PROVE e[2] \in reaches[r]
    <3>1. CASE e \in constraints
      <4>1. e[1] \in Regions /\ e[2] \in Regions
        BY <1>1, <1>2, <3>1 DEF TypeInv, TypeOK
      <4> QED
        BY <1>4, <2>1, <3>1, <4>1 DEF Closed
    <3>2. CASE e \in IllegalUniverse
      BY <1>7, <2>1, <3>2
    <3>3. CASE e \in {fr_static} \X Regions
      BY <1>5, <1>6, <2>1, <3>3
    <3> QED
      BY <1>2, <3>1, <3>2, <3>3
  <2>2. reaches' = ReachedBy(Regions, edges)
    BY <1>2 DEF GraphReach
  <2>3. reaches[r] \in SUBSET Regions /\ r \in reaches[r]
    BY <1>4 DEF Closed
  <2> HIDE DEF edges
  <2> QED
    BY <2>1, <2>2, <2>3, ReachedByIsLeast
<1>9. SUFFICES ASSUME has_incompatible_universes(r)
               PROVE  FALSE
  BY <1>6, <1>8 DEF has_incompatible_universes
<1>10. r \notin Scc(fr_static)
  BY <1>4, <1>5, <1>6 DEF Scc
<1>11. <<representative(Scc(r)), fr_static>> \in IllegalUniverse
  BY <1>9, <1>10 DEF IllegalUniverse
<1>12. representative(Scc(r)) \in Scc(r)
  BY SccFacts, RepresentativeFacts
<1>13. representative(Scc(r)) \in reaches[r]
  BY <1>12 DEF Scc
<1> QED
  BY <1>7, <1>11, <1>13

LEMMA GraphInv == Spec => [](ReachIsExact /\ UniversesRespected)
<1>1. Init => ReachIsExact /\ UniversesRespected
  BY DEF Init, ReachIsExact, UniversesRespected
<1>2. ASSUME TypeInv, ReachIsExact, UniversesRespected, [Next]_vars
      PROVE  ReachIsExact' /\ UniversesRespected'
  <2>1. CASE add_outlives_static
    <3>1. ReachIsExact'
      BY <2>1 DEF add_outlives_static, ReachIsExact, GraphReach
    <3>2. UniversesRespected'
      BY <1>2, <2>1, OneRoundIsEnough DEF UniversesRespected
    <3> QED
      BY <3>1, <3>2
  <2>2. CASE pc # "add_static" /\ UNCHANGED graph
    <3>1. Scc(fr_static)' = Scc(fr_static)
      BY <2>2 DEF Scc, graph
    <3>2. \A r \in Regions : has_incompatible_universes(r)' = has_incompatible_universes(r)
      BY <2>2 DEF has_incompatible_universes, graph
    <3> QED
      BY <1>2, <2>2, <3>1, <3>2
         DEF ReachIsExact, GraphReach, UniversesRespected, graph
  <2>3. CASE UNCHANGED vars
    BY <1>2, <2>3
       DEF vars, ReachIsExact, UniversesRespected, has_incompatible_universes, Scc
  <2>4. CASE Next /\ ~add_outlives_static
    <3>1. pc # "add_static" /\ UNCHANGED graph
      BY <2>4 DEF Next, init_free_and_bound_regions, compute_value_for_scc,
                  apply_member_constraint, propagated, check_type_tests,
                  check_universal_regions, check_member_constraints
    <3> QED
      BY <2>2, <3>1
  <2> QED
    BY <1>2, <2>1, <2>3, <2>4
<1> QED
  BY <1>1, <1>2, TypeInvHolds, PTL DEF Spec

(* Outside the component of 'static, no region reaches a placeholder that  *)
(* one of the regions it reaches cannot name.                              *)
THEOREM RegionInferUniversesRespected == Spec => []UniversesRespected
  BY GraphInv, PTL

-----------------------------------------------------------------------------
(* What member constraints add.                                            *)

(* All of a component is reached from all of those with an edge to it.     *)
LEMMA SuccessorIsReached ==
  ASSUME TypeInv, NEW s \in Sccs, NEW t \in Sccs, IsSuccessor(s, t),
         NEW x \in s, NEW y \in t
  PROVE  x \in Regions /\ y \in Regions /\ y \in reaches[x]
<1>1. Closed /\ reaches \in [Regions -> SUBSET Regions]
  BY DEF TypeInv, TypeOK
<1>2. PICK a \in s, b \in t : <<a, b>> \in constraints \/ a = fr_static
  BY DEF IsSuccessor
<1>3. PICK r \in Regions, q \in Regions : s = Scc(r) /\ t = Scc(q)
  BY DEF Sccs
<1>4. /\ {a, b, x, y} \subseteq Regions
      /\ r \in reaches[x] /\ a \in reaches[r] /\ q \in reaches[b] /\ y \in reaches[q]
  BY <1>1, <1>2, <1>3 DEF Scc
<1>5. b \in reaches[a]
  <2>1. CASE <<a, b>> \in constraints
    <3>1. <<a, b>>[2] \in reaches[<<a, b>>[1]]
      BY <1>1, <2>1 DEF Closed
    <3> QED
      BY <3>1
  <2>2. CASE a = fr_static
    BY <1>1, <1>4, <2>2 DEF Closed
  <2> QED
    BY <1>2, <2>1, <2>2
<1>6. a \in reaches[x] /\ y \in reaches[b]
  BY <1>1, <1>3, <1>4 DEF Closed
<1> QED
  BY <1>1, <1>4, <1>5, <1>6 DEF Closed

(* What a universal region must outlive by then is known, if what the      *)
(* regions it reaches started from is.                                     *)
AboveKnown ==
  PassesWithout =>
    \A s \in Sccs, ub \in universal_regions : s \subseteq reaches[ub] => FreeIn(s) \subseteq known[ub]

MemberInv == pc \notin {"add_static", "init_values"} => AboveKnown

LEMMA MemberInvInitValues ==
  ASSUME TypeInv, init_free_and_bound_regions
  PROVE  MemberInv'
<1>1. /\ UNCHANGED <<graph, known>>
      /\ scc_values' = [s \in Sccs |-> UNION {OwnElements(r) : r \in s}]
  BY DEF init_free_and_bound_regions, input
<1>2. Sccs' = Sccs
  BY <1>1 DEF Sccs, Scc, graph
<1> SUFFICES ASSUME PassesWithout, NEW s \in Sccs, NEW ub \in universal_regions,
                    s \subseteq reaches[ub], NEW u \in FreeIn(s)'
             PROVE  u \in known[ub]
  BY <1>1, <1>2 DEF MemberInv, AboveKnown, PassesWithout, graph, OwnElements
<1>3. u \in universal_regions /\ \E r \in s : u \in OwnElements(r)
  BY <1>1 DEF FreeIn
<1> QED
  BY <1>3 DEF PassesWithout

LEMMA MemberInvComputeValue ==
  ASSUME TypeInv, MemberInv, NEW s \in todo, compute_value_for_scc(s)
  PROVE  MemberInv'
<1> DEFINE read == UNION {scc_values[t] : t \in {u \in Sccs : IsSuccessor(s, u)}}
<1>1. /\ UNCHANGED <<graph, known, pc>> /\ pc = "propagate"
      /\ scc_values' = [scc_values EXCEPT ![s] = @ \cup read]
  BY DEF compute_value_for_scc, input
<1>2. Sccs' = Sccs
  BY <1>1 DEF Sccs, Scc, graph
<1>3. todo \subseteq Sccs /\ scc_values \in [Sccs -> SUBSET (Points \cup Regions)]
  BY <1>1 DEF TypeInv, TypeOK
<1>4. universal_regions \subseteq Regions
  BY UniversalAssumption, InferAssumption DEF universal_regions
<1> SUFFICES ASSUME PassesWithout, NEW t \in Sccs, NEW ub \in universal_regions,
                    t \subseteq reaches[ub], NEW u \in FreeIn(t)'
             PROVE  u \in known[ub]
  BY <1>1, <1>2 DEF MemberInv, AboveKnown, PassesWithout, graph, OwnElements
<1>5. u \in universal_regions /\ u \in scc_values'[t] /\ AboveKnown
  BY <1>1 DEF FreeIn, MemberInv
<1>6. CASE u \in scc_values[t]
  BY <1>5, <1>6 DEF AboveKnown, FreeIn
<1>7. CASE u \notin scc_values[t]
  <2>1. t = s /\ u \in read
    BY <1>1, <1>3, <1>5, <1>7
  <2>2. PICK v \in Sccs : IsSuccessor(s, v) /\ u \in scc_values[v]
    BY <2>1
  <2>3. PICK x \in s : x \in Regions /\ x \in reaches[ub]
    BY <1>3, <2>1, SccFacts DEF Sccs
  <2>4. \A y \in v : y \in Regions /\ y \in reaches[x]
    BY <1>3, <2>2, <2>3, SuccessorIsReached
  <2>5. v \subseteq reaches[ub]
    BY <1>4, <2>3, <2>4 DEF TypeInv, Closed
  <2> QED
    BY <1>5, <2>2, <2>5 DEF AboveKnown, FreeIn
<1> QED
  BY <1>6, <1>7

LEMMA MemberInvApplyMember ==
  ASSUME TypeInv, MemberInv, NEW m \in to_apply, apply_member_constraint(m)
  PROVE  MemberInv'
<1> DEFINE s == Scc(members[m].region)
           choice == IF min_universe(members[m].region) = ROOT
                     THEN MinChoice(Options(s, m)) ELSE {}
           joined == scc_values[s] \cup UNION {scc_values[Scc(o)] : o \in choice}
<1>1. /\ UNCHANGED <<graph, known, pc>> /\ pc = "propagate"
      /\ scc_values' = [scc_values EXCEPT ![s] = joined]
  BY DEF apply_member_constraint, input
<1>2. Sccs' = Sccs
  BY <1>1 DEF Sccs, Scc, graph
<1>3. scc_values \in [Sccs -> SUBSET (Points \cup Regions)] /\ m \in DOMAIN members
  BY <1>1 DEF TypeInv, TypeOK
<1>4. universal_regions \subseteq Regions
  BY UniversalAssumption, InferAssumption DEF universal_regions
<1> SUFFICES ASSUME PassesWithout, NEW t \in Sccs, NEW ub \in universal_regions,
                    t \subseteq reaches[ub], NEW u \in FreeIn(t)'
             PROVE  u \in known[ub]
  BY <1>1, <1>2 DEF MemberInv, AboveKnown, PassesWithout, graph, OwnElements
<1>5. u \in universal_regions /\ u \in scc_values'[t] /\ AboveKnown
  BY <1>1 DEF FreeIn, MemberInv
<1>6. CASE u \in scc_values[t]
  BY <1>5, <1>6 DEF AboveKnown, FreeIn
<1>7. CASE u \notin scc_values[t]
  <2>1. t = s /\ u \in joined
    BY <1>1, <1>3, <1>5, <1>7
  <2>2. PICK o \in choice : u \in scc_values[Scc(o)]
    BY <1>7, <2>1
  <2>3. o \in universal_regions
    BY <1>3, ChoiceType
  <2>4. o \in known[ub]
    BY <2>1, <2>2 DEF MinChoice, Options, upper_bounds
  <2>5. Scc(o) \in Sccs /\ Scc(o) \subseteq reaches[o]
    BY <1>4, <2>3, SccFacts DEF Scc
  <2>6. u \in known[o]
    BY <1>5, <2>2, <2>3, <2>5 DEF AboveKnown, FreeIn
  <2> QED
    BY <1>5, <2>3, <2>4, <2>6 DEF TypeInv, IsOrder
<1> QED
  BY <1>6, <1>7

LEMMA MemberInvStep ==
  ASSUME TypeInv, MemberInv, [Next]_vars
  PROVE  MemberInv'
<1>1. CASE add_outlives_static
  BY <1>1 DEF add_outlives_static, MemberInv
<1>2. CASE init_free_and_bound_regions
  BY <1>2, MemberInvInitValues
<1>3. CASE \E s \in todo : compute_value_for_scc(s)
  BY <1>3, MemberInvComputeValue
<1>4. CASE \E m \in to_apply : apply_member_constraint(m)
  BY <1>4, MemberInvApplyMember
<1>5. CASE /\ UNCHANGED <<graph, known, scc_values>>
           /\ pc' = pc \/ pc \notin {"add_static", "init_values"}
  <2>1. Sccs' = Sccs
    BY <1>5 DEF Sccs, Scc, graph
  <2>2. AboveKnown' = AboveKnown
    BY <1>5, <2>1 DEF AboveKnown, PassesWithout, FreeIn, OwnElements, graph
  <2> QED
    BY <1>5, <2>2 DEF MemberInv
<1>6. CASE propagated \/ check_type_tests \/ check_universal_regions \/ check_member_constraints
  BY <1>5, <1>6 DEF propagated, check_type_tests, check_universal_regions,
                    check_member_constraints, input
<1>7. CASE UNCHANGED vars
  BY <1>5, <1>7 DEF vars, graph
<1> QED
  BY <1>1, <1>2, <1>3, <1>4, <1>6, <1>7 DEF Next

(* Where all that a universal region must outlive without the choices of   *)
(* member constraints is known, so is all it must outlive with them.       *)
THEOREM RegionInferMembersAddNoError == Spec => []MembersAddNoError
<1>1. Init => MemberInv
  BY DEF Init, MemberInv
<1>2. ASSUME TypeInv, MemberInv PROVE MembersAddNoError
  <2> SUFFICES ASSUME Solved, PassesWithout, NEW fr \in universal_regions
               PROVE  FreeIn(Scc(fr)) \subseteq known[fr]
    BY DEF MembersAddNoError
  <2>1. fr \in Regions
    BY UniversalAssumption, InferAssumption DEF universal_regions
  <2>2. Scc(fr) \in Sccs /\ Scc(fr) \subseteq reaches[fr]
    BY <1>2, <2>1, SccFacts DEF Scc
  <2> QED
    BY <1>2, <2>2 DEF MemberInv, AboveKnown, Solved
<1> QED
  BY <1>1, <1>2, MemberInvStep, TypeInvHolds, PTL DEF Spec

-----------------------------------------------------------------------------
(* The solution is exact.                                                  *)

(* Without member constraints a component holds only what it reaches.      *)
HoldsReached ==
  \A s \in Sccs : \A r \in s : scc_values[s] \subseteq UNION {OwnElements(q) : q \in reaches[r]}

ReachedInv == members = << >> /\ pc \notin {"add_static", "init_values"} => HoldsReached

LEMMA ReachedInvComputeValue ==
  ASSUME TypeInv, ReachedInv, NEW s \in todo, compute_value_for_scc(s)
  PROVE  ReachedInv'
<1> DEFINE read == UNION {scc_values[t] : t \in {u \in Sccs : IsSuccessor(s, u)}}
<1>1. /\ UNCHANGED <<graph, members, pc>> /\ pc = "propagate"
      /\ scc_values' = [scc_values EXCEPT ![s] = @ \cup read]
  BY DEF compute_value_for_scc, input
<1>2. Sccs' = Sccs
  BY <1>1 DEF Sccs, Scc, graph
<1>3. todo \subseteq Sccs /\ scc_values \in [Sccs -> SUBSET (Points \cup Regions)]
  BY <1>1 DEF TypeInv, TypeOK
<1> SUFFICES ASSUME members = << >>, NEW t \in Sccs, NEW r \in t, NEW x \in scc_values'[t]
             PROVE  \E q \in reaches[r] : x \in OwnElements(q)
  BY <1>1, <1>2 DEF ReachedInv, HoldsReached, graph, OwnElements
<1>4. HoldsReached
  BY <1>1 DEF ReachedInv
<1>5. CASE x \in scc_values[t]
  BY <1>4, <1>5 DEF HoldsReached
<1>6. CASE x \notin scc_values[t]
  <2>1. t = s /\ x \in read
    BY <1>1, <1>3, <1>6
  <2>2. PICK v \in Sccs : IsSuccessor(s, v) /\ x \in scc_values[v]
    BY <2>1
  <2>3. PICK y \in v : y \in Regions
    BY <2>2, SccFacts DEF Sccs
  <2>4. r \in Regions /\ y \in reaches[r]
    BY <1>3, <2>1, <2>2, SuccessorIsReached
  <2>5. PICK q \in reaches[y] : x \in OwnElements(q)
    BY <1>4, <2>2 DEF HoldsReached
  <2>6. q \in reaches[r]
    BY <2>3, <2>4, <2>5 DEF TypeInv, TypeOK, Closed
  <2> QED
    BY <2>5, <2>6
<1> QED
  BY <1>5, <1>6

LEMMA ReachedInvStep ==
  ASSUME TypeInv, ReachedInv, [Next]_vars
  PROVE  ReachedInv'
<1>1. CASE add_outlives_static
  BY <1>1 DEF add_outlives_static, ReachedInv
<1>2. CASE init_free_and_bound_regions
  <2>1. /\ UNCHANGED graph
        /\ scc_values' = [s \in Sccs |-> UNION {OwnElements(r) : r \in s}]
    BY <1>2 DEF init_free_and_bound_regions
  <2>2. Sccs' = Sccs
    BY <2>1 DEF Sccs, Scc, graph
  <2>3. ASSUME NEW s \in Sccs, NEW r \in s PROVE s \subseteq reaches[r]
    <3>1. PICK c \in Regions : s = Scc(c)
      BY DEF Sccs
    <3>2. Scc(r) = s
      BY <3>1, SccFacts
    <3> QED
      BY <3>2 DEF Scc
  <2>4. HoldsReached'
    BY <2>1, <2>2, <2>3 DEF HoldsReached, graph, OwnElements
  <2> QED
    BY <2>4 DEF ReachedInv
<1>3. CASE \E s \in todo : compute_value_for_scc(s)
  BY <1>3, ReachedInvComputeValue
<1>4. CASE \E m \in to_apply : apply_member_constraint(m)
  BY <1>4 DEF apply_member_constraint, input, ReachedInv, TypeInv, TypeOK
<1>5. CASE /\ UNCHANGED <<graph, members, scc_values>>
           /\ pc' = pc \/ pc \notin {"add_static", "init_values"}
  <2>1. Sccs' = Sccs
    BY <1>5 DEF Sccs, Scc, graph
  <2>2. HoldsReached' = HoldsReached
    BY <1>5, <2>1 DEF HoldsReached, OwnElements, graph
  <2> QED
    BY <1>5, <2>2 DEF ReachedInv
<1>6. CASE propagated \/ check_type_tests \/ check_universal_regions \/ check_member_constraints
  BY <1>5, <1>6 DEF propagated, check_type_tests, check_universal_regions,
                    check_member_constraints, input
<1>7. CASE UNCHANGED vars
  BY <1>5, <1>7 DEF vars, graph
<1> QED
  BY <1>1, <1>2, <1>3, <1>4, <1>6, <1>7 DEF Next

(* Once solved, a region holds all that those it reaches hold.             *)
LEMMA ReachedIsHeld ==
  ASSUME TypeInv, SolveInv, ReachIsExact, Solved, NEW r \in Regions, NEW q \in reaches[r]
  PROVE  scc_values[Scc(q)] \subseteq scc_values[Scc(r)]
<1> DEFINE held == {p \in Regions : scc_values[Scc(p)] \subseteq scc_values[Scc(r)]}
           edges == constraints \cup ({fr_static} \X Regions)
<1>1. ASSUME NEW a \in Regions, NEW b \in Regions, <<a, b>> \in edges
      PROVE  scc_values[Scc(b)] \subseteq scc_values[Scc(a)]
  <2>1. todo = {} /\ Settled
    BY DEF SolveInv, Solved
  <2>2. a \in Scc(a) /\ b \in Scc(b) /\ Scc(a) \in Sccs /\ Scc(b) \in Sccs
    BY SccFacts
  <2>3. CASE Scc(a) # Scc(b)
    BY <1>1, <2>1, <2>2, <2>3 DEF Settled, IsSuccessor
  <2> QED
    BY <2>3
<1>2. fr_static \in Regions
  BY UniversalAssumption, InferAssumption
<1>3. edges \subseteq Regions \X Regions
  BY <1>2 DEF TypeInv, TypeOK
<1>4. ASSUME NEW e \in edges, e[1] \in held PROVE e[2] \in held
  <2>1. e[1] \in Regions /\ e[2] \in Regions /\ <<e[1], e[2]>> \in edges
    BY <1>3
  <2>2. scc_values[Scc(e[2])] \subseteq scc_values[Scc(e[1])]
    BY <1>1, <2>1
  <2> QED
    BY <1>4, <2>1, <2>2
<1>5. reaches = ReachedBy(Regions, edges)
  BY DEF ReachIsExact, GraphReach
<1>6. held \in SUBSET Regions /\ r \in held
  OBVIOUS
<1> HIDE DEF held, edges
<1>7. q \in held
  BY <1>4, <1>5, <1>6, ReachedByIsLeast
<1> QED
  BY <1>7 DEF held

(* The least universe is that of a region that is reached.                 *)
LEMMA MinUniverseIsReached ==
  ASSUME TypeInv, NEW r \in Regions
  PROVE  \E q \in reaches[r] : min_universe(r) = Universe[q]
<1> DEFINE universes == {Universe[q] : q \in reaches[r]}
<1>1. reaches[r] \subseteq Regions /\ r \in reaches[r] /\ Universe \in [Regions -> Nat]
  BY InferAssumption DEF TypeInv, TypeOK, Closed
<1>2. universes \in SUBSET Nat /\ universes # {}
  BY <1>1
<1>3. \E u \in universes : \A v \in universes : u <= v
  BY <1>2, LeastElement
<1>4. \E u \in universes : \A q \in reaches[r] : u <= Universe[q]
  BY <1>3
<1>5. min_universe(r) \in universes
  BY <1>4 DEF min_universe
<1> QED
  BY <1>5

(* A solved constraint evaluates as true.                                  *)
LEMMA SolvedConstraintHolds ==
  ASSUME TypeInv, SolveInv, ReachIsExact, UniversesRespected, Solved, NEW c \in constraints
  PROVE  eval_outlives(c[1], c[2])
<1> DEFINE sup == c[1]
           sub == c[2]
<1>1. sup \in Regions /\ sub \in Regions /\ sub \in reaches[sup]
  BY DEF TypeInv, TypeOK, Closed
<1>2. scc_values[Scc(sub)] \subseteq scc_values[Scc(sup)]
  BY <1>1, ReachedIsHeld
<1>3. \A u \in universal_regions : u \in known[u]
  BY DEF TypeInv, IsOrder
<1> HIDE DEF sup, sub
<1>4. CASE universe_compatible(sub, sup)
  BY <1>2, <1>3, <1>4 DEF eval_outlives, ValueOutlives, FreeIn, sup, sub
<1>5. CASE ~universe_compatible(sub, sup)
  <2>1. PICK p \in reaches[sub] \cap Placeholders : ~(Universe[p] <= min_universe(sup))
    BY <1>5 DEF universe_compatible
  <2>2. PICK q \in reaches[sup] : min_universe(sup) = Universe[q]
    BY <1>1, MinUniverseIsReached
  <2>3. /\ reaches \in [Regions -> SUBSET Regions] /\ Closed
        /\ Universe \in [Regions -> Nat]
    BY InferAssumption DEF TypeInv, TypeOK
  <2>4. p \in reaches[sup] \cap Placeholders /\ Universe[q] < Universe[p]
    <3>1. p \in Regions /\ q \in Regions
      BY <1>1, <2>1, <2>2, <2>3
    <3>2. Universe[p] \in Nat /\ Universe[q] \in Nat
      BY <2>3, <3>1
    <3>3. p \in reaches[sup]
      BY <1>1, <2>1, <2>3, <3>1 DEF Closed
    <3> QED
      BY <2>1, <2>2, <3>2, <3>3
  <2>5. has_incompatible_universes(sup)
    BY <2>2, <2>4 DEF has_incompatible_universes
  <2>6. sup \in Scc(fr_static)
    BY <1>1, <2>5 DEF UniversesRespected, Solved
  <2>7. Scc(sup) = Scc(fr_static)
    BY <2>6, SccFacts, UniversalAssumption, InferAssumption
  <2>8. ValueOutlives(sup, fr_static)
    BY <1>3, <2>7 DEF ValueOutlives, FreeIn
  <2> QED
    BY <1>5, <2>8 DEF eval_outlives, sup, sub
<1> QED
  BY <1>4, <1>5

(* Without member constraints a region's value is exactly what the regions *)
(* it reaches started from, and with or without them every constraint      *)
(* evaluates as true, universes included.                                  *)
THEOREM RegionInferSolutionIsExact == Spec => []SolutionIsExact
<1>1. Init => SolveInv /\ ReachedInv
  BY DEF Init, SolveInv, ReachedInv, Solved
<1>2. ASSUME TypeInv, SolveInv, ReachedInv, ReachIsExact, UniversesRespected
      PROVE  SolutionIsExact
  <2>1. ASSUME Solved, members = << >>, NEW r \in Regions
        PROVE  scc_values[Scc(r)] = UNION {OwnElements(q) : q \in reaches[r]}
    <3>1. r \in Scc(r) /\ Scc(r) \in Sccs /\ reaches[r] \subseteq Regions
      BY <1>2, SccFacts DEF TypeInv, TypeOK
    <3>2. scc_values[Scc(r)] \subseteq UNION {OwnElements(q) : q \in reaches[r]}
      BY <1>2, <2>1, <3>1 DEF ReachedInv, HoldsReached, Solved
    <3>3. ASSUME NEW q \in reaches[r] PROVE OwnElements(q) \subseteq scc_values[Scc(r)]
      <4>1. scc_values[Scc(q)] \subseteq scc_values[Scc(r)]
        BY <1>2, <2>1, ReachedIsHeld
      <4>2. OwnElements(q) \subseteq scc_values[Scc(q)]
        BY <1>2, <2>1, <3>1 DEF SolveInv, OwnKept, Solved
      <4> QED
        BY <4>1, <4>2
    <3> QED
      BY <3>2, <3>3
  <2>2. ValuesAreReached
    BY <2>1 DEF ValuesAreReached
  <2>3. SolvedEvaluatesTrue
    BY <1>2, SolvedConstraintHolds DEF SolvedEvaluatesTrue
  <2> QED
    BY <2>2, <2>3 DEF SolutionIsExact
<1> QED
  BY <1>1, <1>2, SolveInvStep, ReachedInvStep, TypeInvHolds, GraphInv, PTL DEF Spec

-----------------------------------------------------------------------------
(* There is a constraint to blame.  What a region reaches, it reaches      *)
(* along the constraints of the type check alone, or it violates universes *)
(* along these and is tied to 'static; and what a region outside the       *)
(* component of 'static holds, it got along the edges that are searched.   *)

TypeCheckReach == GraphReach(constraints \ illegal)
BlameReach == ReachedBy(Regions, BlameEdges)

Violates(r) ==
  \E p \in TypeCheckReach[r] \cap Placeholders, q \in TypeCheckReach[r] : Universe[q] < Universe[p]

TieInv ==
  /\ pc = "add_static" => illegal = {}
  /\ \A e \in illegal : Violates(e[1])
  /\ \A errs \in polonius_output : \A e \in errs : e[2] \in TypeCheckReach[e[1]]

(* 'static represents its component.                                       *)
LEMMA StaticRepresents ==
  ASSUME TypeInv
  PROVE  representative(Scc(fr_static)) = fr_static
<1> DEFINE s == Scc(fr_static)
           named == s \cap (universal_regions \cup Placeholders)
<1>1. fr_static \in s /\ s \in SUBSET Regions
  BY SccFacts, UniversalAssumption, InferAssumption
<1>2. fr_static \in universal_regions
  BY UniversalAssumption DEF universal_regions
<1>3. fr_static \in named /\ named \subseteq Nat
  BY <1>1, <1>2, InferAssumption
<1>4. representative(s) = CHOOSE r \in named : \A q \in named : r <= q
  BY <1>3 DEF representative
<1> HIDE DEF named, s
<1>5. \A q \in named : fr_static <= q
  BY <1>3
<1>6. representative(s) \in named /\ \A q \in named : representative(s) <= q
  BY <1>3, <1>4, <1>5
<1>7. representative(s) \in Nat /\ representative(s) <= 0
  BY <1>3, <1>6
<1> QED
  BY <1>7 DEF s

(* The edges that are searched relate regions.                             *)
LEMMA BlameEdgesType ==
  ASSUME TypeInv
  PROVE  BlameEdges \in SUBSET (Regions \X Regions)
<1> DEFINE chosen == UNION {Scc(members[x[1]].region) \X {x[2]} : x \in applied}
<1>1. constraints \in SUBSET (Regions \X Regions)
  BY DEF TypeInv, TypeOK
<1>2. fr_static \in Regions /\ universal_regions \subseteq Regions
  BY UniversalAssumption, InferAssumption DEF universal_regions
<1>3. \A x \in applied : members[x[1]].region \in Regions /\ x[2] \in Regions
  BY <1>2, InferAssumption DEF TypeInv, TypeOK
<1>4. chosen \subseteq Regions \X Regions
  BY <1>3, SccFacts
<1> HIDE DEF chosen
<1>5. BlameEdges = (constraints \ illegal) \cup ({fr_static} \X Regions) \cup chosen
  BY DEF BlameEdges, chosen
<1> QED
  BY <1>1, <1>2, <1>4, <1>5

(* They reach at least what the constraints of the type check do.          *)
LEMMA BlameFacts ==
  ASSUME TypeInv
  PROVE  /\ BlameReach \in [Regions -> SUBSET Regions]
         /\ TypeCheckReach \in [Regions -> SUBSET Regions]
         /\ \A r \in Regions : /\ r \in TypeCheckReach[r]
                               /\ TypeCheckReach[r] \subseteq BlameReach[r]
         /\ \A a, b, c \in Regions :
              b \in TypeCheckReach[a] /\ c \in TypeCheckReach[b] => c \in TypeCheckReach[a]
         /\ \A e \in constraints \ illegal : e[2] \in TypeCheckReach[e[1]]
         /\ \A r \in Regions : r \in TypeCheckReach[fr_static]
         /\ \A a, b, c \in Regions : b \in BlameReach[a] /\ c \in BlameReach[b] => c \in BlameReach[a]
         /\ \A e \in BlameEdges : e[2] \in BlameReach[e[1]]
<1> DEFINE own == constraints \ illegal
<1>1. own \in SUBSET (Regions \X Regions)
  BY DEF TypeInv, TypeOK
<1>2. BlameEdges \in SUBSET (Regions \X Regions)
  BY BlameEdgesType
<1>3. own \cup ({fr_static} \X Regions) \subseteq BlameEdges
  BY DEF BlameEdges
<1> HIDE DEF own
<1>4. /\ BlameReach \in [Regions -> SUBSET Regions]
      /\ \A a, b, c \in Regions : b \in BlameReach[a] /\ c \in BlameReach[b] => c \in BlameReach[a]
      /\ \A e \in BlameEdges : e[2] \in BlameReach[e[1]]
  BY <1>2, ReachedByIsClosure DEF BlameReach
<1>5. /\ TypeCheckReach \in [Regions -> SUBSET Regions]
      /\ \A r \in Regions : r \in TypeCheckReach[r]
      /\ \A a, b, c \in Regions :
           b \in TypeCheckReach[a] /\ c \in TypeCheckReach[b] => c \in TypeCheckReach[a]
      /\ \A e \in own : e[2] \in TypeCheckReach[e[1]]
      /\ \A r \in Regions : r \in TypeCheckReach[fr_static]
  BY <1>1, GraphReachIsClosed DEF TypeCheckReach, own
<1>6. ASSUME NEW r \in Regions PROVE TypeCheckReach[r] \subseteq BlameReach[r]
  <2>1. TypeCheckReach = ReachedBy(Regions, own \cup ({fr_static} \X Regions))
    BY DEF TypeCheckReach, GraphReach, own
  <2> QED
    BY <1>3, <2>1, ReachedByIsMonotone DEF BlameReach
<1> QED
  BY <1>4, <1>5, <1>6 DEF own

(* What is reached is reached without ties, or universes are violated.     *)
LEMMA ReachedWithoutTies ==
  ASSUME TypeInv, ReachIsExact, TieInv, NEW r \in Regions, ~Violates(r)
  PROVE  reaches[r] \subseteq TypeCheckReach[r]
<1> DEFINE edges == constraints \cup ({fr_static} \X Regions)
<1>1. /\ TypeCheckReach \in [Regions -> SUBSET Regions]
      /\ r \in TypeCheckReach[r]
      /\ \A a, b, c \in Regions :
           b \in TypeCheckReach[a] /\ c \in TypeCheckReach[b] => c \in TypeCheckReach[a]
      /\ \A e \in constraints \ illegal : e[2] \in TypeCheckReach[e[1]]
      /\ \A q \in Regions : q \in TypeCheckReach[fr_static]
  BY BlameFacts
<1>2. constraints \subseteq Regions \X Regions /\ fr_static \in Regions
  BY UniversalAssumption, InferAssumption DEF TypeInv, TypeOK
<1>3. ASSUME NEW e \in edges, e[1] \in TypeCheckReach[r] PROVE e[2] \in TypeCheckReach[r]
  <2>1. e[1] \in Regions /\ e[2] \in Regions
    BY <1>2
  <2>2. CASE e \in illegal
    <3>1. PICK p \in TypeCheckReach[e[1]] \cap Placeholders, q \in TypeCheckReach[e[1]] :
            Universe[q] < Universe[p]
      BY <2>2 DEF TieInv, Violates
    <3>2. p \in TypeCheckReach[r] /\ q \in TypeCheckReach[r]
      BY <1>1, <1>3, <2>1, <3>1
    <3> QED
      BY <3>1, <3>2 DEF Violates
  <2>3. CASE e \in constraints \ illegal
    BY <1>1, <1>3, <2>1, <2>3
  <2>4. CASE e \in {fr_static} \X Regions
    BY <1>1, <1>2, <1>3, <2>1, <2>4
  <2> QED
    BY <2>2, <2>3, <2>4
<1>4. reaches = ReachedBy(Regions, edges)
  BY DEF ReachIsExact, GraphReach
<1>5. TypeCheckReach[r] \in SUBSET Regions /\ r \in TypeCheckReach[r]
  BY <1>1
<1> HIDE DEF edges
<1> QED
  BY <1>3, <1>4, <1>5, ReachedByIsLeast

(* A region that violates universes is tied to 'static.                    *)
LEMMA ViolationsAreTied ==
  ASSUME TypeInv, ReachIsExact, UniversesRespected, pc # "add_static",
         NEW r \in Regions, Violates(r)
  PROVE  r \in Scc(fr_static)
<1> DEFINE before == (constraints \ illegal) \cup ({fr_static} \X Regions)
           after == constraints \cup ({fr_static} \X Regions)
<1>1. TypeCheckReach = ReachedBy(Regions, before) /\ reaches = ReachedBy(Regions, after)
  BY DEF TypeCheckReach, ReachIsExact, GraphReach
<1>2. before \subseteq after
  OBVIOUS
<1> HIDE DEF before, after
<1>3. TypeCheckReach[r] \subseteq reaches[r]
  BY <1>1, <1>2, ReachedByIsMonotone
<1>4. has_incompatible_universes(r)
  BY <1>3 DEF Violates, has_incompatible_universes
<1> QED
  BY <1>4 DEF UniversesRespected

LEMMA TieInvInit ==
  ASSUME Init
  PROVE  TieInv
<1>1. illegal = {} /\ reaches = GraphReach(constraints) /\ constraints \ illegal = constraints
  BY DEF Init
<1>2. reaches = TypeCheckReach
  BY <1>1 DEF TypeCheckReach
<1>3. \A errs \in polonius_output : errs \subseteq ReachedUnknown
  BY DEF Init
<1> QED
  BY <1>1, <1>2, <1>3 DEF TieInv, ReachedUnknown

LEMMA TieInvStep ==
  ASSUME TypeInv, ReachIsExact, TieInv, [Next]_vars
  PROVE  TieInv'
<1>1. CASE add_outlives_static
  <2>1. /\ illegal = {} /\ illegal' = IllegalUniverse
        /\ constraints' = constraints \cup IllegalUniverse
        /\ pc' # "add_static" /\ polonius_output' = polonius_output
    BY <1>1 DEF add_outlives_static, TieInv, input
  <2>2. reaches \in [Regions -> SUBSET Regions] /\ Closed /\ fr_static \in Regions
    BY UniversalAssumption, InferAssumption DEF TypeInv, TypeOK
  <2>3. ASSUME NEW e \in IllegalUniverse
        PROVE  e \notin constraints /\ \E p \in reaches[e[1]] \cap Placeholders, q \in reaches[e[1]] :
                                         Universe[q] < Universe[p]
    <3>1. PICK r \in Regions \ Scc(fr_static) :
            has_incompatible_universes(r) /\ e = <<representative(Scc(r)), fr_static>>
      BY DEF IllegalUniverse
    <3>2. e[1] \in Regions /\ e[1] \in reaches[r] /\ r \in reaches[e[1]] /\ e[2] = fr_static
      <4>1. representative(Scc(r)) \in Scc(r)
        BY SccFacts, RepresentativeFacts
      <4>2. representative(Scc(r)) \in Regions
        BY <4>1, SccFacts
      <4> QED
        BY <3>1, <4>1, <4>2 DEF Scc
    <3>3. fr_static \notin reaches[r]
      BY <3>1, ReachesStatic
    <3>4. e \notin constraints
      BY <2>2, <3>2, <3>3 DEF Closed
    <3>5. PICK p \in reaches[r] \cap Placeholders, q \in reaches[r] : Universe[q] < Universe[p]
      BY <3>1 DEF has_incompatible_universes
    <3>6. p \in reaches[e[1]] /\ q \in reaches[e[1]]
      BY <2>2, <3>2, <3>5 DEF Closed
    <3> QED
      BY <3>4, <3>5, <3>6
  <2>4. constraints' \ illegal' = constraints /\ constraints \ illegal = constraints
    BY <2>1, <2>3
  <2>5. TypeCheckReach' = reaches /\ TypeCheckReach = reaches
    BY <2>4 DEF TypeCheckReach, ReachIsExact, GraphReach
  <2>6. \A e \in illegal' : Violates(e[1])'
    BY <2>1, <2>3, <2>5 DEF Violates
  <2> QED
    BY <2>1, <2>5, <2>6 DEF TieInv
<1>2. CASE UNCHANGED <<constraints, illegal, polonius_output>> /\ (pc' = pc \/ pc' # "add_static")
  BY <1>2 DEF TieInv, Violates, TypeCheckReach, GraphReach
<1>3. CASE Next /\ ~add_outlives_static
  <2>1. UNCHANGED <<constraints, illegal, polonius_output>> /\ (pc' = pc \/ pc' # "add_static")
    BY <1>3 DEF Next, init_free_and_bound_regions, compute_value_for_scc,
                apply_member_constraint, propagated, check_type_tests,
                check_universal_regions, check_member_constraints, input, graph
  <2> QED
    BY <1>2, <2>1
<1>4. CASE UNCHANGED vars
  BY <1>2, <1>4 DEF vars
<1> QED
  BY <1>1, <1>3, <1>4

(* Each element of a value is one that a region started from, and outside  *)
(* the component of 'static one that the search finds.                     *)
Owned ==
  \A s \in Sccs : scc_values[s] \subseteq UNION {OwnElements(q) : q \in Regions}

Traced ==
  \A s \in Sccs : \A r \in s :
    \/ r \in Scc(fr_static)
    \/ scc_values[s] \subseteq UNION {OwnElements(q) : q \in BlameReach[r]}

BlameInv == pc \notin {"add_static", "init_values"} => Owned /\ Traced

(* Outside the component of 'static what is reached is found.              *)
LEMMA ReachedIsFound ==
  ASSUME TypeInv, ReachIsExact, UniversesRespected, TieInv, pc # "add_static",
         NEW r \in Regions, r \notin Scc(fr_static)
  PROVE  reaches[r] \subseteq BlameReach[r]
  BY ReachedWithoutTies, ViolationsAreTied, BlameFacts

LEMMA BlameInvInitValues ==
  ASSUME TypeInv, ReachIsExact, UniversesRespected, TieInv, init_free_and_bound_regions
  PROVE  BlameInv'
<1>1. /\ UNCHANGED <<graph, members, applied>> /\ pc = "init_values"
      /\ scc_values' = [s \in Sccs |-> UNION {OwnElements(r) : r \in s}]
  BY DEF init_free_and_bound_regions, input
<1>2. /\ Sccs' = Sccs /\ Scc(fr_static)' = Scc(fr_static) /\ BlameReach' = BlameReach
      /\ \A q : OwnElements(q)' = OwnElements(q)
  BY <1>1 DEF Sccs, Scc, graph, BlameReach, BlameEdges, OwnElements
<1>3. Owned'
  <2>1. \A s \in Sccs : s \subseteq Regions
    BY SccFacts DEF Sccs
  <2> QED
    BY <1>1, <1>2, <2>1 DEF Owned
<1>4. ASSUME NEW s \in Sccs, NEW r \in s, r \notin Scc(fr_static)
      PROVE  scc_values'[s] \subseteq UNION {OwnElements(q) : q \in BlameReach[r]}
  <2>1. PICK c \in Regions : s = Scc(c)
    BY DEF Sccs
  <2>2. r \in Regions /\ s \subseteq reaches[r]
    BY <2>1, SccFacts DEF Scc
  <2>3. reaches[r] \subseteq BlameReach[r]
    BY <1>1, <1>4, <2>2, ReachedIsFound
  <2> QED
    BY <1>1, <2>2, <2>3
<1>5. Traced'
  BY <1>2, <1>4 DEF Traced
<1> QED
  BY <1>3, <1>5 DEF BlameInv

LEMMA BlameInvComputeValue ==
  ASSUME TypeInv, ReachIsExact, UniversesRespected, TieInv, BlameInv,
         NEW s \in todo, compute_value_for_scc(s)
  PROVE  BlameInv'
<1> DEFINE read == UNION {scc_values[t] : t \in {u \in Sccs : IsSuccessor(s, u)}}
<1>1. /\ UNCHANGED <<graph, members, applied, pc>> /\ pc = "propagate"
      /\ scc_values' = [scc_values EXCEPT ![s] = @ \cup read]
  BY DEF compute_value_for_scc, input
<1>2. /\ Sccs' = Sccs /\ Scc(fr_static)' = Scc(fr_static) /\ BlameReach' = BlameReach
      /\ \A q : OwnElements(q)' = OwnElements(q)
  BY <1>1 DEF Sccs, Scc, graph, BlameReach, BlameEdges, OwnElements
<1>3. todo \subseteq Sccs /\ scc_values \in [Sccs -> SUBSET (Points \cup Regions)]
  BY <1>1 DEF TypeInv, TypeOK
<1>4. Owned /\ Traced
  BY <1>1 DEF BlameInv
<1>5. \A t \in Sccs : scc_values'[t] = IF t = s THEN scc_values[s] \cup read ELSE scc_values[t]
  BY <1>1, <1>3
<1>6. Owned'
  <2>1. ASSUME NEW t \in Sccs
        PROVE  scc_values'[t] \subseteq UNION {OwnElements(q) : q \in Regions}
    <3>1. ASSUME NEW x \in scc_values'[t] PROVE \E u \in Sccs : x \in scc_values[u]
      <4>1. CASE x \in scc_values[t]
        BY <4>1
      <4>2. CASE x \notin scc_values[t]
        <5>1. x \in read
          BY <1>5, <3>1, <4>2
        <5> QED
          BY <5>1
      <4> QED
        BY <4>1, <4>2
    <3> QED
      BY <1>4, <3>1 DEF Owned
  <2> QED
    BY <1>2, <2>1 DEF Owned
<1>7. ASSUME NEW t \in Sccs, NEW r \in t, r \notin Scc(fr_static), NEW x \in scc_values'[t]
      PROVE  \E q \in BlameReach[r] : x \in OwnElements(q)
  <2>1. CASE x \in scc_values[t]
    BY <1>4, <1>7, <2>1 DEF Traced
  <2>2. CASE x \notin scc_values[t]
    <3>1. t = s /\ x \in read
      BY <1>5, <1>7, <2>2
    <3>2. PICK v \in Sccs : IsSuccessor(s, v) /\ x \in scc_values[v]
      BY <3>1
    <3>3. PICK y \in v : y \in Regions
      BY <3>2, SccFacts DEF Sccs
    <3>4. r \in Regions /\ y \in reaches[r]
      BY <1>3, <3>1, <3>2, SuccessorIsReached
    <3>5. y \notin Scc(fr_static)
      <4>1. SUFFICES ASSUME fr_static \in reaches[y] PROVE FALSE
        BY DEF Scc
      <4>2. fr_static \in reaches[r]
        BY <3>3, <3>4, <4>1, UniversalAssumption, InferAssumption DEF TypeInv, Closed
      <4> QED
        BY <1>7, <3>4, <4>2, ReachesStatic
    <3>6. PICK q \in BlameReach[y] : x \in OwnElements(q)
      BY <1>4, <3>2, <3>5 DEF Traced
    <3>7. y \in BlameReach[r]
      BY <1>1, <1>7, <3>4, ReachedIsFound
    <3>8. q \in BlameReach[r]
      BY <3>3, <3>4, <3>6, <3>7, BlameFacts
    <3> QED
      BY <3>6, <3>8
  <2> QED
    BY <2>1, <2>2
<1>8. Traced'
  BY <1>2, <1>7 DEF Traced
<1> QED
  BY <1>6, <1>8 DEF BlameInv

(* The choice that is applied is recorded, so the search can follow it.    *)
LEMMA BlameInvApplyMember ==
  ASSUME TypeInv, BlameInv, NEW m \in to_apply, apply_member_constraint(m)
  PROVE  BlameInv'
<1> DEFINE s == Scc(members[m].region)
           choice == IF min_universe(members[m].region) = ROOT
                     THEN MinChoice(Options(s, m)) ELSE {}
           joined == scc_values[s] \cup UNION {scc_values[Scc(o)] : o \in choice}
<1>1. /\ UNCHANGED <<graph, members, pc>> /\ pc = "propagate"
      /\ scc_values' = [scc_values EXCEPT ![s] = joined]
      /\ applied' = IF joined = scc_values[s] THEN applied
                    ELSE applied \cup ({m} \X choice)
  BY DEF apply_member_constraint, input
<1>2. /\ Sccs' = Sccs /\ Scc(fr_static)' = Scc(fr_static)
      /\ \A q : OwnElements(q)' = OwnElements(q) /\ Scc(q)' = Scc(q)
  BY <1>1 DEF Sccs, Scc, graph, OwnElements
<1>3. scc_values \in [Sccs -> SUBSET (Points \cup Regions)] /\ m \in DOMAIN members
  BY <1>1 DEF TypeInv, TypeOK
<1>4. Owned /\ Traced
  BY <1>1 DEF BlameInv
<1>5. members[m].region \in Regions /\ members[m].choices \subseteq universal_regions
  BY <1>3, InferAssumption DEF TypeInv
<1>6. universal_regions \subseteq Regions /\ fr_static \in Regions
  BY UniversalAssumption, InferAssumption DEF universal_regions
<1>7. ASSUME NEW o \in choice
      PROVE  o \in Regions /\ Scc(o) \in Sccs /\ (o \in Scc(fr_static) => o = fr_static)
  <2>1. PICK c \in members[m].choices : o = representative(Scc(c))
    BY DEF MinChoice, Options
  <2>2. c \in Regions
    BY <1>5, <1>6
  <2>3. o \in Scc(c) /\ o \in Regions
    BY <2>1, <2>2, SccFacts, RepresentativeFacts
  <2>4. Scc(o) = Scc(c) /\ Scc(o) \in Sccs
    BY <2>2, <2>3, SccFacts
  <2>5. ASSUME o \in Scc(fr_static) PROVE o = fr_static
    BY <1>6, <2>1, <2>4, <2>5, SccFacts, StaticRepresents
  <2> QED
    BY <2>3, <2>4, <2>5
<1>8. BlameEdges \subseteq BlameEdges'
  BY <1>1, <1>2 DEF BlameEdges, graph
<1>9. \A r \in Regions : BlameReach[r] \subseteq BlameReach'[r]
  BY <1>8, ReachedByIsMonotone DEF BlameReach
<1>10. s \in Sccs /\ s \subseteq Regions
  BY <1>5, SccFacts
<1>11. /\ BlameReach' \in [Regions -> SUBSET Regions]
       /\ \A a, b, c \in Regions : b \in BlameReach'[a] /\ c \in BlameReach'[b] => c \in BlameReach'[a]
       /\ \A e \in BlameEdges' : e[2] \in BlameReach'[e[1]]
       /\ \A q \in Regions : q \in BlameReach'[fr_static]
  <2>1. /\ BlameReach' \in [Regions -> SUBSET Regions]
        /\ \A a, b, c \in Regions : b \in BlameReach'[a] /\ c \in BlameReach'[b] => c \in BlameReach'[a]
        /\ \A e \in BlameEdges' : e[2] \in BlameReach'[e[1]]
    <3>1. BlameEdges' \subseteq BlameEdges \cup (s \X choice)
      BY <1>1, <1>2 DEF BlameEdges, graph
    <3>2. BlameEdges' \in SUBSET (Regions \X Regions)
      BY <1>7, <1>10, <3>1, BlameEdgesType
    <3> QED
      BY <3>2, ReachedByIsClosure DEF BlameReach
  <2>2. \A q \in Regions : q \in BlameReach[fr_static]
    BY <1>6, BlameFacts
  <2> QED
    BY <1>6, <1>9, <2>1, <2>2
<1>12. ASSUME NEW o \in choice, NEW r \in s, joined # scc_values[s]
       PROVE  o \in BlameReach'[r]
  <2>1. <<m, o>> \in applied'
    BY <1>1, <1>12
  <2>2. <<r, o>> \in BlameEdges'
    <3>1. <<r, o>> \in Scc(members[<<m, o>>[1]].region) \X {<<m, o>>[2]}
      OBVIOUS
    <3> QED
      BY <1>1, <1>2, <2>1, <3>1 DEF BlameEdges
  <2>3. <<r, o>>[2] \in BlameReach'[<<r, o>>[1]]
    BY <1>11, <2>2
  <2> QED
    BY <2>3
<1> HIDE DEF s, choice
<1>13. \A t \in Sccs : scc_values'[t] = IF t = s THEN joined ELSE scc_values[t]
  BY <1>1, <1>3
<1>14. Owned'
  <2>1. ASSUME NEW t \in Sccs
        PROVE  scc_values'[t] \subseteq UNION {OwnElements(q) : q \in Regions}
    <3>1. ASSUME NEW x \in scc_values'[t] PROVE \E u \in Sccs : x \in scc_values[u]
      <4>1. CASE x \in scc_values[t]
        BY <4>1
      <4>2. CASE x \notin scc_values[t]
        <5>1. t = s /\ x \in joined
          BY <1>13, <3>1, <4>2
        <5>2. PICK o \in choice : x \in scc_values[Scc(o)]
          BY <4>2, <5>1
        <5> QED
          BY <1>7, <5>2
      <4> QED
        BY <4>1, <4>2
    <3> QED
      BY <1>4, <3>1 DEF Owned
  <2> QED
    BY <1>2, <2>1 DEF Owned
<1>15. ASSUME NEW t \in Sccs, NEW r \in t, r \notin Scc(fr_static), NEW x \in scc_values'[t]
       PROVE  \E q \in BlameReach'[r] : x \in OwnElements(q)
  <2>0. r \in Regions
    BY SccFacts DEF Sccs
  <2>1. CASE x \in scc_values[t]
    BY <1>4, <1>9, <1>15, <2>0, <2>1 DEF Traced
  <2>2. CASE x \notin scc_values[t]
    <3>1. t = s /\ x \in joined /\ joined # scc_values[s]
      BY <1>13, <1>15, <2>2
    <3>2. PICK o \in choice : x \in scc_values[Scc(o)]
      BY <2>2, <3>1
    <3>3. o \in BlameReach'[r] /\ o \in Regions /\ Scc(o) \in Sccs
      BY <1>7, <1>12, <3>1, <3>2
    <3>4. PICK q \in Regions : x \in OwnElements(q) /\ q \in BlameReach'[o]
      <4>1. CASE o \in Scc(fr_static)
        <5>1. PICK q \in Regions : x \in OwnElements(q)
          BY <1>4, <3>2, <3>3 DEF Owned
        <5> QED
          BY <1>7, <1>11, <4>1, <5>1
      <4>2. CASE o \notin Scc(fr_static)
        <5>1. o \in Scc(o)
          BY <3>3, SccFacts
        <5>2. PICK q \in BlameReach[o] : x \in OwnElements(q)
          BY <1>4, <3>2, <3>3, <4>2, <5>1 DEF Traced
        <5> QED
          BY <1>9, <1>11, <3>3, <5>2
      <4> QED
        BY <4>1, <4>2
    <3>5. q \in BlameReach'[r]
      BY <1>11, <2>0, <3>3, <3>4
    <3> QED
      BY <3>4, <3>5
  <2> QED
    BY <2>1, <2>2
<1>16. Traced'
  BY <1>2, <1>15 DEF Traced
<1> QED
  BY <1>14, <1>16 DEF BlameInv

LEMMA BlameInvStep ==
  ASSUME TypeInv, ReachIsExact, UniversesRespected, TieInv, BlameInv, [Next]_vars
  PROVE  BlameInv'
<1>1. CASE add_outlives_static
  BY <1>1 DEF add_outlives_static, BlameInv
<1>2. CASE init_free_and_bound_regions
  BY <1>2, BlameInvInitValues
<1>3. CASE \E s \in todo : compute_value_for_scc(s)
  BY <1>3, BlameInvComputeValue
<1>4. CASE \E m \in to_apply : apply_member_constraint(m)
  BY <1>4, BlameInvApplyMember
<1>5. CASE /\ UNCHANGED <<graph, members, applied, scc_values>>
           /\ pc' = pc \/ pc \notin {"add_static", "init_values"}
  <2>1. /\ Sccs' = Sccs /\ Scc(fr_static)' = Scc(fr_static) /\ BlameReach' = BlameReach
        /\ \A q : OwnElements(q)' = OwnElements(q)
    BY <1>5 DEF Sccs, Scc, graph, BlameReach, BlameEdges, OwnElements
  <2>2. (Owned /\ Traced)' = (Owned /\ Traced)
    BY <1>5, <2>1 DEF Owned, Traced
  <2> QED
    BY <1>5, <2>2 DEF BlameInv
<1>6. CASE propagated \/ check_type_tests \/ check_universal_regions \/ check_member_constraints
  BY <1>5, <1>6 DEF propagated, check_type_tests, check_universal_regions,
                    check_member_constraints, input
<1>7. CASE UNCHANGED vars
  BY <1>5, <1>7 DEF vars, graph
<1> QED
  BY <1>1, <1>2, <1>3, <1>4, <1>6, <1>7 DEF Next

(* What a value holds of regions and points shows who started from it.     *)
LEMMA Owners ==
  ASSUME NEW q \in Regions, NEW x \in OwnElements(q)
  PROVE  /\ x \in Points => LiveAt(q, x)
         /\ x \in Regions => x = q
<1>1. Points \cap Regions = {} /\ Liveness[q] \subseteq Points
  BY InferAssumption
<1>2. universal_regions \subseteq Regions /\ Placeholders \subseteq Regions
  BY UniversalAssumption, InferAssumption DEF universal_regions
<1> QED
  BY <1>1, <1>2 DEF OwnElements, LiveAt

(* A relation that is not known has a constraint to blame.                 *)
LEMMA UnprovenIsBlamed ==
  ASSUME TypeInv, ReachIsExact, UniversesRespected, TieInv, BlameInv, Solved,
         NEW e \in Unproven
  PROVE  Finds(e[1], Provides(e[1], e[2])) /\ e[1] \notin Provides(e[1], e[2])
<1> DEFINE fr == e[1]
           shorter == e[2]
           rep == representative(Scc(fr))
<1>1. e \in RelationsFound /\ shorter \notin known[fr]
  BY DEF Unproven
<1>2. fr \in universal_regions /\ shorter \in universal_regions
  BY <1>1 DEF RelationsFound, TypeInv, TypeOK
<1>3. universal_regions \subseteq Regions /\ fr_static \in universal_regions
  BY UniversalAssumption, InferAssumption DEF universal_regions
<1>4. fr \in Regions /\ shorter \in Regions /\ fr \notin Placeholders
  BY <1>2, <1>3, InferAssumption
<1>5. fr \notin Provides(fr, shorter)
  BY <1>1, <1>2, <1>4 DEF Provides, cannot_name_placeholder, TypeInv, IsOrder
<1>6. SUFFICES \E r \in Provides(fr, shorter) : r \in BlameReach[fr]
  BY <1>5 DEF Finds, BlameReach
<1>7. shorter \in Provides(fr, shorter)
  BY <1>4 DEF Provides
<1>8. CASE polonius_output # {}
  <2>1. shorter \in TypeCheckReach[fr]
    BY <1>1, <1>8 DEF RelationsFound, TieInv
  <2> QED
    BY <1>4, <1>7, <2>1, BlameFacts
<1>9. CASE polonius_output = {}
  <2>1. shorter \in CheckedAgainst(fr)
    BY <1>1, <1>9 DEF RelationsFound
  <2>2. fr \in Scc(fr) /\ Scc(fr) \in Sccs /\ rep \in Scc(fr)
    BY <1>4, SccFacts, RepresentativeFacts
  <2>3. CASE fr \notin Scc(fr_static)
    <3>1. CASE rep = fr
      <4>1. shorter \in scc_values[Scc(fr)]
        BY <2>1, <3>1 DEF CheckedAgainst, FreeIn
      <4>2. PICK q \in BlameReach[fr] : shorter \in OwnElements(q)
        BY <2>2, <2>3, <4>1 DEF BlameInv, Traced, Solved
      <4>3. q \in Regions
        BY <1>4, <4>2, BlameFacts
      <4>4. shorter = q
        BY <1>4, <4>2, <4>3, Owners
      <4> QED
        BY <1>7, <4>2, <4>4
    <3>2. CASE rep # fr
      <4>1. shorter = rep
        BY <2>1, <3>2 DEF CheckedAgainst
      <4>2. shorter \in reaches[fr]
        BY <2>2, <4>1 DEF Scc
      <4>3. shorter \in BlameReach[fr]
        BY <1>4, <2>3, <4>2, ReachedIsFound DEF Solved
      <4> QED
        BY <1>7, <4>3
    <3> QED
      BY <3>1, <3>2
  <2>4. CASE fr \in Scc(fr_static)
    <3>1. rep = fr_static
      BY <1>3, <2>4, SccFacts, StaticRepresents
    <3>2. CASE fr = fr_static
      BY <1>4, <1>7, <3>2, BlameFacts
    <3>3. CASE fr # fr_static
      <4>1. shorter = fr_static
        BY <2>1, <3>1, <3>3 DEF CheckedAgainst
      <4>2. fr_static \in reaches[fr]
        BY <2>4 DEF Scc
      <4>3. CASE Violates(fr)
        <5>1. PICK p \in TypeCheckReach[fr] \cap Placeholders, q \in TypeCheckReach[fr] :
                Universe[q] < Universe[p]
          BY <4>3 DEF Violates
        <5>2. p \in Regions /\ q \in Regions /\ p \in BlameReach[fr]
          BY <1>4, <5>1, BlameFacts
        <5>3. Universe[fr] < Universe[p]
          <6>1. Universe[fr] = 0 /\ Universe[p] \in Nat /\ Universe[q] \in Nat
            BY <1>2, <5>2, InferAssumption
          <6> QED
            BY <5>1, <6>1
        <5>4. p \in Provides(fr, shorter)
          BY <4>1, <5>1, <5>2, <5>3 DEF Provides, cannot_name_placeholder
        <5> QED
          BY <5>2, <5>4
      <4>4. CASE ~Violates(fr)
        BY <1>4, <1>7, <4>1, <4>2, <4>4, ReachedWithoutTies, BlameFacts
      <4> QED
        BY <4>3, <4>4
    <3> QED
      BY <3>2, <3>3
  <2> QED
    BY <2>3, <2>4
<1> QED
  BY <1>8, <1>9

(* So has an element of a placeholder's value that is not the placeholder. *)
LEMMA ErrorElementIsBlamed ==
  ASSUME TypeInv, SolveInv, ReachIsExact, UniversesRespected, TieInv, BlameInv, Solved,
         NEW p \in Placeholders, NEW x \in ErrorElements(p)
  PROVE  LET targets == IF x \in Points THEN SubRegionLiveAt(p, x) ELSE Provides(p, x)
         IN  Finds(p, targets) /\ p \notin targets
<1> DEFINE targets == IF x \in Points THEN SubRegionLiveAt(p, x) ELSE Provides(p, x)
           others == scc_values[Scc(p)] \ {p}
<1>1. p \in Regions /\ p \notin universal_regions /\ p \notin Points /\ Liveness[p] = {}
  BY InferAssumption
<1>2. x \in others
  BY DEF ErrorElements
<1>3. Universe[p] \in Nat
  BY <1>1, InferAssumption
<1>4. p \in Scc(p) /\ Scc(p) \in Sccs
  BY <1>1, SccFacts
<1>5. x \in Points \cup Regions
  BY <1>2, <1>4 DEF TypeInv, TypeOK, Solved
<1>6. p \notin targets
  BY <1>1, <1>2, <1>3 DEF SubRegionLiveAt, Provides, LiveAt, cannot_name_placeholder
<1>7. SUFFICES \E r \in targets : r \in BlameReach[p]
  BY <1>6 DEF Finds, BlameReach
<1>8. CASE p \notin Scc(fr_static)
  <2>1. PICK q \in BlameReach[p] : x \in OwnElements(q)
    BY <1>2, <1>4, <1>8 DEF BlameInv, Traced, Solved
  <2>2. q \in Regions
    BY <1>1, <2>1, BlameFacts
  <2>3. q \in targets
    BY <1>5, <2>1, <2>2, Owners DEF SubRegionLiveAt, Provides
  <2> QED
    BY <2>1, <2>3
<1>9. CASE p \in Scc(fr_static)
  <2>1. fr_static \in Regions /\ fr_static \in universal_regions
    BY UniversalAssumption, InferAssumption DEF universal_regions
  <2>2. x \in Points
    <3>1. Points \subseteq scc_values[Scc(fr_static)]
      BY <2>1 DEF SolveInv, OwnKept, OwnElements, Solved
    <3>2. Scc(p) = Scc(fr_static)
      BY <1>9, <2>1, SccFacts
    <3>3. others \cap Points # {}
      BY <1>1, <3>1, <3>2, InferAssumption
    <3> QED
      BY <3>3 DEF ErrorElements
  <2>3. CASE Violates(p)
    <3>1. PICK b \in TypeCheckReach[p] \cap Placeholders, q \in TypeCheckReach[p] :
            Universe[q] < Universe[b]
      BY <2>3 DEF Violates
    <3>2. {b, q} \subseteq Regions /\ {b, q} \subseteq BlameReach[p]
      BY <1>1, <3>1, BlameFacts
    <3>3. Universe[q] < Universe[p] \/ Universe[p] < Universe[b]
      <4>1. Universe[b] \in Nat /\ Universe[q] \in Nat
        BY <3>2, InferAssumption
      <4> QED
        BY <1>3, <3>1, <4>1
    <3>4. q \in targets \/ b \in targets
      BY <2>2, <3>1, <3>2, <3>3 DEF SubRegionLiveAt, cannot_name_placeholder
    <3> QED
      BY <3>2, <3>4
  <2>4. CASE ~Violates(p)
    <3>1. fr_static \in BlameReach[p]
      BY <1>1, <1>9, <2>4, ReachedWithoutTies, BlameFacts DEF Scc
    <3>2. fr_static \in targets
      BY <2>1, <2>2 DEF SubRegionLiveAt, LiveAt
    <3> QED
      BY <3>1, <3>2
  <2> QED
    BY <2>3, <2>4
<1> QED
  BY <1>8, <1>9

(* The searches for a constraint to blame, whose results are unwrapped,    *)
(* find a region other than the one they start from.                       *)
THEOREM RegionInferBlameIsFound == Spec => []BlameIsFound
<1>1. Init => SolveInv /\ BlameInv
  BY DEF Init, SolveInv, BlameInv, Solved
<1>2. ASSUME TypeInv, SolveInv, ReachIsExact, UniversesRespected, TieInv, BlameInv
      PROVE  BlameIsFound
  BY <1>2, UnprovenIsBlamed, ErrorElementIsBlamed DEF BlameIsFound
<1> QED
  BY <1>1, <1>2, SolveInvStep, TieInvInit, TieInvStep, BlameInvStep, TypeInvHolds, GraphInv, PTL
     DEF Spec

-----------------------------------------------------------------------------
(* Once the universal regions are checked, what was found and is not known *)
(* follows from the requirements, unless an error was reported.            *)

Granted ==
  ReachedBy(universal_regions,
            requirements \cup {e \in universal_regions \X universal_regions : e[2] \in known[e[1]]})
FoundIsGranted ==
  IF polonius_output # {}
  THEN \A e \in UNION polonius_output : e[2] \in Granted[e[1]]
  ELSE \A fr \in universal_regions : FreeIn(Scc(fr)) \subseteq Granted[fr]
RequirementsInv ==
  /\ requirements # {} => is_closure
  /\ \A q \in requirements : ~is_local_free_region(q[1]) /\ ~is_local_free_region(q[2])
  /\ pc \in {"check_members", "done"} /\ errors = {} => FoundIsGranted

(* The check leaves no relation that it found without a requirement.       *)
LEMMA CheckGrants ==
  ASSUME TypeInv, check_universal_regions, pc' # "panicked", errors' = {}
  PROVE  FoundIsGranted'
<1>1. /\ UNCHANGED <<input, graph, scc_values>> /\ requirements' = requirements \cup Propagated
      /\ RegionErrors = {} /\ ~AssertFails({e[2] : e \in PropagatedErrors})
  BY DEF check_universal_regions
<1>2. TypeInv'
  BY TypeInvCheckUniversal
<1>3. PICK G : G = Granted'
  OBVIOUS
<1>4. /\ \A u, v, w \in universal_regions : v \in G[u] /\ w \in G[v] => w \in G[u]
      /\ \A q \in Propagated : q[2] \in G[q[1]]
      /\ \A u, v \in universal_regions : v \in known[u] => v \in G[u]
  <2>1. PICK edges : edges = requirements' \cup
                              {e \in universal_regions \X universal_regions : e[2] \in known[e[1]]}
    OBVIOUS
  <2>2. edges \in SUBSET (universal_regions \X universal_regions)
    BY <1>2, <2>1 DEF TypeInv, TypeOK
  <2>3. G = ReachedBy(universal_regions, edges)
    <3>1. known' = known
      BY <1>1 DEF input
    <3>2. Granted' = ReachedBy(universal_regions, requirements' \cup
              {e \in universal_regions \X universal_regions : e[2] \in known'[e[1]]})
      BY DEF Granted, ReachedBy
    <3> QED
      BY <1>3, <2>1, <3>1, <3>2
  <2>4. /\ \A q \in Propagated : q \in edges
        /\ \A u, v \in universal_regions : v \in known[u] => <<u, v>> \in edges
    BY <1>1, <2>1
  <2>5. /\ \A u, v, w \in universal_regions : v \in G[u] /\ w \in G[v] => w \in G[u]
        /\ \A e \in edges : e[2] \in G[e[1]]
    BY <2>2, <2>3, ReachedByIsClosure
  <2>6. ASSUME NEW u \in universal_regions, NEW v \in universal_regions, v \in known[u]
        PROVE  v \in G[u]
    <3>1. <<u, v>> \in edges
      BY <2>4, <2>6
    <3> QED
      BY <2>5, <3>1
  <2> QED
    BY <2>4, <2>5, <2>6
<1>5. RelationsFound \subseteq universal_regions \X universal_regions /\ IsOrder(known)
  BY DEF TypeInv, TypeOK, RelationsFound
<1>6. ASSUME NEW e \in RelationsFound
      PROVE  e[2] \in G[e[1]]
  <2>1. e[1] \in universal_regions /\ e[2] \in universal_regions
    BY <1>5
  <2>2. CASE e[2] \in known[e[1]]
    BY <1>4, <2>1, <2>2
  <2>3. CASE e[2] \notin known[e[1]]
    <3>1. e \in Unproven
      BY <2>3 DEF Unproven
    <3>2. CanPropagate(e[1])
      <4>1. <<"RegionError", e[1], e[2]>> \notin RegionErrors
        BY <1>1
      <4> QED
        BY <3>1, <4>1 DEF RegionErrors
    <3>3. e \in PropagatedErrors
      BY <3>1, <3>2 DEF PropagatedErrors
    <3>4. PICK f \in non_local_lower_bound(known, e[1]) : f \in known[e[1]]
      BY <1>5, <2>1, <3>2, BoundsFacts DEF CanPropagate
    <3>5. PICK u \in non_local_upper_bounds(known, e[2]) :
            u \in universal_regions /\ e[2] \in known[u]
      <4>1. non_local_upper_bounds(known, e[2]) # {}
        BY <1>1, <3>3 DEF AssertFails
      <4> QED
        BY <1>5, <2>1, <4>1, BoundsFacts
    <3>6. f \in universal_regions
      BY <1>5, <2>1, <3>4 DEF IsOrder
    <3>7. <<f, u>> \in Propagated
      BY <3>3, <3>4, <3>5 DEF Propagated
    <3>8. f \in G[e[1]] /\ u \in G[f] /\ e[2] \in G[u]
      BY <1>4, <2>1, <3>4, <3>5, <3>6, <3>7
    <3> QED
      BY <1>4, <2>1, <3>5, <3>6, <3>8
  <2> QED
    BY <2>2, <2>3
<1>7. CASE polonius_output # {}
  <2>1. RelationsFound = UNION polonius_output
    BY <1>7 DEF RelationsFound
  <2> QED
    BY <1>1, <1>3, <1>6, <1>7, <2>1 DEF FoundIsGranted, input
<1>8. CASE polonius_output = {}
  <2>1. ASSUME NEW fr \in universal_regions, NEW x \in FreeIn(Scc(fr))
        PROVE  x \in G[fr]
    <3> DEFINE rep == representative(Scc(fr))
    <3>1. fr \in Regions /\ x \in universal_regions
      BY InferAssumption, UniversalAssumption DEF FreeIn, universal_regions
    <3>2. rep \in Scc(fr) /\ rep \in universal_regions
      BY <3>1, SccFacts, RepresentativeFacts
    <3>3. Scc(rep) = Scc(fr)
      BY <3>1, <3>2, SccFacts
    <3> HIDE DEF rep
    <3>4. rep = representative(Scc(rep)) /\ rep = representative(Scc(fr))
      BY <3>3 DEF rep
    <3>5. <<rep, x>> \in RelationsFound
      BY <1>8, <3>1, <3>2, <3>3, <3>4 DEF RelationsFound, CheckedAgainst
    <3>6. fr # rep => <<fr, rep>> \in RelationsFound
      BY <1>8, <3>2, <3>4 DEF RelationsFound, CheckedAgainst
    <3>7. x \in G[rep] /\ (fr # rep => rep \in G[fr])
      BY <1>6, <3>5, <3>6
    <3> QED
      BY <1>4, <3>1, <3>2, <3>7
  <2>2. ASSUME NEW fr
        PROVE  FreeIn(Scc(fr))' = FreeIn(Scc(fr))
    BY <1>1 DEF FreeIn, Scc, graph
  <2>3. \A fr \in universal_regions : FreeIn(Scc(fr))' \subseteq Granted'[fr]
    BY <1>3, <2>1, <2>2
  <2>4. polonius_output' = {}
    BY <1>1, <1>8 DEF input
  <2> QED
    BY <2>3, <2>4 DEF FoundIsGranted
<1> QED
  BY <1>7, <1>8

LEMMA RequirementsKept ==
  ASSUME UNCHANGED <<input, requirements, reaches, scc_values>>
  PROVE  FoundIsGranted' = FoundIsGranted
<1>1. Granted' = Granted
  BY DEF Granted, input
<1>2. \A fr : FreeIn(Scc(fr))' = FreeIn(Scc(fr))
  BY DEF FreeIn, Scc
<1> QED
  BY <1>1, <1>2 DEF FoundIsGranted, input

LEMMA RequirementsInvStep ==
  ASSUME TypeInv, RequirementsInv, [Next]_vars
  PROVE  RequirementsInv'
<1>1. CASE check_universal_regions
  <2>1. /\ pc' \in {"check_members", "done", "panicked"} /\ is_closure' = is_closure
        /\ requirements' = requirements \cup Propagated
    BY <1>1 DEF check_universal_regions, input
  <2>2. ASSUME NEW q \in Propagated
        PROVE  is_closure /\ ~is_local_free_region(q[1]) /\ ~is_local_free_region(q[2])
    <3>1. PICK e \in PropagatedErrors :
            q \in non_local_lower_bound(known, e[1]) \X non_local_upper_bounds(known, e[2])
      BY DEF Propagated
    <3>2. e \in RelationsFound /\ is_closure
      BY <3>1 DEF PropagatedErrors, Unproven, CanPropagate
    <3>3. e[1] \in universal_regions /\ e[2] \in universal_regions /\ IsOrder(known)
      BY <3>2 DEF TypeInv, TypeOK, RelationsFound
    <3> QED
      BY <3>1, <3>2, <3>3, BoundsFacts
  <2>3. pc' \in {"check_members", "done"} /\ errors' = {} => FoundIsGranted'
    BY <1>1, CheckGrants
  <2>4. requirements' # {} => is_closure'
    BY <2>1, <2>2 DEF RequirementsInv
  <2>5. ASSUME NEW q \in requirements'
        PROVE  ~is_local_free_region(q[1]) /\ ~is_local_free_region(q[2])
    BY <2>1, <2>2 DEF RequirementsInv
  <2> QED
    BY <2>3, <2>4, <2>5 DEF RequirementsInv
<1>2. CASE check_member_constraints
  <2>1. /\ UNCHANGED <<input, requirements, reaches, scc_values>>
        /\ pc = "check_members" /\ errors \subseteq errors'
    BY <1>2 DEF check_member_constraints, graph, asked
  <2>2. FoundIsGranted' = FoundIsGranted /\ is_closure' = is_closure
    BY <2>1, RequirementsKept DEF input
  <2> QED
    BY <2>1, <2>2 DEF RequirementsInv
<1>3. CASE UNCHANGED vars
  <2>1. FoundIsGranted' = FoundIsGranted
    BY <1>3, RequirementsKept DEF vars, input
  <2> QED
    BY <1>3, <2>1 DEF RequirementsInv, vars
<1>4. CASE UNCHANGED <<is_closure, requirements>> /\ pc' \notin {"check_members", "done"}
  BY <1>4 DEF RequirementsInv
<1>5. CASE add_outlives_static \/ init_free_and_bound_regions \/ propagated \/ check_type_tests
  BY <1>4, <1>5 DEF add_outlives_static, init_free_and_bound_regions, propagated, check_type_tests,
                    input, asked
<1>6. CASE \E s \in todo : compute_value_for_scc(s)
  BY <1>4, <1>6 DEF compute_value_for_scc, input, asked
<1>7. CASE \E m \in to_apply : apply_member_constraint(m)
  BY <1>4, <1>7 DEF apply_member_constraint, input, asked
<1> QED
  BY <1>1, <1>2, <1>3, <1>5, <1>6, <1>7 DEF Next

-----------------------------------------------------------------------------
(* Type tests.  Evaluating that one region outlives another compares what  *)
(* their values outlive, so the region that a type's region is replaced by *)
(* outlives the same; and the answer given to a test stays one, as nothing *)
(* it speaks of changes after the tests are checked.                       *)

StaticOutlivesAll == \A u \in universal_regions : u \in known[fr_static]
TestsInv ==
  /\ type_tests \in TypeTestSets /\ StaticOutlivesAll
  /\ \A q \in type_requirements : ~is_local_free_region(q.outlived)
  /\ pc \in {"check", "check_members", "done"} => \A t \in type_tests : TestIsAnswered(t)

LEMMA StaticOutlivesAllDeclared ==
  ASSUME NEW d \in BoundSets, NEW u \in universal_regions
  PROVE  u \in RelationsFrom(d)[fr_static]
<1> DEFINE edges == d \cup ({fr_static} \X universal_regions)
                      \cup (universal_regions \X {fr_fn_body})
<1>1. fr_static \in universal_regions /\ fr_fn_body \in universal_regions
  BY UniversalAssumption DEF universal_regions, fr_fn_body
<1>2. d \subseteq universal_regions \X universal_regions
  BY InferAssumption
<1>3. edges \in SUBSET (universal_regions \X universal_regions) /\ <<fr_static, u>> \in edges
  BY <1>1, <1>2
<1>4. RelationsFrom(d) = ReachedBy(universal_regions, edges)
  BY DEF RelationsFrom
<1> HIDE DEF edges
<1>5. \A e \in edges : e[2] \in RelationsFrom(d)[e[1]]
  BY <1>3, <1>4, ReachedByIsClosure
<1> QED
  BY <1>3, <1>5

(* What evaluates as outlived outlives no more.                            *)
LEMMA EvalOutlivesMeans ==
  ASSUME TypeInv, SolveInv, ReachIsExact, Solved,
         NEW sup \in Regions, NEW sub \in Regions, eval_outlives(sup, sub)
  PROVE  Outlived(sub) \subseteq Outlived(sup)
<1>1. PICK r \in {sub, fr_static} : ValueOutlives(sup, r) /\ sub \in reaches[r]
  <2>1. sub \in reaches[sub] /\ sub \in reaches[fr_static]
    BY DEF TypeInv, Closed
  <2> QED
    BY <2>1 DEF eval_outlives
<1>2. r \in Regions
  BY UniversalAssumption, InferAssumption
<1>3. FreeIn(Scc(sub)) \subseteq FreeIn(Scc(r))
  BY <1>1, <1>2, ReachedIsHeld DEF FreeIn
<1>4. IsOrder(known)
  BY DEF TypeInv
<1>5. ASSUME NEW o \in Outlived(sub) PROVE o \in Outlived(sup)
  <2>1. PICK r1 \in FreeIn(Scc(sub)) : o \in known[r1]
    BY <1>5 DEF Outlived
  <2>2. PICK r2 \in FreeIn(Scc(sup)) : r1 \in known[r2]
    BY <1>1, <1>3, <2>1 DEF ValueOutlives
  <2>3. r1 \in universal_regions /\ r2 \in universal_regions
    BY <2>1, <2>2 DEF FreeIn
  <2>4. o \in universal_regions
    BY <1>4, <2>1, <2>3 DEF IsOrder
  <2>5. o \in known[r2]
    BY <1>4, <2>1, <2>2, <2>3, <2>4 DEF IsOrder
  <2> QED
    BY <2>2, <2>5 DEF Outlived
<1> QED
  BY <1>5

(* The type of a promoted test is the same one, with its regions replaced. *)
LEMMA SubjectIsSame ==
  ASSUME TypeInv, SolveInv, ReachIsExact, Solved, NEW t, CanPromote(t),
         t.ty \in [name : {t.ty.name}, regions : Seq(Regions)]
  PROVE  IsSameType(Subject(t), t.ty)
<1> DEFINE rs == t.ty.regions
           least(S) == CHOOSE u \in S : \A v \in S : u <= v
<1>1. \A i \in DOMAIN rs : rs[i] \in Regions /\ SubjectRegions(rs[i]) # {}
  <2>1. rs \in Seq(Regions)
    OBVIOUS
  <2>2. \A i \in DOMAIN rs : SubjectRegions(rs[i]) # {}
    BY DEF CanPromote
  <2> HIDE DEF rs
  <2>3. ASSUME NEW i \in DOMAIN rs PROVE rs[i] \in Regions
    <3> HIDE DEF Regions
    <3>1. i \in 1..Len(rs)
      BY <2>1
    <3> QED
      BY <2>1, <3>1
  <2> QED
    BY <2>2, <2>3, Zenon
<1>2. /\ Subject(t).name = t.ty.name /\ DOMAIN Subject(t).regions = DOMAIN rs
      /\ \A i \in DOMAIN rs : Subject(t).regions[i] = least(SubjectRegions(rs[i]))
  <2> DEFINE new == [i \in DOMAIN rs |-> least(SubjectRegions(rs[i]))]
  <2>1. Subject(t) = [t.ty EXCEPT !.regions = new]
    BY Zenon DEF Subject
  <2> HIDE DEF new
  <2>2. Subject(t).name = t.ty.name /\ Subject(t).regions = new
    BY <2>1
  <2> QED
    BY <2>2 DEF new
<1> HIDE DEF rs
<1>3. ASSUME NEW i \in DOMAIN rs
      PROVE  /\ ~is_local_free_region(Subject(t).regions[i])
             /\ Outlived(Subject(t).regions[i]) = Outlived(rs[i])
  <2>1. SubjectRegions(rs[i]) # {} /\ rs[i] \in Regions
    BY <1>1, <1>3
  <2>2. SubjectRegions(rs[i]) \subseteq universal_regions
    BY DEF SubjectRegions, FreeIn
  <2>3. universal_regions \subseteq Regions /\ universal_regions \subseteq Nat
    BY UniversalAssumption, InferAssumption DEF universal_regions
  <2>4. \E u \in SubjectRegions(rs[i]) : \A v \in SubjectRegions(rs[i]) : u <= v
    <3>1. SubjectRegions(rs[i]) \in SUBSET Nat
      BY <2>2, <2>3
    <3> QED
      BY <2>1, <3>1, LeastElement
  <2>5. PICK u \in SubjectRegions(rs[i]) : u = Subject(t).regions[i]
    BY <1>2, <1>3, <2>4
  <2>6. ~is_local_free_region(u) /\ eval_outlives(u, rs[i]) /\ eval_outlives(rs[i], u)
    BY <2>5 DEF SubjectRegions, eval_equal
  <2>7. u \in Regions
    BY <2>2, <2>3, <2>5
  <2>8. Outlived(u) = Outlived(rs[i])
    <3>1. PICK r \in Regions : r = rs[i]
      BY <2>1
    <3>2. eval_outlives(u, r) /\ eval_outlives(r, u)
      BY <2>6, <3>1
    <3>3. Outlived(r) \subseteq Outlived(u)
      BY <2>7, <3>2, EvalOutlivesMeans
    <3>4. Outlived(u) \subseteq Outlived(r)
      BY <2>7, <3>2, EvalOutlivesMeans
    <3> QED
      BY <3>1, <3>3, <3>4
  <2> QED
    BY <2>5, <2>6, <2>8
<1> QED
  BY <1>2, <1>3 DEF IsSameType, rs

(* Evaluations speak of the values and of what is known, and these do not  *)
(* change after propagation.                                               *)
LEMMA EvalOutlivesUnchanged ==
  ASSUME UNCHANGED <<reaches, scc_values, known>>, NEW sup, NEW sub
  PROVE  eval_outlives(sup, sub)' = eval_outlives(sup, sub)
  BY DEF eval_outlives, universe_compatible, ValueOutlives, FreeIn, Scc, min_universe

LEMMA EvalIfEqUnchanged ==
  ASSUME UNCHANGED <<reaches, scc_values, known>>, NEW ty, NEW lb, NEW bound
  PROVE  eval_if_eq(ty, lb, bound)' = eval_if_eq(ty, lb, bound)
<1>1. \A r1, r2 : eval_outlives(r1, r2)' = eval_outlives(r1, r2)
  BY EvalOutlivesUnchanged
<1>2. \A r : Scc(r)' = Scc(r) /\ representative(Scc(r))' = representative(Scc(r))
  BY DEF Scc
<1>3. \A x : normalize_to_scc_representatives(x)' = normalize_to_scc_representatives(x)
  BY <1>2 DEF normalize_to_scc_representatives
<1> QED
  BY <1>1, <1>2, <1>3 DEF eval_if_eq

LEMMA EvalBoundUnchanged ==
  ASSUME UNCHANGED <<reaches, scc_values, known>>, NEW ty, NEW lb
  PROVE  eval_verify_bound(ty, lb)' = eval_verify_bound(ty, lb)
<1>1. \A r1, r2 : eval_outlives(r1, r2)' = eval_outlives(r1, r2)
  BY EvalOutlivesUnchanged
<1>2. \A bound : eval_if_eq(ty, lb, bound)' = eval_if_eq(ty, lb, bound)
  BY EvalIfEqUnchanged
<1>3. (scc_values[Scc(lb)] = {})' = (scc_values[Scc(lb)] = {})
  BY DEF Scc
<1>4. ShownDirectly(ty, lb)' = ShownDirectly(ty, lb)
  BY <1>1, <1>2, <1>3 DEF ShownDirectly
<1> QED
  BY <1>4 DEF eval_verify_bound

LEMMA IsSameTypeUnchanged ==
  ASSUME UNCHANGED <<reaches, scc_values, known>>, NEW ty, NEW other
  PROVE  IsSameType(ty, other)' = IsSameType(ty, other)
<1>1. \A r : Outlived(r)' = Outlived(r)
  BY DEF Outlived, FreeIn, Scc
<1> QED
  BY <1>1 DEF IsSameType

(* So an answer stays one.                                                 *)
LEMMA AnswerStays ==
  ASSUME UNCHANGED <<reaches, scc_values, known, is_closure>>, errors \subseteq errors',
         type_requirements \subseteq type_requirements', NEW t, TestIsAnswered(t)
  PROVE  TestIsAnswered(t)'
<1>1. \A ty, lb : eval_verify_bound(ty, lb)' = eval_verify_bound(ty, lb)
  BY EvalBoundUnchanged
<1>2. \A ty, other : IsSameType(ty, other)' = IsSameType(ty, other)
  BY IsSameTypeUnchanged
<1>3. \A ty, o : Asked(ty, o) => Asked(ty, o)'
  BY <1>2 DEF Asked
<1>4. \A r : FreeIn(Scc(r))' = FreeIn(Scc(r)) /\ scc_values[Scc(r)]' = scc_values[Scc(r)]
  BY DEF FreeIn, Scc
<1> QED
  BY <1>1, <1>3, <1>4 DEF TestIsAnswered, TypeTestError

(* Each test is answered when the tests are checked.                       *)
LEMMA CheckAnswers ==
  ASSUME TypeInv, SolveInv, ReachIsExact, TestsInv, check_type_tests, pc' # "panicked",
         NEW t \in type_tests
  PROVE  TestIsAnswered(t)'
<1>1. /\ UNCHANGED <<reaches, scc_values, known, is_closure>> /\ Solved
      /\ errors' = errors \cup {TypeTestError(x) : x \in FailedTests \ PromotedTests}
      /\ type_requirements' = type_requirements \cup
           UNION {{[subject |-> Subject(x), outlived |-> lb] : lb \in LowerBounds(x)} :
                    x \in PromotedTests}
      /\ ~AssertFails(UNION {Unshown(x) : x \in PromotedTests})
  BY DEF check_type_tests, input, graph, Solved
<1>2. \A ty, lb : eval_verify_bound(ty, lb)' = eval_verify_bound(ty, lb)
  BY <1>1, EvalBoundUnchanged
<1>3. CASE t \notin FailedTests
  BY <1>2, <1>3 DEF FailedTests, TestIsAnswered
<1>4. CASE t \in FailedTests \ PromotedTests
  BY <1>1, <1>4 DEF TestIsAnswered, TypeTestError
<1>5. CASE t \in PromotedTests
  <2>1. /\ CanPromote(t) /\ t.ty \in [name : {t.ty.name}, regions : Seq(Regions)]
        /\ t.lower_bound \in Regions
    BY <1>5, InferAssumption DEF PromotedTests, TestsInv
  <2>2. PICK subject : subject = Subject(t)
    OBVIOUS
  <2>3. IsSameType(subject, t.ty)'
    <3>1. IsSameType(subject, t.ty)
      BY <1>1, <2>1, <2>2, SubjectIsSame
    <3> QED
      BY <1>1, <3>1, IsSameTypeUnchanged
  <2>4. ASSUME NEW lb \in LowerBounds(t), NEW o \in known[lb]
        PROVE  Asked(t.ty, o)'
    <3>1. [subject |-> subject, outlived |-> lb] \in type_requirements'
      BY <1>1, <1>5, <2>2
    <3> QED
      BY <1>1, <2>3, <2>4, <3>1 DEF Asked
  <2>5. IsOrder(known) /\ StaticOutlivesAll /\ fr_static \in universal_regions
    BY UniversalAssumption DEF TypeInv, TestsInv, universal_regions
  <2>6. CASE scc_values[Scc(t.lower_bound)] \cap Placeholders # {}
    <3>1. LowerBounds(t) = {fr_static}
      BY <2>6 DEF LowerBounds
    <3>2. \A o \in universal_regions : Asked(t.ty, o)'
      BY <2>4, <2>5, <3>1 DEF StaticOutlivesAll
    <3>3. FreeIn(Scc(t.lower_bound))' \subseteq universal_regions
      BY DEF FreeIn
    <3> QED
      BY <1>1, <2>1, <2>5, <3>2, <3>3 DEF TestIsAnswered, CanPromote
  <2>7. CASE scc_values[Scc(t.lower_bound)] \cap Placeholders = {}
    <3>1. ASSUME NEW o \in FreeIn(Scc(t.lower_bound)), ~eval_verify_bound(t.ty, o)[t.verify_bound]
          PROVE  Asked(t.ty, o)'
      <4>1. o \in Unshown(t) /\ o \in universal_regions
        BY <2>7, <3>1 DEF Unshown, FreeIn
      <4>2. PICK lb \in non_local_upper_bounds(known, o) : o \in known[lb]
        <5>1. non_local_upper_bounds(known, o) # {}
          BY <1>1, <1>5, <4>1 DEF AssertFails
        <5> QED
          BY <2>5, <4>1, <5>1, BoundsFacts
      <4>3. lb \in LowerBounds(t)
        BY <2>7, <4>1, <4>2 DEF LowerBounds
      <4> QED
        BY <2>4, <4>2, <4>3
    <3>2. /\ FreeIn(Scc(t.lower_bound))' = FreeIn(Scc(t.lower_bound))
          /\ scc_values[Scc(t.lower_bound)]' = scc_values[Scc(t.lower_bound)]
      BY <1>1 DEF FreeIn, Scc
    <3> QED
      BY <1>1, <1>2, <2>1, <2>7, <3>1, <3>2 DEF TestIsAnswered, CanPromote
  <2> QED
    BY <2>6, <2>7
<1> QED
  BY <1>3, <1>4, <1>5 DEF PromotedTests

LEMMA TestsInvStep ==
  ASSUME TypeInv, SolveInv, ReachIsExact, TestsInv, [Next]_vars
  PROVE  TestsInv'
<1>1. CASE check_type_tests
  <2>1. UNCHANGED <<type_tests, known>> /\ pc' \in {"check", "panicked"}
        /\ type_requirements' = type_requirements \cup
             UNION {{[subject |-> Subject(x), outlived |-> lb] : lb \in LowerBounds(x)} :
                      x \in PromotedTests}
    BY <1>1 DEF check_type_tests, input
  <2>2. ASSUME NEW x, NEW lb \in LowerBounds(x)
        PROVE  ~is_local_free_region(lb)
    <3>1. ~is_local_free_region(fr_static)
      BY UniversalAssumption DEF is_local_free_region
    <3>2. ASSUME NEW u \in Unshown(x), lb \in non_local_upper_bounds(known, u)
          PROVE  ~is_local_free_region(lb)
      BY <3>2, BoundsFacts DEF Unshown, FreeIn, TypeInv
    <3> QED
      BY <3>1, <3>2 DEF LowerBounds
  <2>3. ASSUME NEW q \in type_requirements'
        PROVE  ~is_local_free_region(q.outlived)
    BY <2>1, <2>2 DEF TestsInv
  <2>4. \A t \in type_tests : pc' # "panicked" => TestIsAnswered(t)'
    BY <1>1, CheckAnswers
  <2> QED
    BY <2>1, <2>3, <2>4 DEF TestsInv, StaticOutlivesAll
<1>2. CASE check_universal_regions \/ check_member_constraints \/ UNCHANGED vars
  <2>1. /\ UNCHANGED <<type_tests, reaches, scc_values, known, is_closure, type_requirements>>
        /\ errors \subseteq errors'
    BY <1>2 DEF check_universal_regions, check_member_constraints, vars, input, graph, asked
  <2>2. pc' \in {"check", "check_members", "done"} => pc \in {"check", "check_members", "done"}
    BY <1>2 DEF check_universal_regions, check_member_constraints, vars
  <2>3. \A t : TestIsAnswered(t) => TestIsAnswered(t)'
    BY <2>1, AnswerStays
  <2> QED
    BY <2>1, <2>2, <2>3 DEF TestsInv, StaticOutlivesAll
<1>3. CASE /\ UNCHANGED <<type_tests, known, type_requirements>>
           /\ pc' \notin {"check", "check_members", "done"}
  BY <1>3 DEF TestsInv, StaticOutlivesAll
<1>4. CASE add_outlives_static \/ init_free_and_bound_regions \/ propagated
  BY <1>3, <1>4 DEF add_outlives_static, init_free_and_bound_regions, propagated, input, asked
<1>5. CASE \E s \in todo : compute_value_for_scc(s)
  BY <1>3, <1>5 DEF compute_value_for_scc, input, asked
<1>6. CASE \E m \in to_apply : apply_member_constraint(m)
  BY <1>3, <1>6 DEF apply_member_constraint, input, asked
<1> QED
  BY <1>1, <1>2, <1>4, <1>5, <1>6 DEF Next

(* A type test that does not hold is reported, or a closure's creator is   *)
(* asked for what it takes, of a type it can name that outlives the same.  *)
THEOREM RegionInferTypeTestsSuffice == Spec => []TypeTestsSuffice
<1>1. Init => SolveInv /\ TestsInv
  BY StaticOutlivesAllDeclared DEF Init, SolveInv, Solved, TestsInv, StaticOutlivesAll
<1>2. TestsInv => TypeTestsSuffice
  BY DEF TestsInv, TypeTestsSuffice
<1> QED
  BY <1>1, <1>2, SolveInvStep, TestsInvStep, TypeInvHolds, GraphInv, PTL DEF Spec

-----------------------------------------------------------------------------
(* The assertion.  On the way up from a region there is a first that the   *)
(* creator can name, unless a local one is as high as 'static.             *)

(* Above what is not equal to all that is above it there is a nearest.     *)
LEMMA ParentIsFound ==
  ASSUME NEW rel, IsOrder(rel), NEW fr \in universal_regions,
         NEW a \in rel[fr], fr \notin rel[a]
  PROVE  parents(rel, fr) # {}
<1> DEFINE above == {x \in rel[fr] : fr \notin rel[x]}
           Under(x) == {y \in above : x \in rel[y]}
           count == [x \in universal_regions |-> Cardinality(Under(x))]
           sizes == {count[x] : x \in above}
<1>1. /\ above \subseteq universal_regions /\ a \in above
      /\ \A u \in universal_regions : u \in rel[u]
      /\ \A u, v, w \in universal_regions : v \in rel[u] /\ w \in rel[v] => w \in rel[u]
  BY DEF IsOrder
<1>2. universal_regions \subseteq Nat /\ IsFiniteSet(universal_regions)
  BY UniversalAssumption, FS_Interval DEF universal_regions
<1>3. \A x : IsFiniteSet(Under(x)) /\ Cardinality(Under(x)) \in Nat
  <2> TAKE x
  <2>1. Under(x) \in SUBSET universal_regions
    BY <1>1
  <2> QED
    BY <1>2, <2>1, FS_Subset, FS_CardinalityType
<1>4. PICK n \in sizes : \A k \in sizes : n <= k
  <2>1. \A x \in above : count[x] \in Nat
    BY <1>1, <1>3
  <2> HIDE DEF count, above
  <2>2. sizes \in SUBSET Nat /\ sizes # {}
    BY <1>1, <2>1
  <2> HIDE DEF sizes
  <2> QED
    BY <2>2, LeastElement
<1>5. PICK low \in above : \A x \in above : count[low] <= count[x]
  <2> HIDE DEF count, above
  <2> QED
    BY <1>4
<1>6. ASSUME NEW x \in Under(low)
      PROVE  low \in rel[x] /\ x \in rel[low]
  <2>1. Under(x) \in SUBSET Under(low)
    BY <1>1, <1>6
  <2>2. Cardinality(Under(low)) <= Cardinality(Under(x))
    <3>1. low \in universal_regions /\ x \in above /\ x \in universal_regions
      BY <1>1, <1>5, <1>6
    <3>2. count[low] <= count[x]
      BY <1>5, <3>1
    <3> HIDE DEF Under
    <3> QED
      BY <3>1, <3>2
  <2>3. Cardinality(Under(x)) <= Cardinality(Under(low))
        /\ (Cardinality(Under(low)) = Cardinality(Under(x)) => Under(low) = Under(x))
    <3> HIDE DEF Under
    <3> QED
      BY <1>3, <2>1, FS_Subset
  <2>4. Under(low) = Under(x)
    <3> HIDE DEF Under
    <3> QED
      BY <1>3, <2>2, <2>3
  <2>5. low \in Under(low)
    BY <1>1, <1>5
  <2> QED
    BY <1>6, <2>4, <2>5
<1>7. PICK m \in Under(low) : \A x \in Under(low) : m <= x
  <2>1. Under(low) \in SUBSET Nat /\ low \in Under(low)
    BY <1>1, <1>2, <1>5
  <2> HIDE DEF Under
  <2> QED
    BY <2>1, LeastElement
<1>8. ASSUME NEW x \in above, m \in rel[x]
      PROVE  x \in rel[m] /\ m <= x
  <2>1. /\ m \in above /\ low \in above /\ low \in rel[m] /\ m \in rel[low]
    BY <1>5, <1>6, <1>7
  <2>2. low \in rel[x]
    BY <1>1, <1>8, <2>1
  <2>3. x \in Under(low)
    BY <1>8, <2>2
  <2>4. x \in rel[low] /\ m <= x
    BY <1>6, <1>7, <2>3
  <2> QED
    BY <1>1, <1>8, <2>1, <2>4
<1>9. m \in parents(rel, fr)
  <2>1. m \in above
    BY <1>7
  <2> QED
    BY <1>8, <2>1 DEF parents
<1> QED
  BY <1>9

(* Of a set of regions, one with the least above it.                       *)
LEMMA HighestRegion ==
  ASSUME NEW rel \in [universal_regions -> SUBSET universal_regions],
         NEW S \in SUBSET universal_regions, S # {}
  PROVE  \E r \in S : \A q \in S : rel[q] \subseteq rel[r] => rel[q] = rel[r]
<1> DEFINE sizes == {Cardinality(rel[r]) : r \in S}
<1>1. \A r \in S : IsFiniteSet(rel[r]) /\ Cardinality(rel[r]) \in Nat
  <2> TAKE r \in S
  <2>1. rel[r] \in SUBSET universal_regions /\ IsFiniteSet(universal_regions)
    BY UniversalAssumption, FS_Interval DEF universal_regions
  <2> QED
    BY <2>1, FS_Subset, FS_CardinalityType
<1>2. PICK n \in sizes : \A k \in sizes : n <= k
  <2>1. sizes \in SUBSET Nat /\ sizes # {}
    BY <1>1
  <2> HIDE DEF sizes
  <2> QED
    BY <2>1, LeastElement
<1>3. PICK r \in S : n = Cardinality(rel[r])
  OBVIOUS
<1>4. ASSUME NEW q \in S, rel[q] \subseteq rel[r]
      PROVE  rel[q] = rel[r]
  <2>1. Cardinality(rel[r]) <= Cardinality(rel[q])
    BY <1>2, <1>3
  <2>2. Cardinality(rel[q]) <= Cardinality(rel[r])
        /\ (Cardinality(rel[r]) = Cardinality(rel[q]) => rel[r] = rel[q])
    BY <1>1, <1>4, FS_Subset
  <2> QED
    BY <1>1, <2>1, <2>2
<1> QED
  BY <1>3, <1>4

LEMMA BoundIsFound ==
  ASSUME NEW rel, IsOrder(rel), NEW fr \in universal_regions, NEW top \in universal_regions,
         \A r \in universal_regions : is_local_free_region(r) => top \in rel[r] /\ r \notin rel[top]
  PROVE  non_local_bounds(rel, fr) # {}
<1> DEFINE expanded == {r \in universal_regions : is_local_free_region(r)}
           edges == UNION {{r} \X parents(rel, r) : r \in expanded}
           met == ReachedBy(universal_regions, edges)[fr]
<1>1. /\ rel \in [universal_regions -> SUBSET universal_regions]
      /\ \A u \in universal_regions : u \in rel[u]
      /\ \A u, v, w \in universal_regions : v \in rel[u] /\ w \in rel[v] => w \in rel[u]
  BY DEF IsOrder
<1>2. \A r \in universal_regions :
        parents(rel, r) \subseteq rel[r] /\ (\A p \in parents(rel, r) : r \notin rel[p])
  BY DEF parents
<1>3. \A e : e \in edges <=> \E r \in expanded : e \in {r} \X parents(rel, r)
  OBVIOUS
<1>4. edges \in SUBSET (universal_regions \X universal_regions)
  BY <1>1, <1>2, <1>3
<1>5. non_local_bounds(rel, fr) = met \ expanded
  BY DEF non_local_bounds
<1>6. \A r \in expanded : \A p \in parents(rel, r) : <<r, p>> \in edges
  BY <1>3
<1>7. /\ met \in SUBSET universal_regions /\ fr \in met
      /\ \A r \in met \cap expanded : parents(rel, r) \subseteq met
  <2> HIDE DEF edges
  <2> DEFINE reach == ReachedBy(universal_regions, edges)
  <2>1. /\ reach \in [universal_regions -> SUBSET universal_regions]
        /\ \A r \in universal_regions : r \in reach[r]
        /\ \A x, y, z \in universal_regions : y \in reach[x] /\ z \in reach[y] => z \in reach[x]
        /\ \A e \in edges : e[2] \in reach[e[1]]
    BY <1>4, ReachedByIsClosure
  <2>2. ASSUME NEW r \in met \cap expanded, NEW p \in parents(rel, r)
        PROVE  p \in met
    <3>1. r \in universal_regions /\ p \in universal_regions
      BY <1>1, <1>2, <2>2
    <3>2. <<r, p>> \in edges
      BY <1>6, <2>2
    <3>3. r \in reach[fr] /\ p \in reach[r]
      BY <2>1, <2>2, <3>2
    <3> HIDE DEF reach
    <3>4. p \in reach[fr]
      BY <2>1, <3>1, <3>3
    <3> QED
      BY <3>4 DEF reach
  <2> QED
    BY <2>1, <2>2
<1> HIDE DEF met, edges
<1>8. ASSUME met \subseteq expanded
      PROVE  FALSE
  <2>1. PICK r \in met : \A q \in met : rel[q] \subseteq rel[r] => rel[q] = rel[r]
    BY <1>1, <1>7, HighestRegion
  <2>2. r \in expanded /\ r \in universal_regions
    BY <1>8
  <2>3. PICK p \in parents(rel, r) : TRUE
    <3>1. top \in rel[r] /\ r \notin rel[top]
      BY <2>2
    <3>2. parents(rel, r) # {}
      BY <2>2, <3>1, ParentIsFound
    <3> QED
      BY <3>2
  <2>4. p \in met /\ p \in rel[r] /\ r \notin rel[p]
    BY <1>2, <1>7, <2>2
  <2>5. rel[p] \subseteq rel[r]
    BY <1>1, <1>7, <2>2, <2>4
  <2> QED
    BY <1>1, <2>1, <2>2, <2>4, <2>5
<1> QED
  BY <1>5, <1>8

LEMMA AssertHolds ==
  ASSUME IsOrder(known), StaticOutlivesAll, NEW regions \in SUBSET universal_regions,
         AssertFails(regions)
  PROVE  \E r \in universal_regions : is_local_free_region(r) /\ fr_static \in known[r]
<1> DEFINE up == Inverse_(known)
<1>1. PICK fr \in regions : non_local_bounds(up, fr) = {}
  BY DEF AssertFails, non_local_upper_bounds
<1>2. /\ known \in [universal_regions -> SUBSET universal_regions]
      /\ \A u \in universal_regions : u \in known[u]
      /\ \A u, v, w \in universal_regions : v \in known[u] /\ w \in known[v] => w \in known[u]
  BY DEF IsOrder
<1>3. /\ up \in [universal_regions -> SUBSET universal_regions]
      /\ \A a, b \in universal_regions : b \in up[a] <=> a \in known[b]
  BY <1>2 DEF Inverse_
<1> HIDE DEF up
<1>4. IsOrder(up)
  BY <1>2, <1>3 DEF IsOrder
<1>5. fr_static \in universal_regions
  BY UniversalAssumption DEF universal_regions
<1>6. SUFFICES ASSUME \A r \in universal_regions :
                        is_local_free_region(r) => fr_static \notin known[r]
               PROVE  FALSE
  OBVIOUS
<1>7. \A r \in universal_regions :
        is_local_free_region(r) => fr_static \in up[r] /\ r \notin up[fr_static]
  BY <1>3, <1>5, <1>6 DEF StaticOutlivesAll
<1>8. fr \in universal_regions
  OBVIOUS
<1> HIDE DEF fr_static
<1> QED
  BY <1>1, <1>4, <1>5, <1>7, <1>8, BoundIsFound

(* Where the check stops.                                                  *)
PanicInv ==
  pc = "panicked" =>
    \E fr \in universal_regions : is_local_free_region(fr) /\ fr_static \in known[fr]

LEMMA PanicInvStep ==
  ASSUME TypeInv, TestsInv, PanicInv, [Next]_vars
  PROVE  PanicInv'
<1>1. IsOrder(known) /\ StaticOutlivesAll
  BY DEF TypeInv, TestsInv
<1>2. CASE check_type_tests
  <2>1. known' = known
        /\ (pc' = "panicked" => AssertFails(UNION {Unshown(t) : t \in PromotedTests}))
    BY <1>2 DEF check_type_tests, input
  <2>2. UNION {Unshown(t) : t \in PromotedTests} \in SUBSET universal_regions
    BY DEF Unshown, FreeIn
  <2> QED
    BY <1>1, <2>1, <2>2, AssertHolds DEF PanicInv
<1>3. CASE check_universal_regions
  <2>1. known' = known
        /\ (pc' = "panicked" => AssertFails({e[2] : e \in PropagatedErrors}))
    BY <1>3 DEF check_universal_regions, input
  <2>2. {e[2] : e \in PropagatedErrors} \in SUBSET universal_regions
    <3>1. \A e \in PropagatedErrors : e \in RelationsFound
      BY DEF PropagatedErrors, Unproven
    <3>2. RelationsFound \subseteq universal_regions \X universal_regions
      BY DEF TypeInv, TypeOK, RelationsFound
    <3> QED
      BY <3>1, <3>2
  <2> QED
    BY <1>1, <2>1, <2>2, AssertHolds DEF PanicInv
<1>4. CASE known' = known /\ pc' = pc
  BY <1>4 DEF PanicInv
<1>5. CASE pc' # "panicked"
  BY <1>5 DEF PanicInv
<1>6. CASE add_outlives_static \/ init_free_and_bound_regions \/ propagated \/ check_member_constraints
  BY <1>5, <1>6 DEF add_outlives_static, init_free_and_bound_regions, propagated,
                    check_member_constraints
<1>7. CASE \E s \in todo : compute_value_for_scc(s)
  BY <1>4, <1>7 DEF compute_value_for_scc, input
<1>8. CASE \E m \in to_apply : apply_member_constraint(m)
  BY <1>4, <1>8 DEF apply_member_constraint, input
<1>9. CASE UNCHANGED vars
  BY <1>4, <1>9 DEF vars, input
<1> QED
  BY <1>2, <1>3, <1>6, <1>7, <1>8, <1>9 DEF Next

(* No relation between universal regions that the solution has is lost:    *)
(* without an error each is known or follows from what a closure's creator *)
(* is asked for, though only a component's representative is compared with *)
(* all that it outlives, and each region is replaced by those the creator  *)
(* can name; the assertion that there is one fails only above a region     *)
(* that is known to outlive 'static.                                       *)
THEOREM RegionInferRequirementsSuffice == Spec => []RequirementsSuffice
<1>1. Init => SolveInv /\ RequirementsInv /\ TestsInv /\ PanicInv
  BY StaticOutlivesAllDeclared
     DEF Init, SolveInv, Solved, RequirementsInv, TestsInv, StaticOutlivesAll, PanicInv
<1>2. RequirementsInv /\ PanicInv => RequirementsSuffice
  BY DEF RequirementsInv, RequirementsSuffice, FoundIsGranted, Granted, PanicInv
<1> QED
  BY <1>1, <1>2, SolveInvStep, RequirementsInvStep, TestsInvStep, PanicInvStep, TypeInvHolds,
     GraphInv, PTL DEF Spec

-----------------------------------------------------------------------------
(* RegionErrors.  First, names.                                            *)

(* A region that some type in a list mentions is found.                    *)
LEMMA MentionIsFound ==
  ASSUME NEW types \in Seq(SUBSET universal_regions), NEW fr,
         NEW i \in DOMAIN types, fr \in types[i]
  PROVE  first_that_mentions(types, fr) # {}
<1> DEFINE S == {j \in DOMAIN types : fr \in types[j]}
<1>1. S \in SUBSET Nat /\ S # {}
  OBVIOUS
<1> HIDE DEF S
<1>2. PICK m \in S : \A k \in S : m <= k
  BY <1>1, LeastElement
<1>3. ASSUME NEW j \in 1..m - 1 PROVE fr \notin types[j]
  <2>1. m \in DOMAIN types /\ m \in 1..Len(types)
    BY DEF S
  <2>2. j \in DOMAIN types /\ ~(m <= j)
    BY <2>1
  <2> QED
    BY <1>2, <2>2 DEF S
<1> QED
  BY <1>2, <1>3 DEF S, first_that_mentions

(* The least member of a set of numbers, as it is chosen.                  *)
LEMMA LeastIsChosen ==
  ASSUME NEW S \in SUBSET Nat, S # {}
  PROVE  LET n == CHOOSE i \in S : \A j \in S : i <= j
         IN  n \in S /\ \A k \in S : n <= k
  BY LeastElement

(* A region has a name if one of the tries finds it, and it is one of them.*)
LEMMA NameIsTried ==
  ASSUME NEW s \in Settings, NEW r \in universal_regions
  PROVE  LET name == give_region_a_name(s, r)
         IN  /\ name \in {"None", give_name_from_error_region(s, r), "AnonRegionFromArgument",
                          "AnonRegionFromUpvar", "AnonRegionFromOutput", "AnonRegionFromYieldTy",
                          give_name_of_elided_region(s, r)}
             /\ give_name_from_error_region(s, r) # "None" => name = give_name_from_error_region(s, r)
             /\ name = "None" =>
                  /\ give_name_from_error_region(s, r) = "None"
                  /\ get_argument_index_for_region(s, r) = {}
                  /\ get_upvar_index_for_region(s, r) = {}
                  /\ r \notin s.output /\ r \notin s.yield_ty
                  /\ s.external_name[r] = "EarlyElided" => give_name_of_elided_region(s, r) = "None"
<1> DEFINE If(found, name) == IF found THEN name ELSE "None"
           t1 == give_name_from_error_region(s, r)
           t2 == If(get_argument_index_for_region(s, r) # {}, "AnonRegionFromArgument")
           t3 == If(get_upvar_index_for_region(s, r) # {}, "AnonRegionFromUpvar")
           t4 == If(r \in s.output, "AnonRegionFromOutput")
           t5 == If(r \in s.yield_ty, "AnonRegionFromYieldTy")
           t6 == If(s.external_name[r] = "EarlyElided", give_name_of_elided_region(s, r))
           tries == <<t1, t2, t3, t4, t5, t6>>
           named == {i \in DOMAIN tries : tries[i] # "None"}
           n == CHOOSE i \in named : \A j \in named : i <= j
           name == give_region_a_name(s, r)
<1>1. name = IF named = {} THEN "None" ELSE tries[n]
  BY DEF give_region_a_name
<1>2. t1 # "None" \/ t2 # "None" \/ t3 # "None" \/ t4 # "None" \/ t5 # "None" \/ t6 # "None"
        => named # {}
  <2> HIDE DEF t1, t2, t3, t4, t5, t6
  <2>1. DOMAIN tries = 1..6
    OBVIOUS
  <2> QED
    BY <2>1
<1>3. named # {} => name \in {t1, t2, t3, t4, t5, t6} \ {"None"}
  <2> HIDE DEF t1, t2, t3, t4, t5, t6
  <2>1. named \in SUBSET Nat /\ DOMAIN tries = 1..6
    OBVIOUS
  <2>2. named # {} => n \in named
    BY <2>1, LeastIsChosen
  <2> QED
    BY <1>1, <2>1, <2>2
<1>4. named = {} => name = "None"
  BY <1>1
<1>7. t1 # "None" => name = t1
  <2> HIDE DEF t1, t2, t3, t4, t5, t6
  <2>1. DOMAIN tries = 1..6 /\ tries[1] = t1
    OBVIOUS
  <2>2. named \in SUBSET Nat /\ \A i \in named : 1 <= i
    BY <2>1
  <2>3. t1 # "None" => 1 \in named
    BY <2>1
  <2>4. t1 # "None" => n = 1
    <3> HIDE DEF named
    <3>1. named # {} => n \in named /\ \A k \in named : n <= k
      BY <2>2, LeastIsChosen
    <3>2. \A k \in named : k \in Nat /\ 1 <= k
      BY <2>2
    <3>3. 1 \in named => n \in Nat /\ 1 <= n /\ n <= 1
      BY <3>1, <3>2
    <3> HIDE DEF n
    <3> QED
      BY <2>3, <3>3
  <2> QED
    BY <1>1, <2>1, <2>3, <2>4
<1> HIDE DEF named, tries, n, name
<1>5. name \in {"None", t1, t2, t3, t4, t5, t6}
  BY <1>3, <1>4
<1>6. name = "None" => t1 = "None" /\ t2 = "None" /\ t3 = "None" /\ t4 = "None" /\ t5 = "None" /\ t6 = "None"
  BY <1>2, <1>3
<1> QED
  BY <1>5, <1>6, <1>7 DEF name

(* Only 'static is called that.                                            *)
LEMMA StaticName ==
  ASSUME NEW s \in Settings, NEW r \in universal_regions
  PROVE  give_region_a_name(s, r) = "Static" <=> r = fr_static
<1>1. s.external_name[r] = "Static" <=> r = fr_static
  BY SettingsAssumption
<1>2. /\ give_name_from_error_region(s, r) = "Static" <=> s.external_name[r] = "Static"
      /\ give_name_of_elided_region(s, r) # "Static"
  BY DEF give_name_from_error_region, give_name_of_elided_region
<1> QED
  BY <1>1, <1>2, NameIsTried

(* Every region but the body gets a name.                                  *)
LEMMA NameIsFound ==
  ASSUME NEW s \in Settings, NEW r \in universal_regions, r # fr_fn_body
  PROVE  give_region_a_name(s, r) # "None"
<1>1. /\ s.external_name[r] # "None"
      /\ s.inputs \in Seq(SUBSET universal_regions) /\ s.upvars \in Seq(SUBSET universal_regions)
      /\ \/ s.external_name[r] \in {"Static", "Early", "Late", "Env", "None"}
         \/ s.external_name[r] = "LateElided" /\ s.is_async
         \/ s.external_name[r] = "EarlyElided" /\ r \in s.impl_header \cup s.predicates
         \/ r \in s.output \cup s.yield_ty
         \/ \E i \in DOMAIN s.inputs : r \in s.inputs[i]
         \/ \E i \in DOMAIN s.upvars : r \in s.upvars[i]
  BY SettingsAssumption
<1>2. CASE \/ s.external_name[r] \in {"Static", "Early", "Late", "Env"}
           \/ s.external_name[r] = "LateElided" /\ s.is_async
  <2>1. give_name_from_error_region(s, r) # "None"
    BY <1>2 DEF give_name_from_error_region
  <2> QED
    BY <2>1, NameIsTried
<1>3. CASE s.external_name[r] = "EarlyElided" /\ r \in s.impl_header \cup s.predicates
  <2>1. give_name_of_elided_region(s, r) # "None"
    BY <1>3 DEF give_name_of_elided_region
  <2> QED
    BY <1>3, <2>1, NameIsTried
<1>4. CASE r \in s.output \cup s.yield_ty
  BY <1>4, NameIsTried
<1>5. CASE \E i \in DOMAIN s.inputs : r \in s.inputs[i]
  <2>1. get_argument_index_for_region(s, r) # {}
    BY <1>1, <1>5, MentionIsFound DEF get_argument_index_for_region
  <2> QED
    BY <2>1, NameIsTried
<1>6. CASE \E i \in DOMAIN s.upvars : r \in s.upvars[i]
  <2>1. get_upvar_index_for_region(s, r) # {}
    BY <1>1, <1>6, MentionIsFound DEF get_upvar_index_for_region
  <2> QED
    BY <2>1, NameIsTried
<1> QED
  BY <1>1, <1>2, <1>3, <1>4, <1>5, <1>6

-----------------------------------------------------------------------------
(* What region inference leaves to be told.                                *)

(* 'static outlives every universal region, and each the body.             *)
LEMMA KnownBounds ==
  ASSUME NEW b \in BoundSets, NEW r \in universal_regions
  PROVE  r \in RelationsFrom(b)[fr_static] /\ fr_fn_body \in RelationsFrom(b)[r]
<1> DEFINE edges == b \cup ({fr_static} \X universal_regions)
                      \cup (universal_regions \X {fr_fn_body})
<1>1. fr_static \in universal_regions /\ fr_fn_body \in universal_regions
  BY UniversalAssumption DEF universal_regions, fr_static, fr_fn_body
<1>2. b \subseteq universal_regions \X universal_regions
  BY InferAssumption
<1>3. edges \in SUBSET (universal_regions \X universal_regions)
  BY <1>1, <1>2
<1>4. RelationsFrom(b) = ReachedBy(universal_regions, edges)
  BY DEF RelationsFrom
<1>5. <<fr_static, r>> \in edges /\ <<r, fr_fn_body>> \in edges
  BY <1>1
<1> HIDE DEF edges
<1>6. \A e \in edges : e[2] \in RelationsFrom(b)[e[1]]
  BY <1>3, <1>4, ReachedByIsClosure
<1> QED
  BY <1>5, <1>6

IsRelationError(e) ==
  \E a, b \in universal_regions : e = <<"RegionError", a, b>> /\ b \notin known[a]
IsHiddenError(e) == \E m \in DOMAIN members : e = <<"UnexpectedHiddenRegion", m>>

ErrorInv ==
  /\ \A r \in universal_regions : r \in known[fr_static] /\ fr_fn_body \in known[r]
  /\ \A e \in errors : \/ IsRelationError(e) \/ IsHiddenError(e)
                       \/ e[1] \in {"TypeTestError", "BoundUniversalRegionError"}

LEMMA ErrorInvInit ==
  ASSUME Init
  PROVE  ErrorInv
<1>1. PICK b \in BoundSets : known = RelationsFrom(b)
  BY DEF Init
<1> QED
  BY <1>1, KnownBounds DEF Init, ErrorInv

(* Errors are added by three of the checks.                                *)
LEMMA ErrorInvStep ==
  ASSUME TypeInv, ErrorInv, [Next]_vars
  PROVE  ErrorInv'
<1>1. UNCHANGED <<known, members>>
  BY DEF Next, vars, input, add_outlives_static, init_free_and_bound_regions,
         compute_value_for_scc, apply_member_constraint, propagated, check_type_tests,
         check_universal_regions, check_member_constraints
<1>2. /\ \A e : IsRelationError(e)' = IsRelationError(e)
      /\ \A e : IsHiddenError(e)' = IsHiddenError(e)
  BY <1>1 DEF IsRelationError, IsHiddenError
<1>3. CASE UNCHANGED errors
  BY <1>1, <1>2, <1>3 DEF ErrorInv
<1>4. CASE check_type_tests
  <2>1. errors' = errors \cup {TypeTestError(t) : t \in FailedTests \ PromotedTests}
    BY <1>4 DEF check_type_tests
  <2>2. \A t : TypeTestError(t)[1] = "TypeTestError"
    BY DEF TypeTestError
  <2> QED
    BY <1>1, <1>2, <2>1, <2>2 DEF ErrorInv
<1>5. CASE check_universal_regions
  <2>1. errors' = errors \cup RegionErrors \cup BoundErrors
    BY <1>5 DEF check_universal_regions
  <2>2. Unproven \subseteq universal_regions \X universal_regions
    BY DEF TypeInv, TypeOK, Unproven, RelationsFound
  <2>3. \A e \in RegionErrors : IsRelationError(e)
    BY <2>2 DEF RegionErrors, Unproven, IsRelationError
  <2>4. \A e \in BoundErrors : e[1] = "BoundUniversalRegionError"
    BY DEF BoundErrors
  <2> QED
    BY <1>1, <1>2, <2>1, <2>3, <2>4 DEF ErrorInv
<1>6. CASE check_member_constraints
  <2> DEFINE hidden == {n \in DOMAIN members : \A o \in members[n].choices : ~eval_equal(o, members[n].region)}
  <2>1. errors' = errors \cup {<<"UnexpectedHiddenRegion", m>> : m \in hidden}
    BY <1>6 DEF check_member_constraints
  <2>2. hidden \subseteq DOMAIN members
    OBVIOUS
  <2> HIDE DEF hidden
  <2>3. \A e \in errors' : e \in errors \/ IsHiddenError(e)
    BY <2>1, <2>2 DEF IsHiddenError
  <2> QED
    BY <1>1, <1>2, <2>3 DEF ErrorInv
<1> QED
  BY <1>3, <1>4, <1>5, <1>6 DEF Next, vars, add_outlives_static, init_free_and_bound_regions,
       compute_value_for_scc, apply_member_constraint, propagated

-----------------------------------------------------------------------------
(* What is told backs what was promised.                                   *)

Kinds == {"NiceRegionError", "FnMutError", "BorrowedDataEscapes", "LifetimeOutlives"}

LEMMA RelationErrorsType ==
  ASSUME TypeInv, ErrorInv, NEW e \in RelationErrors
  PROVE  /\ e \in universal_regions \X universal_regions
         /\ e[2] \notin known[e[1]]
         /\ e[1] # fr_static /\ e[2] # fr_fn_body /\ e[1] # e[2]
<1>1. PICK f \in errors : f[1] = "RegionError" /\ e = <<f[2], f[3]>>
  BY DEF RelationErrors
<1>2. PICK a, b \in universal_regions : f = <<"RegionError", a, b>> /\ b \notin known[a]
  BY <1>1 DEF ErrorInv, IsRelationError, IsHiddenError
<1>3. e = <<a, b>>
  BY <1>1, <1>2
<1>4. a \in known[a] /\ b \in known[fr_static] /\ fr_fn_body \in known[a]
  BY DEF TypeInv, IsOrder, ErrorInv
<1> QED
  BY <1>2, <1>3, <1>4

LEMMA FirstIsReported ==
  ASSUME TypeInv, ErrorInv, NEW e \in RelationErrors
  PROVE  \E f \in Reported : f[1] = e[1]
<1> DEFINE S == {f[2] : f \in {g \in RelationErrors : g[1] = e[1]}}
<1>1. \A f \in RelationErrors : f[2] \in Nat
  <2> TAKE f \in RelationErrors
  <2>1. f[2] \in universal_regions
    BY RelationErrorsType
  <2> QED
    BY <2>1, UniversalAssumption DEF universal_regions
<1>2. S \in SUBSET Nat /\ S # {}
  BY <1>1
<1>3. PICK n \in S : \A k \in S : n <= k
  <2> HIDE DEF S
  <2> QED
    BY <1>2, LeastElement
<1>4. PICK f \in RelationErrors : f[1] = e[1] /\ f[2] = n
  OBVIOUS
<1>5. IsReported(f)
  BY <1>3, <1>4 DEF IsReported
<1> QED
  BY <1>4, <1>5 DEF Reported

LEMMA KindIsTold ==
  ASSUME NEW s, NEW e, NEW category
  PROVE  report_region_error(s, e, category) \in Kinds
<1> DEFINE escaping == is_local_free_region(e[1]) /\ ~is_local_free_region(e[2])
           nice == (to_error_region(s, e[1]) # {} /\ to_error_region(s, e[2]) # {}) /\ e \in s.nice
           mutable == escaping /\ is_closure_fn_mut(s, e[1]) /\ category \in {"Return", "ReturnOfUpvar"}
           escapes == escaping /\ reports_escape(s, e, category)
<1>1. report_region_error(s, e, category) =
        CASE nice -> "NiceRegionError"
          [] ~nice /\ mutable -> "FnMutError"
          [] ~nice /\ escapes -> "BorrowedDataEscapes"
          [] OTHER -> "LifetimeOutlives"
  BY DEF report_region_error
<1> HIDE DEF nice, mutable, escapes
<1> QED
  BY <1>1 DEF Kinds

(* Of the member constraints in a row with one opaque type the first is    *)
(* told.                                                                   *)
LEMMA HiddenIsTold ==
  ASSUME TypeInv, ErrorInv, NEW s, NEW e \in errors, e[1] = "UnexpectedHiddenRegion"
  PROVE  <<"UnexpectedHiddenRegion", s.opaque[e[2]]>> \in HiddenRegionReports(s)
<1> DEFINE found == {f[2] : f \in {g \in errors : g[1] = "UnexpectedHiddenRegion"}}
           n == e[2]
           K == {k \in found : /\ k <= n
                               /\ \A j \in found : k <= j /\ j <= n => s.opaque[j] = s.opaque[n]}
<1>1. found \subseteq Nat
  <2> SUFFICES ASSUME NEW f \in errors, f[1] = "UnexpectedHiddenRegion" PROVE f[2] \in Nat
    OBVIOUS
  <2>1. IsHiddenError(f)
    BY DEF ErrorInv, IsRelationError
  <2>2. DOMAIN members \subseteq Nat
    BY InferAssumption DEF TypeInv
  <2> QED
    BY <2>1, <2>2 DEF IsHiddenError
<1>2. n \in found
  OBVIOUS
<1> HIDE DEF found, n
<1>3. n \in K /\ K \in SUBSET Nat
  <2>1. \A j \in found : n <= j /\ j <= n => j = n
    BY <1>1, <1>2
  <2>2. n \in Nat /\ n <= n
    BY <1>1, <1>2
  <2>3. n \in K
    BY <1>2, <2>1, <2>2
  <2>4. K \subseteq Nat
    BY <1>1
  <2> QED
    BY <2>3, <2>4
<1>4. PICK m \in K : \A k \in K : m <= k
  <2> HIDE DEF K
  <2> QED
    BY <1>3, LeastElement
<1>5. m \in found /\ s.opaque[m] = s.opaque[n] /\ m <= n
  BY <1>1, <1>2, <1>4
<1>6. ASSUME NEW k \in found, k < m, s.opaque[k] = s.opaque[m]
      PROVE  \E j \in found : k < j /\ j < m /\ s.opaque[j] # s.opaque[m]
  <2>1. k \in Nat /\ m \in Nat /\ n \in Nat
    BY <1>1, <1>2, <1>5
  <2>2. k \notin K
    BY <1>4, <1>6, <2>1
  <2>3. PICK j \in found : k <= j /\ j <= n /\ s.opaque[j] # s.opaque[n]
    BY <1>5, <1>6, <2>1, <2>2
  <2>4. ~(m <= j)
    BY <1>4, <2>3
  <2>5. j \in Nat /\ j # k
    BY <1>1, <1>5, <1>6, <2>3
  <2> QED
    BY <1>5, <2>1, <2>3, <2>4, <2>5
<1> DEFINE told == {x \in found : \A k \in found : k < x /\ s.opaque[k] = s.opaque[x]
                                   => \E j \in found : k < j /\ j < x /\ s.opaque[j] # s.opaque[x]}
<1>7. m \in told
  BY <1>5, <1>6
<1>8. HiddenRegionReports(s) = {<<"UnexpectedHiddenRegion", s.opaque[x]>> : x \in told}
  BY DEF HiddenRegionReports, found
<1> HIDE DEF told
<1> QED
  BY <1>5, <1>7, <1>8 DEF n

(* Every name that is unwrapped is one.                                    *)
LEMMA NamesExist ==
  ASSUME TypeInv, ErrorInv, NEW s \in Settings, NEW e \in RelationErrors, NEW kind,
         NEW r \in UnwrapsName(s, e, kind)
  PROVE  give_region_a_name(s, r) # "None"
<1>1. /\ e[1] \in universal_regions /\ e[2] \in universal_regions /\ e[2] # fr_fn_body
  BY RelationErrorsType
<1>2. r = e[2] \/ (r = e[1] /\ to_error_region(s, e[1]) # {})
  BY DEF UnwrapsName, report_fnmut_error, report_escaping_data_error, report_general_error
<1>3. to_error_region(s, e[1]) # {} => e[1] # fr_fn_body
  BY <1>1, SettingsAssumption DEF to_error_region
<1> QED
  BY <1>1, <1>2, <1>3, NameIsFound

-----------------------------------------------------------------------------
(* The bounds that are suggested.                                          *)

(* Of two regions of which each lacks the other one is not in              *)
(* unified_already, if neither lacks a third.                              *)
LEMMA OneIsUnified ==
  ASSUME NEW mutual \in SUBSET (universal_regions \X universal_regions),
         \A e, f \in mutual : e[1] = f[1] => e = f,
         \A e \in mutual : <<e[2], e[1]>> \in mutual,
         NEW e \in mutual
  PROVE  e[1] \in unified_already(mutual) => e[2] \notin unified_already(mutual)
<1> DEFINE Unified(U) == \A fr \in universal_regions :
                           fr \in U <=> \E f \in mutual : f[2] = fr /\ f[1] < fr /\ f[1] \notin U
           V == {fr \in universal_regions : \E f \in mutual : f[2] = fr /\ f[1] < fr}
<1>0. universal_regions \subseteq Nat
  BY UniversalAssumption DEF universal_regions
<1>1. ASSUME NEW f \in mutual, f[1] < f[2] PROVE f[1] \notin V
  <2> SUFFICES ASSUME NEW g \in mutual, g[2] = f[1], g[1] < f[1] PROVE FALSE
    OBVIOUS
  <2>1. <<g[2], g[1]>> \in mutual
    OBVIOUS
  <2>2. <<g[2], g[1]>> = f
    BY <2>1
  <2>3. g[1] = f[2]
    BY <2>2
  <2>4. f[1] \in Nat /\ f[2] \in Nat
    BY <1>0
  <2> QED
    BY <1>1, <2>3, <2>4
<1>2. Unified(V)
  BY <1>1
<1>3. V \in SUBSET universal_regions
  OBVIOUS
<1> HIDE DEF V
<1>4. Unified(unified_already(mutual))
  BY <1>2, <1>3 DEF unified_already
<1>5. SUFFICES ASSUME e[1] \in unified_already(mutual)
               PROVE  e[2] \notin unified_already(mutual)
  OBVIOUS
<1>6. PICK f \in mutual : f[2] = e[1] /\ f[1] \notin unified_already(mutual)
  BY <1>4, <1>5
<1>7. <<f[2], f[1]>> \in mutual
  OBVIOUS
<1>8. <<f[2], f[1]>> = e
  BY <1>6, <1>7
<1> QED
  BY <1>6, <1>8

Declared(bounds) ==
  (UNION bounds) \cup {e \in universal_regions \X universal_regions : e[2] \in known[e[1]]}

(* A bound declares its relations and, by 'static, all.                    *)
LEMMA DeclaresItsOwn ==
  ASSUME ErrorInv, NEW bounds, UNION bounds \subseteq universal_regions \X universal_regions,
         NEW a \in universal_regions, NEW b \in universal_regions,
         <<a, b>> \in UNION bounds \/ <<a, fr_static>> \in UNION bounds
  PROVE  b \in ReachedBy(universal_regions, Declared(bounds))[a]
<1> DEFINE edges == Declared(bounds)
           reach == ReachedBy(universal_regions, edges)
<1> DEFINE own == UNION bounds
           pairs == {e \in universal_regions \X universal_regions : e[2] \in known[e[1]]}
<1>0. edges = own \cup pairs
  BY DEF Declared
<1>1. edges \in SUBSET (universal_regions \X universal_regions)
  <2>1. own \subseteq universal_regions \X universal_regions
    OBVIOUS
  <2> HIDE DEF own, edges
  <2> QED
    BY <1>0, <2>1
<1>2. fr_static \in universal_regions
  BY UniversalAssumption DEF universal_regions, fr_static
<1>3. <<fr_static, b>> \in edges
  <2>1. b \in known[fr_static]
    BY DEF ErrorInv
  <2>2. <<fr_static, b>> \in pairs
    BY <1>2, <2>1
  <2> HIDE DEF own, pairs, edges
  <2> QED
    BY <1>0, <2>2
<1>4. <<a, b>> \in edges \/ <<a, fr_static>> \in edges
  <2>1. <<a, b>> \in own \/ <<a, fr_static>> \in own
    OBVIOUS
  <2> HIDE DEF own, pairs, edges
  <2> QED
    BY <1>0, <2>1
<1> HIDE DEF edges
<1>5. /\ \A u, v, w \in universal_regions : v \in reach[u] /\ w \in reach[v] => w \in reach[u]
      /\ \A d \in edges : d[2] \in reach[d[1]]
  BY <1>1, ReachedByIsClosure
<1> HIDE DEF reach
<1>6. \A u, v : <<u, v>> \in edges => v \in reach[u]
  BY <1>5
<1> HIDE DEF fr_static
<1>7. b \in reach[a]
  BY <1>2, <1>3, <1>4, <1>5, <1>6
<1> QED
  BY <1>7 DEF reach, edges

(* What the final help suggests is missing, and it leaves nothing out if   *)
(* no region lacks two others.                                             *)
ToStatic(s, cs) ==
  {e[1] : e \in {f \in usable(s, cs) : give_region_a_name(s, f[2]) = "Static"}}

LEMMA HelpFacts ==
  ASSUME TypeInv, ErrorInv, NEW s \in Settings, NEW cs \in SUBSET RelationErrors
  PROVE  /\ UNION compile_all_suggestions(s, cs) \subseteq cs
         /\ \A r \in ToStatic(s, cs) : <<r, fr_static>> \in UNION compile_all_suggestions(s, cs)
         /\ (\A e, f \in cs : e[1] = f[1] => e = f) =>
               \A e \in usable(s, cs) :
                 e[1] \notin ToStatic(s, cs) => e \in UNION compile_all_suggestions(s, cs)
<1> DEFINE toStatic == ToStatic(s, cs)
           bounds == {e \in usable(s, cs) : e[1] \notin toStatic}
           mutual == {e \in bounds : <<e[2], e[1]>> \in cs}
           equal == {e \in mutual : e[1] \notin unified_already(mutual)}
           H1 == {{<<fr, fr_static>>} : fr \in toStatic}
           H2 == {{e, <<e[2], e[1]>>} : e \in equal}
           H3 == {{e \in bounds \ mutual : e[1] = fr} : fr \in universal_regions} \ {{}}
           help == compile_all_suggestions(s, cs)
<1>1. help = H1 \cup H2 \cup H3
  BY DEF compile_all_suggestions, ToStatic
<1>2. \A e \in cs : /\ e[1] \in universal_regions /\ e[2] \in universal_regions
                     /\ e = <<e[1], e[2]>> /\ e[1] # fr_static
  BY RelationErrorsType
<1>3. usable(s, cs) \subseteq cs
  BY DEF usable
<1>4. \A r \in toStatic : <<r, fr_static>> \in cs
  <2> SUFFICES ASSUME NEW e \in usable(s, cs), give_region_a_name(s, e[2]) = "Static"
               PROVE  <<e[1], fr_static>> \in cs
    BY DEF ToStatic
  <2>1. e[2] = fr_static
    BY <1>2, <1>3, StaticName
  <2> QED
    BY <1>2, <1>3, <2>1
<1> HIDE DEF toStatic, help
<1>5. ASSUME NEW B \in H1 \cup H2 \cup H3 PROVE B \subseteq cs
  <2>1. CASE B \in H1
    BY <1>4, <2>1
  <2>2. CASE B \in H2
    BY <1>3, <2>2
  <2>3. CASE B \in H3
    BY <1>3, <2>3
  <2> QED
    BY <2>1, <2>2, <2>3
<1>6. ASSUME NEW r \in toStatic PROVE <<r, fr_static>> \in UNION help
  <2>1. {<<r, fr_static>>} \in H1
    OBVIOUS
  <2> HIDE DEF H1, H2, H3
  <2> QED
    BY <1>1, <2>1
<1>7. ASSUME \A e, f \in cs : e[1] = f[1] => e = f,
             NEW e \in usable(s, cs), e[1] \notin toStatic
      PROVE  e \in UNION help
  <2>0. e \in bounds /\ e \in cs
    BY <1>3, <1>7
  <2>1. CASE e \notin mutual
    <3> DEFINE B == {d \in bounds \ mutual : d[1] = e[1]}
    <3>1. e \in B /\ B \in H3
      BY <1>2, <2>0, <2>1
    <3> HIDE DEF B, H1, H2, H3
    <3> QED
      BY <1>1, <3>1
  <2>2. CASE e \in mutual
    <3>1. \A d \in mutual : d \in bounds /\ d \in cs /\ d \in usable(s, cs) /\ <<d[2], d[1]>> \in cs
      BY <1>3
    <3>2. ASSUME NEW d \in mutual PROVE <<d[2], d[1]>> \in mutual
      <4> DEFINE r == <<d[2], d[1]>>
      <4>1. r \in cs /\ r[1] = d[2] /\ r[2] = d[1]
        BY <3>1
      <4>2. r \in usable(s, cs)
        BY <3>1, <4>1 DEF usable
      <4>3. r[1] \notin toStatic
        <5> SUFFICES ASSUME NEW f \in usable(s, cs), give_region_a_name(s, f[2]) = "Static",
                            f[1] = r[1]
                     PROVE  FALSE
          BY DEF toStatic, ToStatic
        <5>1. f = r
          BY <1>3, <1>7, <4>1
        <5>2. d[1] # fr_static /\ d[1] \in universal_regions
          BY <1>2, <3>1
        <5> QED
          BY <4>1, <5>1, <5>2, StaticName
      <4>4. <<r[2], r[1]>> = d
        BY <1>2, <3>1, <4>1
      <4> QED
        BY <3>1, <4>1, <4>2, <4>3, <4>4
    <3>3. mutual \in SUBSET (universal_regions \X universal_regions)
      BY <1>2, <3>1
    <3>4. \A d, f \in mutual : d[1] = f[1] => d = f
      BY <1>7, <3>1
    <3> DEFINE r == <<e[2], e[1]>>
    <3>5. r \in mutual /\ <<r[2], r[1]>> = e
      BY <1>2, <2>0, <2>2, <3>2
    <3>6. e \in equal \/ r \in equal
      <4> HIDE DEF mutual
      <4>1. e[1] \in unified_already(mutual) => e[2] \notin unified_already(mutual)
        BY <2>2, <3>2, <3>3, <3>4, OneIsUnified
      <4> QED
        BY <2>2, <3>5, <4>1
    <3>7. {e, r} \in H2
      <4> HIDE DEF equal
      <4> QED
        BY <3>5, <3>6
    <3> HIDE DEF H1, H2, H3
    <3> QED
      BY <1>1, <3>7
  <2> QED
    BY <2>1, <2>2
<1> QED
  <2>1. UNION help \subseteq cs
    <3> HIDE DEF H1, H2, H3
    <3> QED
      BY <1>1, <1>5
  <2> QED
    BY <1>6, <1>7, <2>1 DEF toStatic, help

-----------------------------------------------------------------------------
(* The report.                                                             *)

(* What a setting and a kind of report for each relation lead to.          *)
LEMMA ToldAnswers ==
  ASSUME TypeInv, ErrorInv, NEW s \in Settings, NEW kind \in [Reported -> Kinds],
         NEW told, told = Told(s, kind)
  PROVE  Answers(told)
<1> DEFINE missing == {e \in Reported : kind[e] \in {"BorrowedDataEscapes", "LifetimeOutlives"}}
           buffered == told.buffered
           bounds == UNION {intermediate_suggestion(s, e) : e \in missing}
           help == add_suggestion(s, missing)
           Suffice(bs) == \A e \in usable(s, missing) :
                            e[2] \in ReachedBy(universal_regions, Declared(bs))[e[1]]
<1>1. DOMAIN kind = Reported
  OBVIOUS
<1>2. /\ buffered =
            {TypeTestReport(s, e) : e \in {f \in errors : f[1] = "TypeTestError"}}
              \cup {UniverseReport(s, e[2]) : e \in {f \in errors : f[1] = "BoundUniversalRegionError"}}
              \cup {<<kind[e], e[1], e[2]>> : e \in Reported}
              \cup HiddenRegionReports(s)
      /\ told.unwrapped = UNION {{give_region_a_name(s, r) : r \in UnwrapsName(s, e, kind[e])} : e \in Reported}
      /\ told.setting = s /\ told.constraints_to_add = missing
      /\ told.bounds = bounds /\ told.help = help
  BY <1>1 DEF Told
<1>3. Reported \subseteq RelationErrors /\ missing \subseteq RelationErrors
  BY DEF Reported
<1>4. ASSUME NEW e \in RelationErrors
      PROVE  \E d \in buffered : d[1] \in Kinds /\ d[2] = e[1]
  <2>1. PICK f \in Reported : f[1] = e[1]
    BY FirstIsReported
  <2> DEFINE d == <<kind[f], f[1], f[2]>>
  <2>2. d \in buffered
    BY <1>2
  <2>3. d[1] \in Kinds /\ d[2] = e[1]
    BY <2>1
  <2> QED
    BY <2>2, <2>3
<1>5. ASSUME NEW e \in errors, e[1] = "UnexpectedHiddenRegion"
      PROVE  <<"UnexpectedHiddenRegion", s.opaque[e[2]]>> \in buffered
  BY <1>2, <1>5, HiddenIsTold
<1>6. ASSUME NEW e \in errors PROVE buffered # {}
  <2>1. CASE IsRelationError(e)
    <3>1. <<e[2], e[3]>> \in RelationErrors
      BY <2>1 DEF IsRelationError, RelationErrors
    <3> QED
      BY <1>4, <3>1
  <2>2. CASE IsHiddenError(e)
    <3>1. e[1] = "UnexpectedHiddenRegion"
      BY <2>2 DEF IsHiddenError
    <3> HIDE DEF buffered
    <3> QED
      BY <1>5, <3>1
  <2>3. CASE e[1] = "TypeTestError"
    BY <1>2, <2>3
  <2>4. CASE e[1] = "BoundUniversalRegionError"
    BY <1>2, <2>4
  <2> QED
    BY <2>1, <2>2, <2>3, <2>4 DEF ErrorInv
<1>7. "None" \notin told.unwrapped
  <2> SUFFICES ASSUME NEW e \in Reported, NEW r \in UnwrapsName(s, e, kind[e]),
                      give_region_a_name(s, r) = "None"
               PROVE  FALSE
    BY <1>2
  <2> QED
    BY <1>3, NamesExist
<1>8. \A e \in missing : /\ e[1] \in universal_regions /\ e[2] \in universal_regions
                          /\ e = <<e[1], e[2]>>
  BY <1>3, RelationErrorsType
<1>9. usable(s, missing) \subseteq missing
  BY DEF usable
<1>10. OnlyOne(missing) => help = {}
  BY DEF add_suggestion
<1>11. ~OnlyOne(missing) => help = compile_all_suggestions(s, missing)
  BY DEF add_suggestion
<1>12. UNION (bounds \cup help) \subseteq missing
  <2>1. ASSUME NEW B \in bounds PROVE B \subseteq missing
    BY DEF intermediate_suggestion
  <2>2. UNION help \subseteq missing
    BY <1>3, <1>10, <1>11, HelpFacts
  <2> HIDE DEF bounds, help, missing
  <2> QED
    BY <2>1, <2>2
<1>13. ASSUME NEW e \in usable(s, missing), e[1] \notin ToStatic(s, missing)
       PROVE  e \in UNION bounds
  <2>1. intermediate_suggestion(s, e) = {{e}}
    BY <1>13 DEF intermediate_suggestion, ToStatic, usable
  <2>2. e \in missing
    BY <1>9
  <2> HIDE DEF missing
  <2>3. {e} \in bounds
    BY <2>1, <2>2
  <2> HIDE DEF bounds
  <2> QED
    BY <2>3
<1>14. ASSUME ~OnlyOne(missing), NEW r \in ToStatic(s, missing)
       PROVE  <<r, fr_static>> \in UNION help
  BY <1>3, <1>11, <1>14, HelpFacts
<1>15. ASSUME OnlyOne(missing), NEW r \in ToStatic(s, missing), NEW e \in missing
       PROVE  e[2] = fr_static
  <2>1. PICK f \in usable(s, missing) : give_region_a_name(s, f[2]) = "Static"
    BY DEF ToStatic
  <2>2. f \in missing /\ f[2] = fr_static
    BY <1>8, <1>9, <2>1, StaticName
  <2>3. IsFiniteSet(universal_regions)
    BY UniversalAssumption, FS_Interval DEF universal_regions
  <2>4. IsFiniteSet(missing)
    <3>1. missing \subseteq universal_regions \X universal_regions
      BY <1>8
    <3> QED
      BY <2>3, <3>1, FS_Product, FS_Subset
  <2> HIDE DEF missing
  <2>5. PICK x : missing = {x}
    BY <1>15, <2>4, FS_Singleton DEF OnlyOne
  <2> QED
    BY <2>2, <2>5
<1>16. ASSUME NEW bs, UNION bs \subseteq missing, NEW e \in missing,
              e \in UNION bs \/ <<e[1], fr_static>> \in UNION bs
       PROVE  e[2] \in ReachedBy(universal_regions, Declared(bs))[e[1]]
  <2>1. UNION bs \subseteq universal_regions \X universal_regions
    BY <1>8, <1>16
  <2>2. <<e[1], e[2]>> \in UNION bs \/ <<e[1], fr_static>> \in UNION bs
    BY <1>8, <1>16
  <2> QED
    BY <1>8, <2>1, <2>2, DeclaresItsOwn
<1>17. Suffice(bounds \cup help) \/ (OnlyOne(missing) /\ \A e \in missing : e[2] = fr_static)
  <2>1. CASE OnlyOne(missing) /\ ToStatic(s, missing) # {}
    BY <1>15, <2>1
  <2>2. CASE ~(OnlyOne(missing) /\ ToStatic(s, missing) # {})
    <3> SUFFICES ASSUME NEW e \in usable(s, missing)
                 PROVE  e[2] \in ReachedBy(universal_regions, Declared(bounds \cup help))[e[1]]
      OBVIOUS
    <3>1. e \in UNION bounds \/ <<e[1], fr_static>> \in UNION help
      BY <1>13, <1>14, <2>2
    <3> HIDE DEF bounds, help
    <3>2. e \in UNION (bounds \cup help) \/ <<e[1], fr_static>> \in UNION (bounds \cup help)
      BY <3>1
    <3> QED
      BY <1>9, <1>12, <1>16, <3>2
  <2> QED
    BY <2>1, <2>2
<1>18. ASSUME polonius_output = {}, ~OnlyOne(missing) PROVE Suffice(help)
  <2>1. ASSUME NEW e \in missing, NEW f \in missing, e[1] = f[1] PROVE e = f
    <3>1. e[2] <= f[2] /\ f[2] <= e[2]
      BY <1>3, <1>18, <2>1 DEF Reported, IsReported
    <3>2. e[2] \in Nat /\ f[2] \in Nat
      BY <1>8, UniversalAssumption DEF universal_regions
    <3>3. e[2] = f[2]
      BY <3>1, <3>2
    <3> QED
      BY <1>8, <2>1, <3>3
  <2> SUFFICES ASSUME NEW e \in usable(s, missing)
               PROVE  e[2] \in ReachedBy(universal_regions, Declared(help))[e[1]]
    OBVIOUS
  <2>2. e \in UNION help \/ <<e[1], fr_static>> \in UNION help
    <3> HIDE DEF missing, help
    <3> QED
      BY <1>3, <1>11, <1>14, <1>18, <2>1, HelpFacts
  <2>3. UNION help \subseteq missing
    BY <1>12
  <2> QED
    BY <1>9, <1>16, <2>2, <2>3
<1> QED
  <2> HIDE DEF missing, buffered, bounds, help
  <2> QED
    BY <1>2, <1>4, <1>5, <1>6, <1>7, <1>12, <1>17, <1>18 DEF Answers, Declared, buffered, Kinds

LEMMA ReportAnswers ==
  ASSUME TypeInv, ErrorInv, report_region_errors
  PROVE  pc' = "done" /\ ErrorsAreAnswered'
<1>1. UNCHANGED vars /\ pc = "done"
  BY DEF report_region_errors
<1>2. PICK s \in Settings, kind \in [Reported -> Kinds] : report' = Told(s, kind)
  <2>1. PICK s \in Settings :
          \E category \in [Reported -> UNION {Blamed(s, e) : e \in Reported}] :
            report' = Told(s, [e \in Reported |-> report_region_error(s, e, category[e])])
    BY DEF report_region_errors
  <2>2. PICK category \in [Reported -> UNION {Blamed(s, e) : e \in Reported}] :
          report' = Told(s, [e \in Reported |-> report_region_error(s, e, category[e])])
    BY <2>1
  <2> DEFINE kind == [e \in Reported |-> report_region_error(s, e, category[e])]
  <2>3. kind \in [Reported -> Kinds]
    BY KindIsTold
  <2> QED
    BY <2>2, <2>3
<1>3. Answers(report')
  BY <1>2, ToldAnswers
<1>4. RelationErrors' = RelationErrors
  BY <1>1 DEF vars, RelationErrors
<1>5. Answers(report)'
  BY <1>1, <1>3, <1>4 DEF vars, Answers
<1> QED
  BY <1>1, <1>5 DEF vars, ErrorsAreAnswered

ReportInv == TypeInv /\ ErrorInv /\ (report.told => pc = "done") /\ ErrorsAreAnswered

LEMMA ReportInvInit == Init /\ InitReport => ReportInv
  BY TypeInvInit, ErrorInvInit DEF InitReport, NotTold, ReportInv, ErrorsAreAnswered

(* Nothing is inferred any more once the errors are told.                  *)
LEMMA ReportInvStep ==
  ASSUME ReportInv, [NextReport]_<<vars, report>>
  PROVE  ReportInv'
<1>1. TypeInv' /\ ErrorInv'
  <2>1. [Next]_vars
    BY DEF NextReport, report_region_errors, vars
  <2> QED
    BY <2>1, TypeInvStep, ErrorInvStep DEF ReportInv
<1>2. CASE report_region_errors
  BY <1>1, <1>2, ReportAnswers DEF ReportInv
<1>3. CASE Next /\ UNCHANGED report
  <2>1. pc # "done"
    BY <1>3 DEF Next, add_outlives_static, init_free_and_bound_regions, compute_value_for_scc,
       apply_member_constraint, propagated, check_type_tests, check_universal_regions,
       check_member_constraints
  <2> QED
    BY <1>1, <1>3, <2>1 DEF ReportInv, ErrorsAreAnswered
<1>4. CASE UNCHANGED <<vars, report>>
  <2>1. RelationErrors' = RelationErrors
    BY <1>4 DEF vars, RelationErrors
  <2>2. Answers(report)' <=> Answers(report)
    BY <1>4, <2>1 DEF vars, Answers
  <2> QED
    BY <1>1, <1>4, <2>2 DEF ReportInv, ErrorsAreAnswered, vars
<1> QED
  BY <1>2, <1>3, <1>4 DEF NextReport

(* Every error of region inference is answered: told, or behind one that   *)
(* is, under a name that exists, and the bounds that are suggested suffice *)
(* (report_region_errors, OutlivesSuggestionBuilder).                      *)
THEOREM RegionErrorsErrorsAreAnswered == SpecReport => []ErrorsAreAnswered
<1>1. Init /\ InitReport => ReportInv
  BY ReportInvInit
<1>2. ReportInv /\ [NextReport]_<<vars, report>> => ReportInv'
  BY ReportInvStep
<1>3. ReportInv => ErrorsAreAnswered
  BY DEF ReportInv
<1> QED
  BY <1>1, <1>2, <1>3, PTL DEF SpecReport

=============================================================================

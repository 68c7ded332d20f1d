-------------------------- MODULE UniversalRelations --------------------------
(***************************************************************************)
(* The universal regions of a function, the outlives relation its          *)
(* signature declares between them, and how a region that a closure's      *)
(* creator cannot name is replaced by ones it can                          *)
(* (borrowck/src/universal_regions.rs, type_check/free_region_relations.rs)*)
(*                                                                         *)
(* RegionVids are numbers.  The universal regions come first: 'static,     *)
(* those that are external to a closure, the local ones, and the body.     *)
(* A relation is the function from a region to those it is related to.     *)
(***************************************************************************)
EXTENDS Naturals, FiniteSets

CONSTANTS
  first_local_index, \* the number of global and external regions
  num_universals     \* the number of universal regions

ASSUME UniversalAssumption ==
  /\ first_local_index \in Nat \ {0}   \* at least first_extern_index
  /\ num_universals \in Nat /\ first_local_index < num_universals

fr_static == 0
first_extern_index == 1   \* 'static is the only global region
fr_fn_body == num_universals - 1
universal_regions == 0..num_universals - 1
is_local_free_region(r) == r \in first_local_index..num_universals - 1

(* What is reached from each node along edges, the node itself included:   *)
(* what lies in every set that holds the node and is closed under edges.   *)
ReachedBy(nodes, edges) ==
  LET closed == {S \in SUBSET nodes : \A e \in edges : e[1] \in S => e[2] \in S}
  IN  [r \in nodes |-> {q \in nodes : \A S \in closed : r \in S => q \in S}]

(* create: the declared bounds, 'static above and the body below all.      *)
RelationsFrom(declared) ==
  ReachedBy(universal_regions,
            declared \cup ({fr_static} \X universal_regions)
                     \cup (universal_regions \X {fr_fn_body}))

Inverse_(rel) == [a \in DOMAIN rel |-> {b \in DOMAIN rel : a \in rel[b]}]

(* TransitiveRelation::parents: the nearest regions that are related to    *)
(* `fr` and not equal to it; of equal ones, one.                           *)
parents(rel, fr) ==
  LET above == {a \in rel[fr] : fr \notin rel[a]}
  IN  {a \in above :
         \A b \in above : a \in rel[b] => b \in rel[a] /\ a <= b}

(* The non-local regions met first on the way up through local ones: none  *)
(* if all that is above a local region is equal to it.                     *)
non_local_bounds(rel, fr) ==
  LET expanded == {r \in universal_regions : is_local_free_region(r)}
      met == ReachedBy(universal_regions, UNION {{r} \X parents(rel, r) : r \in expanded})[fr]
  IN  met \ expanded

non_local_upper_bounds(outlives, fr) == non_local_bounds(Inverse_(outlives), fr)

(* The nearest region that all of `regions` are related to, and that every *)
(* other such region is comparable with; a region alone is its own.        *)
mutual_immediate_postdominator(rel, regions) ==
  LET alone == {r \in regions : regions = {r}}
      common == {a \in DOMAIN rel : \A r \in regions : a \in rel[r]}
      meets == {a \in common : \A b \in common : a \in rel[b] \/ b \in rel[a]}
  IN  IF alone # {} THEN alone
      ELSE {a \in meets : \A b \in meets : b \in rel[a] /\ (a \in rel[b] => a <= b)}

(* None, the empty set, or the set of the one lower bound.                 *)
non_local_lower_bound(outlives, fr) ==
  LET bounds == non_local_bounds(outlives, fr)
  IN  IF bounds = {} THEN {}
      ELSE {a \in mutual_immediate_postdominator(outlives, bounds) :
              ~is_local_free_region(a)}

=============================================================================

---------------------------- MODULE MCRegionInfer ----------------------------
(* A closure with an external region 1, a local one 2, the body 3,         *)
(* existential regions 4 in the root and 5 in the first universe, and the  *)
(* placeholder 6 of that universe; or one whose opaque type captures two   *)
(* lifetimes, with hidden regions 4 and 7.                                 *)
EXTENDS RegionInfer

CONSTANTS p1, p2, bound_region

MCPoints == {p1, p2}
MCPlaceholders == {6}
MCUniverse == [r \in Regions |-> IF r \in {5, 6} THEN 1 ELSE 0]
MCLiveness == [r \in Regions |-> IF r = 4 THEN {p1} ELSE IF r \in {5, 7} THEN {p2} ELSE {}]
MCBoundSets == {{}, {<<1, 2>>}, {<<2, 0>>}}   \* the last as for &'static &'2 T

PairsOf(rs) == {e \in rs \X (rs \cup {0}) : e[1] # e[2]}
Pairs == PairsOf({1, 2, 4, 5, 6})
PairsOfHidden == PairsOf({1, 2, 4, 7})
PairsOfThree == PairsOf({1, 4, 5, 6}) \cup {<<1, 2>>, <<4, 2>>}
TwoConstraints == {{}} \cup {{a, b} : a \in Pairs, b \in Pairs}
ThreeConstraints ==
  TwoConstraints \cup {{a, b, c} : a \in PairsOfThree, b \in PairsOfThree, c \in PairsOfThree}
TwoOfHidden == {{}} \cup {{a, b} : a \in PairsOfHidden, b \in PairsOfHidden}
MCConstraintSets == ThreeConstraints \cup TwoOfHidden
Free == RelationsFrom({})

Member(r, cs) == [region |-> r, choices |-> cs]
TwoMembers ==
  {<<Member(4, a), Member(r, b)>> :
     r \in {4, 7}, a \in {{1, 2}, {0, 1}}, b \in {{0, 1, 2}}}
MCMemberSeqs == {<< >>} \cup TwoMembers

(* T, and the item of a trait with a lifetime, as in <U as Foo<'4>>::Item.  *)
T == [name |-> "T", regions |-> << >>]
Item(r) == [name |-> "Item", regions |-> <<r>>]

OutlivedBy(r) == [kind |-> "OutlivedBy", region |-> r, ty |-> T, of |-> {}]
IfEq(ty, r) == [kind |-> "IfEq", region |-> r, ty |-> ty, of |-> {}]
Of(kind, bounds) == [kind |-> kind, region |-> 0, ty |-> T, of |-> bounds]

ForAll == IfEq(Item(bound_region), bound_region)
Clause == IfEq(Item(1), 2)
Unbounded == Of("AnyBound", {})
Local == Of("AnyBound", {OutlivedBy(2), Clause})
Both == Of("AllBounds", {OutlivedBy(4), ForAll})
Empty == Of("IsEmpty", {})
EmptyOr == Of("AnyBound", {Empty, ForAll})
MCVerifyBounds ==
  {ForAll, Clause, Unbounded, Local, Both, Empty, EmptyOr, OutlivedBy(2), OutlivedBy(4)}

Test(ty, r, b, n) == [ty |-> ty, lower_bound |-> r, verify_bound |-> b, span |-> n]
MCTypeTestSets ==
  {{}, {Test(T, 4, Local, 1), Test(T, 4, Unbounded, 1), Test(Item(4), 2, Clause, 2),
        Test(Item(5), 4, Both, 3), Test(T, 5, Unbounded, 1), Test(Item(4), 5, EmptyOr, 2),
        Test(Item(1), 4, Local, 3)}}

(* At most three constraints; or two, and a declared bound; or two, a      *)
(* declared bound or none, and the member constraints, or type tests, or   *)
(* Polonius; of a region above 'static only without members or Polonius.   *)
MCInit ==
  /\ known \in {RelationsFrom(b) : b \in BoundSets}
  /\ members \in IF fr_static \in known[2] THEN {<< >>} ELSE MemberSeqs
  /\ type_tests \in IF members = << >> THEN TypeTestSets ELSE {{}}
  /\ constraints \in CASE members # << >> -> TwoOfHidden
                       [] members = << >> /\ known = Free /\ type_tests = {} -> ThreeConstraints
                       [] OTHER -> TwoConstraints
  /\ Init
  /\ polonius_output # {} => /\ members = << >> /\ type_tests = {} /\ constraints \in TwoConstraints
                             /\ fr_static \notin known[2]
MCSpec == MCInit /\ [][Next]_vars
=============================================================================

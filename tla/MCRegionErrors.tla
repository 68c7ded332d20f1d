---------------------------- MODULE MCRegionErrors ----------------------------
(* A function or a constant with three lifetimes 1, 2 and 3, or a closure  *)
(* with its environment 2, its body 4, two existential regions 5 and 6 and a        *)
(* placeholder 7; or its opaque type with the hidden region 5.             *)
EXTENDS RegionErrors

CONSTANTS p1, bound_region

MCPoints == {p1}
MCPlaceholders == {7}
MCUniverse == [r \in Regions |-> IF r \in {6, 7} THEN 1 ELSE 0]
MCLiveness == [r \in Regions |-> IF r = 5 THEN {p1} ELSE {}]
MCBoundSets == {{}, {<<1, 2>>}}

PairsOf(rs) == {e \in rs \X (rs \cup {0}) : e[1] # e[2]}
Pairs == PairsOf({1, 2, 3, 5})
PairsOfPlaceholder == PairsOf({1, 5, 6, 7})
UpToThree(pairs) == {{a, b, c} : a \in pairs, b \in pairs, c \in pairs}
UpToTwo(pairs) == {{a, b} : a \in pairs, b \in pairs}
MCConstraintSets == UpToThree(Pairs) \cup UpToTwo(PairsOfPlaceholder)

T == [name |-> "T", regions |-> << >>]
Unbounded == [kind |-> "AnyBound", region |-> 0, ty |-> T, of |-> {}]
MCVerifyBounds == {Unbounded}
MCTypeTestSets == {{}, {[ty |-> T, lower_bound |-> 5, verify_bound |-> Unbounded, span |-> 1]}}
Member(r, cs) == [region |-> r, choices |-> cs]
MCMemberSeqs == {<< >>, <<Member(5, {0, 1}), Member(5, {0, 2})>>}

Names(one, two, three) ==
  [r \in universal_regions |->
     CASE r = fr_static -> "Static" [] r = 1 -> one [] r = 2 -> two [] r = 3 -> three
       [] r = fr_fn_body -> "None"]
Setting(one, two, step, rest, n) ==
  [external_name |-> Names(one, two, IF n = 6 THEN "Early" ELSE "Late"),
   is_const |-> n = 6, closure |-> two = "Env", fn_mut |-> two = "Env",
   inputs |-> IF n \in {1, 2} THEN <<{1, 3}, {1, 2}>> ELSE << >>,
   upvars |-> IF n \in {3, 5} THEN <<{1}>> ELSE << >>,
   output |-> {3}, yield_ty |-> IF n = 4 THEN {1} ELSE {},
   impl_header |-> {}, predicates |-> {1}, is_async |-> n = 2,
   category |-> [e \in Regions \X Regions |-> IF e[2] \in {2, 5} THEN step ELSE rest],
   nice |-> IF n = 2 THEN {<<1, 2>>} ELSE {},
   opaque |-> IF n = 2 THEN <<1, 2>> ELSE <<1, 1>>,
   universe |-> [p \in Placeholders |->
                   [kind |-> CASE n = 1 -> "RelateTys" [] n = 2 -> "Other" [] OTHER -> "TypeOp",
                    base |-> IF n = 4 THEN 2 ELSE 0, found |-> n = 3]]]
MCSettings ==
  {Setting("Early", "Late", "Return", "Assignment", 1),
   Setting("Late", "LateElided", "Boring", "Return", 2),
   Setting("Late", "Early", "CallArgument", "Predicate", 3),
   Setting("Anon", "Late", "ClosureUpvar", "Yield", 4),
   Setting("EarlyElided", "Env", "ClosureUpvar", "Return", 5),
   Setting("Early", "Early", "CallArgument", "Assignment", 6),
   Setting("Anon", "Env", "CallArgument", "Assignment", 3)}

(* At most three constraints; or two that may be those of a placeholder;   *)
(* or two, with a declared bound or none, in a closure, with a type test,  *)
(* with member constraints or with Polonius.                               *)
MCInit ==
  /\ known \in {RelationsFrom(b) : b \in BoundSets}
  /\ members \in MemberSeqs
  /\ type_tests \in IF members = << >> THEN TypeTestSets ELSE {{}}
  /\ is_closure \in BOOLEAN
  /\ constraints \in IF members = << >> /\ type_tests = {} /\ known = RelationsFrom({})
                        /\ ~is_closure
                     THEN ConstraintSets ELSE UpToTwo(Pairs)
  /\ Init
  /\ polonius_output # {} => /\ members = << >> /\ type_tests = {} /\ ~is_closure
                             /\ constraints \in UpToTwo(Pairs)
  /\ InitReport
MCSpec == MCInit /\ [][NextReport]_<<vars, report>>
=============================================================================

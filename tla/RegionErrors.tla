----------------------------- MODULE RegionErrors -----------------------------
(***************************************************************************)
(* What the borrow checker tells of the errors that region inference found *)
(* (borrowck/src/diagnostics/region_errors.rs, outlives_suggestion.rs,     *)
(* bound_region_errors.rs, region_name.rs, and best_blame_constraint of    *)
(* region_infer/mod.rs).  RegionErrors::push has promised the compiler a   *)
(* diagnostic for every error, and the collected bounds are to be          *)
(* suggested.                                                              *)
(*                                                                         *)
(* A diagnostic is its kind and the regions it speaks of.  Not modelled:   *)
(* labels, wording and the numbers of synthesized names; suggestions other *)
(* than those of bounds.  What the compiler knows of the function besides  *)
(* its constraints is a setting, chosen when the errors are reported.      *)
(***************************************************************************)
EXTENDS RegionInfer

CONSTANT
  Settings
    (* Records of what the compiler knows:                                 *)
    (*   external_name: of each universal region: "Static", "Early", "Late"*)
    (*     if the user named it, "EarlyElided", "LateElided", "Env" for a   *)
    (*     closure's own environment, "Anon", or "None"                     *)
    (*   inputs, upvars: for each argument that the user wrote, and each   *)
    (*     captured variable, the regions of its type                       *)
    (*   output, yield_ty: the regions of these types                       *)
    (*   impl_header: the elided regions declared by the impl              *)
    (*   predicates: the elided regions in bounds of a parameter's type    *)
    (*   is_async, is_const; closure, fn_mut: whether it is a closure, an  *)
    (*     FnMut one                                                       *)
    (*   category: of each constraint, what it was made for                *)
    (*   nice: the pairs of regions that the compiler's own NiceRegionError*)
    (*     has a diagnostic for                                            *)
    (*   opaque: of each member constraint, its span, type and opaque type *)
    (*   universe: of each placeholder, why its universe was created       *)

(* The type of a body mentions each of its regions that the user did not   *)
(* name, or a bound does; only the body itself has no name at all.         *)
ASSUME SettingsAssumption ==
  \A s \in Settings :
    /\ {s.inputs, s.upvars} \subseteq Seq(SUBSET universal_regions)
    /\ \A r \in universal_regions :
         /\ s.external_name[r] = "None" <=> r = fr_fn_body
         /\ s.external_name[r] = "Static" <=> r = fr_static
         /\ \/ s.external_name[r] \in {"Static", "Early", "Late", "Env", "None"}
            \/ s.external_name[r] = "LateElided" /\ s.is_async
            \/ s.external_name[r] = "EarlyElided" /\ r \in s.impl_header \cup s.predicates
            \/ r \in s.output \cup s.yield_ty
            \/ \E i \in DOMAIN s.inputs : r \in s.inputs[i]
            \/ \E i \in DOMAIN s.upvars : r \in s.upvars[i]

VARIABLE
  report  \* NotTold, or what was told

-----------------------------------------------------------------------------
(* Names.                                                                  *)

(* Where a universal region occurs: the first that mentions it.            *)
first_that_mentions(types, fr) ==
  {i \in DOMAIN types : fr \in types[i] /\ \A j \in 1..i - 1 : fr \notin types[j]}

get_upvar_index_for_region(s, fr) == first_that_mentions(s.upvars, fr)
get_argument_index_for_region(s, fr) == first_that_mentions(s.inputs, fr)

get_var_name_and_span_for_region(s, fr) ==
  IF get_upvar_index_for_region(s, fr) # {} THEN get_upvar_index_for_region(s, fr)
  ELSE get_argument_index_for_region(s, fr)

(* The source of the name, of a region that the user can point at.         *)
give_name_from_error_region(s, fr) ==
  CASE s.external_name[fr] \in {"Static", "Early", "Late"} -> s.external_name[fr]
    [] s.external_name[fr] = "LateElided" /\ s.is_async -> "AnonRegionFromAsyncFn"
    [] s.external_name[fr] = "Env" -> "SynthesizedFreeEnvRegion"
    [] OTHER -> "None"

give_name_of_elided_region(s, fr) ==
  CASE fr \in s.impl_header -> "AnonRegionFromImplSignature"
    [] fr \notin s.impl_header /\ fr \in s.predicates -> "AnonRegionFromArgument"
    [] OTHER -> "None"

(* The first of these that has one.                                        *)
give_region_a_name(s, fr) ==
  LET If(found, name) == IF found THEN name ELSE "None"
      tries == <<give_name_from_error_region(s, fr),
                 If(get_argument_index_for_region(s, fr) # {}, "AnonRegionFromArgument"),
                 If(get_upvar_index_for_region(s, fr) # {}, "AnonRegionFromUpvar"),
                 If(fr \in s.output, "AnonRegionFromOutput"),
                 If(fr \in s.yield_ty, "AnonRegionFromYieldTy"),
                 If(s.external_name[fr] = "EarlyElided", give_name_of_elided_region(s, fr))>>
      named == {i \in DOMAIN tries : tries[i] # "None"}
  IN  IF named = {} THEN "None" ELSE tries[CHOOSE i \in named : \A j \in named : i <= j]

region_name_is_suggestable(s, fr) == give_region_a_name(s, fr) \in {"Static", "Early", "Late"}

postdom_upper_bound(fr1, fr2) ==
  LET above == mutual_immediate_postdominator(Inverse_(known), {fr1, fr2})
  IN  IF above = {} THEN fr_static ELSE CHOOSE r \in above : TRUE

(* Of two regions of which nothing is known, the one with a name is        *)
(* preferred to 'static, which would be above both.                        *)
approx_universal_upper_bound(s, r) ==
  LET IsNamed(fr) == s.external_name[fr] # "None"
      Join(lub, ur) ==
        LET new_lub == postdom_upper_bound(lub, ur)
        IN  CASE ur = fr_static \/ lub = fr_static \/ new_lub # fr_static -> new_lub
              [] OTHER -> IF IsNamed(ur) THEN ur
                          ELSE IF IsNamed(lub) \/ lub < ur THEN lub ELSE ur
      upto[n \in 0..num_universals] ==
        IF n = 0 THEN fr_fn_body
        ELSE IF n - 1 \in FreeIn(Scc(r)) THEN Join(upto[n - 1], n - 1) ELSE upto[n - 1]
  IN  upto[num_universals]

(* No region, or the one that stands for r: an upper bound is taken only   *)
(* if r's own value holds it.                                              *)
to_error_region(s, r) ==
  LET vid == IF r \in universal_regions THEN {r}
             ELSE {approx_universal_upper_bound(s, r)} \cap scc_values[Scc(r)]
  IN  {u \in vid : s.external_name[u] # "None"}

is_closure_fn_mut(s, fr) == s.fn_mut /\ s.external_name[fr] = "Env"

-----------------------------------------------------------------------------
(* The constraint on the way from the longer to the shorter region that is *)
(* shown; what is told depends on its category.                            *)

(* The shortest ways along BlameEdges: the search goes breadth first.      *)
PathsFound(from, targets) ==
  LET walks[n \in 0..NumRegions] ==
        IF n = 0 THEN {<<from>>}
        ELSE UNION {{Append(w, e[2]) : e \in {f \in BlameEdges : f[1] = w[n]}} : w \in walks[n - 1]}
      arriving(n) == {w \in walks[n] : w[n + 1] \in targets}
  IN  arriving(CHOOSE n \in 0..NumRegions :
                 arriving(n) # {} /\ \A k \in 0..n - 1 : arriving(k) = {})

(* The order in which categories are taken when none stands out.           *)
CategoryOrder == <<"Return", "Yield", "TypeAnnotation", "CallArgument", "Assignment",
                   "OpaqueType", "ClosureUpvar", "Predicate", "Boring", "Internal">>

Dull == {"OpaqueType", "Predicate", "Boring", "Internal"}
Decisive == {"Return", "Yield", "TypeAnnotation"}

(* The last constraint on the way that is not dull and does not start in   *)
(* the target's own component, unless it is decisive.                      *)
best_blame_constraint(s, path) ==
  LET steps == 1..Len(path) - 1
      category == [i \in steps |->
        LET e == <<path[i], path[i + 1]>>
        IN  CASE e \in constraints -> s.category[e]
              [] e \notin constraints /\ e[1] = fr_static -> "Internal"
              [] OTHER -> "OpaqueType"]
      Categories == {category[i] : i \in steps}
      choices == {i \in steps : /\ category[i] \notin Dull
                                /\ category[i] \in Decisive \/ path[i] \notin Scc(path[Len(path)])}
      best == CHOOSE i \in choices : \A j \in choices : j <= i
      first == CHOOSE n \in DOMAIN CategoryOrder :
                 /\ CategoryOrder[n] \in Categories
                 /\ \A k \in 1..n - 1 : CategoryOrder[k] \notin Categories
  IN  CASE choices = {} -> CategoryOrder[first]
        [] choices # {} /\ category[best] = "Return" /\ best + 1 \in steps
                        /\ category[best + 1] = "OpaqueType" -> "OpaqueType"
        [] choices # {} /\ category[best] = "Return" /\ "ClosureUpvar" \in Categories
                        /\ ~(best + 1 \in steps /\ category[best + 1] = "OpaqueType")
             -> "ReturnOfUpvar"
        [] OTHER -> category[best]

-----------------------------------------------------------------------------
(* The reports.                                                            *)

RelationErrors == {<<e[2], e[3]>> : e \in {f \in errors : f[1] = "RegionError"}}

(* Of the relations that a component's representative lacks only the first *)
(* is told; those that Polonius found are all told.                        *)
IsReported(e) ==
  \/ polonius_output # {}
  \/ \A f \in RelationErrors : f[1] = e[1] => e[2] <= f[2]

(* report_escaping_data_error reverts to the normal error where no variable*)
(* can be named, for assignments outside of closures and in constants.     *)
reports_escape(s, e, category) ==
  /\ ~s.is_const
  /\ category \in (IF s.closure THEN {"Assignment", "CallArgument"} ELSE {"CallArgument"})
  /\ \E fr \in {e[1], e[2]} : get_var_name_and_span_for_region(s, fr) # {}

(* The kind of report of a relation, given the category that is blamed.    *)
report_region_error(s, e, category) ==
  LET escaping == is_local_free_region(e[1]) /\ ~is_local_free_region(e[2])
      named == to_error_region(s, e[1]) # {} /\ to_error_region(s, e[2]) # {}
  IN  CASE named /\ e \in s.nice -> "NiceRegionError"
        [] ~(named /\ e \in s.nice) /\ escaping /\ is_closure_fn_mut(s, e[1])
             /\ category \in {"Return", "ReturnOfUpvar"} -> "FnMutError"
        [] ~(named /\ e \in s.nice) /\ escaping /\ reports_escape(s, e, category)
             -> "BorrowedDataEscapes"
        [] OTHER -> "LifetimeOutlives"

(* The names that each kind of report unwraps: of the longer region not in *)
(* general, where it is called '_ if it has none.                          *)
report_fnmut_error(e) == {e[2]}
report_escaping_data_error(s, e) ==
  IF to_error_region(s, e[1]) # {} /\ to_error_region(s, e[2]) # {} THEN {e[1], e[2]} ELSE {}
report_general_error(e) == {e[2]}

UnwrapsName(s, e, kind) ==
  CASE kind = "FnMutError" -> report_fnmut_error(e)
    [] kind = "BorrowedDataEscapes" -> report_escaping_data_error(s, e)
    [] kind = "LifetimeOutlives" -> report_general_error(e)
    [] OTHER -> {}

(* What was meant to be outlived, or that the type does not live enough.   *)
TypeTestReport(s, e) ==
  IF to_error_region(s, e[3]) # {} THEN <<"GenericBoundFailure", e[2], e[3]>>
  ELSE <<"GenericDoesNotLiveLongEnough", e[2], e[3]>>

(* UniverseInfo::report_error: whether the operation that made the universe*)
(* is run again depends on its base; the run may not find the error.       *)
UniverseReport(s, p) ==
  LET info == s.universe[p]
  IN  CASE info.kind = "RelateTys" -> <<"MismatchedTypes", p>>
        [] info.kind = "TypeOp" ->
             IF info.base <= Universe[p] /\ info.found THEN <<"HigherRankedNice", p>>
             ELSE <<"HigherRankedLifetime", p>>
        [] info.kind = "Other" -> <<"HigherRankedSubtype", p>>

(* One for several member constraints of the same opaque type in a row.    *)
HiddenRegionReports(s) ==
  LET found == {e[2] : e \in {f \in errors : f[1] = "UnexpectedHiddenRegion"}}
  IN  {<<"UnexpectedHiddenRegion", s.opaque[m]>> :
         m \in {n \in found :
                  \A k \in found : k < n /\ s.opaque[k] = s.opaque[n]
                                  => \E j \in found : k < j /\ j < n /\ s.opaque[j] # s.opaque[n]}}

-----------------------------------------------------------------------------
(* OutlivesSuggestionBuilder.  A bound is the set of relations it declares.*)

intermediate_suggestion(s, e) ==
  IF /\ region_name_is_suggestable(s, e[1]) /\ region_name_is_suggestable(s, e[2])
     /\ give_region_a_name(s, e[2]) # "Static"
  THEN {{e}} ELSE {}

(* The relations between regions that the user can write.                  *)
usable(s, constraints_to_add) ==
  {e \in constraints_to_add : /\ region_name_is_suggestable(s, e[1])
                              /\ region_name_is_suggestable(s, e[2])}

(* The regions that unified_already holds when the loop comes to them: each*)
(* is in a mutual relation with one that came before and was not in it.    *)
unified_already(mutual) ==
  CHOOSE U \in SUBSET universal_regions :
    \A fr \in universal_regions :
      fr \in U <=> \E e \in mutual : e[2] = fr /\ e[1] < fr /\ e[1] \notin U

compile_all_suggestions(s, constraints_to_add) ==
  LET toStatic == {e[1] : e \in {f \in usable(s, constraints_to_add) :
                                   give_region_a_name(s, f[2]) = "Static"}}
      bounds == {e \in usable(s, constraints_to_add) : e[1] \notin toStatic}
      mutual == {e \in bounds : <<e[2], e[1]>> \in constraints_to_add}
      equal == {e \in mutual : e[1] \notin unified_already(mutual)}
  IN  {{<<fr, fr_static>>} : fr \in toStatic}
        \cup {{e, <<e[2], e[1]>>} : e \in equal}
        \cup ({{e \in bounds \ mutual : e[1] = fr} : fr \in universal_regions} \ {{}})

OnlyOneRegion(constraints_to_add) == Cardinality({e[1] : e \in constraints_to_add}) = 1

OnlyOne(constraints_to_add) == Cardinality(constraints_to_add) = 1

(* The final help; a single bound was suggested with its error.            *)
add_suggestion(s, constraints_to_add) ==
  IF OnlyOne(constraints_to_add) THEN {} ELSE compile_all_suggestions(s, constraints_to_add)

-----------------------------------------------------------------------------
NotTold == [told |-> FALSE]

Reported == {e \in RelationErrors : IsReported(e)}
Blamed(s, e) == {best_blame_constraint(s, p) : p \in PathsFound(e[1], Provides(e[1], e[2]))}

(* What is told if the relations have reports of these kinds.              *)
Told(s, kind) ==
  LET collected == {e \in DOMAIN kind : kind[e] \in {"BorrowedDataEscapes", "LifetimeOutlives"}}
  IN  [told |-> TRUE,
       buffered |->
         {TypeTestReport(s, e) : e \in {f \in errors : f[1] = "TypeTestError"}}
           \cup {UniverseReport(s, e[2]) : e \in {f \in errors : f[1] = "BoundUniversalRegionError"}}
           \cup {<<kind[e], e[1], e[2]>> : e \in DOMAIN kind}
           \cup HiddenRegionReports(s),
       unwrapped |-> UNION {{give_region_a_name(s, r) : r \in UnwrapsName(s, e, kind[e])} :
                              e \in DOMAIN kind},
       setting |-> s,
       constraints_to_add |-> collected,
       bounds |-> UNION {intermediate_suggestion(s, e) : e \in collected},
       help |-> add_suggestion(s, collected)]

report_region_errors ==
  /\ pc = "done" /\ ~report.told
  /\ \E s \in {t \in Settings : t.closure = is_closure} :
       \E category \in [Reported -> UNION {Blamed(s, e) : e \in Reported}] :
         /\ \A e \in Reported : category[e] \in Blamed(s, e)
         /\ report' = Told(s, [e \in Reported |-> report_region_error(s, e, category[e])])
  /\ UNCHANGED vars

InitReport == report = NotTold
NextReport == \/ Next /\ UNCHANGED report
              \/ report_region_errors
SpecReport == Init /\ InitReport /\ [][NextReport]_<<vars, report>>

-----------------------------------------------------------------------------
(* What answers the errors.  A diagnostic backs every promise: an error    *)
(* that is not told has one of the same longer region, or of the same      *)
(* opaque type, that is, and every name that is unwrapped exists.  The     *)
(* bounds that are suggested are among those that are missing, and every   *)
(* missing bound between regions the user can write is declared, with      *)
(* those that are known, by the bounds suggested with the errors and in the*)
(* end; without Polonius by those in the end alone, if there are any.  (A  *)
(* single missing bound by 'static is suggested nowhere.)                  *)
Answers(told) ==
  LET s == told.setting
      missing == told.constraints_to_add
      Declares(bounds) ==
        ReachedBy(universal_regions, (UNION bounds)
                    \cup {e \in universal_regions \X universal_regions : e[2] \in known[e[1]]})
      Suffice(bounds) == \A e \in usable(s, missing) : e[2] \in Declares(bounds)[e[1]]
  IN  /\ errors # {} => told.buffered # {}
      /\ \A e \in RelationErrors :
           \E d \in told.buffered :
             d[1] \in {"NiceRegionError", "FnMutError", "BorrowedDataEscapes", "LifetimeOutlives"}
               /\ d[2] = e[1]
      /\ \A e \in errors : e[1] = "UnexpectedHiddenRegion" =>
           <<"UnexpectedHiddenRegion", s.opaque[e[2]]>> \in told.buffered
      /\ "None" \notin told.unwrapped
      /\ UNION (told.bounds \cup told.help) \subseteq missing
      /\ \/ Suffice(told.bounds \cup told.help)
         \/ OnlyOne(missing) /\ \A e \in missing : e[2] = fr_static
      /\ polonius_output = {} /\ ~OnlyOne(missing) => Suffice(told.help)

(* Whatever was inferred, what report_region_errors tells answers it.      *)
ErrorsAreAnswered == report.told => Answers(report)

=============================================================================

---------------------------- MODULE MutationRun ----------------------------
(***************************************************************************)
(* One compiler session of the tool: the mutants of every function of a    *)
(* crate are borrow checked and their verdicts counted (src/main.rs,       *)
(* src/errors/mod.rs, src/lib.rs).                                         *)
(*                                                                         *)
(* A mutant is <<owner, mutation, n>>: the n-th mutant that the mutator of *)
(* mutation `mutation` hands out for the body of `owner` (Mutator.tla says *)
(* which those are; here their number is arbitrary).  The borrow checker   *)
(* decides each mutant arbitrarily: it accepts it, rejects it, or panics,  *)
(* emitting any diagnostics.                                               *)
(***************************************************************************)
EXTENDS Naturals, Sequences, FiniteSets

CONSTANTS
  NumOwners,     \* body owners of the crate, in the order of body_owners()
  NumMutations,  \* mutations, in the order of MutatorCallbacks::mutations
  MaxMutants,    \* bound: mutants of the whole session
  Codes          \* error codes a diagnostic may carry

ASSUME SizesAssumption ==
  /\ NumOwners \in Nat /\ NumMutations \in Nat \ {0} /\ MaxMutants \in Nat

Owners == 1..NumOwners
Mutations == 1..NumMutations

VARIABLES
  crate,        \* what each body owner is
  env,          \* the environment variables the session reads
  pc,           \* where the session stands
  body_map,     \* the owners whose bodies are stored, BODIES before it is taken
  owner,        \* the body owner being tested, or the next one
  mutation,     \* the mutation being applied
  current,      \* the mutant being checked
  mutator_results, mutants_log, passed_bodies,
  ERROR_CODES,  \* the codes the diagnostics tracker has recorded
  err_count,    \* errors held by the session's DiagCtxt
  history       \* the verdict and codes of every mutant, in order of checking

session == <<crate, env>>
results == <<mutator_results, mutants_log, passed_bodies>>
vars == <<session, pc, body_map, owner, mutation, current, results,
          ERROR_CODES, err_count, history>>

-----------------------------------------------------------------------------

(* Fn and AssocFn are tested unless unsafe or named by PCG_SKIP_FUNCTION;  *)
(* constants, statics and closures have bodies but are no functions.  What *)
(* is named and what is no function is passed over, here as one kind.      *)
OwnerKinds == {"fn", "unsafe_fn", "passed_over"}

(* env_feature_enabled: a value that is not a Boolean makes it panic.      *)
FeatureValues == {"unset", "true", "false", "unexpected"}
Enabled(feature, default) ==
  env[feature] = "true" \/ (env[feature] = "unset" /\ default)
Panics(feature) == env[feature] = "unexpected"

(* entry(mutation.name()).or_insert(MutatorData { 0, .. }): an entry that  *)
(* is not there yet is the zero one.                                       *)
ZeroData == [instances |-> 0, passed |-> 0, failed |-> 0, panicked |-> 0,
             error_codes |-> {}]

Count(field) ==
  mutator_results' = [mutator_results EXCEPT ![mutation][field] = @ + 1]

-----------------------------------------------------------------------------

Init ==
  /\ crate \in [Owners -> OwnerKinds]
  /\ env \in [{"DO_BORROWCK", "PCG_VISUALIZATION", "MUTANTS_LOG"} -> FeatureValues]
  /\ pc = "analysis"
  /\ body_map = {}
  /\ owner = 1 /\ mutation = 1 /\ current = << >>
  /\ mutator_results = << >> /\ mutants_log = << >> /\ passed_bodies = << >>
  /\ ERROR_CODES = {} /\ err_count = 0
  /\ history = << >>

(* The provider of mir_borrowck stores the body and facts of each owner    *)
(* the compiler asks for, once per owner and in any order.                 *)
mir_borrowck(o) ==
  /\ pc = "analysis" /\ o \notin body_map
  /\ body_map' = body_map \cup {o}
  /\ UNCHANGED <<session, pc, owner, mutation, current, results, ERROR_CODES,
                 err_count, history>>

(* after_analysis: the bodies are taken.  The compiler may not have asked  *)
(* for all: a result kept from an earlier compilation will do.             *)
TakeBodies ==
  /\ pc = "analysis"
  /\ pc' = "owners"
  /\ UNCHANGED <<session, body_map, owner, mutation, current, results,
                 ERROR_CODES, err_count, history>>

(* An owner that is no function, is named by PCG_SKIP_FUNCTION or has no   *)
(* body in the map is passed over; an unsafe function is too, once its     *)
(* body has left the map.                                                  *)
SkipOwner ==
  /\ pc = "owners" /\ owner \in Owners
  /\ crate[owner] # "fn" \/ owner \notin body_map
  /\ body_map' = IF crate[owner] = "unsafe_fn" THEN body_map \ {owner} ELSE body_map
  /\ owner' = owner + 1
  /\ UNCHANGED <<session, pc, mutation, current, results, ERROR_CODES, err_count,
                 history>>

(* run_mutation_tests_for_body starts on the next function.                *)
TestOwner ==
  /\ pc = "owners" /\ owner \in Owners
  /\ crate[owner] = "fn" /\ owner \in body_map
  /\ body_map' = body_map \ {owner}
  /\ mutation' = 1
  /\ pc' = "mutation"
  /\ UNCHANGED <<session, owner, current, results, ERROR_CODES, err_count, history>>

(* run_pcg panics, outside the catch_unwind.                               *)
run_pcgPanics ==
  /\ pc = "owners" /\ owner \in Owners
  /\ crate[owner] = "fn" /\ owner \in body_map
  /\ body_map' = body_map \ {owner}
  /\ pc' = "aborted"
  /\ UNCHANGED <<session, owner, mutation, current, results, ERROR_CODES, err_count,
                 history>>

(* The results are complete.                                               *)
Finish ==
  /\ pc = "owners" /\ owner \notin Owners
  /\ pc' = "done"
  /\ UNCHANGED <<session, body_map, owner, mutation, current, results, ERROR_CODES,
                 err_count, history>>

StartMutationPastTheEnd ==
  /\ pc = "mutation" /\ mutation \in Nat
  /\ mutator_results' =
       [n \in DOMAIN mutator_results \cup {mutation} |->
          IF n \in DOMAIN mutator_results THEN mutator_results[n] ELSE ZeroData]
  /\ current' = <<owner, mutation, 0>>
  /\ pc' = "mutants"
  /\ UNCHANGED <<session, body_map, owner, mutation, mutants_log, passed_bodies,
                 ERROR_CODES, err_count, history>>

(* The next mutation gets its entry in the results and a new Mutator.      *)
StartMutation ==
  /\ pc = "mutation" /\ mutation \in Mutations
  /\ mutator_results' =
       [n \in DOMAIN mutator_results \cup {mutation} |->
          IF n \in DOMAIN mutator_results THEN mutator_results[n] ELSE ZeroData]
  /\ current' = <<owner, mutation, 0>>
  /\ pc' = "mutants"
  /\ UNCHANGED <<session, body_map, owner, mutation, mutants_log, passed_bodies,
                 ERROR_CODES, err_count, history>>

FinishOwner ==
  /\ pc = "mutation" /\ mutation \notin Mutations
  /\ owner' = owner + 1
  /\ pc' = "owners"
  /\ UNCHANGED <<session, body_map, mutation, current, results, ERROR_CODES,
                 err_count, history>>

MutatorExhaustedRestarting ==
  /\ pc = "mutants"
  /\ mutation' = 1
  /\ pc' = "mutation"
  /\ UNCHANGED <<session, body_map, owner, current, results, ERROR_CODES, err_count,
                 history>>

(* mutator.next() answers None.                                            *)
MutatorExhausted ==
  /\ pc = "mutants"
  /\ mutation' = mutation + 1
  /\ pc' = "mutation"
  /\ UNCHANGED <<session, body_map, owner, current, results, ERROR_CODES, err_count,
                 history>>

(* mutator.next() panics, outside the catch_unwind too.                    *)
MutatorPanics ==
  /\ pc = "mutants"
  /\ pc' = "aborted"
  /\ UNCHANGED <<session, body_map, owner, mutation, current, results, ERROR_CODES,
                 err_count, history>>

(* mutator.next() answers Some: the mutant is counted, then DO_BORROWCK is *)
(* read outside the catch_unwind, so its panic ends the session.           *)
NextMutant ==
  /\ pc = "mutants" /\ Len(history) < MaxMutants
  /\ current' = <<owner, mutation, current[3] + 1>>
  /\ Count("instances")
  /\ pc' = CASE Panics("DO_BORROWCK") -> "aborted"
             [] Enabled("DO_BORROWCK", TRUE) -> "track"
             [] OTHER -> "log"
  /\ history' = Append(history, [mutant |-> current', verdict |-> "NoRun", codes |-> {}])
  /\ UNCHANGED <<session, body_map, owner, mutation, mutants_log, passed_bodies,
                 ERROR_CODES, err_count>>

-----------------------------------------------------------------------------

(* The closure under catch_unwind, in its order.                           *)

TrackWithoutClearing ==
  /\ pc = "track"
  /\ pc' = "borrowck"
  /\ UNCHANGED <<session, body_map, owner, mutation, current, results, ERROR_CODES,
                 err_count, history>>

track_body_error_codes ==
  /\ pc = "track"
  /\ ERROR_CODES' = {}
  /\ pc' = "borrowck"
  /\ UNCHANGED <<session, body_map, owner, mutation, current, results, err_count,
                 history>>

(* do_mir_borrowck: the tracker records the codes of the diagnostics it    *)
(* emits, and the session counts that there were errors.                   *)
do_mir_borrowck(verdict, codes) ==
  /\ pc = "borrowck"
  /\ ERROR_CODES' = ERROR_CODES \cup codes
  /\ err_count' = IF verdict = "Passed" THEN err_count ELSE err_count + 1
  /\ history' = [history EXCEPT ![Len(history)].verdict = verdict,
                                ![Len(history)].codes = codes]
  /\ pc' = verdict
  /\ UNCHANGED <<session, body_map, owner, mutation, current, results>>

CountFailedAsPanicked ==
  /\ pc = "Failed"
  /\ mutator_results' = [mutator_results EXCEPT
       ![mutation].panicked = @ + 1, ![mutation].error_codes = @ \cup ERROR_CODES]
  /\ pc' = "log"
  /\ UNCHANGED <<session, body_map, owner, mutation, current, mutants_log,
                 passed_bodies, ERROR_CODES, err_count, history>>

(* tainted_by_errors is set: every code registered since the last call of  *)
(* track_body_error_codes is put down to this mutation.                    *)
CountFailed ==
  /\ pc = "Failed"
  /\ mutator_results' = [mutator_results EXCEPT
       ![mutation].failed = @ + 1, ![mutation].error_codes = @ \cup ERROR_CODES]
  /\ pc' = "log"
  /\ UNCHANGED <<session, body_map, owner, mutation, current, mutants_log,
                 passed_bodies, ERROR_CODES, err_count, history>>

(* The mutant is counted before PCG_VISUALIZATION is read.  Only the last  *)
(* mutant of a function that passed is kept for the visualisation.         *)
CountPassed ==
  /\ pc = "Passed"
  /\ Count("passed")
  /\ passed_bodies' =
       IF Enabled("PCG_VISUALIZATION", FALSE)
         THEN [o \in DOMAIN passed_bodies \cup {owner} |->
                 IF o = owner THEN current ELSE passed_bodies[o]]
         ELSE passed_bodies
  /\ pc' = IF Panics("PCG_VISUALIZATION") THEN "Panicked" ELSE "log"
  /\ UNCHANGED <<session, body_map, owner, mutation, current, mutants_log,
                 ERROR_CODES, err_count, history>>

BorrowCheckInfo ==
  [verdict |-> history[Len(history)].verdict,
   codes   |-> IF history[Len(history)].verdict = "Failed" THEN ERROR_CODES ELSE {}]

LogWithoutReset ==
  /\ pc = "log"
  /\ mutants_log' =
       IF Enabled("MUTANTS_LOG", FALSE)
         THEN Append(mutants_log, [mutant |-> current, info |-> BorrowCheckInfo])
         ELSE mutants_log
  /\ pc' = IF Panics("MUTANTS_LOG") THEN "Panicked" ELSE "mutants"
  /\ UNCHANGED <<session, body_map, owner, mutation, current, mutator_results,
                 passed_bodies, ERROR_CODES, err_count, history>>

(* The log gets its entry, keyed by the length of the log, and the errors  *)
(* of the mutant are taken back from the session.                          *)
LogAndReset ==
  /\ pc = "log"
  /\ mutants_log' =
       IF Enabled("MUTANTS_LOG", FALSE)
         THEN Append(mutants_log, [mutant |-> current, info |-> BorrowCheckInfo])
         ELSE mutants_log
  /\ IF Panics("MUTANTS_LOG")
       THEN pc' = "Panicked" /\ err_count' = err_count
       ELSE pc' = "mutants" /\ err_count' = 0
  /\ UNCHANGED <<session, body_map, owner, mutation, current, mutator_results,
                 passed_bodies, ERROR_CODES, history>>

CountPanickedAndLog ==
  /\ pc = "Panicked"
  /\ Count("panicked")
  /\ mutants_log' = IF Enabled("MUTANTS_LOG", FALSE)
                      THEN Append(mutants_log, [mutant |-> current, info |-> BorrowCheckInfo])
                      ELSE mutants_log
  /\ pc' = "mutants"
  /\ UNCHANGED <<session, body_map, owner, mutation, current,
                 passed_bodies, ERROR_CODES, err_count, history>>

CountPanickedAndPassed ==
  /\ pc = "Panicked"
  /\ mutator_results' = [mutator_results EXCEPT
       ![mutation].panicked = @ + 1, ![mutation].passed = @ + 1]
  /\ pc' = "mutants"
  /\ UNCHANGED <<session, body_map, owner, mutation, current, mutants_log,
                 passed_bodies, ERROR_CODES, err_count, history>>

(* The unwind was caught.  Neither the log nor reset_err_count ran.        *)
CountPanicked ==
  /\ pc = "Panicked"
  /\ Count("panicked")
  /\ pc' = "mutants"
  /\ UNCHANGED <<session, body_map, owner, mutation, current, mutants_log,
                 passed_bodies, ERROR_CODES, err_count, history>>

-----------------------------------------------------------------------------

CheckMutant ==
  \/ track_body_error_codes
  \/ \E verdict \in {"Passed", "Failed", "Panicked"}, codes \in SUBSET Codes :
       do_mir_borrowck(verdict, codes)
  \/ CountFailed
  \/ CountPassed
  \/ LogAndReset
  \/ CountPanicked

Next ==
  \/ \E o \in Owners : mir_borrowck(o)
  \/ TakeBodies
  \/ SkipOwner
  \/ TestOwner
  \/ Finish
  \/ StartMutation
  \/ FinishOwner
  \/ MutatorExhausted
  \/ NextMutant
  \/ run_pcgPanics
  \/ MutatorPanics
  \/ CheckMutant

(* The session is one sequential program; a mutator runs dry (Mutator.tla) *)
(* and the borrow checker returns or unwinds.                              *)
Spec == Init /\ [][Next]_vars /\ WF_vars(Next)

-----------------------------------------------------------------------------

BorrowckOn == env["DO_BORROWCK"] \in {"unset", "true"}
WellFormedEnv == \A feature \in DOMAIN env : ~Panics(feature)

(* No mutant is being checked.                                             *)
AtRest == pc \in {"analysis", "owners", "mutation", "mutants", "done"}

Verdicts(n, verdict) ==
  {i \in 1..Len(history) : history[i].mutant[2] = n /\ history[i].verdict = verdict}

(* Type invariant.                                                         *)
TypeOK ==
  /\ crate \in [Owners -> OwnerKinds]
  /\ env \in [{"DO_BORROWCK", "PCG_VISUALIZATION", "MUTANTS_LOG"} -> FeatureValues]
  /\ pc \in {"analysis", "owners", "mutation", "mutants", "track", "borrowck",
             "Passed", "Failed", "Panicked", "log", "done", "aborted"}
  /\ body_map \subseteq Owners
  /\ owner \in 1..NumOwners + 1 /\ mutation \in 1..NumMutations + 1
  /\ current \in Seq(Nat)
  /\ DOMAIN mutator_results \subseteq Mutations
  /\ \A n \in DOMAIN mutator_results :
       mutator_results[n] \in [instances : Nat, passed : Nat, failed : Nat,
                              panicked : Nat, error_codes : SUBSET Codes]
  /\ ERROR_CODES \subseteq Codes
  /\ err_count \in Nat

(* Every mutant handed to the borrow checker is counted once, as passed,   *)
(* failed or panicked; only the mutant being checked is not counted yet.   *)
(* (An environment variable with an unexpected value makes the closure     *)
(* panic after it has counted, and the mutant is counted twice.)           *)
CountsAddUp ==
  BorrowckOn /\ WellFormedEnv =>
    \A n \in DOMAIN mutator_results :
      mutator_results[n].instances =
        mutator_results[n].passed + mutator_results[n].failed
          + mutator_results[n].panicked
          + (IF n = mutation /\ pc \in {"track", "borrowck", "Passed", "Failed", "Panicked"}
               THEN 1 ELSE 0)

(* The counts are those of the verdicts the borrow checker gave, for the   *)
(* mutation that made the mutant.                                          *)
VerdictsCounted ==
  AtRest /\ WellFormedEnv =>
    \A n \in DOMAIN mutator_results :
      /\ mutator_results[n].passed = Cardinality(Verdicts(n, "Passed"))
      /\ mutator_results[n].failed = Cardinality(Verdicts(n, "Failed"))
      /\ mutator_results[n].panicked = Cardinality(Verdicts(n, "Panicked"))

(* A mutation answers for the error codes of its own rejected mutants and  *)
(* no others: not for those a panicking mutant emitted before, nor for     *)
(* those of another mutation.                                              *)
CodesAttributed ==
  AtRest =>
    \A n \in DOMAIN mutator_results :
      mutator_results[n].error_codes =
        UNION {history[i].codes : i \in Verdicts(n, "Failed")}

(* The mutants among the first k that do not panic: the log has an entry   *)
(* for each.                                                               *)
Logged(k) == {i \in 1..k : history[i].verdict # "Panicked"}

(* The mutants log and the counts tell the same story: the log holds, in   *)
(* order, every mutant that did not panic, with its verdict and its codes. *)
LogIsHistory ==
  AtRest /\ WellFormedEnv /\ env["MUTANTS_LOG"] = "true" =>
    /\ Len(mutants_log) = Cardinality(Logged(Len(history)))
    /\ \A i \in Logged(Len(history)) :
         LET entry == mutants_log[Cardinality(Logged(i))]
         IN  /\ entry.mutant = history[i].mutant
             /\ entry.info.verdict = history[i].verdict
             /\ entry.info.codes =
                  (IF history[i].verdict = "Failed" THEN history[i].codes ELSE {})

(* The errors of the mutants do not make the compilation of the crate      *)
(* fail: none is left in the session but those of a panicking mutant that  *)
(* no other followed.                                                      *)
ErrorsTakenBack ==
  pc = "done" /\ WellFormedEnv /\ err_count > 0 =>
    history[Len(history)].verdict = "Panicked"

(* The session ends: with results, or aborted by a panic outside the       *)
(* catch_unwind.                                                           *)
EventuallyOver == <>(pc \in {"done", "aborted"})

=============================================================================

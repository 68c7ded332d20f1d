------------------------- MODULE MutationRunProofs -------------------------
(***************************************************************************)
(* Theorems about MutationRun, for any number of owners, mutations and     *)
(* mutants, any set of codes and any setting of the environment: the       *)
(* types, that every mutant is counted once and under its verdict, that    *)
(* codes go to the mutation whose mutant made them be emitted, and that no *)
(* error of a mutant outlives the mutants that follow it.                  *)
(***************************************************************************)
EXTENDS MutationRun, SequenceTheorems, FiniteSetTheorems, TLAPS

Checking == {"track", "borrowck", "Passed", "Failed", "Panicked"}
Data == [instances : Nat, passed : Nat, failed : Nat, panicked : Nat,
         error_codes : SUBSET Codes]

(* Between StartMutation and MutatorExhausted the owner and the mutation   *)
(* are real ones, the mutation has its entry and current is a mutant.      *)
InMutation ==
  /\ pc \in {"mutation", "mutants", "log"} \cup Checking => owner \in Owners
  /\ pc \in {"mutants", "log"} \cup Checking =>
       /\ mutation \in Mutations /\ mutation \in DOMAIN mutator_results
       /\ Len(current) = 3

TypeInv ==
  /\ TypeOK
  /\ mutator_results \in [DOMAIN mutator_results -> Data]
  /\ InMutation

Pending(n) == IF n = mutation /\ pc \in Checking THEN 1 ELSE 0

Tally(d, k) == d.instances = d.passed + d.failed + d.panicked + k

-----------------------------------------------------------------------------

(* What an entry of the results becomes when a mutant is counted.          *)

LEMMA CountedEntry ==
  ASSUME NEW d \in Data
  PROVE  /\ [d EXCEPT !["instances"] = @ + 1] \in Data
         /\ Tally(d, 0) => Tally([d EXCEPT !["instances"] = @ + 1], 1)
         /\ [d EXCEPT !["passed"] = @ + 1] \in Data
         /\ Tally(d, 1) => Tally([d EXCEPT !["passed"] = @ + 1], 0)
         /\ [d EXCEPT !["panicked"] = @ + 1] \in Data
         /\ Tally(d, 1) => Tally([d EXCEPT !["panicked"] = @ + 1], 0)
  BY DEF Data, Tally

LEMMA FailedEntry ==
  ASSUME NEW d \in Data, NEW C \in SUBSET Codes
  PROVE  /\ [d EXCEPT !.failed = @ + 1, !.error_codes = @ \cup C] \in Data
         /\ Tally(d, 1) => Tally([d EXCEPT !.failed = @ + 1, !.error_codes = @ \cup C], 0)
<1> DEFINE d1 == [d EXCEPT !.failed = @ + 1]
           d2 == [d1 EXCEPT !.error_codes = @ \cup C]
<1>1. d1 \in Data /\ d1.error_codes = d.error_codes /\ (Tally(d, 1) => Tally(d1, 0))
  BY DEF Data, Tally
<1>2. d2 = [d EXCEPT !.failed = @ + 1, !.error_codes = @ \cup C]
  BY <1>1
<1> HIDE DEF d1
<1>3. d2 \in Data /\ (Tally(d1, 0) => Tally(d2, 0))
  BY <1>1 DEF Data, Tally
<1> HIDE DEF d2
<1> QED
  BY <1>1, <1>2, <1>3

LEMMA NewEntry ==
  ASSUME NEW D, NEW r \in [D -> Data], NEW m,
         NEW r2, r2 = [n \in D \cup {m} |-> IF n \in D THEN r[n] ELSE ZeroData]
  PROVE  /\ r2 \in [D \cup {m} -> Data]
         /\ \A n \in D : r2[n] = r[n]
         /\ m \notin D => Tally(r2[m], 0)
  BY DEF Data, Tally, ZeroData

-----------------------------------------------------------------------------

LEMMA InitType == Init => TypeInv
  BY SizesAssumption DEF Init, TypeInv, TypeOK, InMutation, Checking, Owners, Mutations

(* The steps that leave the entries of the results alone.                  *)
LEMMA PlainStepType ==
  ASSUME TypeInv,
         \/ \E o \in Owners : mir_borrowck(o)
         \/ TakeBodies \/ SkipOwner \/ TestOwner \/ Finish \/ FinishOwner
         \/ run_pcgPanics \/ MutatorPanics
         \/ MutatorExhausted \/ track_body_error_codes \/ LogAndReset
         \/ \E verdict \in {"Passed", "Failed", "Panicked"}, codes \in SUBSET Codes :
              do_mir_borrowck(verdict, codes)
  PROVE  TypeInv' /\ mutator_results' = mutator_results
<1>1. CASE \E o \in Owners : mir_borrowck(o)
  BY <1>1 DEF mir_borrowck, TypeInv, TypeOK, InMutation, Checking, results, session
<1>2. CASE TakeBodies
  BY <1>2 DEF TakeBodies, TypeInv, TypeOK, InMutation, Checking, results, session
<1>3. CASE SkipOwner
  BY <1>3, SizesAssumption
  DEF SkipOwner, TypeInv, TypeOK, InMutation, Checking, results, session, Owners
<1>4. CASE TestOwner
  BY <1>4, SizesAssumption
  DEF TestOwner, TypeInv, TypeOK, InMutation, Checking, results, session
<1>5. CASE Finish
  BY <1>5 DEF Finish, TypeInv, TypeOK, InMutation, Checking, results, session
<1>6. CASE FinishOwner
  BY <1>6, SizesAssumption
  DEF FinishOwner, TypeInv, TypeOK, InMutation, Checking, results, session, Owners
<1>7. CASE MutatorExhausted
  BY <1>7, SizesAssumption
  DEF MutatorExhausted, TypeInv, TypeOK, InMutation, Checking, results, session, Mutations
<1>8. CASE track_body_error_codes
  BY <1>8 DEF track_body_error_codes, TypeInv, TypeOK, InMutation, Checking, results, session
<1>9. CASE LogAndReset
  BY <1>9 DEF LogAndReset, TypeInv, TypeOK, InMutation, Checking, results, session
<1>10. CASE \E verdict \in {"Passed", "Failed", "Panicked"}, codes \in SUBSET Codes :
              do_mir_borrowck(verdict, codes)
  BY <1>10 DEF do_mir_borrowck, TypeInv, TypeOK, InMutation, Checking, results, session
<1>11. CASE run_pcgPanics
  BY <1>11 DEF run_pcgPanics, TypeInv, TypeOK, InMutation, Checking, results, session
<1>12. CASE MutatorPanics
  BY <1>12 DEF MutatorPanics, TypeInv, TypeOK, InMutation, Checking, results, session
<1> QED
  BY <1>1, <1>2, <1>3, <1>4, <1>5, <1>6, <1>7, <1>8, <1>9, <1>10, <1>11, <1>12

(* The steps that count.                                                   *)
LEMMA NextMutantStep ==
  ASSUME TypeInv, NextMutant
  PROVE  /\ TypeInv'
         /\ DOMAIN mutator_results' = DOMAIN mutator_results
         /\ \A n \in DOMAIN mutator_results \ {mutation} :
              mutator_results'[n] = mutator_results[n]
         /\ Tally(mutator_results[mutation], 0) => Tally(mutator_results'[mutation], 1)
<1>1. mutator_results' = [mutator_results EXCEPT ![mutation]["instances"] = @ + 1]
  BY DEF NextMutant, Count
<1>2. mutation \in DOMAIN mutator_results /\ mutator_results \in [DOMAIN mutator_results -> Data]
  BY DEF NextMutant, TypeInv, InMutation
<1>3. /\ mutator_results' \in [DOMAIN mutator_results -> Data]
      /\ \A n \in DOMAIN mutator_results \ {mutation} :
           mutator_results'[n] = mutator_results[n]
      /\ Tally(mutator_results[mutation], 0) => Tally(mutator_results'[mutation], 1)
  <2> DEFINE e == [mutator_results[mutation] EXCEPT !["instances"] = @ + 1]
  <2>1. e \in Data /\ (Tally(mutator_results[mutation], 0) => Tally(e, 1))
    BY <1>2, CountedEntry
  <2>2. mutator_results' = [mutator_results EXCEPT ![mutation] = e]
    BY <1>1
  <2> HIDE DEF e
  <2> QED
    BY <1>2, <2>1, <2>2
<1>4. DOMAIN mutator_results' = DOMAIN mutator_results
  BY <1>3
<1>5. current' \in Seq(Nat) /\ Len(current') = 3
  <2>1. current \in Seq(Nat) /\ Len(current) = 3 /\ owner \in Nat /\ mutation \in Nat
    BY SizesAssumption DEF NextMutant, TypeInv, TypeOK, InMutation
  <2>2. current[3] \in Nat
    <3>1. 3 \in 1..Len(current)
      BY <2>1
    <3> QED
      BY <2>1, <3>1, ElementOfSeq
  <2> QED
    BY <2>1, <2>2 DEF NextMutant
<1>6. pc' \in {"aborted", "track", "log"}
  BY DEF NextMutant
<1>7. TypeOK'
  BY <1>3, <1>4, <1>5, <1>6 DEF TypeInv, TypeOK, NextMutant, Data, session
<1>8. InMutation'
  BY <1>2, <1>4, <1>5 DEF TypeInv, InMutation, NextMutant, session, Checking
<1> QED
  BY <1>3, <1>4, <1>7, <1>8 DEF TypeInv

LEMMA VerdictStep ==
  ASSUME TypeInv, CountFailed \/ CountPassed \/ CountPanicked
  PROVE  /\ TypeInv'
         /\ DOMAIN mutator_results' = DOMAIN mutator_results
         /\ \A n \in DOMAIN mutator_results \ {mutation} :
              mutator_results'[n] = mutator_results[n]
         /\ Tally(mutator_results[mutation], 1) => Tally(mutator_results'[mutation], 0)
<1>1. /\ mutation \in DOMAIN mutator_results
      /\ mutator_results \in [DOMAIN mutator_results -> Data]
      /\ ERROR_CODES \in SUBSET Codes
  BY DEF CountFailed, CountPassed, CountPanicked, TypeInv, TypeOK, InMutation, Checking
<1>2. /\ mutator_results' \in [DOMAIN mutator_results -> Data]
      /\ \A n \in DOMAIN mutator_results \ {mutation} :
           mutator_results'[n] = mutator_results[n]
      /\ Tally(mutator_results[mutation], 1) => Tally(mutator_results'[mutation], 0)
  <2> SUFFICES ASSUME NEW e \in Data,
                      mutator_results' = [mutator_results EXCEPT ![mutation] = e],
                      Tally(mutator_results[mutation], 1) => Tally(e, 0)
               PROVE  /\ mutator_results' \in [DOMAIN mutator_results -> Data]
                      /\ \A n \in DOMAIN mutator_results \ {mutation} :
                           mutator_results'[n] = mutator_results[n]
                      /\ Tally(mutator_results[mutation], 1) =>
                           Tally(mutator_results'[mutation], 0)
    <3> DEFINE d == mutator_results[mutation]
    <3>1. d \in Data
      BY <1>1
    <3>2. CASE CountFailed
      <4> DEFINE f == [d EXCEPT !.failed = @ + 1, !.error_codes = @ \cup ERROR_CODES]
      <4>1. mutator_results' = [mutator_results EXCEPT ![mutation] = f]
        BY <3>2 DEF CountFailed
      <4>2. f \in Data /\ (Tally(d, 1) => Tally(f, 0))
        BY <3>1, <1>1, FailedEntry
      <4> QED
        BY <4>1, <4>2
    <3>3. CASE CountPassed
      <4> DEFINE f == [d EXCEPT !["passed"] = @ + 1]
      <4>1. mutator_results' = [mutator_results EXCEPT ![mutation] = f]
        BY <3>3 DEF CountPassed, Count
      <4>2. f \in Data /\ (Tally(d, 1) => Tally(f, 0))
        BY <3>1, CountedEntry
      <4> QED
        BY <4>1, <4>2
    <3>4. CASE CountPanicked
      <4> DEFINE f == [d EXCEPT !["panicked"] = @ + 1]
      <4>1. mutator_results' = [mutator_results EXCEPT ![mutation] = f]
        BY <3>4 DEF CountPanicked, Count
      <4>2. f \in Data /\ (Tally(d, 1) => Tally(f, 0))
        BY <3>1, CountedEntry
      <4> QED
        BY <4>1, <4>2
    <3> QED
      BY <3>2, <3>3, <3>4
  <2> QED
    BY <1>1
<1>3. DOMAIN mutator_results' = DOMAIN mutator_results
  BY <1>2
<1>4. pc' \in {"mutants", "Panicked", "log"} /\ pc \in Checking
  BY DEF CountFailed, CountPassed, CountPanicked, Checking
<1>5. UNCHANGED <<crate, env, body_map, owner, mutation, current, ERROR_CODES, err_count>>
  BY DEF CountFailed, CountPassed, CountPanicked, session
<1>6. TypeOK'
  BY <1>2, <1>3, <1>4, <1>5 DEF TypeInv, TypeOK, Data
<1>7. InMutation'
  BY <1>3, <1>4, <1>5 DEF TypeInv, InMutation, Checking
<1> QED
  BY <1>2, <1>3, <1>6, <1>7 DEF TypeInv

LEMMA StartMutationStep ==
  ASSUME TypeInv, StartMutation
  PROVE  /\ TypeInv'
         /\ DOMAIN mutator_results' = DOMAIN mutator_results \cup {mutation}
         /\ \A n \in DOMAIN mutator_results : mutator_results'[n] = mutator_results[n]
         /\ mutation \notin DOMAIN mutator_results => Tally(mutator_results'[mutation], 0)
<1>1. mutator_results \in [DOMAIN mutator_results -> Data]
  BY DEF TypeInv
<1>2. /\ mutator_results' \in [DOMAIN mutator_results \cup {mutation} -> Data]
      /\ \A n \in DOMAIN mutator_results : mutator_results'[n] = mutator_results[n]
      /\ mutation \notin DOMAIN mutator_results => Tally(mutator_results'[mutation], 0)
  BY <1>1, NewEntry DEF StartMutation
<1>3. DOMAIN mutator_results' = DOMAIN mutator_results \cup {mutation}
  BY <1>2
<1>4. current' \in Seq(Nat) /\ Len(current') = 3
  BY SizesAssumption DEF TypeInv, TypeOK, StartMutation
<1>5. TypeOK'
  BY <1>2, <1>3, <1>4 DEF TypeInv, TypeOK, StartMutation, Data, session
<1>6. InMutation'
  BY <1>3, <1>4 DEF TypeInv, InMutation, StartMutation, session, Checking
<1> QED
  BY <1>2, <1>3, <1>5, <1>6 DEF TypeInv

LEMMA NextType == TypeInv /\ [Next]_vars => TypeInv'
<1> SUFFICES ASSUME TypeInv, [Next]_vars
             PROVE  TypeInv'
  OBVIOUS
<1>1. CASE NextMutant
  BY <1>1, NextMutantStep
<1>2. CASE StartMutation
  BY <1>2, StartMutationStep
<1>3. CASE CountFailed \/ CountPassed \/ CountPanicked
  BY <1>3, VerdictStep
<1>4. CASE UNCHANGED vars
  BY <1>4 DEF TypeInv, TypeOK, InMutation, vars, session, results
<1> QED
  BY <1>1, <1>2, <1>3, <1>4, PlainStepType DEF Next, CheckMutant

(* The session's state is well formed: an owner being tested is an owner,  *)
(* every mutation that makes a mutant has an entry in the results, and no  *)
(* code is recorded that no diagnostic carries (src/main.rs, 190-283).     *)
THEOREM MutationRunTypeOK == Spec => []TypeOK
<1>1. TypeInv => TypeOK
  BY DEF TypeInv
<1> QED
  BY <1>1, InitType, NextType, PTL DEF Spec

-----------------------------------------------------------------------------

(* Whatever is counted is in the tally of its mutation, the mutant being   *)
(* checked being the one instance without a verdict.                       *)
CountsInv ==
  BorrowckOn /\ WellFormedEnv =>
    \A n \in DOMAIN mutator_results : Tally(mutator_results[n], Pending(n))

LEMMA InitCounts == Init => CountsInv
  BY DEF Init, CountsInv

LEMMA NextCounts == TypeInv /\ CountsInv /\ [Next]_vars => CountsInv'
<1> SUFFICES ASSUME TypeInv, CountsInv, [Next]_vars, (BorrowckOn /\ WellFormedEnv)',
                    NEW n \in DOMAIN mutator_results'
             PROVE  Tally(mutator_results[n], Pending(n))'
  BY DEF CountsInv
<1>1. env' = env
  BY DEF Next, CheckMutant, vars, session, mir_borrowck, TakeBodies, SkipOwner, TestOwner,
         Finish, StartMutation, FinishOwner, MutatorExhausted, NextMutant,
         track_body_error_codes, do_mir_borrowck, CountFailed, CountPassed, LogAndReset,
         CountPanicked, run_pcgPanics, MutatorPanics
<1>2. BorrowckOn /\ WellFormedEnv
  BY <1>1 DEF BorrowckOn, WellFormedEnv, Panics
<1>3. \A k \in DOMAIN mutator_results : Tally(mutator_results[k], Pending(k))
  BY <1>2 DEF CountsInv
<1>4. CASE NextMutant
  <2>1. DOMAIN mutator_results' = DOMAIN mutator_results /\ mutation' = mutation
    BY <1>4, NextMutantStep DEF NextMutant
  <2>2. pc = "mutants" /\ pc' = "track"
    BY <1>4, <1>2 DEF NextMutant, BorrowckOn, Panics, Enabled
  <2> QED
    BY <1>3, <1>4, <2>1, <2>2, NextMutantStep DEF Pending, Checking
<1>5. CASE StartMutation
  <2>1. pc = "mutation" /\ pc' = "mutants" /\ mutation' = mutation
    BY <1>5 DEF StartMutation
  <2> QED
    BY <1>3, <1>5, <2>1, StartMutationStep DEF Pending, Checking
<1>6. CASE CountFailed \/ CountPassed \/ CountPanicked
  <2>1. pc \in Checking /\ pc' \notin Checking /\ mutation' = mutation
    BY <1>6, <1>2, TypeInv
    DEF CountFailed, CountPassed, CountPanicked, Checking, WellFormedEnv, Panics, TypeInv, TypeOK
  <2> QED
    BY <1>3, <1>6, <2>1, VerdictStep DEF Pending
<1>7. CASE UNCHANGED vars
  BY <1>3, <1>7 DEF vars, results, Pending
<1>8. CASE \/ \E o \in Owners : mir_borrowck(o)
           \/ TakeBodies \/ SkipOwner \/ TestOwner \/ Finish \/ FinishOwner
           \/ run_pcgPanics \/ MutatorPanics
           \/ MutatorExhausted \/ track_body_error_codes \/ LogAndReset
           \/ \E verdict \in {"Passed", "Failed", "Panicked"}, codes \in SUBSET Codes :
                do_mir_borrowck(verdict, codes)
  <2>1. mutator_results' = mutator_results
    BY <1>8, PlainStepType
  <2>2. Pending(n)' = Pending(n)
    BY <1>8, <1>2
    DEF mir_borrowck, TakeBodies, SkipOwner, TestOwner, Finish, FinishOwner,
        run_pcgPanics, MutatorPanics, MutatorExhausted, track_body_error_codes,
        do_mir_borrowck, LogAndReset,
        Pending, Checking, WellFormedEnv, Panics, TypeInv, TypeOK
  <2> QED
    BY <1>3, <2>1, <2>2
<1> QED
  BY <1>4, <1>5, <1>6, <1>7, <1>8 DEF Next, CheckMutant

(* However the borrow checker answers, and wherever it panics, a mutant is *)
(* counted once: instances is the sum of the verdicts and of the mutant    *)
(* being checked (src/main.rs, 213-282).                                   *)
THEOREM MutationRunCountsAddUp == Spec => []CountsAddUp
<1>1. CountsInv => CountsAddUp
  BY DEF CountsInv, CountsAddUp, Tally, Pending, Checking
<1> QED
  BY <1>1, InitType, NextType, InitCounts, NextCounts, PTL DEF Spec

-----------------------------------------------------------------------------

(* What the counts and the codes of an entry stand for: the verdicts of    *)
(* the mutants of its mutation, but for the one given last, which is       *)
(* counted in the step after.                                              *)

Entry == [mutant : Seq(Nat), verdict : {"NoRun", "Passed", "Failed", "Panicked"},
          codes : SUBSET Codes]
last == history[Len(history)]

Latest ==
  /\ history \in Seq(Entry)
  /\ \A i \in 1..Len(history) : history[i].mutant[2] \in DOMAIN mutator_results
  /\ pc \in {"track", "borrowck", "Passed", "Failed"} =>
       Len(history) > 0 /\ last.mutant[2] = mutation
  /\ pc \in {"track", "borrowck"} => last.verdict = "NoRun"
  /\ pc \in {"Passed", "Failed"} => last.verdict = pc
  /\ WellFormedEnv /\ pc = "Panicked" =>
       Len(history) > 0 /\ last.mutant[2] = mutation /\ last.verdict = "Panicked"
  /\ pc = "borrowck" => ERROR_CODES = {}
  /\ pc = "Failed" => ERROR_CODES = last.codes

Awaited(n, verdict) == IF n = mutation /\ pc = verdict THEN 1 ELSE 0

CountedInv ==
  WellFormedEnv =>
    \A n \in DOMAIN mutator_results :
      /\ mutator_results[n].passed + Awaited(n, "Passed") = Cardinality(Verdicts(n, "Passed"))
      /\ mutator_results[n].failed + Awaited(n, "Failed") = Cardinality(Verdicts(n, "Failed"))
      /\ mutator_results[n].panicked + Awaited(n, "Panicked") = Cardinality(Verdicts(n, "Panicked"))

AwaitedCodes(n) == IF n = mutation /\ pc = "Failed" THEN ERROR_CODES ELSE {}

CodesInv ==
  \A n \in DOMAIN mutator_results :
    mutator_results[n].error_codes \cup AwaitedCodes(n) =
      UNION {history[i].codes : i \in Verdicts(n, "Failed")}

(* The environment is read, never written.                                 *)
LEMMA EnvIsKept ==
  ASSUME [Next]_vars
  PROVE  env' = env /\ WellFormedEnv' = WellFormedEnv
<1>1. env' = env
  BY DEF Next, CheckMutant, vars, session, mir_borrowck, TakeBodies, SkipOwner, TestOwner,
         Finish, StartMutation, FinishOwner, MutatorExhausted, NextMutant,
         track_body_error_codes, do_mir_borrowck, CountFailed, CountPassed, LogAndReset,
         CountPanicked, run_pcgPanics, MutatorPanics
<1> QED
  BY <1>1 DEF WellFormedEnv, Panics

(* The steps that give no verdict and count nothing.                       *)
QuietStep ==
  \/ \E o \in Owners : mir_borrowck(o)
  \/ TakeBodies \/ SkipOwner \/ TestOwner \/ Finish \/ FinishOwner
  \/ run_pcgPanics \/ MutatorPanics
  \/ MutatorExhausted \/ track_body_error_codes \/ LogAndReset
  \/ UNCHANGED vars

LEMMA QuietLatest ==
  ASSUME TypeInv, Latest, [Next]_vars, QuietStep
  PROVE  /\ Latest' /\ UNCHANGED <<mutator_results, history>>
         /\ \A n \in DOMAIN mutator_results, verdict \in {"Passed", "Failed", "Panicked"} :
              WellFormedEnv => Awaited(n, verdict)' = Awaited(n, verdict)
         /\ \A n \in DOMAIN mutator_results : AwaitedCodes(n)' = AwaitedCodes(n)
<1>0. WellFormedEnv' = WellFormedEnv
  BY EnvIsKept
<1>1. CASE UNCHANGED vars
  BY <1>0, <1>1 DEF vars, results, Latest, last, Awaited, AwaitedCodes
<1>2. CASE track_body_error_codes
  BY <1>0, <1>2 DEF track_body_error_codes, results, Latest, last, Awaited, AwaitedCodes
<1>3. CASE LogAndReset
  <2>1. /\ UNCHANGED <<mutator_results, history, mutation>>
        /\ pc = "log" /\ (pc' = "mutants" \/ (pc' = "Panicked" /\ ~WellFormedEnv))
    <3>1. Panics("MUTANTS_LOG") => ~WellFormedEnv
      BY DEF WellFormedEnv, TypeInv, TypeOK
    <3> QED
      BY <1>3, <3>1 DEF LogAndReset
  <2> QED
    BY <1>0, <2>1 DEF Latest, last, Awaited, AwaitedCodes
<1>4. CASE \/ \E o \in Owners : mir_borrowck(o)
           \/ TakeBodies \/ SkipOwner \/ TestOwner \/ Finish \/ FinishOwner
           \/ run_pcgPanics \/ MutatorPanics
           \/ MutatorExhausted
  <2>1. /\ UNCHANGED <<mutator_results, history>>
        /\ pc \in {"analysis", "owners", "mutation", "mutants"}
        /\ pc' \in {"analysis", "owners", "mutation", "done", "aborted"}
    BY <1>4 DEF mir_borrowck, TakeBodies, SkipOwner, TestOwner, Finish, FinishOwner,
                run_pcgPanics, MutatorPanics, MutatorExhausted, results
  <2> QED
    BY <1>0, <2>1 DEF Latest, last, Awaited, AwaitedCodes
<1> QED
  BY <1>1, <1>2, <1>3, <1>4 DEF QuietStep

(* A mutant that is made has no verdict yet.                               *)
LEMMA NextMutantLatest ==
  ASSUME TypeInv, Latest, NextMutant
  PROVE  /\ Latest'
         /\ \A n, verdict : verdict # "NoRun" => Verdicts(n, verdict)' = Verdicts(n, verdict)
         /\ \A i \in 1..Len(history) : history'[i] = history[i]
<1> DEFINE new == [mutant |-> current', verdict |-> "NoRun", codes |-> {}]
<1>1. /\ history' = Append(history, new) /\ current' = <<owner, mutation, current[3] + 1>>
      /\ pc' \in {"aborted", "track", "log"} /\ mutation' = mutation
  BY DEF NextMutant
<1>2. history \in Seq(Entry)
  BY DEF Latest
<1>3. TypeInv' /\ DOMAIN mutator_results' = DOMAIN mutator_results
  BY NextMutantStep
<1>4. current' \in Seq(Nat) /\ mutation \in DOMAIN mutator_results
  BY <1>3 DEF TypeInv, TypeOK, InMutation, NextMutant
<1>5. new \in Entry /\ new.mutant[2] = mutation
  BY <1>1, <1>4 DEF Entry
<1> HIDE DEF new
<1>6. /\ history' \in Seq(Entry) /\ Len(history') = Len(history) + 1
      /\ \A i \in 1..Len(history) : history'[i] = history[i]
      /\ history'[Len(history) + 1] = new /\ Len(history) \in Nat
  BY <1>1, <1>2, <1>5
<1>7. new.verdict = "NoRun"
  BY DEF new
<1>8. Latest'
  BY <1>1, <1>3, <1>4, <1>5, <1>6, <1>7 DEF Latest, last
<1>9. ASSUME NEW n, NEW verdict, verdict # "NoRun"
      PROVE  Verdicts(n, verdict)' = Verdicts(n, verdict)
  BY <1>6, <1>7, <1>9 DEF Verdicts
<1> QED
  BY <1>6, <1>8, <1>9

(* The borrow checker gives the mutant made last its verdict.              *)
LEMMA VerdictLatest ==
  ASSUME TypeInv, Latest, NEW given \in {"Passed", "Failed", "Panicked"},
         NEW codes \in SUBSET Codes, do_mir_borrowck(given, codes), [Next]_vars
  PROVE  /\ Latest'
         /\ Len(history) \in Nat \ {0}
         /\ Len(history) \notin Verdicts(mutation, given)
         /\ \A n : n = mutation =>
              Verdicts(n, given)' = Verdicts(n, given) \cup {Len(history)}
         /\ \A n, verdict : verdict \in {"Passed", "Failed", "Panicked"} /\ (n # mutation \/ verdict # given)
              => Verdicts(n, verdict)' = Verdicts(n, verdict)
         /\ \A i \in 1..Len(history) :
              history'[i].codes = IF i = Len(history) THEN codes ELSE history[i].codes
<1> DEFINE k == Len(history)
           e1 == [history[k] EXCEPT !.verdict = given]
           e2 == [e1 EXCEPT !.codes = codes]
<1>1. /\ pc = "borrowck" /\ pc' = given /\ UNCHANGED <<mutation, mutator_results, env>>
      /\ ERROR_CODES' = ERROR_CODES \cup codes
      /\ history' = [history EXCEPT ![k].verdict = given, ![k].codes = codes]
  BY DEF do_mir_borrowck, results, session
<1>2. /\ history \in Seq(Entry) /\ k > 0 /\ last.mutant[2] = mutation /\ last.verdict = "NoRun"
      /\ ERROR_CODES = {} /\ k \in Nat
  BY <1>1 DEF Latest
<1>3. k \in 1..k /\ history[k] \in Entry
  BY <1>2
<1>4. e1 \in Entry /\ e1.verdict = given /\ e1.mutant = history[k].mutant
  BY <1>3 DEF Entry
<1> HIDE DEF e1
<1>5. e2 \in Entry /\ e2.verdict = given /\ e2.codes = codes /\ e2.mutant = history[k].mutant
  BY <1>4 DEF Entry
<1>6. history' = [history EXCEPT ![k] = e2]
  BY <1>1, <1>2, <1>3 DEF e1
<1> HIDE DEF e2
<1>7. /\ history' \in Seq(Entry) /\ Len(history') = k /\ history'[k] = e2
      /\ \A i \in 1..k : i # k => history'[i] = history[i]
  BY <1>2, <1>3, <1>5, <1>6, ExceptSeq
<1>8. ASSUME NEW i \in 1..k
      PROVE  /\ history'[i].mutant = history[i].mutant
             /\ history'[i].verdict = IF i = k THEN given ELSE history[i].verdict
             /\ history'[i].codes = IF i = k THEN codes ELSE history[i].codes
  BY <1>5, <1>7
<1>9. WellFormedEnv' = WellFormedEnv
  BY EnvIsKept
<1>10. Latest'
  <2>1. last' = e2 /\ Len(history') > 0
    BY <1>2, <1>7 DEF last
  <2>2. e2.mutant[2] = mutation
    BY <1>2, <1>5 DEF last
  <2>3. \A i \in 1..Len(history') : history'[i].mutant[2] \in DOMAIN mutator_results'
    BY <1>1, <1>7, <1>8 DEF Latest
  <2>4. ERROR_CODES' = codes
    BY <1>1, <1>2
  <2> QED
    BY <1>1, <1>5, <1>7, <2>1, <2>2, <2>3, <2>4 DEF Latest
<1>11. k \notin Verdicts(mutation, given)
  BY <1>2 DEF Verdicts, last
<1>12. \A n : n = mutation => Verdicts(n, given)' = Verdicts(n, given) \cup {k}
  BY <1>1, <1>2, <1>3, <1>7, <1>8 DEF Verdicts, last
<1>13. ASSUME NEW n, NEW verdict \in {"Passed", "Failed", "Panicked"}, n # mutation \/ verdict # given
       PROVE  Verdicts(n, verdict)' = Verdicts(n, verdict)
  BY <1>1, <1>2, <1>3, <1>7, <1>8, <1>13 DEF Verdicts, last
<1> QED
  BY <1>2, <1>8, <1>10, <1>11, <1>12, <1>13

(* Counting a verdict changes the one count, and the codes if it failed.   *)
LEMMA VerdictEntry ==
  ASSUME TypeInv
  PROVE  /\ CountFailed =>
              /\ mutator_results'[mutation].passed = mutator_results[mutation].passed
              /\ mutator_results'[mutation].failed = mutator_results[mutation].failed + 1
              /\ mutator_results'[mutation].panicked = mutator_results[mutation].panicked
              /\ mutator_results'[mutation].error_codes =
                   mutator_results[mutation].error_codes \cup ERROR_CODES
         /\ CountPassed =>
              /\ mutator_results'[mutation].passed = mutator_results[mutation].passed + 1
              /\ mutator_results'[mutation].failed = mutator_results[mutation].failed
              /\ mutator_results'[mutation].panicked = mutator_results[mutation].panicked
              /\ mutator_results'[mutation].error_codes = mutator_results[mutation].error_codes
         /\ CountPanicked =>
              /\ mutator_results'[mutation].passed = mutator_results[mutation].passed
              /\ mutator_results'[mutation].failed = mutator_results[mutation].failed
              /\ mutator_results'[mutation].panicked = mutator_results[mutation].panicked + 1
              /\ mutator_results'[mutation].error_codes = mutator_results[mutation].error_codes
         /\ NextMutant =>
              /\ mutator_results'[mutation].passed = mutator_results[mutation].passed
              /\ mutator_results'[mutation].failed = mutator_results[mutation].failed
              /\ mutator_results'[mutation].panicked = mutator_results[mutation].panicked
              /\ mutator_results'[mutation].error_codes = mutator_results[mutation].error_codes
<1> DEFINE d == mutator_results[mutation]
<1>1. mutator_results \in [DOMAIN mutator_results -> Data]
  BY DEF TypeInv
<1>2. ASSUME CountFailed \/ CountPassed \/ CountPanicked \/ NextMutant
      PROVE  mutation \in DOMAIN mutator_results /\ d \in Data
  BY <1>1, <1>2 DEF CountFailed, CountPassed, CountPanicked, NextMutant, TypeInv, InMutation, Checking
<1>3. CASE CountFailed
  <2> DEFINE d1 == [d EXCEPT !.failed = @ + 1]
  <2>1. /\ d1 \in Data /\ d1.failed = d.failed + 1 /\ d1.passed = d.passed
        /\ d1.panicked = d.panicked /\ d1.error_codes = d.error_codes
    BY <1>2, <1>3 DEF Data
  <2>2. mutator_results' = [mutator_results EXCEPT ![mutation] =
                              [d1 EXCEPT !.error_codes = @ \cup ERROR_CODES]]
    BY <1>1, <1>2, <1>3, <2>1 DEF CountFailed
  <2> HIDE DEF d, d1
  <2>3. mutator_results'[mutation] = [d1 EXCEPT !.error_codes = @ \cup ERROR_CODES]
    BY <1>1, <1>2, <1>3, <2>2
  <2> DEFINE d2 == [d1 EXCEPT !.error_codes = @ \cup ERROR_CODES]
  <2>4. /\ d2.failed = d1.failed /\ d2.passed = d1.passed /\ d2.panicked = d1.panicked
        /\ d2.error_codes = d1.error_codes \cup ERROR_CODES
    BY <2>1 DEF Data
  <2> HIDE DEF d2
  <2>5. mutator_results'[mutation] = d2
    BY <2>3 DEF d2
  <2> QED
    BY <1>3, <2>1, <2>4, <2>5 DEF d, CountPassed, CountPanicked, NextMutant, CountFailed
<1>4. CASE CountPassed
  <2>1. mutator_results'[mutation] = [d EXCEPT !["passed"] = @ + 1]
    BY <1>1, <1>2, <1>4 DEF CountPassed, Count
  <2> QED
    BY <1>2, <1>4, <2>1 DEF Data, CountPassed, CountPanicked, NextMutant, CountFailed
<1>5. CASE CountPanicked
  <2>1. mutator_results'[mutation] = [d EXCEPT !["panicked"] = @ + 1]
    BY <1>1, <1>2, <1>5 DEF CountPanicked, Count
  <2> QED
    BY <1>2, <1>5, <2>1 DEF Data, CountPassed, CountPanicked, NextMutant, CountFailed
<1>6. CASE NextMutant
  <2>1. mutator_results'[mutation] = [d EXCEPT !["instances"] = @ + 1]
    BY <1>1, <1>2, <1>6 DEF NextMutant, Count
  <2> QED
    BY <1>2, <1>6, <2>1 DEF Data, CountPassed, CountPanicked, NextMutant, CountFailed
<1> QED
  BY <1>3, <1>4, <1>5, <1>6

(* A mutation that has no entry has made no mutant.                        *)
LEMMA StartMutationLatest ==
  ASSUME TypeInv, Latest, StartMutation
  PROVE  /\ Latest' /\ history' = history
         /\ \A n \in DOMAIN mutator_results' \ DOMAIN mutator_results :
              /\ mutator_results'[n] = ZeroData
              /\ \A verdict : Verdicts(n, verdict) = {}
<1>1. /\ pc = "mutation" /\ pc' = "mutants" /\ history' = history
      /\ DOMAIN mutator_results' = DOMAIN mutator_results \cup {mutation}
      /\ mutation \notin DOMAIN mutator_results => mutator_results'[mutation] = ZeroData
  BY DEF StartMutation
<1>2. Latest'
  BY <1>1 DEF Latest, last
<1> QED
  BY <1>1, <1>2 DEF Latest, Verdicts

LEMMA VerdictStepLatest ==
  ASSUME TypeInv, Latest, CountFailed \/ CountPassed \/ CountPanicked, [Next]_vars
  PROVE  Latest' /\ history' = history
<1>1. /\ pc \in {"Failed", "Passed", "Panicked"} /\ UNCHANGED <<history, mutation>>
      /\ pc' \in {"mutants", "Panicked", "log"} /\ WellFormedEnv' = WellFormedEnv
      /\ (pc' = "Panicked" => ~WellFormedEnv)
  BY EnvIsKept DEF CountFailed, CountPassed, CountPanicked, WellFormedEnv, TypeInv, TypeOK
<1>2. DOMAIN mutator_results' = DOMAIN mutator_results
  BY VerdictStep
<1> QED
  BY <1>1, <1>2 DEF Latest, last

LEMMA LatestStep ==
  ASSUME TypeInv, Latest, [Next]_vars
  PROVE  Latest'
<1>1. CASE NextMutant
  BY <1>1, NextMutantLatest
<1>2. CASE StartMutation
  BY <1>2, StartMutationLatest
<1>3. CASE CountFailed \/ CountPassed \/ CountPanicked
  BY <1>3, VerdictStepLatest
<1>4. CASE \E given \in {"Passed", "Failed", "Panicked"}, codes \in SUBSET Codes :
             do_mir_borrowck(given, codes)
  BY <1>4, VerdictLatest
<1>5. CASE QuietStep
  BY <1>5, QuietLatest
<1> QED
  BY <1>1, <1>2, <1>3, <1>4, <1>5 DEF Next, CheckMutant, QuietStep

LEMMA VerdictsAreFinite ==
  ASSUME Latest, NEW n, NEW verdict
  PROVE  IsFiniteSet(Verdicts(n, verdict)) /\ Cardinality(Verdicts(n, verdict)) \in Nat
<1>1. Len(history) \in Nat
  BY DEF Latest
<1>2. IsFiniteSet(1..Len(history))
  <2>1. 1 \in Int /\ Len(history) \in Int
    BY <1>1
  <2> QED
    BY <2>1, FS_Interval
<1>3. Verdicts(n, verdict) \in SUBSET (1..Len(history))
  BY DEF Verdicts
<1>4. IsFiniteSet(Verdicts(n, verdict))
  BY <1>2, <1>3, FS_Subset
<1> QED
  BY <1>4, FS_CardinalityType

LEMMA CountedStep ==
  ASSUME TypeInv, Latest, CountedInv, [Next]_vars
  PROVE  CountedInv'
<1>1. WellFormedEnv' = WellFormedEnv
  BY EnvIsKept
<1> SUFFICES ASSUME WellFormedEnv, NEW n \in DOMAIN mutator_results'
             PROVE  /\ (mutator_results[n].passed + Awaited(n, "Passed")
                           = Cardinality(Verdicts(n, "Passed")))'
                    /\ (mutator_results[n].failed + Awaited(n, "Failed")
                           = Cardinality(Verdicts(n, "Failed")))'
                    /\ (mutator_results[n].panicked + Awaited(n, "Panicked")
                           = Cardinality(Verdicts(n, "Panicked")))'
  BY <1>1 DEF CountedInv
<1>2. ASSUME NEW m \in DOMAIN mutator_results
      PROVE  /\ mutator_results[m].passed + Awaited(m, "Passed") = Cardinality(Verdicts(m, "Passed"))
             /\ mutator_results[m].failed + Awaited(m, "Failed") = Cardinality(Verdicts(m, "Failed"))
             /\ mutator_results[m].panicked + Awaited(m, "Panicked") = Cardinality(Verdicts(m, "Panicked"))
             /\ mutator_results[m] \in Data
  BY DEF CountedInv, TypeInv
<1>3. CASE NextMutant
  <2>1. /\ DOMAIN mutator_results' = DOMAIN mutator_results
        /\ n # mutation => mutator_results'[n] = mutator_results[n]
        /\ pc = "mutants" /\ pc' \in {"aborted", "track", "log"} /\ mutation' = mutation
    BY <1>3, NextMutantStep DEF NextMutant
  <2>2. \A verdict \in {"Passed", "Failed", "Panicked"} : Verdicts(n, verdict)' = Verdicts(n, verdict)
    BY <1>3, NextMutantLatest
  <2> QED
    BY <1>2, <1>3, <2>1, <2>2, VerdictEntry DEF Awaited
<1>4. CASE StartMutation
  <2>1. /\ history' = history /\ pc = "mutation" /\ pc' = "mutants" /\ mutation' = mutation
        /\ \A m \in DOMAIN mutator_results : mutator_results'[m] = mutator_results[m]
    BY <1>4, StartMutationStep DEF StartMutation
  <2>2. \A verdict : Verdicts(n, verdict)' = Verdicts(n, verdict)
    BY <2>1 DEF Verdicts
  <2>3. CASE n \in DOMAIN mutator_results
    BY <1>2, <2>1, <2>2, <2>3 DEF Awaited
  <2>4. CASE n \notin DOMAIN mutator_results
    <3>1. mutator_results'[n] = ZeroData /\ \A verdict : Verdicts(n, verdict) = {}
      BY <1>4, <2>4, StartMutationLatest
    <3> QED
      BY <2>1, <2>2, <3>1, FS_EmptySet DEF Awaited, ZeroData
  <2> QED
    BY <2>3, <2>4
<1>5. CASE CountFailed \/ CountPassed \/ CountPanicked
  <2>1. /\ DOMAIN mutator_results' = DOMAIN mutator_results
        /\ n # mutation => mutator_results'[n] = mutator_results[n]
        /\ history' = history
    BY <1>5, VerdictStep, VerdictStepLatest
  <2>2. \A verdict : Verdicts(n, verdict)' = Verdicts(n, verdict)
    BY <2>1 DEF Verdicts
  <2>3. /\ mutation' = mutation /\ pc' \in {"mutants", "log"}
        /\ CountFailed => pc = "Failed"
        /\ CountPassed => pc = "Passed"
        /\ CountPanicked => pc = "Panicked"
    BY <1>5 DEF CountFailed, CountPassed, CountPanicked, WellFormedEnv, TypeInv, TypeOK
  <2> QED
    BY <1>2, <1>5, <2>1, <2>2, <2>3, VerdictEntry DEF Awaited, Data
<1>6. CASE \E given \in {"Passed", "Failed", "Panicked"}, codes \in SUBSET Codes :
             do_mir_borrowck(given, codes)
  <2>1. PICK given \in {"Passed", "Failed", "Panicked"}, codes \in SUBSET Codes :
          do_mir_borrowck(given, codes)
    BY <1>6
  <2>2. /\ pc = "borrowck" /\ pc' = given /\ UNCHANGED <<mutation, mutator_results>>
    BY <2>1 DEF do_mir_borrowck, results
  <2>3. ASSUME NEW verdict \in {"Passed", "Failed", "Panicked"}
        PROVE  Cardinality(Verdicts(n, verdict)') =
                 Cardinality(Verdicts(n, verdict)) + (IF n = mutation /\ verdict = given THEN 1 ELSE 0)
    <3>1. CASE n = mutation /\ verdict = given
      <4>1. /\ Verdicts(n, verdict)' = Verdicts(n, verdict) \cup {Len(history)}
            /\ Len(history) \notin Verdicts(n, verdict)
        BY <2>1, <3>1, VerdictLatest
      <4> QED
        BY <3>1, <4>1, VerdictsAreFinite, FS_AddElement
    <3>2. CASE ~(n = mutation /\ verdict = given)
      <4>1. Verdicts(n, verdict)' = Verdicts(n, verdict)
        BY <2>1, <3>2, VerdictLatest
      <4> QED
        BY <3>2, <4>1, VerdictsAreFinite
    <3> QED
      BY <3>1, <3>2
  <2> QED
    BY <1>2, <2>2, <2>3 DEF Awaited, Data
<1>7. CASE QuietStep
  <2>1. /\ UNCHANGED <<mutator_results, history>>
        /\ \A verdict \in {"Passed", "Failed", "Panicked"} : Awaited(n, verdict)' = Awaited(n, verdict)
    BY <1>7, QuietLatest
  <2>2. \A verdict : Verdicts(n, verdict)' = Verdicts(n, verdict)
    BY <2>1 DEF Verdicts
  <2> QED
    BY <1>2, <2>1, <2>2
<1> QED
  BY <1>3, <1>4, <1>5, <1>6, <1>7 DEF Next, CheckMutant, QuietStep

LEMMA CodesStep ==
  ASSUME TypeInv, Latest, CodesInv, [Next]_vars
  PROVE  CodesInv'
<1> SUFFICES ASSUME NEW n \in DOMAIN mutator_results'
             PROVE  mutator_results'[n].error_codes \cup AwaitedCodes(n)' =
                      UNION {history'[i].codes : i \in Verdicts(n, "Failed")'}
  BY DEF CodesInv
<1>1. \A m \in DOMAIN mutator_results :
        mutator_results[m].error_codes \cup AwaitedCodes(m) =
          UNION {history[i].codes : i \in Verdicts(m, "Failed")}
  BY DEF CodesInv
<1>2. Verdicts(n, "Failed") \subseteq 1..Len(history)
  BY DEF Verdicts
<1>3. CASE NextMutant
  <2>1. /\ DOMAIN mutator_results' = DOMAIN mutator_results
        /\ n # mutation => mutator_results'[n] = mutator_results[n]
        /\ pc = "mutants" /\ pc' \in {"aborted", "track", "log"}
    BY <1>3, NextMutantStep DEF NextMutant
  <2>2. /\ Verdicts(n, "Failed")' = Verdicts(n, "Failed")
        /\ \A i \in 1..Len(history) : history'[i] = history[i]
    BY <1>3, NextMutantLatest
  <2>3. mutator_results'[n].error_codes = mutator_results[n].error_codes
    BY <1>3, <2>1, VerdictEntry
  <2> QED
    BY <1>1, <1>2, <2>1, <2>2, <2>3 DEF AwaitedCodes
<1>4. CASE StartMutation
  <2>1. /\ history' = history /\ pc = "mutation" /\ pc' = "mutants"
        /\ \A m \in DOMAIN mutator_results : mutator_results'[m] = mutator_results[m]
    BY <1>4, StartMutationStep DEF StartMutation
  <2>2. Verdicts(n, "Failed")' = Verdicts(n, "Failed")
    BY <2>1 DEF Verdicts
  <2>3. CASE n \in DOMAIN mutator_results
    BY <1>1, <2>1, <2>2, <2>3 DEF AwaitedCodes
  <2>4. CASE n \notin DOMAIN mutator_results
    <3>1. mutator_results'[n] = ZeroData /\ Verdicts(n, "Failed") = {}
      BY <1>4, <2>4, StartMutationLatest
    <3> QED
      BY <2>1, <2>2, <3>1 DEF AwaitedCodes, ZeroData
  <2> QED
    BY <2>3, <2>4
<1>5. CASE CountFailed \/ CountPassed \/ CountPanicked
  <2>1. /\ DOMAIN mutator_results' = DOMAIN mutator_results
        /\ n # mutation => mutator_results'[n] = mutator_results[n]
        /\ history' = history
    BY <1>5, VerdictStep, VerdictStepLatest
  <2>2. Verdicts(n, "Failed")' = Verdicts(n, "Failed")
    BY <2>1 DEF Verdicts
  <2>3. /\ pc' # "Failed"
        /\ CountFailed => pc = "Failed"
        /\ CountPassed => pc = "Passed"
        /\ CountPanicked => pc = "Panicked"
    BY <1>5 DEF CountFailed, CountPassed, CountPanicked
  <2> QED
    BY <1>1, <1>5, <2>1, <2>2, <2>3, VerdictEntry DEF AwaitedCodes
<1>6. CASE \E given \in {"Passed", "Failed", "Panicked"}, codes \in SUBSET Codes :
             do_mir_borrowck(given, codes)
  <2>1. PICK given \in {"Passed", "Failed", "Panicked"}, codes \in SUBSET Codes :
          do_mir_borrowck(given, codes)
    BY <1>6
  <2>2. /\ pc = "borrowck" /\ pc' = given /\ UNCHANGED <<mutation, mutator_results>>
        /\ ERROR_CODES' = codes
    BY <2>1 DEF do_mir_borrowck, results, Latest
  <2>3. \A i \in 1..Len(history) :
          history'[i].codes = IF i = Len(history) THEN codes ELSE history[i].codes
    BY <2>1, VerdictLatest
  <2>4. Len(history) \in 1..Len(history) /\ Len(history) \notin Verdicts(n, "Failed")
    BY <2>2 DEF Latest, Verdicts, last
  <2>5. UNION {history'[i].codes : i \in Verdicts(n, "Failed")} =
          UNION {history[i].codes : i \in Verdicts(n, "Failed")}
    BY <1>2, <2>3, <2>4
  <2>6. CASE n = mutation /\ given = "Failed"
    <3>1. Verdicts(n, "Failed")' = Verdicts(n, "Failed") \cup {Len(history)}
      BY <2>1, <2>6, VerdictLatest
    <3>2. history'[Len(history)].codes = codes
      BY <2>3, <2>4
    <3> QED
      BY <1>1, <2>2, <2>5, <2>6, <3>1, <3>2 DEF AwaitedCodes
  <2>7. CASE ~(n = mutation /\ given = "Failed")
    <3>1. Verdicts(n, "Failed")' = Verdicts(n, "Failed")
      BY <2>1, <2>7, VerdictLatest
    <3> QED
      BY <1>1, <2>2, <2>5, <2>7, <3>1 DEF AwaitedCodes
  <2> QED
    BY <2>6, <2>7
<1>7. CASE QuietStep
  <2>1. /\ UNCHANGED <<mutator_results, history>> /\ AwaitedCodes(n)' = AwaitedCodes(n)
    BY <1>7, QuietLatest
  <2>2. Verdicts(n, "Failed")' = Verdicts(n, "Failed")
    BY <2>1 DEF Verdicts
  <2> QED
    BY <1>1, <2>1, <2>2
<1> QED
  BY <1>3, <1>4, <1>5, <1>6, <1>7 DEF Next, CheckMutant, QuietStep

LEMMA InitLatest == Init => Latest /\ CountedInv /\ CodesInv
  BY DEF Init, Latest, CountedInv, CodesInv

(* The counts of a mutation are the verdicts the borrow checker gave on    *)
(* its mutants, when no mutant is being checked (src/main.rs, 220-281).    *)
THEOREM MutationRunVerdictsCounted == Spec => []VerdictsCounted
<1>1. TypeInv /\ CountedInv => VerdictsCounted
  BY DEF CountedInv, VerdictsCounted, Awaited, AtRest, TypeInv, Data
<1> QED
  BY <1>1, InitType, NextType, InitLatest, LatestStep, CountedStep, PTL DEF Spec

(* A mutation answers for the codes of its own rejected mutants and no     *)
(* others, whatever was emitted before (src/errors/mod.rs, 58-80).         *)
THEOREM MutationRunCodesAttributed == Spec => []CodesAttributed
<1>1. CodesInv => CodesAttributed
  BY DEF CodesInv, CodesAttributed, AwaitedCodes, AtRest
<1> QED
  BY <1>1, InitType, NextType, InitLatest, LatestStep, CodesStep, PTL DEF Spec

-----------------------------------------------------------------------------

(* Errors are left in the session only by a mutant that panicked: those of *)
(* any other are taken back before the next step that makes one.           *)
ErrorsInv ==
  WellFormedEnv /\ AtRest /\ err_count > 0 => Len(history) > 0 /\ last.verdict = "Panicked"

LEMMA ErrorsStep ==
  ASSUME TypeInv, Latest, ErrorsInv, [Next]_vars
  PROVE  ErrorsInv'
<1>1. WellFormedEnv' = WellFormedEnv
  BY EnvIsKept
<1> SUFFICES ASSUME WellFormedEnv, AtRest', err_count' > 0
             PROVE  (Len(history) > 0 /\ last.verdict = "Panicked")'
  BY <1>1 DEF ErrorsInv
<1>2. CASE LogAndReset
  BY <1>2 DEF LogAndReset, AtRest
<1>3. CASE CountPanicked
  <2>1. Len(history) > 0 /\ last.verdict = "Panicked" /\ history' = history
    BY <1>3 DEF CountPanicked, Latest
  <2> QED
    BY <2>1 DEF last
<1>4. CASE CountFailed \/ CountPassed \/ NextMutant \/ track_body_error_codes
  BY <1>4 DEF CountFailed, CountPassed, NextMutant, track_body_error_codes, AtRest
<1>5. CASE \E given \in {"Passed", "Failed", "Panicked"}, codes \in SUBSET Codes :
             do_mir_borrowck(given, codes)
  BY <1>5 DEF do_mir_borrowck, AtRest
<1>6. CASE \/ \E o \in Owners : mir_borrowck(o)
           \/ TakeBodies \/ SkipOwner \/ TestOwner \/ Finish \/ FinishOwner
           \/ run_pcgPanics \/ MutatorPanics
           \/ StartMutation \/ MutatorExhausted \/ UNCHANGED vars
  <2>1. AtRest /\ UNCHANGED <<err_count, history>>
    BY <1>6 DEF mir_borrowck, TakeBodies, SkipOwner, TestOwner, Finish, FinishOwner,
                run_pcgPanics, MutatorPanics, StartMutation, MutatorExhausted, vars, AtRest
  <2> QED
    BY <2>1 DEF ErrorsInv, last
<1> QED
  BY <1>2, <1>3, <1>4, <1>5, <1>6 DEF Next, CheckMutant

(* No error of a mutant is left to make the compilation fail, but for one  *)
(* that panicked and that no other followed (src/main.rs, 272-281).        *)
THEOREM MutationRunErrorsTakenBack == Spec => []ErrorsTakenBack
<1>1. Init => ErrorsInv
  BY DEF Init, ErrorsInv
<1>2. ErrorsInv => ErrorsTakenBack
  BY DEF ErrorsInv, ErrorsTakenBack, AtRest, last
<1> QED
  BY <1>1, <1>2, InitType, NextType, InitLatest, LatestStep, ErrorsStep, PTL DEF Spec

-----------------------------------------------------------------------------

(* The log lags behind the history by the mutant under way, which current  *)
(* names; its verdict and codes are those the log will have.               *)

UnderWay == pc \in Checking \cup {"log"}
settled == IF UnderWay THEN Len(history) - 1 ELSE Len(history)

Report == [mutant : Seq(Nat),
           info : [verdict : {"NoRun", "Passed", "Failed", "Panicked"}, codes : SUBSET Codes]]

LogEntry(entry, h) ==
  /\ entry.mutant = h.mutant
  /\ entry.info.verdict = h.verdict
  /\ entry.info.codes = (IF h.verdict = "Failed" THEN h.codes ELSE {})

LogFollows ==
  /\ mutants_log \in Seq(Report)
  /\ Len(mutants_log) = Cardinality(Logged(settled))
  /\ \A i \in Logged(settled) : LogEntry(mutants_log[Cardinality(Logged(i))], history[i])

LogInv ==
  WellFormedEnv =>
    /\ UnderWay => Len(history) > 0 /\ current = last.mutant
    /\ pc = "log" => last.verdict # "Panicked"
    /\ pc = "log" /\ last.verdict = "Failed" => ERROR_CODES = last.codes
    /\ env["MUTANTS_LOG"] = "true" => LogFollows

(* Where the entry of a mutant stands in the log.                          *)
LEMMA LoggedCount ==
  ASSUME NEW k \in Nat
  PROVE  /\ IsFiniteSet(Logged(k)) /\ Cardinality(Logged(k)) \in Nat
         /\ \A i \in Logged(k) : Cardinality(Logged(i)) \in 1..Cardinality(Logged(k))
<1>1. ASSUME NEW j \in Nat
      PROVE  IsFiniteSet(Logged(j)) /\ Cardinality(Logged(j)) \in Nat
  <2>1. IsFiniteSet(1..j)
    BY FS_Interval
  <2>2. Logged(j) \in SUBSET (1..j)
    BY DEF Logged
  <2> QED
    BY <2>1, <2>2, FS_Subset, FS_CardinalityType
<1>2. ASSUME NEW i \in Logged(k)
      PROVE  Cardinality(Logged(i)) \in 1..Cardinality(Logged(k))
  <2>1. i \in 1..k /\ i \in Nat
    BY <1>2 DEF Logged
  <2>2. Logged(i) \in SUBSET Logged(k) /\ i \in Logged(i)
    BY <1>2, <2>1 DEF Logged
  <2>3. Cardinality(Logged(i)) <= Cardinality(Logged(k))
    BY <1>1, <2>2, FS_Subset
  <2>4. Cardinality(Logged(i)) # 0
    BY <1>1, <2>1, <2>2, FS_EmptySet
  <2> QED
    BY <1>1, <2>1, <2>3, <2>4
<1> QED
  BY <1>1, <1>2

LEMMA LoggedNext ==
  ASSUME NEW k \in Nat \ {0}
  PROVE  /\ history[k].verdict = "Panicked" => Logged(k) = Logged(k - 1)
         /\ history[k].verdict # "Panicked" =>
              /\ Logged(k) = Logged(k - 1) \cup {k}
              /\ Cardinality(Logged(k)) = Cardinality(Logged(k - 1)) + 1
<1>1. 1..k = (1..(k - 1)) \cup {k} /\ k \notin 1..(k - 1) /\ k - 1 \in Nat
  OBVIOUS
<1>2. IsFiniteSet(Logged(k - 1))
  BY <1>1, LoggedCount
<1>3. CASE history[k].verdict = "Panicked"
  BY <1>1, <1>3 DEF Logged
<1>4. CASE history[k].verdict # "Panicked"
  <2>1. Logged(k) = Logged(k - 1) \cup {k} /\ k \notin Logged(k - 1)
    BY <1>1, <1>4 DEF Logged
  <2> QED
    BY <1>2, <1>4, <2>1, FS_AddElement
<1> QED
  BY <1>3, <1>4

(* A step that leaves the log and the settled mutants alone keeps what is  *)
(* said of them.                                                           *)
LEMMA LogIsKept ==
  ASSUME LogFollows, settled \in Nat, UNCHANGED mutants_log, settled' = settled,
         \A i \in 1..settled : history'[i] = history[i]
  PROVE  LogFollows'
<1>1. \A j \in 1..settled : Logged(j)' = Logged(j)
  BY DEF Logged
<1>2. Logged(settled)' = Logged(settled) /\ Logged(settled) \subseteq 1..settled
  BY DEF Logged
<1>3. ASSUME NEW i \in Logged(settled)
      PROVE  /\ Logged(i)' = Logged(i) /\ history'[i] = history[i]
             /\ LogEntry(mutants_log[Cardinality(Logged(i))], history[i])
  BY <1>1, <1>2 DEF LogFollows
<1> QED
  BY <1>2, <1>3 DEF LogFollows, LogEntry
(* The log gets the entry of the mutant that is settled.                   *)
LEMMA LogIsAppended ==
  ASSUME LogFollows, NEW k \in Nat \ {0}, k = Len(history), settled = k - 1,
         settled' = k, history' = history, last.verdict # "Panicked",
         NEW entry \in Report, LogEntry(entry, last),
         mutants_log' = Append(mutants_log, entry)
  PROVE  LogFollows'
<1> DEFINE n == Cardinality(Logged(k - 1))
<1>1. /\ k - 1 \in Nat /\ last = history[k]
  BY DEF last
<1>2. /\ Logged(k) = Logged(k - 1) \cup {k} /\ Cardinality(Logged(k)) = n + 1
  BY <1>1, LoggedNext
<1>3. n \in Nat /\ \A i \in Logged(k - 1) : Cardinality(Logged(i)) \in 1..n
  BY <1>1, LoggedCount
<1>4. \A j : Logged(j)' = Logged(j)
  BY DEF Logged
<1>5. mutants_log \in Seq(Report) /\ Len(mutants_log) = n
  BY DEF LogFollows
<1> HIDE DEF n
<1>6. /\ mutants_log' \in Seq(Report) /\ Len(mutants_log') = n + 1
      /\ \A j \in 1..n : mutants_log'[j] = mutants_log[j]
      /\ mutants_log'[n + 1] = entry
  BY <1>3, <1>5
<1>7. ASSUME NEW i \in Logged(k)
      PROVE  LogEntry(mutants_log'[Cardinality(Logged(i))], history[i])
  <2>1. CASE i = k
    BY <1>1, <1>2, <1>6, <2>1
  <2>2. CASE i # k
    <3>1. i \in Logged(k - 1)
      BY <1>2, <1>7, <2>2
    <3>2. LogEntry(mutants_log[Cardinality(Logged(i))], history[i])
      BY <3>1 DEF LogFollows
    <3>3. mutants_log'[Cardinality(Logged(i))] = mutants_log[Cardinality(Logged(i))]
      BY <1>3, <1>6, <3>1
    <3> QED
      BY <3>2, <3>3
  <2> QED
    BY <2>1, <2>2
<1>8. \A i \in Logged(settled)' : LogEntry(mutants_log[Cardinality(Logged(i))], history[i])'
  BY <1>4, <1>7 DEF LogEntry
<1> QED
  BY <1>2, <1>4, <1>6, <1>8 DEF LogFollows

LEMMA LogStep ==
  ASSUME TypeInv, Latest, LogInv, [Next]_vars
  PROVE  LogInv'
<1>1. env' = env /\ WellFormedEnv' = WellFormedEnv
  BY EnvIsKept
<1> SUFFICES ASSUME WellFormedEnv
             PROVE  LogInv'
  BY <1>1 DEF LogInv
<1>2. /\ \A f \in {"DO_BORROWCK", "PCG_VISUALIZATION", "MUTANTS_LOG"} : ~Panics(f)
      /\ Len(history) \in Nat /\ history \in Seq(Entry)
  BY DEF WellFormedEnv, TypeInv, TypeOK, Latest
<1>3. /\ UnderWay => Len(history) > 0 /\ current = last.mutant
      /\ pc = "log" => last.verdict # "Panicked"
      /\ pc = "log" /\ last.verdict = "Failed" => ERROR_CODES = last.codes
      /\ env["MUTANTS_LOG"] = "true" => LogFollows
  BY DEF LogInv
<1>4. settled \in Nat
  BY <1>2, <1>3 DEF settled
<1>5. CASE NextMutant
  <2> DEFINE new == [mutant |-> current', verdict |-> "NoRun", codes |-> {}]
  <2>1. /\ pc = "mutants" /\ pc' \in {"track", "log"} /\ mutants_log' = mutants_log
        /\ history' = Append(history, new)
    BY <1>2, <1>5 DEF NextMutant
  <2>2. new.mutant = current' /\ new.verdict = "NoRun"
    OBVIOUS
  <2> HIDE DEF new
  <2>3. /\ Len(history') = Len(history) + 1 /\ history'[Len(history) + 1] = new
        /\ \A i \in 1..Len(history) : history'[i] = history[i]
    BY <1>2, <2>1
  <2>4. settled = Len(history) /\ settled' = settled
    BY <1>2, <2>1, <2>3 DEF settled, UnderWay, Checking
  <2>5. env["MUTANTS_LOG"] = "true" => LogFollows'
    BY <1>3, <1>4, <2>1, <2>3, <2>4, LogIsKept
  <2>6. last' = new
    BY <2>3 DEF last
  <2> QED
    BY <1>1, <1>2, <2>1, <2>2, <2>3, <2>5, <2>6 DEF LogInv
<1>6. CASE \E given \in {"Passed", "Failed", "Panicked"}, codes \in SUBSET Codes :
             do_mir_borrowck(given, codes)
  <2>1. PICK given \in {"Passed", "Failed", "Panicked"}, codes \in SUBSET Codes :
          do_mir_borrowck(given, codes)
    BY <1>6
  <2> DEFINE k == Len(history)
             new == [[history[k] EXCEPT !.verdict = given] EXCEPT !.codes = codes]
  <2>2. /\ pc = "borrowck" /\ pc' = given /\ UNCHANGED <<mutants_log, current>>
        /\ history' = [history EXCEPT ![k].verdict = given, ![k].codes = codes]
    BY <2>1 DEF do_mir_borrowck, results
  <2>3. UnderWay /\ UnderWay' /\ k \in 1..k /\ history[k] \in Entry
    BY <1>2, <1>3, <2>2 DEF UnderWay, Checking
  <2>4. new \in Entry /\ new.mutant = history[k].mutant
    BY <2>3 DEF Entry
  <2>5. history' = [history EXCEPT ![k] = new]
    BY <1>2, <2>2, <2>3
  <2> HIDE DEF new
  <2>6. /\ Len(history') = k /\ history'[k] = new
        /\ \A i \in 1..k : i # k => history'[i] = history[i]
    BY <1>2, <2>3, <2>4, <2>5, ExceptSeq
  <2>7. settled = k - 1 /\ settled' = k - 1
    BY <2>3, <2>6 DEF settled
  <2>8. env["MUTANTS_LOG"] = "true" => LogFollows'
    BY <1>3, <1>4, <2>2, <2>3, <2>6, <2>7, LogIsKept
  <2>9. current' = last'.mutant
    BY <1>3, <2>2, <2>3, <2>4, <2>6 DEF last
  <2> QED
    BY <1>1, <1>3, <2>2, <2>3, <2>6, <2>8, <2>9 DEF LogInv
<1>7. CASE CountFailed \/ CountPassed \/ track_body_error_codes
  <2>1. /\ UNCHANGED <<history, mutants_log, current>>
        /\ \/ pc = "Failed" /\ pc' = "log" /\ ERROR_CODES' = ERROR_CODES
           \/ pc = "Passed" /\ pc' = "log"
           \/ pc = "track" /\ pc' = "borrowck"
    BY <1>2, <1>7 DEF CountFailed, CountPassed, track_body_error_codes, results
  <2>2. UnderWay /\ UnderWay' /\ last' = last /\ settled' = settled
    BY <2>1 DEF UnderWay, Checking, last, settled
  <2>3. /\ pc \in {"Passed", "Failed"} => last.verdict = pc
        /\ pc = "Failed" => ERROR_CODES = last.codes
    BY DEF Latest
  <2>4. env["MUTANTS_LOG"] = "true" => LogFollows'
    BY <1>3, <1>4, <2>1, <2>2, LogIsKept
  <2> QED
    BY <1>1, <1>3, <2>1, <2>2, <2>3, <2>4 DEF LogInv
<1>8. CASE LogAndReset
  <2> DEFINE k == Len(history)
             entry == [mutant |-> current, info |-> BorrowCheckInfo]
  <2>1. /\ pc = "log" /\ pc' = "mutants" /\ history' = history
        /\ env["MUTANTS_LOG"] = "true" => mutants_log' = Append(mutants_log, entry)
    BY <1>2, <1>8 DEF LogAndReset, Enabled
  <2>2. UnderWay /\ ~UnderWay' /\ k \in 1..k /\ last \in Entry
    BY <1>2, <1>3, <2>1 DEF UnderWay, Checking, last
  <2>3. settled = k - 1 /\ settled' = k
    BY <2>1, <2>2 DEF settled
  <2>4. entry \in Report /\ LogEntry(entry, last)
    <3>1. entry.mutant = last.mutant /\ entry.info = BorrowCheckInfo
      BY <1>3, <2>2
    <3>2. /\ BorrowCheckInfo.verdict = last.verdict
          /\ BorrowCheckInfo.codes = (IF last.verdict = "Failed" THEN last.codes ELSE {})
      BY <1>3, <2>1 DEF BorrowCheckInfo, last
    <3>3. BorrowCheckInfo \in [verdict : {"NoRun", "Passed", "Failed", "Panicked"},
                               codes : SUBSET Codes]
      BY <2>2, TypeInv DEF BorrowCheckInfo, last, Entry, TypeInv, TypeOK
    <3>4. current \in Seq(Nat)
      BY DEF TypeInv, TypeOK
    <3> QED
      BY <3>1, <3>2, <3>3, <3>4 DEF Report, LogEntry
  <2>5. env["MUTANTS_LOG"] = "true" => LogFollows'
    <3> HIDE DEF entry
    <3> QED
      BY <1>2, <1>3, <2>1, <2>2, <2>3, <2>4, LogIsAppended
  <2> QED
    BY <1>1, <2>1, <2>2, <2>5 DEF LogInv
<1>9. CASE CountPanicked
  <2> DEFINE k == Len(history)
  <2>1. pc = "Panicked" /\ pc' = "mutants" /\ UNCHANGED <<history, mutants_log>>
    BY <1>9 DEF CountPanicked
  <2>2. UnderWay /\ ~UnderWay' /\ k \in Nat \ {0} /\ history[k].verdict = "Panicked"
    BY <1>2, <2>1 DEF UnderWay, Checking, Latest, last
  <2>3. settled = k - 1 /\ settled' = k
    BY <2>1, <2>2 DEF settled
  <2>4. Logged(settled)' = Logged(settled) /\ \A i : Logged(i)' = Logged(i)
    BY <2>1, <2>2, <2>3, LoggedNext DEF Logged
  <2>5. env["MUTANTS_LOG"] = "true" => LogFollows'
    BY <1>3, <2>1, <2>4 DEF LogFollows, LogEntry
  <2> QED
    BY <1>1, <2>1, <2>2, <2>5 DEF LogInv
<1>10. CASE \/ \E o \in Owners : mir_borrowck(o)
            \/ TakeBodies \/ SkipOwner \/ TestOwner \/ Finish \/ FinishOwner
            \/ run_pcgPanics \/ MutatorPanics
            \/ StartMutation \/ MutatorExhausted
  <2>1. /\ UNCHANGED <<mutants_log, history>>
        /\ pc \in {"analysis", "owners", "mutation", "mutants"}
        /\ pc' \in {"analysis", "owners", "mutation", "mutants", "done", "aborted"}
    BY <1>10 DEF mir_borrowck, TakeBodies, SkipOwner, TestOwner, Finish, FinishOwner,
                run_pcgPanics, MutatorPanics, StartMutation, MutatorExhausted, results
  <2>2. ~UnderWay' /\ settled' = settled
    BY <2>1 DEF UnderWay, Checking, settled
  <2>3. env["MUTANTS_LOG"] = "true" => LogFollows'
    BY <1>3, <1>4, <2>1, <2>2, LogIsKept
  <2> QED
    BY <1>1, <2>1, <2>2, <2>3 DEF LogInv
<1>11. CASE UNCHANGED vars
  <2>1. UNCHANGED <<pc, mutants_log, history, current, ERROR_CODES>>
    BY <1>11 DEF vars, results
  <2>2. UnderWay' = UnderWay /\ settled' = settled /\ last' = last
    BY <2>1 DEF UnderWay, settled, last
  <2>3. env["MUTANTS_LOG"] = "true" => LogFollows'
    BY <1>3, <1>4, <2>1, <2>2, LogIsKept
  <2> QED
    BY <1>1, <1>3, <2>1, <2>2, <2>3 DEF LogInv
<1> QED
  BY <1>5, <1>6, <1>7, <1>8, <1>9, <1>10, <1>11 DEF Next, CheckMutant

(* When no mutant is being checked the log holds, in order, the mutants    *)
(* that did not panic, each with its verdict and codes (src/main.rs,       *)
(* 266-281).                                                               *)
THEOREM MutationRunLogIsHistory == Spec => []LogIsHistory
<1>1. Init => LogInv
  <2> SUFFICES ASSUME Init
               PROVE  LogInv
    OBVIOUS
  <2>1. /\ pc = "analysis" /\ history = << >> /\ mutants_log = << >>
    BY DEF Init
  <2>2. ~UnderWay /\ settled = 0
    BY <2>1 DEF UnderWay, Checking, settled
  <2>3. Logged(0) = {}
    BY DEF Logged
  <2>4. LogFollows
    BY <2>1, <2>2, <2>3, FS_EmptySet DEF LogFollows
  <2> QED
    BY <2>1, <2>2, <2>4 DEF LogInv
<1>2. LogInv => LogIsHistory
  BY DEF LogInv, LogFollows, LogEntry, LogIsHistory, AtRest, UnderWay, Checking, settled
<1> QED
  BY <1>1, <1>2, InitType, NextType, InitLatest, LatestStep, LogStep, PTL DEF Spec

=============================================================================

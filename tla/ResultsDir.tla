----------------------------- MODULE ResultsDir -----------------------------
(***************************************************************************)
(* The results directory: compiler sessions write the counts (and, if      *)
(* MUTANTS_LOG is on, the mutants) of their crates there (the end of       *)
(* run_mutation_tests, src/main.rs), started by the runner over the top    *)
(* crates (tests/top_crates.rs), and compile_results adds the counts of    *)
(* all files up (tests/compile_results.rs).                                *)
(*                                                                         *)
(* A session is named by the process that runs it.  Its counts are its own *)
(* name: a file's content is the session whose counts it holds, and a      *)
(* total is the bag of the sessions added up.                              *)
(***************************************************************************)
EXTENDS Naturals, FiniteSets, TLC

CONSTANTS
  Sessions,   \* compiler processes of primary targets
  Crates,     \* crate names; cargo gives every build script the same one
  CrateOf,    \* the CARGO_CRATE_NAME of a session
  Jobs,       \* PCG_TEST_CRATE_PARALLELISM: sessions at a time
  MaxCompiles \* bound: runs of compile_results

ASSUME SessionsAssumption ==
  /\ IsFiniteSet(Sessions) /\ CrateOf \in [Sessions -> Crates]
  /\ Jobs \in Nat \ {0} /\ MaxCompiles \in Nat

(* The first session of a name has no suffix, the next -0, then -1: the    *)
(* suffixes are numbered from 0, the empty one.                            *)
Suffixes == 0..Cardinality(Sessions)
Paths == Crates \X Suffixes

VARIABLES
  mutants_log_on, \* MUTANTS_LOG in the environment of every session
  pc,             \* where each session stands
  suffix,         \* the name each session tries or has settled for
  log_files,      \* the paths of the <name>-mutants.json files that exist
  result_files,   \* content of the <name>.json files that exist
  compiled,       \* content of mutation-testing-results.json
  compiling,      \* the compilation going on: files left, total so far
  compiles,       \* how often compile_results was started
  overlapped      \* history: the crate names two sessions had at one time

vars == <<mutants_log_on, pc, suffix, log_files, result_files, compiled, compiling,
          compiles, overlapped>>
compilation == <<compiled, compiling, compiles>>

-----------------------------------------------------------------------------

PathOf(s) == <<CrateOf[s], suffix[s]>>
Running == {s \in Sessions : pc[s] \notin {"waiting", "over", "killed"}}
Empty == "no bytes yet"
Garbled == "bytes of two sessions"
NoTotal == [s \in {} |-> 0]
NotCompiling == [left |-> {}, total |-> NoTotal, on |-> FALSE]

(* What a file that is no session's holds is no session's counts.          *)
ASSUME ContentAssumption == {Empty, Garbled} \cap Sessions = {}

Init ==
  /\ mutants_log_on \in BOOLEAN
  /\ pc = [s \in Sessions |-> "waiting"]
  /\ suffix = [s \in Sessions |-> 0]
  /\ log_files = {} /\ result_files = NoTotal
  /\ compiled = NoTotal /\ compiling = NotCompiling /\ compiles = 0
  /\ overlapped = {}

(* The pool has a free thread for the next crate.                          *)
Start(s) ==
  /\ pc[s] = "waiting" /\ Cardinality(Running) < Jobs /\ compiles = 0
  /\ pc' = [pc EXCEPT ![s] = "probe"]
  /\ overlapped' = overlapped \cup {CrateOf[t] : t \in {t \in Running : CrateOf[t] = CrateOf[s]}}
  /\ UNCHANGED <<mutants_log_on, suffix, log_files, result_files, compilation>>

ProbePastTheFree(s) ==
  /\ pc[s] = "probe"
  /\ IF PathOf(s) \in log_files \/ suffix[s] = 0
       THEN suffix' = [suffix EXCEPT ![s] = @ + 2] /\ pc' = pc
       ELSE /\ pc' = [pc EXCEPT ![s] = IF mutants_log_on THEN "create_log" ELSE "create"]
            /\ suffix' = suffix
  /\ UNCHANGED <<mutants_log_on, log_files, result_files, compilation, overlapped>>

ProbeSameName(s) ==
  /\ pc[s] = "probe"
  /\ pc' = [pc EXCEPT ![s] = IF mutants_log_on THEN "create_log" ELSE "create"]
  /\ UNCHANGED <<mutants_log_on, suffix, log_files, result_files, compilation, overlapped>>

(* while Path::exists(mutants_log_path): only the log's path is tried.     *)
Probe(s) ==
  /\ pc[s] = "probe"
  /\ IF PathOf(s) \in log_files
       THEN suffix' = [suffix EXCEPT ![s] = @ + 1] /\ pc' = pc
       ELSE /\ pc' = [pc EXCEPT ![s] = IF mutants_log_on THEN "create_log" ELSE "create"]
            /\ suffix' = suffix
  /\ UNCHANGED <<mutants_log_on, log_files, result_files, compilation, overlapped>>

(* File::create of the log, then its bytes (no one reads them again).      *)
CreateLog(s) ==
  /\ pc[s] = "create_log"
  /\ log_files' = log_files \cup {PathOf(s)}
  /\ pc' = [pc EXCEPT ![s] = "create"]
  /\ UNCHANGED <<mutants_log_on, suffix, result_files, compilation, overlapped>>

CreateResultsWithoutTruncating(s) ==
  /\ pc[s] = "create"
  /\ result_files' = result_files @@ (PathOf(s) :> Empty)
  /\ pc' = [pc EXCEPT ![s] = "write"]
  /\ UNCHANGED <<mutants_log_on, suffix, log_files, compilation, overlapped>>

(* File::create of the results truncates what was there.                   *)
Created(files, path) ==
  [q \in DOMAIN files \cup {path} |-> IF q = path THEN Empty ELSE files[q]]

CreateResults(s) ==
  /\ pc[s] = "create"
  /\ result_files' = Created(result_files, PathOf(s))
  /\ pc' = [pc EXCEPT ![s] = "write"]
  /\ UNCHANGED <<mutants_log_on, suffix, log_files, compilation, overlapped>>

(* write_all: into an empty file, or over the bytes of a session that      *)
(* created the same file and wrote in between; the shorter leave a rest.   *)
WriteResults(s) ==
  /\ pc[s] = "write"
  /\ \E content \in IF result_files[PathOf(s)] = Empty THEN {s} ELSE {s, Garbled} :
       result_files' = [result_files EXCEPT ![PathOf(s)] = content]
  /\ pc' = [pc EXCEPT ![s] = "over"]
  /\ UNCHANGED <<mutants_log_on, suffix, log_files, compilation, overlapped>>

(* A session that panics or is killed leaves its files as they are.        *)
Kill(s) ==
  /\ s \in Running
  /\ pc' = [pc EXCEPT ![s] = "killed"]
  /\ UNCHANGED <<mutants_log_on, suffix, log_files, result_files, compilation, overlapped>>

-----------------------------------------------------------------------------

(* A file that from_reader can parse: mutation-testing-results.json is one *)
(* of the directory's files, an empty or garbled one adds nothing.         *)
Adds(content) ==
  [s \in {content} \cap Sessions |-> 1]

Sum(a, b) ==
  [s \in DOMAIN a \cup DOMAIN b |->
     (IF s \in DOMAIN a THEN a[s] ELSE 0) + (IF s \in DOMAIN b THEN b[s] ELSE 0)]

(* compile_results truncates its output file, then reads the directory the *)
(* file is in: the totals of an earlier compilation are not added again.   *)
CompileStart ==
  /\ Running = {} /\ ~compiling.on /\ compiles < MaxCompiles
  /\ compiles' = compiles + 1
  /\ compiled' = NoTotal
  /\ compiling' = [left |-> DOMAIN result_files, total |-> compiled', on |-> TRUE]
  /\ UNCHANGED <<mutants_log_on, pc, suffix, log_files, result_files, overlapped>>

(* read_dir yields the files in any order.                                 *)
CompileFile(path) ==
  /\ compiling.on /\ path \in compiling.left
  /\ compiling' = [compiling EXCEPT !.left = @ \ {path},
                                    !.total = Sum(@, Adds(result_files[path]))]
  /\ UNCHANGED <<mutants_log_on, pc, suffix, log_files, result_files, compiled, compiles, overlapped>>

CompileWriteEarly ==
  /\ compiling.on
  /\ compiled' = compiling.total
  /\ compiling' = NotCompiling
  /\ UNCHANGED <<mutants_log_on, pc, suffix, log_files, result_files, compiles, overlapped>>

CompileWrite ==
  /\ compiling.on /\ compiling.left = {}
  /\ compiled' = compiling.total
  /\ compiling' = NotCompiling
  /\ UNCHANGED <<mutants_log_on, pc, suffix, log_files, result_files, compiles, overlapped>>

(* The compilation dies before it has written anything.                    *)
CompileKilled ==
  /\ compiling.on
  /\ compiling' = NotCompiling
  /\ UNCHANGED <<mutants_log_on, pc, suffix, log_files, result_files, compiled, compiles, overlapped>>

SessionGoesOn(s) ==
  Probe(s) \/ CreateLog(s) \/ CreateResults(s) \/ WriteResults(s)

Compile ==
  CompileStart \/ (\E path \in Paths : CompileFile(path)) \/ CompileWrite

Next ==
  \/ \E s \in Sessions : Start(s) \/ SessionGoesOn(s) \/ Kill(s)
  \/ Compile
  \/ CompileKilled

Spec == Init /\ [][Next]_vars

-----------------------------------------------------------------------------

(* Type invariant.                                                         *)
TypeOK ==
  /\ pc \in [Sessions -> {"waiting", "probe", "create_log", "create", "write", "over", "killed"}]
  /\ suffix \in [Sessions -> Suffixes]
  /\ log_files \subseteq Paths
  /\ DOMAIN result_files \subseteq Paths
  /\ \A path \in DOMAIN result_files : result_files[path] \in Sessions \cup {Empty, Garbled}
  /\ DOMAIN compiled \subseteq Sessions
  /\ compiling.left \subseteq Paths
  /\ compiles \in 0..MaxCompiles
  /\ overlapped \subseteq Crates

(* The counts of a session that ended are still there, whoever came after: *)
(* its file was neither truncated nor written over.  This needs the log,   *)
(* whose path is the only one probed, and that no two sessions of the name *)
(* ran at a time (within a package cargo runs them one after the other,    *)
(* and the runner takes one crate at a time unless told otherwise).        *)
(* Without the log a later session replaces the file of an earlier one     *)
(* whole: the bytes of two mix only if they ran at a time.                 *)
ResultsKept ==
  /\ \A path \in DOMAIN result_files :
       path[1] \notin overlapped => result_files[path] # Garbled
  /\ mutants_log_on =>
       \A s \in Sessions :
         pc[s] = "over" /\ CrateOf[s] \notin overlapped =>
           PathOf(s) \in DOMAIN result_files /\ result_files[PathOf(s)] = s

(* A total that was written is that of the sessions whose counts are in    *)
(* the directory, each counted once: recompiling changes nothing.          *)
CompiledIsTotal ==
  [][CompileWrite =>
       compiled' = [s \in {t \in Sessions : \E path \in DOMAIN result_files :
                                               result_files[path] = t} |-> 1]]_vars

=============================================================================

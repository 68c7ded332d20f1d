-------------------------- MODULE CrateRunsProofs --------------------------
(***************************************************************************)
(* Theorems about CrateRuns and the results directory, for any number of   *)
(* packages, sessions, threads, runs and versions of the registry: which   *)
(* counts are kept, what a total adds up, that every check of a crate is   *)
(* the same, and that every session is accounted for.                      *)
(***************************************************************************)
EXTENDS CrateRuns, FiniteSetTheorems, TLAPS

-----------------------------------------------------------------------------
(* The results directory.                                                  *)

Writing == {"create_log", "create", "write"}
Contents == Sessions \cup {Empty, Garbled}

DirType ==
  /\ pc \in [Sessions -> {"waiting", "probe", "create_log", "create", "write", "over", "killed"}]
  /\ suffix \in [Sessions -> Nat]
  /\ result_files \in [DOMAIN result_files -> Contents]

(* Two sessions of a name that run at a time are remembered.               *)
OverlapsNoted ==
  \A s, t \in Running : s # t /\ CrateOf[s] = CrateOf[t] => CrateOf[s] \in overlapped

(* Two bytes mix only where two sessions did; a session's counts are in    *)
(* the one file it wrote last, and about to write it finds it empty.       *)
FilesInv ==
  /\ \A path \in DOMAIN result_files : path[1] \notin overlapped => result_files[path] # Garbled
  /\ \A path \in DOMAIN result_files : \A s \in Sessions :
       result_files[path] = s => pc[s] = "over" /\ path = PathOf(s)
  /\ \A s \in Sessions : pc[s] = "write" =>
       /\ PathOf(s) \in DOMAIN result_files
       /\ CrateOf[s] \notin overlapped => result_files[PathOf(s)] = Empty

(* With the log, a session past the probe that has a log has its path for  *)
(* itself: no other session of the name that ended is on it.               *)
LogInv ==
  mutants_log_on =>
    /\ \A s \in Sessions : pc[s] \in {"create", "write", "over"} => PathOf(s) \in log_files
    /\ \A s, t \in Sessions :
         s # t /\ pc[s] = "over" /\ CrateOf[s] \notin overlapped /\ pc[t] \in Writing =>
           PathOf(t) # PathOf(s)
    /\ \A s \in Sessions :
         pc[s] = "over" /\ CrateOf[s] \notin overlapped =>
           PathOf(s) \in DOMAIN result_files /\ result_files[PathOf(s)] = s

DirInv == DirType /\ OverlapsNoted /\ FilesInv /\ LogInv

(* What a file creation makes of the files.                                *)
LEMMA CreateFile ==
  ASSUME NEW f, NEW path
  PROVE  LET g == Created(f, path)
         IN  /\ g \in [DOMAIN g -> {g[q] : q \in DOMAIN g}]
             /\ DOMAIN g = {path} \cup DOMAIN f
             /\ g[path] = Empty
             /\ \A q \in DOMAIN f : q # path => g[q] = f[q]
  BY DEF Created

LEMMA DirInit == Init => DirInv
  BY DEF Init, DirInv, DirType, OverlapsNoted, FilesInv, LogInv, Running, NoTotal, Writing

LEMMA DirStart ==
  ASSUME DirInv, NEW s \in Sessions, Start(s)
  PROVE  DirInv'
<1>1. /\ DirType' /\ pc'[s] = "probe"
      /\ \A t \in Sessions : t # s => pc'[t] = pc[t]
      /\ \A t \in Sessions : pc'[t] \notin {"waiting", "probe"} => t # s
  BY DEF DirInv, DirType, Start
<1>2. \A t \in Sessions : PathOf(t)' = PathOf(t)
  BY DEF Start, PathOf
<1>3. overlapped \subseteq overlapped'
  BY DEF Start
<1>4. OverlapsNoted'
  <2>1. Running' = Running \cup {s}
    BY <1>1 DEF Running, Start
  <2>2. \A t \in Running : CrateOf[t] = CrateOf[s] => CrateOf[s] \in overlapped'
    BY DEF Start
  <2> QED
    BY <2>1, <2>2, <1>3 DEF OverlapsNoted, DirInv
<1>5. FilesInv'
  BY <1>1, <1>2, <1>3 DEF FilesInv, DirInv, DirType, Start
<1>6. LogInv'
  BY <1>1, <1>2, <1>3 DEF LogInv, DirInv, DirType, Start, Writing
<1> QED
  BY <1>1, <1>4, <1>5, <1>6 DEF DirInv

(* The part of the invariant on overlaps is kept while no session starts.  *)
LEMMA NoNewRunning ==
  ASSUME DirInv, overlapped' = overlapped, Running' \subseteq Running
  PROVE  OverlapsNoted'
  BY DEF DirInv, OverlapsNoted

LEMMA DirProbe ==
  ASSUME DirInv, NEW s \in Sessions, Probe(s)
  PROVE  DirInv'
<1>1. DirType' /\ \A t \in Sessions : t # s => pc'[t] = pc[t] /\ PathOf(t)' = PathOf(t)
  BY DEF DirInv, DirType, Probe, PathOf
<1>2. /\ pc[s] = "probe" /\ pc'[s] \in {"probe", "create_log", "create"}
      /\ pc'[s] # "probe" => PathOf(s) \notin log_files /\ PathOf(s)' = PathOf(s)
      /\ mutants_log_on => pc'[s] # "create"
  BY DEF DirInv, DirType, Probe, PathOf
<1>3. UNCHANGED <<mutants_log_on, log_files, result_files, overlapped>>
  BY DEF Probe
<1>4. OverlapsNoted'
  BY <1>1, <1>2, <1>3, NoNewRunning DEF Running
<1>5. FilesInv'
  BY <1>1, <1>2, <1>3 DEF FilesInv, DirInv, DirType
<1>6. LogInv'
  BY <1>1, <1>2, <1>3 DEF LogInv, DirInv, DirType, Writing
<1> QED
  BY <1>1, <1>4, <1>5, <1>6 DEF DirInv

LEMMA DirCreateLog ==
  ASSUME DirInv, NEW s \in Sessions, CreateLog(s)
  PROVE  DirInv'
<1>1. /\ DirType' /\ pc[s] = "create_log" /\ pc'[s] = "create"
      /\ \A t \in Sessions : t # s => pc'[t] = pc[t]
      /\ \A t \in Sessions : PathOf(t)' = PathOf(t)
  BY DEF DirInv, DirType, CreateLog, PathOf
<1>2. /\ UNCHANGED <<mutants_log_on, result_files, overlapped>>
      /\ log_files' = log_files \cup {PathOf(s)}
  BY DEF CreateLog
<1>3. OverlapsNoted'
  BY <1>1, <1>2, NoNewRunning DEF Running
<1>4. FilesInv'
  BY <1>1, <1>2 DEF FilesInv, DirInv, DirType
<1>5. LogInv'
  BY <1>1, <1>2 DEF LogInv, DirInv, DirType, Writing
<1> QED
  BY <1>1, <1>3, <1>4, <1>5 DEF DirInv

(* Two sessions that run on one path have one name.                        *)
LEMMA OnePathOverlaps ==
  ASSUME DirInv, NEW s \in Running, NEW t \in Running, s # t, PathOf(s) = PathOf(t)
  PROVE  CrateOf[s] \in overlapped
  BY DEF DirInv, OverlapsNoted, PathOf

LEMMA DirCreateResults ==
  ASSUME DirInv, NEW s \in Sessions, CreateResults(s)
  PROVE  DirInv'
<1>1. /\ pc[s] = "create" /\ pc'[s] = "write"
      /\ \A t \in Sessions : t # s => pc'[t] = pc[t]
      /\ \A t \in Sessions : PathOf(t)' = PathOf(t)
  BY DEF DirInv, DirType, CreateResults, PathOf
<1>2. UNCHANGED <<mutants_log_on, log_files, overlapped, suffix>>
  BY DEF CreateResults
<1>3. /\ result_files' \in [DOMAIN result_files' -> {result_files'[q] : q \in DOMAIN result_files'}]
      /\ DOMAIN result_files' = {PathOf(s)} \cup DOMAIN result_files
      /\ result_files'[PathOf(s)] = Empty
      /\ \A q \in DOMAIN result_files : q # PathOf(s) => result_files'[q] = result_files[q]
  BY CreateFile DEF CreateResults
<1>4. DirType'
  <2>1. \A q \in DOMAIN result_files' : result_files'[q] \in Contents
    BY <1>3 DEF DirInv, DirType, Contents
  <2> QED
    BY <1>2, <1>3, <2>1 DEF DirInv, DirType, CreateResults
<1>5. OverlapsNoted'
  BY <1>1, <1>2, NoNewRunning DEF Running
<1>6. FilesInv'
  <2>1. \A path \in DOMAIN result_files' :
          path[1] \notin overlapped => result_files'[path] # Garbled
    BY <1>3 DEF FilesInv, DirInv, Empty, Garbled
  <2>2. \A path \in DOMAIN result_files' : \A t \in Sessions :
          result_files'[path] = t => pc'[t] = "over" /\ path = PathOf(t)
    BY <1>1, <1>3, ContentAssumption DEF FilesInv, DirInv
  <2>3. \A t \in Sessions : pc'[t] = "write" =>
          /\ PathOf(t) \in DOMAIN result_files'
          /\ CrateOf[t] \notin overlapped => result_files'[PathOf(t)] = Empty
    BY <1>1, <1>3 DEF FilesInv, DirInv
  <2> QED
    BY <1>1, <1>2, <2>1, <2>2, <2>3 DEF FilesInv
<1>7. LogInv'
  <2> SUFFICES ASSUME mutants_log_on
               PROVE  LogInv'
    BY <1>2 DEF LogInv
  <2>1. \A t \in Sessions : pc[t] = "over" /\ CrateOf[t] \notin overlapped => PathOf(t) # PathOf(s)
    BY <1>1 DEF LogInv, DirInv, Writing
  <2> QED
    BY <1>1, <1>2, <1>3, <2>1 DEF LogInv, DirInv, DirType, Writing
<1> QED
  BY <1>4, <1>5, <1>6, <1>7 DEF DirInv

LEMMA DirWriteResults ==
  ASSUME DirInv, NEW s \in Sessions, WriteResults(s)
  PROVE  DirInv'
<1>1. /\ pc[s] = "write" /\ pc'[s] = "over"
      /\ \A t \in Sessions : t # s => pc'[t] = pc[t]
      /\ \A t \in Sessions : PathOf(t)' = PathOf(t)
  BY DEF DirInv, DirType, WriteResults, PathOf
<1>2. UNCHANGED <<mutants_log_on, log_files, overlapped, suffix>>
  BY DEF WriteResults
<1>3. PathOf(s) \in DOMAIN result_files
      /\ (CrateOf[s] \notin overlapped => result_files[PathOf(s)] = Empty)
  BY <1>1 DEF DirInv, FilesInv
<1>4. PICK content \in {s, Garbled} :
        /\ result_files' = [result_files EXCEPT ![PathOf(s)] = content]
        /\ result_files[PathOf(s)] = Empty => content = s
  BY DEF WriteResults
<1>5. /\ DOMAIN result_files' = DOMAIN result_files
      /\ result_files'[PathOf(s)] = content
      /\ \A q \in DOMAIN result_files : q # PathOf(s) => result_files'[q] = result_files[q]
  BY <1>3, <1>4
<1>6. DirType'
  BY <1>1, <1>2, <1>4, <1>3 DEF DirInv, DirType, Contents, WriteResults
<1>7. OverlapsNoted'
  BY <1>1, <1>2, NoNewRunning DEF Running
<1>8. PathOf(s)[1] = CrateOf[s]
  BY DEF PathOf
<1>9. \A t \in Sessions : t # s /\ pc[t] \in Writing /\ PathOf(t) = PathOf(s) => CrateOf[s] \in overlapped
  BY <1>1, OnePathOverlaps DEF Running, Writing
<1>10. FilesInv'
  <2>1. \A path \in DOMAIN result_files' :
          path[1] \notin overlapped => result_files'[path] # Garbled
    BY <1>3, <1>4, <1>5, <1>8, ContentAssumption DEF FilesInv, DirInv
  <2>2. \A path \in DOMAIN result_files' : \A t \in Sessions :
          result_files'[path] = t => pc'[t] = "over" /\ path = PathOf(t)
    BY <1>1, <1>4, <1>5, ContentAssumption DEF FilesInv, DirInv
  <2>3. ASSUME NEW t \in Sessions, pc'[t] = "write"
        PROVE  /\ PathOf(t) \in DOMAIN result_files
               /\ CrateOf[t] \notin overlapped => result_files'[PathOf(t)] = Empty
    <3>1. t # s /\ pc[t] = "write"
      BY <1>1, <2>3
    <3>2. PathOf(t) = PathOf(s) => CrateOf[t] = CrateOf[s]
      BY DEF PathOf
    <3> QED
      BY <3>1, <3>2, <1>5, <1>9 DEF FilesInv, DirInv, Writing
  <2> QED
    BY <1>1, <1>2, <1>5, <2>1, <2>2, <2>3 DEF FilesInv
<1>11. LogInv'
  <2> SUFFICES ASSUME mutants_log_on
               PROVE  LogInv'
    BY <1>2 DEF LogInv
  <2>1. \A t \in Sessions : pc'[t] \in {"create", "write", "over"} => PathOf(t) \in log_files
    BY <1>1 DEF LogInv, DirInv
  <2>2. ASSUME NEW a \in Sessions, NEW t \in Sessions, a # t, pc'[a] = "over",
               CrateOf[a] \notin overlapped, pc'[t] \in Writing
        PROVE  PathOf(t) # PathOf(a)
    <3>1. t # s /\ pc[t] \in Writing
      BY <1>1, <2>2 DEF Writing
    <3>2. CASE a = s
      BY <2>2, <3>1, <3>2, <1>9
    <3>3. CASE a # s
      BY <2>2, <3>1, <3>3, <1>1 DEF LogInv, DirInv
    <3> QED
      BY <3>2, <3>3
  <2>3. ASSUME NEW a \in Sessions, pc'[a] = "over", CrateOf[a] \notin overlapped
        PROVE  PathOf(a) \in DOMAIN result_files' /\ result_files'[PathOf(a)] = a
    <3>1. CASE a = s
      BY <2>3, <3>1, <1>3, <1>4, <1>5
    <3>2. CASE a # s
      <4>1. pc[a] = "over" /\ PathOf(s) # PathOf(a)
        BY <2>3, <3>2, <1>1 DEF LogInv, DirInv, Writing
      <4> QED
        BY <4>1, <2>3, <1>5 DEF LogInv, DirInv
    <3> QED
      BY <3>1, <3>2
  <2> QED
    BY <1>1, <1>2, <2>1, <2>2, <2>3 DEF LogInv
<1> QED
  BY <1>6, <1>7, <1>10, <1>11 DEF DirInv

(* Sessions that die change nothing but where they stand.                  *)
LEMMA DirKilled ==
  ASSUME DirInv, NEW S \in SUBSET Running,
         pc' = [t \in Sessions |-> IF t \in S THEN "killed" ELSE pc[t]],
         UNCHANGED <<mutants_log_on, suffix, log_files, result_files, overlapped>>
  PROVE  DirInv'
<1>1. /\ DirType'
      /\ \A t \in Sessions : PathOf(t)' = PathOf(t) /\ (pc'[t] = pc[t] \/ pc'[t] = "killed")
      /\ \A t \in Sessions : pc[t] = "over" => pc'[t] = pc[t]
  BY DEF DirInv, DirType, PathOf, Running
<1>2. OverlapsNoted'
  BY <1>1, NoNewRunning DEF Running
<1>3. FilesInv'
  BY <1>1 DEF FilesInv, DirInv
<1>4. LogInv'
  BY <1>1 DEF LogInv, DirInv, Writing
<1> QED
  BY <1>1, <1>2, <1>3, <1>4 DEF DirInv

LEMMA DirUnchanged ==
  ASSUME DirInv, UNCHANGED <<mutants_log_on, pc, suffix, log_files, result_files, overlapped>>
  PROVE  DirInv'
  BY DEF DirInv, DirType, OverlapsNoted, FilesInv, LogInv, Running, PathOf

(* What a step of the crates does to the sessions and their directory.     *)
LEMMA StepOfSessions ==
  ASSUME CratesNext
  PROVE  \/ UNCHANGED vars \/ StartRun \/ KillRun
         \/ \E s \in Sessions : Start(s) \/ SessionGoesOn(s) \/ Kill(s)
         \/ Compile \/ CompileKilled
<1>1. ASSUME NEW p \in Packages, RunOnCrate(p)
      PROVE  UNCHANGED vars
  BY <1>1 DEF RunOnCrate, Refuse, Begin, Takes, Download, CopyBody, Unpack, Panic,
              AppendWorkspace, UseLock, Check, CheckFailsEarly, EndCheck, CacheLock,
              CacheLockEnd, RemoveDir, RemoveDirFails, RecordFailure, StepPanics, Goes
<1> QED
  BY <1>1 DEF CratesNext, StartSession, NoteSession, Goes, EndRun, Publish

LEMMA DirStep == DirInv /\ [CratesNext]_allVars => DirInv'
<1> SUFFICES ASSUME DirInv, [CratesNext]_allVars
             PROVE  DirInv'
  OBVIOUS
<1>1. CASE UNCHANGED vars
  BY <1>1, DirUnchanged DEF vars
<1>2. CASE StartRun
  BY <1>2 DEF StartRun, DirInv, DirType, OverlapsNoted, FilesInv, LogInv, Running, NoTotal, Writing
<1>3. CASE KillRun
  <2>1. pc' = [t \in Sessions |-> IF t \in Running THEN "killed" ELSE pc[t]]
    BY <1>3 DEF KillRun
  <2> QED
    BY <1>3, <2>1, DirKilled DEF KillRun
<1>4. ASSUME NEW s \in Sessions, Start(s) \/ SessionGoesOn(s)
      PROVE  DirInv'
  BY <1>4, DirStart, DirProbe, DirCreateLog, DirCreateResults, DirWriteResults DEF SessionGoesOn
<1>5. ASSUME NEW s \in Sessions, Kill(s)
      PROVE  DirInv'
  <2>1. /\ s \in Running
        /\ pc' = [t \in Sessions |-> IF t \in {s} THEN "killed" ELSE pc[t]]
    BY <1>5 DEF Kill, DirInv, DirType
  <2>2. UNCHANGED <<mutants_log_on, suffix, log_files, result_files, overlapped>>
    BY <1>5 DEF Kill
  <2> QED
    BY <2>1, <2>2, DirKilled
<1>6. CASE Compile \/ CompileKilled
  BY <1>6, DirUnchanged DEF Compile, CompileStart, CompileFile, CompileWrite, CompileKilled
<1> QED
  BY <1>1, <1>2, <1>3, <1>4, <1>5, <1>6, StepOfSessions DEF allVars

LEMMA DirInvHolds == CratesSpec => []DirInv
<1>1. CratesInit => DirInv
  BY DirInit DEF CratesInit
<1> QED
  BY <1>1, DirStep, PTL DEF CratesSpec

(* The counts of a session that ended are there as long as the directory   *)
(* is, if the log is on and no two sessions of the name ran at a time, and *)
(* the bytes of two mix only if they did (src/main.rs, 378-406).           *)
THEOREM CrateRunsResultsKept == CratesSpec => []ResultsKept
<1>1. DirInv => ResultsKept
  BY DEF DirInv, FilesInv, LogInv, ResultsKept
<1> QED
  BY <1>1, DirInvHolds, PTL

-----------------------------------------------------------------------------
(* The totals.                                                             *)

(* The sessions whose counts the files at some paths hold.                 *)
CountedAt(paths) == {s \in Sessions : \E path \in paths : result_files[path] = s}

(* While files are added up no session runs and none will; the total is    *)
(* that of the files read, a session in it once.                           *)
TotalInv ==
  /\ compiles \in Nat
  /\ compiling = [left |-> compiling.left, total |-> compiling.total, on |-> compiling.on]
  /\ compiling.on =>
       /\ Running = {} /\ compiles > 0
       /\ compiling.left \subseteq DOMAIN result_files
       /\ compiling.total = [s \in CountedAt(DOMAIN result_files \ compiling.left) |-> 1]

(* A file that is read holds the counts of a session not counted yet.      *)
LEMMA CountOne ==
  ASSUME DirInv, TotalInv, compiling.on, NEW path \in compiling.left
  PROVE  Sum(compiling.total, Adds(result_files[path])) =
           [s \in CountedAt(DOMAIN result_files \ (compiling.left \ {path})) |-> 1]
<1> DEFINE read == DOMAIN result_files \ compiling.left
           own  == {result_files[path]} \cap Sessions
<1>1. path \in DOMAIN result_files
  BY DEF TotalInv
<1>2. DOMAIN result_files \ (compiling.left \ {path}) = read \cup {path}
  BY <1>1
<1>3. CountedAt(read \cup {path}) = CountedAt(read) \cup own
  BY DEF CountedAt
<1>4. CountedAt(read) \cap own = {}
  BY <1>1 DEF CountedAt, DirInv, FilesInv
<1>5. compiling.total = [s \in CountedAt(read) |-> 1] /\ Adds(result_files[path]) = [s \in own |-> 1]
  BY DEF TotalInv, Adds
<1> QED
  BY <1>2, <1>3, <1>4, <1>5 DEF Sum

LEMMA TotalStep == DirInv /\ TotalInv /\ [CratesNext]_allVars => TotalInv'
<1> SUFFICES ASSUME DirInv, TotalInv, [CratesNext]_allVars
             PROVE  TotalInv'
  OBVIOUS
<1>1. CASE UNCHANGED vars
  BY <1>1 DEF vars, TotalInv, Running, CountedAt, compilation
<1>2. CASE StartRun
  BY <1>2 DEF StartRun, TotalInv, compilation
<1>3. CASE KillRun
  BY <1>3 DEF KillRun, TotalInv, compilation, Running, CountedAt
<1>4. ASSUME NEW s \in Sessions, Start(s) \/ SessionGoesOn(s) \/ Kill(s)
      PROVE  TotalInv'
  <2>1. ~compiling.on /\ UNCHANGED compilation
    BY <1>4 DEF Start, SessionGoesOn, Probe, CreateLog, CreateResults, WriteResults, Kill,
                TotalInv, Running
  <2> QED
    BY <2>1 DEF TotalInv, compilation
<1>5. CASE CompileStart
  BY <1>5 DEF CompileStart, TotalInv, Running, CountedAt, NoTotal
<1>6. ASSUME NEW path \in Paths, CompileFile(path)
      PROVE  TotalInv'
  <2>1. /\ compiling.on /\ path \in compiling.left
        /\ compiling' = [left |-> compiling.left \ {path}, on |-> TRUE,
                         total |-> Sum(compiling.total, Adds(result_files[path]))]
        /\ UNCHANGED <<pc, result_files, compiles>>
    BY <1>6 DEF CompileFile, TotalInv
  <2> QED
    BY <2>1, CountOne DEF TotalInv, Running, CountedAt
<1>7. CASE CompileWrite \/ CompileKilled
  BY <1>7 DEF CompileWrite, CompileKilled, TotalInv, NotCompiling
<1> QED
  BY <1>1, <1>2, <1>3, <1>4, <1>5, <1>6, <1>7, StepOfSessions DEF Compile, allVars

(* A total that is written counts each session whose counts are in the     *)
(* directory once, those of an earlier total not again                     *)
(* (tests/compile_results.rs, 19-64).                                      *)
THEOREM CrateRunsCompiledIsTotal == CratesSpec => CompiledIsTotal
<1>1. CratesInit => TotalInv
  BY DEF CratesInit, Init, TotalInv, NotCompiling
<1>2. DirInv /\ TotalInv => [CompileWrite => compiled' =
        [s \in {t \in Sessions : \E path \in DOMAIN result_files : result_files[path] = t} |-> 1]]_vars
  BY DEF CompileWrite, TotalInv, CountedAt
<1> QED
  BY <1>1, <1>2, TotalStep, DirInvHolds, PTL DEF CratesSpec, CompiledIsTotal

-----------------------------------------------------------------------------
(* The crates.                                                             *)

Steps == {"queued", "download", "copy", "unpack", "append", "lock", "check", "checking",
          "cache", "caching", "remove", "record", "done", "panicked"}
Locks == 0..CutLock
Sources == [workspaces : Nat, lock : Locks, built : SUBSET Sessions]

CratesType ==
  /\ at \in [Packages -> Steps]
  /\ ok \in [Packages -> BOOLEAN]
  /\ source \in [Packages -> Sources]
  /\ lock_cache \in [Packages -> Locks]
  /\ registry \in 1..MaxVersions
  /\ checked \in [Packages -> SUBSET (Nat \X Locks)]

(* What is known of a crate's manifest and lock where it stands, and of    *)
(* the checks made of it: they are one, and its lock is the one that is    *)
(* kept, or will be: in the unpacked crate until the copy is whole.        *)
LockInv(p) ==
  /\ at[p] = "append" => source[p].workspaces = 0
  /\ at[p] \in {"lock", "check"} => source[p].workspaces = 1
  /\ at[p] = "check" /\ lock_cache[p] # NoLock => source[p].lock = lock_cache[p]
  /\ at[p] = "caching" => lock_cache[p] = CutLock /\ source[p].lock # NoLock
  /\ at[p] = "remove" => lock_cache[p] # NoLock
  /\ \A c \in checked[p] :
       /\ checked[p] = {c} /\ c[1] = 1 /\ c[2] \notin {NoLock, CutLock}
       /\ lock_cache[p] \in {NoLock, CutLock, c[2]}
       /\ lock_cache[p] = NoLock \/ at[p] = "caching" => source[p].lock = c[2]

(* A crate that was not unpacked, checked or cached in a step.             *)
LEMMA LockUnchanged ==
  ASSUME NEW p \in Packages, LockInv(p), at'[p] = at[p], source'[p] = source[p],
         lock_cache'[p] = lock_cache[p], checked'[p] = checked[p]
  PROVE  LockInv(p)'
  BY DEF LockInv

LEMMA OtherCrates ==
  ASSUME CratesType, NEW p \in Packages, RunOnCrate(p), NEW q \in Packages, q # p
  PROVE  /\ at'[q] = at[q] /\ source'[q] = source[q] /\ lock_cache'[q] = lock_cache[q]
         /\ checked'[q] = checked[q] /\ ok'[q] = ok[q]
  BY DEF CratesType, RunOnCrate, Refuse, Begin, Takes, Download, CopyBody, Unpack, Panic,
         AppendWorkspace, UseLock, Check, CheckFailsEarly, EndCheck, CacheLock,
         CacheLockEnd, RemoveDir, RemoveDirFails, RecordFailure, StepPanics, Goes

(* Steps of a crate that touch neither its unpacked files nor its lock,    *)
(* and come nowhere where something is known of them.                      *)
LEMMA LockAside ==
  ASSUME CratesType, NEW p \in Packages, LockInv(p),
         UNCHANGED <<source, lock_cache, registry, checked>>,
         NEW to \in Steps \ {"append", "lock", "check", "caching", "remove"},
         at' = [at EXCEPT ![p] = to], ok' \in [Packages -> BOOLEAN]
  PROVE  CratesType' /\ LockInv(p)'
  BY DEF CratesType, LockInv

LEMMA LockOnCrate ==
  ASSUME CratesType, NEW p \in Packages, LockInv(p), RunOnCrate(p)
  PROVE  CratesType' /\ LockInv(p)'
<1> USE DEF Goes
<1>1. ASSUME NEW from \in Steps, Panic(p, from)
      PROVE  CratesType' /\ LockInv(p)'
  BY <1>1, LockAside DEF Panic, Steps, CratesType
<1>2. CASE Refuse(p) \/ Begin(p)
  BY <1>2, LockAside DEF Refuse, Begin, Takes, Steps, CratesType
<1>3. CASE Download(p) \/ CopyBody(p)
  BY <1>1, <1>3, LockAside DEF Download, CopyBody, Steps, CratesType
<1>4. CASE Unpack(p)
  <2>1. CASE Panic(p, "unpack")
    BY <1>1, <2>1 DEF Steps
  <2>2. CASE ~Panic(p, "unpack")
    <3>1. /\ at' = [at EXCEPT ![p] = "append"]
          /\ source' = [source EXCEPT ![p].workspaces = 0]
          /\ UNCHANGED <<lock_cache, registry, checked, ok>>
      BY <1>4, <2>2 DEF Unpack
    <3> QED
      BY <3>1 DEF CratesType, LockInv, Sources, Steps
  <2> QED
    BY <2>1, <2>2
<1>5. CASE AppendWorkspace(p)
  <2>1. /\ at[p] = "append" /\ at' = [at EXCEPT ![p] = "lock"]
        /\ source' = [source EXCEPT ![p].workspaces = @ + 1]
        /\ UNCHANGED <<lock_cache, registry, checked, ok>>
    BY <1>5 DEF AppendWorkspace
  <2> QED
    BY <2>1 DEF CratesType, LockInv, Sources, Steps
<1>6. CASE UseLock(p)
  <2>1. /\ at[p] = "lock" /\ at' = [at EXCEPT ![p] = "check"]
        /\ source' = IF lock_cache[p] = NoLock THEN source
                     ELSE [source EXCEPT ![p].lock = lock_cache[p]]
        /\ UNCHANGED <<lock_cache, registry, checked, ok>>
    BY <1>6 DEF UseLock
  <2> QED
    BY <2>1 DEF CratesType, LockInv, Sources, Steps
<1>7. CASE Check(p)
  <2> DEFINE lock == IF source[p].lock = NoLock THEN registry ELSE source[p].lock
  <2>1. /\ at[p] = "check" /\ at' = [at EXCEPT ![p] = "checking"]
        /\ source[p].lock # CutLock
        /\ source' = [source EXCEPT ![p].lock = lock]
        /\ checked' = [checked EXCEPT ![p] = @ \cup {<<source'[p].workspaces, source'[p].lock>>}]
        /\ UNCHANGED <<lock_cache, registry, ok>>
    BY <1>7 DEF Check
  <2>2. lock \in Locks \ {NoLock, CutLock}
    BY <2>1, PackagesAssumption DEF CratesType, Sources, Locks, NoLock, CutLock
  <2>3. source'[p].lock = lock /\ source'[p].workspaces = 1
    BY <2>1 DEF CratesType, LockInv, Sources
  <2>4. source' \in [Packages -> Sources]
    BY <2>1, <2>2 DEF CratesType, Sources
  <2>5. checked'[p] = checked[p] \cup {<<1, lock>>}
    BY <2>1, <2>3 DEF CratesType
  <2>6. CratesType'
    BY <2>1, <2>2, <2>3, <2>4, <2>5 DEF CratesType, Steps
  <2>7. lock_cache[p] \in {NoLock, lock}
    BY <2>1 DEF LockInv
  <2>8. \A c \in checked[p] : c = <<1, lock>>
    BY <2>1 DEF LockInv, CratesType
  <2>9. at'[p] = "checking"
    BY <2>1 DEF CratesType
  <2> QED
    BY <2>1, <2>2, <2>3, <2>5, <2>6, <2>7, <2>8, <2>9 DEF LockInv
<1>8. CASE CheckFailsEarly(p)
  BY <1>8, LockAside DEF CheckFailsEarly, Steps, CratesType
<1>9. CASE EndCheck(p)
  <2>1. PICK success \in {FALSE, SessionsOf(p) \subseteq source[p].built} :
          ok' = [ok EXCEPT ![p] = success]
    BY <1>9 DEF EndCheck
  <2>2. ok' \in [Packages -> BOOLEAN]
    BY <2>1 DEF CratesType
  <2> QED
    BY <1>9, <2>2, LockAside DEF EndCheck, Steps
<1>10. CASE CacheLock(p)
  <2>1. CASE Panic(p, "cache")
    BY <1>1, <2>1 DEF Steps
  <2>2. CASE ~Panic(p, "cache")
    <3>1. /\ at[p] = "cache" /\ UNCHANGED <<source, registry, checked, ok>>
          /\ \/ /\ lock_cache[p] # NoLock
                /\ at' = [at EXCEPT ![p] = "remove"] /\ UNCHANGED lock_cache
             \/ /\ lock_cache[p] = NoLock /\ source[p].lock # NoLock
                /\ at' = [at EXCEPT ![p] = "caching"]
                /\ lock_cache' = [lock_cache EXCEPT ![p] = CutLock]
      BY <1>10, <2>2 DEF CacheLock
    <3>2. CutLock \in Locks
      BY PackagesAssumption DEF Locks, CutLock
    <3> QED
      BY <3>1, <3>2 DEF CratesType, LockInv, Steps
  <2> QED
    BY <2>1, <2>2
<1>11. CASE CacheLockEnd(p)
  <2>1. /\ at[p] = "caching" /\ at' = [at EXCEPT ![p] = "remove"]
        /\ lock_cache' = [lock_cache EXCEPT ![p] = source[p].lock]
        /\ UNCHANGED <<source, registry, checked, ok>>
    BY <1>11 DEF CacheLockEnd
  <2> QED
    BY <2>1 DEF CratesType, LockInv, Steps, Sources
<1>12. CASE RemoveDir(p)
  <2>1. /\ at[p] = "remove" /\ at' = [at EXCEPT ![p] = IF ok[p] THEN "done" ELSE "record"]
        /\ source' = [source EXCEPT ![p] = Missing]
        /\ UNCHANGED <<lock_cache, registry, checked, ok>>
    BY <1>12 DEF RemoveDir
  <2>2. Missing \in Sources
    BY PackagesAssumption DEF Missing, Sources, Locks, NoLock, CutLock
  <2> QED
    BY <2>1, <2>2 DEF CratesType, LockInv, Steps
<1>13. CASE RecordFailure(p)
  BY <1>13, LockAside DEF RecordFailure, Steps, CratesType
<1>14. CASE StepPanics(p)
  BY <1>1, <1>14 DEF StepPanics, Steps
<1>15. CASE RemoveDirFails(p)
  <2>1. /\ at[p] = "remove" /\ at' = [at EXCEPT ![p] = "panicked"]
        /\ UNCHANGED <<lock_cache, registry, checked, ok>>
    BY <1>15 DEF RemoveDirFails
  <2>2. PICK lock \in {source[p].lock, NoLock}, built \in SUBSET source[p].built :
          source' = [source EXCEPT ![p].lock = lock, ![p].built = built]
    BY <1>15 DEF RemoveDirFails
  <2>3. source[p] \in Sources /\ lock \in Locks /\ built \in SUBSET Sessions
    BY <2>2, PackagesAssumption DEF CratesType, Sources, Locks, NoLock, CutLock
  <2>4. source' \in [Packages -> Sources]
    BY <2>2, <2>3 DEF CratesType, Sources
  <2>5. CratesType'
    BY <2>1, <2>4 DEF CratesType, Steps
  <2>6. at'[p] = "panicked" /\ lock_cache[p] # NoLock
    BY <2>1 DEF CratesType, LockInv
  <2> QED
    BY <2>1, <2>5, <2>6 DEF LockInv
<1> QED
  BY <1>2, <1>3, <1>4, <1>5, <1>6, <1>7, <1>8, <1>9, <1>10, <1>11, <1>12, <1>13, <1>14, <1>15
  DEF RunOnCrate

CratesInv == CratesType /\ \A p \in Packages : LockInv(p)

LEMMA CratesInvInit == CratesInit => CratesInv
  BY PackagesAssumption DEF CratesInit, CratesInv, CratesType, LockInv, Missing, Sources,
     Steps, Locks, NoLock, CutLock

LEMMA CratesInvStep == CratesInv /\ [CratesNext]_allVars => CratesInv'
<1> SUFFICES ASSUME CratesInv, [CratesNext]_allVars
             PROVE  CratesInv'
  OBVIOUS
<1>1. ASSUME UNCHANGED <<at, ok, source, lock_cache, registry, checked>>
      PROVE  CratesInv'
  BY <1>1 DEF CratesInv, CratesType, LockInv
<1>2. ASSUME NEW p \in Packages, RunOnCrate(p)
      PROVE  CratesInv'
  <2>1. \A q \in Packages : LockInv(q)'
    BY <1>2, LockOnCrate, OtherCrates, LockUnchanged DEF CratesInv
  <2> QED
    BY <1>2, <2>1, LockOnCrate DEF CratesInv
<1>3. CASE StartRun
  <2>1. /\ at' = [p \in Packages |-> "queued"] /\ ok' = [p \in Packages |-> FALSE]
        /\ UNCHANGED <<source, lock_cache, registry, checked>>
    BY <1>3 DEF StartRun, StartsRun
  <2> QED
    BY <2>1 DEF CratesInv, CratesType, LockInv, Steps
<1>4. CASE Publish
  <2>1. registry' \in 1..MaxVersions
    BY <1>4, PackagesAssumption DEF Publish, CratesInv, CratesType
  <2> QED
    BY <1>4, <2>1 DEF Publish, CratesInv, CratesType, LockInv
<1>5. ASSUME NEW s \in Sessions, NoteSession(s)
      PROVE  CratesInv'
  <2> DEFINE p == PackageOf[s]
  <2>1. /\ p \in Packages
        /\ at' = [at EXCEPT ![p] = "checking"] /\ at[p] = "checking"
        /\ source' = [source EXCEPT ![p].built = @ \cup {s}]
        /\ UNCHANGED <<registry, lock_cache, ok, checked>>
    BY <1>5, PackagesAssumption DEF NoteSession, Goes
  <2> QED
    BY <2>1 DEF CratesInv, CratesType, LockInv, Sources, Steps
<1> QED
  BY <1>1, <1>2, <1>3, <1>4, <1>5 DEF CratesNext, EndRun, KillRun, StartSession, crates, allVars

LEMMA CratesInvHolds == CratesSpec => []CratesInv
  BY CratesInvInit, CratesInvStep, PTL DEF CratesSpec

(* Whatever runs are killed or panic, and whatever is published between    *)
(* them, each check of a crate is of one [workspace] table and the lock of *)
(* the first (tests/common/mod.rs, 57-97 and 192-296).                     *)
THEOREM CrateRunsChecksAgree == CratesSpec => []ChecksAgree
<1>1. ASSUME CratesInv, NEW p \in Packages
      PROVE  Cardinality(checked[p]) <= 1 /\ \A c \in checked[p] : c[1] = 1
  <2>1. CASE checked[p] = {}
    BY <2>1, FS_EmptySet
  <2>2. CASE checked[p] # {}
    <3>1. PICK c \in checked[p] : checked[p] = {c} /\ c[1] = 1
      BY <1>1, <2>2 DEF CratesInv, LockInv
    <3> QED
      BY <3>1, FS_Singleton
  <2> QED
    BY <2>1, <2>2
<1>2. CratesInv => ChecksAgree
  BY <1>1 DEF ChecksAgree
<1> QED
  BY <1>2, CratesInvHolds, PTL

-----------------------------------------------------------------------------
(* The accounts.                                                           *)

(* A session cargo has noted, and each one of a crate that it accepted,    *)
(* ended well in this run or had in an earlier one; a crate that it did    *)
(* not accept is in the log when its turn is over.                         *)
Noted(s) == s \in inherited \/ pc[s] = "over"

AccountInv ==
  /\ \A p \in Packages : \A s \in source[p].built : Noted(s)
  /\ \A p \in Packages : ok[p] => \A s \in SessionsOf(p) : Noted(s)
  /\ \A p \in Packages : at[p] = "done" => ok[p] \/ p \in failed
  /\ runner = "over" => \A p \in Packages : at[p] = "done"

(* Within a run, a session that ended stays so.                            *)
LEMMA NotedStays ==
  ASSUME DirInv, [CratesNext]_allVars, ~StartRun, NEW s \in Sessions, Noted(s)
  PROVE  Noted(s)'
<1>1. pc[s] = "over" => pc'[s] = "over"
  BY StepOfSessions DEF DirInv, DirType, Start, SessionGoesOn, Probe, CreateLog,
     CreateResults, WriteResults, Kill, KillRun, Running, Compile, CompileStart, CompileFile,
     CompileWrite, CompileKilled, vars, allVars
<1>2. UNCHANGED inherited
  <2>1. ASSUME NEW p \in Packages, RunOnCrate(p)
        PROVE  UNCHANGED inherited
    BY <2>1 DEF RunOnCrate, Refuse, Begin, Takes, Download, CopyBody, Unpack, Panic,
                AppendWorkspace, UseLock, Check, CheckFailsEarly, EndCheck, CacheLock,
                CacheLockEnd, RemoveDir, RemoveDirFails, RecordFailure, StepPanics, Goes
  <2> QED
    BY <2>1 DEF CratesNext, EndRun, KillRun, Publish, StartSession, NoteSession, Goes,
                crates, allVars
<1> QED
  BY <1>1, <1>2 DEF Noted

(* What the thread of a crate does to its own account.                     *)
LEMMA AccountOnCrate ==
  ASSUME CratesType, AccountInv, NEW p \in Packages, RunOnCrate(p)
  PROVE  /\ runner' = "running" /\ failed \subseteq failed'
         /\ source'[p].built \subseteq source[p].built
         /\ ok'[p] /\ ~ok[p] => SessionsOf(p) \subseteq source[p].built
         /\ at'[p] = "done" => ok'[p] \/ p \in failed'
<1> USE DEF Goes
<1>1. CASE Refuse(p) \/ Begin(p)
  BY <1>1 DEF Refuse, Begin, Takes, CratesType
<1>2. CASE Download(p) \/ CopyBody(p)
  BY <1>2 DEF Download, CopyBody, Panic, CratesType
<1>3. CASE Unpack(p) \/ AppendWorkspace(p) \/ UseLock(p)
  BY <1>3 DEF Unpack, AppendWorkspace, UseLock, Panic, CratesType, Sources
<1>4. CASE Check(p) \/ CheckFailsEarly(p)
  BY <1>4 DEF Check, CheckFailsEarly, CratesType, Sources
<1>5. CASE EndCheck(p)
  BY <1>5 DEF EndCheck, CratesType
<1>6. CASE CacheLock(p) \/ CacheLockEnd(p)
  BY <1>6 DEF CacheLock, CacheLockEnd, Panic, CratesType
<1>7. CASE RemoveDir(p)
  BY <1>7 DEF RemoveDir, Missing, CratesType
<1>8. CASE RecordFailure(p)
  BY <1>8 DEF RecordFailure, CratesType
<1>9. CASE StepPanics(p) \/ RemoveDirFails(p)
  BY <1>9 DEF StepPanics, RemoveDirFails, Panic, CratesType, Sources
<1> QED
  BY <1>1, <1>2, <1>3, <1>4, <1>5, <1>6, <1>7, <1>8, <1>9 DEF RunOnCrate

LEMMA AccountStep == DirInv /\ CratesInv /\ AccountInv /\ [CratesNext]_allVars => AccountInv'
<1> SUFFICES ASSUME DirInv, CratesInv, AccountInv, [CratesNext]_allVars
             PROVE  AccountInv'
  OBVIOUS
<1>1. CASE StartRun
  <2>1. /\ runner' = "running" /\ UNCHANGED source
        /\ at' = [p \in Packages |-> "queued"] /\ ok' = [p \in Packages |-> FALSE]
        /\ inherited' = UNION {source[p].built : p \in Packages}
    BY <1>1 DEF StartRun, StartsRun
  <2> QED
    BY <2>1 DEF AccountInv, Noted
<1>2. CASE ~StartRun
  <2>1. \A s \in Sessions : Noted(s) => Noted(s)'
    BY <1>2, NotedStays
  <2>2. \A p \in Packages : SessionsOf(p) \subseteq Sessions /\ source[p].built \subseteq Sessions
    BY DEF SessionsOf, CratesInv, CratesType, Sources
  <2>3. ASSUME UNCHANGED <<at, ok, source, failed>>, runner' = "over" => \A p \in Packages : at[p] = "done"
        PROVE  AccountInv'
    BY <2>1, <2>2, <2>3 DEF AccountInv
  <2>4. ASSUME NEW p \in Packages, RunOnCrate(p)
        PROVE  AccountInv'
    <3>1. \A q \in Packages : source'[q].built \subseteq source[q].built
      BY <2>4, AccountOnCrate, OtherCrates DEF CratesInv
    <3>2. \A q \in Packages : ok'[q] /\ ~ok[q] => SessionsOf(q) \subseteq source[q].built
      BY <2>4, AccountOnCrate, OtherCrates DEF CratesInv
    <3>3. \A q \in Packages : at'[q] = "done" => ok'[q] \/ q \in failed'
      <4>1. \A q \in Packages : q # p => at'[q] = at[q] /\ ok'[q] = ok[q]
        BY <2>4, OtherCrates DEF CratesInv
      <4> QED
        BY <2>4, <4>1, AccountOnCrate DEF CratesInv, AccountInv
    <3>4. runner' = "running"
      BY <2>4, AccountOnCrate DEF CratesInv
    <3>5. \A q \in Packages : \A s \in source'[q].built : Noted(s)'
      BY <2>1, <2>2, <3>1 DEF AccountInv
    <3>6. \A q \in Packages : ok'[q] => \A s \in SessionsOf(q) : Noted(s)'
      BY <2>1, <2>2, <3>2 DEF AccountInv
    <3>7. \A q \in Packages : SessionsOf(q)' = SessionsOf(q)
      BY DEF SessionsOf
    <3> QED
      BY <3>3, <3>4, <3>5, <3>6, <3>7 DEF AccountInv
  <2>5. CASE EndRun
    BY <2>3, <2>5 DEF EndRun
  <2>6. CASE KillRun
    BY <2>3, <2>6 DEF KillRun
  <2>7. CASE Publish
    BY <2>3, <2>7 DEF Publish, AccountInv
  <2>8. ASSUME NEW s \in Sessions, NoteSession(s)
        PROVE  AccountInv'
    <3> DEFINE p == PackageOf[s]
    <3>1. /\ p \in Packages /\ pc[s] = "over" /\ runner = "running" /\ at[p] = "checking"
          /\ at' = [at EXCEPT ![p] = "checking"]
          /\ source' = [source EXCEPT ![p].built = @ \cup {s}]
          /\ UNCHANGED <<ok, failed, runner>>
      BY <2>8, PackagesAssumption DEF NoteSession, Goes
    <3>2. \A q \in Packages : source'[q].built \subseteq source[q].built \cup {s}
      BY <3>1 DEF CratesInv, CratesType, Sources
    <3>3. at' = at
      BY <3>1 DEF CratesInv, CratesType
    <3>4. Noted(s)'
      BY <2>1, <3>1 DEF Noted
    <3>5. \A q \in Packages : \A t \in source'[q].built : Noted(t)'
      BY <2>1, <2>2, <3>2, <3>4 DEF AccountInv
    <3>6. \A q \in Packages : SessionsOf(q)' = SessionsOf(q)
      BY DEF SessionsOf
    <3> QED
      BY <2>1, <2>2, <3>1, <3>3, <3>5, <3>6 DEF AccountInv
  <2>9. ASSUME UNCHANGED crates
        PROVE  AccountInv'
    BY <2>3, <2>9 DEF crates, AccountInv
  <2> QED
    BY <1>2, <2>4, <2>5, <2>6, <2>7, <2>8, <2>9 DEF CratesNext, StartSession, allVars
<1> QED
  BY <1>1, <1>2

(* A run that comes to its end loses no session: the counts are in the     *)
(* directory, the crate is in the log of failures, or an earlier run has   *)
(* left the output (tests/top_crates.rs, 32-89; tests/common/mod.rs, 279). *)
THEOREM CrateRunsEveryCrateAccounted == CratesSpec => []EveryCrateAccounted
<1>1. CratesInit => AccountInv
  BY DEF CratesInit, AccountInv, Missing
<1>2. DirInv /\ AccountInv => EveryCrateAccounted
  <2> SUFFICES ASSUME DirInv, AccountInv, runner = "over", NEW s \in Sessions,
                      PackageOf[s] \notin failed
               PROVE  \/ s \in inherited
                      \/ /\ pc[s] = "over"
                         /\ mutants_log_on /\ CrateOf[s] \notin overlapped =>
                              PathOf(s) \in DOMAIN result_files /\ result_files[PathOf(s)] = s
    BY DEF EveryCrateAccounted
  <2>1. PackageOf[s] \in Packages /\ s \in SessionsOf(PackageOf[s])
    BY PackagesAssumption DEF SessionsOf
  <2>2. ok[PackageOf[s]]
    BY <2>1 DEF AccountInv
  <2>3. Noted(s)
    BY <2>1, <2>2 DEF AccountInv
  <2> QED
    BY <2>3 DEF Noted, DirInv, LogInv
<1> QED
  BY <1>1, <1>2, AccountStep, DirInvHolds, CratesInvHolds, PTL DEF CratesSpec

-----------------------------------------------------------------------------
(* The types.  That a session finds a free name before the suffixes run    *)
(* out is the part that needs an argument: the names it found taken are    *)
(* those of as many other sessions.                                        *)

PathsInv ==
  /\ suffix \in [Sessions -> Suffixes]
  /\ log_files \subseteq Paths /\ DOMAIN result_files \subseteq Paths
  /\ overlapped \subseteq Crates
  /\ \A s \in Sessions : pc[s] = "waiting" => suffix[s] = 0
  /\ \A s \in Sessions : pc[s] = "probe" =>
       \A j \in 0..suffix[s] - 1 : <<CrateOf[s], j>> \in log_files
  /\ \A path \in log_files : \E s \in Sessions :
       pc[s] \notin {"waiting", "probe"} /\ PathOf(s) = path

(* Each of k + 1 names is that of another session.                         *)
LEMMA NamesAreFew ==
  ASSUME NEW k \in Nat, NEW f \in [0..k -> Sessions],
         \A i, j \in 0..k : f[i] = f[j] => i = j
  PROVE  k + 1 \in Suffixes
<1>1. IsFiniteSet(Sessions) /\ Cardinality(Sessions) \in Nat
  BY SessionsAssumption, FS_CardinalityType
<1>2. f \in Injection(0..k, Sessions)
  BY DEF Injection, IsInjective
<1>3. Cardinality(0..k) <= Cardinality(Sessions)
  BY <1>1, <1>2, FS_Injection DEF ExistsInjection
<1>4. Cardinality(0..k) = k + 1
  BY FS_Interval
<1> QED
  BY <1>1, <1>3, <1>4 DEF Suffixes

LEMMA PathsProbe ==
  ASSUME DirInv, PathsInv, NEW s \in Sessions, Probe(s)
  PROVE  PathsInv'
<1>1. suffix[s] \in Nat /\ pc[s] = "probe"
  BY DEF DirInv, DirType, Probe
<1>2. UNCHANGED <<log_files, result_files, overlapped>>
  BY DEF Probe
<1>3. CASE PathOf(s) \in log_files
  <2> DEFINE k == suffix[s]
             Owns(t, j) == pc[t] \notin {"waiting", "probe"} /\ PathOf(t) = <<CrateOf[s], j>>
             owner == [j \in 0..k |-> CHOOSE t \in Sessions : Owns(t, j)]
  <2>1. pc' = pc /\ suffix' = [suffix EXCEPT ![s] = k + 1]
    BY <1>3 DEF Probe
  <2>2. \A j \in 0..k : <<CrateOf[s], j>> \in log_files
    BY <1>1, <1>3 DEF PathsInv, PathOf
  <2>3. \A j \in 0..k : \E t \in Sessions : Owns(t, j)
    BY <2>2 DEF PathsInv
  <2>4. owner \in [0..k -> Sessions] /\ \A j \in 0..k : Owns(owner[j], j)
    BY <2>3
  <2>5. \A i, j \in 0..k : owner[i] = owner[j] => i = j
    <3> HIDE DEF owner
    <3> QED
      BY <2>4
  <2>6. k + 1 \in Suffixes
    <3> HIDE DEF owner, k
    <3> QED
      BY <1>1, <2>4, <2>5, NamesAreFew DEF k
  <2>7. suffix' \in [Sessions -> Suffixes]
    BY <2>1, <2>6 DEF PathsInv
  <2>8. \A t \in Sessions : pc[t] # "probe" => PathOf(t)' = PathOf(t)
    BY <1>1, <2>1, <2>7 DEF PathOf, PathsInv
  <2>9. \A t \in Sessions : pc[t] = "probe" =>
          \A j \in 0..suffix'[t] - 1 : <<CrateOf[t], j>> \in log_files
    <3>1. suffix'[s] = k + 1 /\ \A t \in Sessions : t # s => suffix'[t] = suffix[t]
      BY <2>1, <2>7 DEF PathsInv
    <3>2. 0..(k + 1) - 1 = 0..k
      BY <1>1
    <3> HIDE DEF k
    <3>3. \A t \in Sessions : t # s /\ pc[t] = "probe" =>
            \A j \in 0..suffix[t] - 1 : <<CrateOf[t], j>> \in log_files
      BY DEF PathsInv
    <3> QED
      BY <2>2, <3>1, <3>2, <3>3
  <2>10. \A t \in Sessions : pc[t] = "waiting" => suffix'[t] = 0
    BY <1>1, <2>1 DEF PathsInv
  <2>11. \A path \in log_files : \E t \in Sessions :
           pc[t] \notin {"waiting", "probe"} /\ PathOf(t)' = path
    BY <2>8 DEF PathsInv
  <2> QED
    BY <1>2, <2>1, <2>7, <2>9, <2>10, <2>11 DEF PathsInv
<1>4. CASE PathOf(s) \notin log_files
  <2>1. suffix' = suffix /\ pc'[s] \notin {"waiting", "probe"}
        /\ \A t \in Sessions : t # s => pc'[t] = pc[t]
    BY <1>4 DEF Probe, DirInv, DirType
  <2>2. \A t \in Sessions : PathOf(t)' = PathOf(t)
    BY <2>1 DEF PathOf
  <2> QED
    BY <1>2, <2>1, <2>2 DEF PathsInv
<1> QED
  BY <1>3, <1>4

(* A session that creates a log has its path, and comes to no other.       *)
LEMMA PathsGoesOn ==
  ASSUME DirInv, PathsInv, NEW s \in Sessions, Start(s) \/ SessionGoesOn(s) \/ Kill(s)
  PROVE  PathsInv'
<1>0. PathOf(s) \in Paths /\ CrateOf[s] \in Crates /\ 0 \in Suffixes
  <2>1. Cardinality(Sessions) \in Nat
    BY SessionsAssumption, FS_CardinalityType
  <2> QED
    BY <2>1, SessionsAssumption DEF PathsInv, Paths, PathOf, Suffixes
<1>1. CASE Probe(s)
  BY <1>1, PathsProbe
<1>2. CASE Start(s)
  <2>1. /\ pc[s] = "waiting" /\ pc'[s] = "probe" /\ \A t \in Sessions : t # s => pc'[t] = pc[t]
        /\ UNCHANGED <<suffix, log_files, result_files>>
    BY <1>2 DEF Start, DirInv, DirType
  <2>2. \A t \in Sessions : PathOf(t)' = PathOf(t)
    BY <2>1 DEF PathOf
  <2>3. overlapped' \subseteq Crates
    BY <1>2, SessionsAssumption DEF Start, PathsInv, Running
  <2>4. suffix[s] = 0
    BY <2>1 DEF PathsInv
  <2> QED
    BY <2>1, <2>2, <2>3, <2>4 DEF PathsInv
<1>3. CASE CreateLog(s) \/ CreateResults(s) \/ WriteResults(s) \/ Kill(s)
  <2>1. /\ pc[s] # "waiting" /\ pc'[s] \notin {"waiting", "probe"}
        /\ \A t \in Sessions : t # s => pc'[t] = pc[t]
        /\ UNCHANGED <<suffix, overlapped>>
    BY <1>3 DEF CreateLog, CreateResults, WriteResults, Kill, DirInv, DirType, Running
  <2>2. \A t \in Sessions : PathOf(t)' = PathOf(t)
    BY <2>1 DEF PathOf
  <2>3. log_files \subseteq log_files' /\ log_files' \subseteq log_files \cup {PathOf(s)}
    BY <1>3 DEF CreateLog, CreateResults, WriteResults, Kill
  <2>4. DOMAIN result_files' \subseteq Paths
    <3>1. CASE CreateResults(s)
      <4>1. DOMAIN result_files' = {PathOf(s)} \cup DOMAIN result_files
        BY <3>1, CreateFile DEF CreateResults
      <4> QED
        BY <1>0, <4>1 DEF PathsInv
    <3>2. CASE ~CreateResults(s)
      <4>1. DOMAIN result_files' = DOMAIN result_files
        BY <1>3, <3>2 DEF CreateLog, WriteResults, Kill
      <4> QED
        BY <4>1 DEF PathsInv
    <3> QED
      BY <3>1, <3>2
  <2> QED
    BY <1>0, <2>1, <2>2, <2>3, <2>4 DEF PathsInv
<1> QED
  BY <1>1, <1>2, <1>3 DEF SessionGoesOn
LEMMA PathsStep == DirInv /\ PathsInv /\ [CratesNext]_allVars => PathsInv'
<1> SUFFICES ASSUME DirInv, PathsInv, [CratesNext]_allVars
             PROVE  PathsInv'
  OBVIOUS
<1>1. ASSUME UNCHANGED <<pc, suffix, log_files, result_files, overlapped>>
      PROVE  PathsInv'
  BY <1>1 DEF PathsInv, PathOf
<1>2. CASE StartRun
  <2>1. Cardinality(Sessions) \in Nat
    BY SessionsAssumption, FS_CardinalityType
  <2> QED
    BY <1>2, <2>1 DEF StartRun, PathsInv, NoTotal, Suffixes
<1>3. CASE KillRun
  <2>1. /\ UNCHANGED <<suffix, log_files, result_files, overlapped>>
        /\ \A s \in Sessions : pc'[s] = pc[s] \/ (pc'[s] = "killed" /\ pc[s] # "waiting")
    BY <1>3 DEF KillRun, Running
  <2> QED
    BY <2>1 DEF PathsInv, PathOf
<1>4. CASE Compile \/ CompileKilled
  BY <1>1, <1>4 DEF Compile, CompileStart, CompileFile, CompileWrite, CompileKilled
<1> QED
  BY <1>1, <1>2, <1>3, <1>4, PathsGoesOn, StepOfSessions DEF vars, allVars

(* The totals and the runs.                                                *)
RunsInv ==
  /\ runner \in {"running", "over", "panicked", "killed"} /\ runs \in 1..MaxRuns
  /\ compiles \in 0..MaxCompiles
  /\ DOMAIN compiled \subseteq Sessions /\ compiling.left \subseteq Paths

(* A lock is of a version that was published, or cut.                      *)
Known == 0..registry \cup {CutLock}

Archives == {"none", "cut", "page", "whole"}

FilesOfCrate(p) ==
  (at[p] \in UnpackedAt => archive[p] = "whole") /\ source[p].lock \in Known

CrateFilesInv ==
  /\ archive \in [Packages -> Archives] /\ lock_cache \in [Packages -> Known]
  /\ \A p \in Packages : FilesOfCrate(p)

(* The threads, and the one place where a crate has its sessions.          *)
PoolInv ==
  /\ IsFiniteSet(Busy) /\ Cardinality(Busy) <= Jobs
  /\ \A s \in Running : at[PackageOf[s]] = "checking"

(* What the thread of a crate does to its files.                           *)
LEMMA FilesOnCrate ==
  ASSUME CratesType, CrateFilesInv, NEW p \in Packages, RunOnCrate(p)
  PROVE  /\ archive' \in [Packages -> Archives] /\ lock_cache' \in [Packages -> Known]
         /\ FilesOfCrate(p)' /\ \A q \in Packages : q # p => archive'[q] = archive[q]
<1> USE DEF Goes, CratesType, CrateFilesInv, FilesOfCrate, UnpackedAt
<1>0. registry \in Known /\ CutLock \in Known /\ NoLock \in Known /\ Known' = Known
  <2>1. registry' = registry
    BY DEF RunOnCrate, Refuse, Begin, Takes, Download, CopyBody, Unpack, Panic,
           AppendWorkspace, UseLock, Check, CheckFailsEarly, EndCheck, CacheLock,
           CacheLockEnd, RemoveDir, RemoveDirFails, RecordFailure, StepPanics
  <2> QED
    BY <2>1 DEF Known, NoLock
<1>1. CASE Refuse(p) \/ Begin(p)
  BY <1>0, <1>1 DEF Refuse, Begin, Takes
<1>2. CASE Download(p)
  BY <1>0, <1>2 DEF Download, Panic, Archives
<1>3. CASE CopyBody(p)
  BY <1>0, <1>3 DEF CopyBody, Panic, Archives
<1>4. CASE Unpack(p)
  BY <1>0, <1>4 DEF Unpack, Panic, Sources
<1>5. CASE AppendWorkspace(p)
  BY <1>0, <1>5 DEF AppendWorkspace, Sources
<1>6. CASE UseLock(p)
  BY <1>0, <1>6 DEF UseLock, Sources
<1>7. CASE Check(p)
  <2>1. /\ at[p] = "check" /\ at' = [at EXCEPT ![p] = "checking"]
        /\ source' = [source EXCEPT ![p].lock =
                        IF source[p].lock = NoLock THEN registry ELSE source[p].lock]
        /\ UNCHANGED <<archive, lock_cache>>
    BY <1>7 DEF Check
  <2>2. source'[p].lock \in Known
    BY <1>0, <2>1 DEF Sources
  <2> QED
    BY <1>0, <2>1, <2>2
<1>8. CASE CheckFailsEarly(p) \/ EndCheck(p)
  BY <1>0, <1>8 DEF CheckFailsEarly, EndCheck
<1>9. CASE CacheLock(p) \/ CacheLockEnd(p)
  BY <1>0, <1>9 DEF CacheLock, CacheLockEnd, Panic
<1>10. CASE RemoveDir(p)
  <2>1. /\ at'[p] \in {"done", "record"} /\ source' = [source EXCEPT ![p] = Missing]
        /\ UNCHANGED <<archive, lock_cache>>
    BY <1>10 DEF RemoveDir
  <2>2. source'[p].lock = NoLock
    BY <2>1 DEF Missing
  <2> QED
    BY <1>0, <2>1, <2>2
<1>11. CASE RecordFailure(p)
  BY <1>0, <1>11 DEF RecordFailure
<1>12. CASE StepPanics(p)
  BY <1>0, <1>12 DEF StepPanics, Panic
<1>13. CASE RemoveDirFails(p)
  <2>1. /\ at' = [at EXCEPT ![p] = "panicked"] /\ UNCHANGED <<archive, lock_cache>>
    BY <1>13 DEF RemoveDirFails
  <2>2. source'[p].lock \in {source[p].lock, NoLock}
    BY <1>13 DEF RemoveDirFails, Sources
  <2> QED
    BY <1>0, <2>1, <2>2
<1> QED
  BY <1>1, <1>2, <1>3, <1>4, <1>5, <1>6, <1>7, <1>8, <1>9, <1>10, <1>11, <1>12, <1>13
  DEF RunOnCrate

(* When a thread takes a crate up, and when it leaves its sessions.        *)
LEMMA ThreadOnCrate ==
  ASSUME CratesType, NEW p \in Packages, RunOnCrate(p)
  PROVE  /\ UNCHANGED <<vars, runner, runs, registry>>
         /\ at' \in [Packages -> Steps] /\ \A q \in Packages : q # p => at'[q] = at[q]
         /\ at[p] \notin {"done", "panicked"}
         /\ at[p] = "queued" => Cardinality(Busy) < Jobs
         /\ at[p] = "checking" => SessionsOf(p) \cap Running = {}
<1> USE DEF Goes, CratesType, Steps
<1>1. CASE Refuse(p) \/ Begin(p)
  BY <1>1 DEF Refuse, Begin, Takes
<1>2. CASE Download(p) \/ CopyBody(p) \/ Unpack(p)
  BY <1>2 DEF Download, CopyBody, Unpack, Panic
<1>3. CASE AppendWorkspace(p) \/ UseLock(p) \/ Check(p) \/ CheckFailsEarly(p)
  BY <1>3 DEF AppendWorkspace, UseLock, Check, CheckFailsEarly
<1>4. CASE EndCheck(p)
  BY <1>4 DEF EndCheck
<1>5. CASE CacheLock(p) \/ CacheLockEnd(p) \/ RemoveDir(p) \/ RecordFailure(p)
  BY <1>5 DEF CacheLock, CacheLockEnd, RemoveDir, RecordFailure, Panic
<1>6. CASE StepPanics(p) \/ RemoveDirFails(p)
  BY <1>6 DEF StepPanics, RemoveDirFails, Panic
<1> QED
  BY <1>1, <1>2, <1>3, <1>4, <1>5, <1>6 DEF RunOnCrate

LEMMA PoolOnCrate ==
  ASSUME CratesType, PoolInv, NEW p \in Packages, RunOnCrate(p)
  PROVE  PoolInv'
<1>1. IsFiniteSet(Busy') /\ Cardinality(Busy') <= Jobs
  <2>0. /\ IsFiniteSet(Busy) /\ Cardinality(Busy) \in Nat /\ Cardinality(Busy) <= Jobs
        /\ Jobs \in Nat
    BY SessionsAssumption, FS_CardinalityType DEF PoolInv
  <2>1. Busy' \subseteq Busy \cup {p} /\ (at[p] # "queued" => p \in Busy)
    BY ThreadOnCrate DEF Busy
  <2>2. /\ IsFiniteSet(Busy \cup {p})
        /\ Cardinality(Busy \cup {p}) <= Cardinality(Busy) + (IF p \in Busy THEN 0 ELSE 1)
    BY <2>0, FS_AddElement
  <2>3. IsFiniteSet(Busy') /\ Cardinality(Busy') <= Cardinality(Busy \cup {p})
    BY <2>1, <2>2, FS_Subset
  <2>4. Cardinality(Busy') \in Nat /\ Cardinality(Busy \cup {p}) \in Nat
    BY <2>2, <2>3, FS_CardinalityType
  <2>5. Cardinality(Busy) < Jobs \/ p \in Busy
    BY <2>1, ThreadOnCrate
  <2> QED
    BY <2>0, <2>2, <2>3, <2>4, <2>5
<1>2. Running' = Running
  BY ThreadOnCrate DEF Running, vars
<1>3. \A s \in Running : at'[PackageOf[s]] = "checking"
  <2>1. \A s \in Running : s \in Sessions /\ PackageOf[s] \in Packages /\ at[PackageOf[s]] = "checking"
    BY PackagesAssumption DEF Running, PoolInv
  <2>2. \A s \in Running : PackageOf[s] # p
    BY <2>1, ThreadOnCrate DEF SessionsOf
  <2> QED
    BY <2>1, <2>2, ThreadOnCrate
<1> QED
  BY <1>1, <1>2, <1>3 DEF PoolInv
LEMMA CrateFilesStep == CratesInv /\ CrateFilesInv /\ [CratesNext]_allVars => CrateFilesInv'
<1> SUFFICES ASSUME CratesInv, CrateFilesInv, [CratesNext]_allVars
             PROVE  CrateFilesInv'
  OBVIOUS
<1>1. ASSUME UNCHANGED <<at, archive, source, lock_cache, registry>>
      PROVE  CrateFilesInv'
  BY <1>1 DEF CrateFilesInv, FilesOfCrate, Known
<1>2. ASSUME NEW p \in Packages, RunOnCrate(p)
      PROVE  CrateFilesInv'
  <2>1. Known' = Known
    BY <1>2, ThreadOnCrate DEF Known, CratesInv
  <2>2. ASSUME NEW q \in Packages, q # p
        PROVE  FilesOfCrate(q)'
    <3>1. at'[q] = at[q] /\ source'[q] = source[q] /\ archive'[q] = archive[q]
      BY <1>2, <2>2, OtherCrates, FilesOnCrate DEF CratesInv
    <3> QED
      BY <2>1, <3>1 DEF CrateFilesInv, FilesOfCrate
  <2>3. /\ archive' \in [Packages -> Archives] /\ lock_cache' \in [Packages -> Known]
        /\ FilesOfCrate(p)'
    BY <1>2, FilesOnCrate DEF CratesInv
  <2> QED
    BY <2>1, <2>2, <2>3 DEF CrateFilesInv
<1>3. CASE StartRun
  <2>1. /\ at' = [p \in Packages |-> "queued"]
        /\ UNCHANGED <<archive, source, lock_cache, registry>>
    BY <1>3 DEF StartRun, StartsRun
  <2> QED
    BY <2>1 DEF CrateFilesInv, FilesOfCrate, Known, UnpackedAt
<1>4. CASE Publish
  <2>1. registry \in Nat /\ registry' = registry + 1 /\ UNCHANGED <<at, archive, source, lock_cache>>
    BY <1>4 DEF Publish, CratesInv, CratesType
  <2>2. Known \subseteq Known'
    BY <2>1 DEF Known
  <2> QED
    BY <2>1, <2>2 DEF CrateFilesInv, FilesOfCrate
<1>5. ASSUME NEW s \in Sessions, NoteSession(s)
      PROVE  CrateFilesInv'
  <2> DEFINE p == PackageOf[s]
  <2>1. /\ p \in Packages
        /\ at' = [at EXCEPT ![p] = "checking"] /\ at[p] = "checking"
        /\ source' = [source EXCEPT ![p].built = @ \cup {s}]
        /\ UNCHANGED <<registry, lock_cache, archive>>
    BY <1>5, PackagesAssumption DEF NoteSession, Goes
  <2>2. at' = at /\ \A q \in Packages : source'[q].lock = source[q].lock
    BY <2>1 DEF CratesInv, CratesType, Sources
  <2> QED
    BY <2>1, <2>2 DEF CrateFilesInv, FilesOfCrate, Known
<1> QED
  BY <1>1, <1>2, <1>3, <1>4, <1>5 DEF CratesNext, EndRun, KillRun, StartSession, crates, allVars

LEMMA PoolStep == DirInv /\ CratesInv /\ PoolInv /\ [CratesNext]_allVars => PoolInv'
<1> SUFFICES ASSUME DirInv, CratesInv, PoolInv, [CratesNext]_allVars
             PROVE  PoolInv'
  OBVIOUS
<1>1. ASSUME UNCHANGED at, Running' \subseteq Running
      PROVE  PoolInv'
  BY <1>1 DEF PoolInv, Busy
<1>2. ASSUME UNCHANGED <<at, pc>>
      PROVE  PoolInv'
  BY <1>1, <1>2 DEF Running
<1>3. ASSUME NEW p \in Packages, RunOnCrate(p)
      PROVE  PoolInv'
  BY <1>3, PoolOnCrate DEF CratesInv
<1>4. CASE StartRun
  <2>1. Busy' = {} /\ Running' = {}
    BY <1>4 DEF StartRun, StartsRun, Busy, Running
  <2> QED
    BY <2>1, FS_EmptySet, SessionsAssumption DEF PoolInv
<1>5. CASE KillRun
  BY <1>1, <1>5 DEF KillRun, Running
<1>6. ASSUME NEW s \in Sessions, StartSession(s)
      PROVE  PoolInv'
  <2>1. /\ UNCHANGED at /\ at[PackageOf[s]] = "checking"
        /\ pc' = [pc EXCEPT ![s] = "probe"]
    BY <1>6 DEF StartSession, Start, crates
  <2>2. Running' \subseteq Running \cup {s}
    BY <2>1 DEF Running, DirInv, DirType
  <2> QED
    BY <2>1, <2>2 DEF PoolInv, Busy
<1>7. ASSUME NEW s \in Sessions, NoteSession(s)
      PROVE  PoolInv'
  <2>1. at' = at /\ pc' = pc
    BY <1>7, PackagesAssumption DEF NoteSession, Goes, vars, CratesInv, CratesType
  <2> QED
    BY <1>2, <2>1
<1>8. ASSUME NEW s \in Sessions, SessionGoesOn(s) \/ Kill(s), UNCHANGED crates
      PROVE  PoolInv'
  <2>1. pc[s] \notin {"waiting", "over", "killed"} /\ \A t \in Sessions : t # s => pc'[t] = pc[t]
    BY <1>8 DEF SessionGoesOn, Probe, CreateLog, CreateResults, WriteResults, Kill, Running,
                DirInv, DirType
  <2> QED
    BY <1>1, <1>8, <2>1 DEF Running, crates
<1>9. CASE (Compile \/ CompileKilled) /\ UNCHANGED crates
  BY <1>2, <1>9 DEF Compile, CompileStart, CompileFile, CompileWrite, CompileKilled, crates
<1> QED
  BY <1>2, <1>3, <1>4, <1>5, <1>6, <1>7, <1>8, <1>9
  DEF CratesNext, EndRun, Publish, vars, crates, allVars

LEMMA RunsStep == TotalInv /\ PathsInv /\ CratesInv /\ RunsInv /\ [CratesNext]_allVars => RunsInv'
<1> SUFFICES ASSUME TotalInv, PathsInv, CratesInv, RunsInv, [CratesNext]_allVars
             PROVE  RunsInv'
  OBVIOUS
<1>1. ASSUME UNCHANGED <<runner, runs, compilation>>
      PROVE  RunsInv'
  BY <1>1 DEF RunsInv, compilation
<1>2. ASSUME NEW p \in Packages, RunOnCrate(p)
      PROVE  RunsInv'
  BY <1>1, <1>2, ThreadOnCrate DEF vars, compilation, CratesInv
<1>3. CASE StartRun
  BY <1>3, PackagesAssumption DEF StartRun, StartsRun, RunsInv, compilation
<1>4. CASE EndRun \/ KillRun
  BY <1>4 DEF EndRun, KillRun, RunsInv, vars, compilation
<1>5. ASSUME NEW s \in Sessions, Start(s) \/ SessionGoesOn(s) \/ Kill(s), UNCHANGED crates
      PROVE  RunsInv'
  BY <1>1, <1>5 DEF Start, SessionGoesOn, Probe, CreateLog, CreateResults, WriteResults, Kill,
                    crates
<1>6. ASSUME NEW s \in Sessions, NoteSession(s)
      PROVE  RunsInv'
  BY <1>1, <1>6 DEF NoteSession, Goes, vars, compilation
<1>7. CASE CompileStart /\ UNCHANGED crates
  <2>1. /\ compiles' = compiles + 1 /\ compiles < MaxCompiles /\ compiled' = NoTotal
        /\ compiling'.left = DOMAIN result_files /\ UNCHANGED <<runner, runs>>
    BY <1>7 DEF CompileStart, crates
  <2>2. DOMAIN result_files \subseteq Paths /\ MaxCompiles \in Nat
    BY SessionsAssumption DEF PathsInv
  <2> QED
    BY <2>1, <2>2 DEF RunsInv, NoTotal
<1>8. ASSUME NEW path \in Paths, CompileFile(path), UNCHANGED crates
      PROVE  RunsInv'
  <2>1. compiling'.left \subseteq compiling.left
    BY <1>8 DEF CompileFile, TotalInv
  <2> QED
    BY <1>8, <2>1 DEF CompileFile, RunsInv, crates
<1>9. CASE CompileWrite /\ UNCHANGED crates
  <2>1. compiling.on /\ compiled' = compiling.total /\ compiling'.left = {}
        /\ UNCHANGED <<runner, runs, compiles>>
    BY <1>9 DEF CompileWrite, NotCompiling, crates
  <2>2. DOMAIN compiling.total \subseteq Sessions
    BY <2>1 DEF TotalInv, CountedAt
  <2> QED
    BY <2>1, <2>2 DEF RunsInv
<1>10. CASE CompileKilled /\ UNCHANGED crates
  BY <1>10 DEF CompileKilled, NotCompiling, RunsInv, crates
<1>11. CASE Publish \/ UNCHANGED allVars
  BY <1>1, <1>11 DEF Publish, vars, compilation, crates, allVars
<1>12. ASSUME Compile \/ CompileKilled, UNCHANGED crates
       PROVE  RunsInv'
  BY <1>7, <1>8, <1>9, <1>10, <1>12 DEF Compile
<1>13. ASSUME NEW s \in Sessions, StartSession(s)
       PROVE  RunsInv'
  BY <1>5, <1>13 DEF StartSession
<1>14. CASE CratesNext
  BY <1>2, <1>3, <1>4, <1>5, <1>6, <1>11, <1>12, <1>13, <1>14 DEF CratesNext
<1> QED
  BY <1>11, <1>14

(* The state is well formed over any number of runs: above all a session   *)
(* finds a free name with at most one suffix per session (src/main.rs,     *)
(* 378-390), no more crates are under way than there are threads, and      *)
(* compilers run only while their crate is checked.                        *)
THEOREM CrateRunsTypeOK == CratesSpec => []CratesTypeOK
<1>1. CratesInit => PathsInv /\ RunsInv /\ CrateFilesInv /\ PoolInv /\ TotalInv
  <2> SUFFICES ASSUME CratesInit
               PROVE  PathsInv /\ RunsInv /\ CrateFilesInv /\ PoolInv /\ TotalInv
    OBVIOUS
  <2>1. Cardinality(Sessions) \in Nat
    BY SessionsAssumption, FS_CardinalityType
  <2>2. PathsInv
    BY <2>1 DEF CratesInit, Init, PathsInv, NoTotal, Suffixes
  <2>3. RunsInv
    BY SessionsAssumption, PackagesAssumption
    DEF CratesInit, Init, RunsInv, NoTotal, NotCompiling
  <2>4. CrateFilesInv
    BY DEF CratesInit, CrateFilesInv, FilesOfCrate, Archives, Known, NoLock, Missing, UnpackedAt
  <2>5. Busy = {} /\ Running = {}
    BY DEF CratesInit, Init, Busy, Running
  <2>6. PoolInv
    BY <2>5, FS_EmptySet, SessionsAssumption DEF PoolInv
  <2>7. TotalInv
    BY DEF CratesInit, Init, TotalInv, NotCompiling
  <2> QED
    BY <2>2, <2>3, <2>4, <2>6, <2>7
<1>2. DirInv /\ PathsInv /\ RunsInv /\ CrateFilesInv /\ PoolInv => CratesTypeOK
  <2> SUFFICES ASSUME DirInv, PathsInv, RunsInv, CrateFilesInv, PoolInv
               PROVE  CratesTypeOK
    OBVIOUS
  <2>1. TypeOK
    BY DEF DirInv, DirType, PathsInv, RunsInv, TypeOK, Contents
  <2> QED
    BY <2>1 DEF CratesTypeOK, RunsInv, CrateFilesInv, FilesOfCrate, PoolInv, Archives, Known
<1> QED
  BY <1>1, <1>2, PathsStep, RunsStep, CrateFilesStep, PoolStep, TotalStep, DirInvHolds,
     CratesInvHolds, PTL DEF CratesSpec

=============================================================================

------------------------------ MODULE CrateRuns ------------------------------
(***************************************************************************)
(* The runner over the top crates (tests/top_crates.rs, tests/common):     *)
(* each crate is downloaded once, unpacked, checked by cargo with the tool *)
(* as its compiler, and removed; the Cargo.lock that cargo made is kept    *)
(* for later runs.  The compiler sessions are those of ResultsDir.         *)
(*                                                                         *)
(* A run may be killed anywhere, or stopped by a panic; what it leaves in  *)
(* the file system is what the next run finds.  A lock is the version of   *)
(* the registry it was made from.                                          *)
(***************************************************************************)
EXTENDS ResultsDir

CONSTANTS
  Packages,    \* the crates of crates.io to be run on
  PackageOf,   \* the package a session belongs to
  Unsupported, \* packages that is_supported_crate refuses
  MaxRuns,     \* bound: runs of the runner
  MaxVersions  \* bound: versions of the registry

ASSUME PackagesAssumption ==
  /\ PackageOf \in [Sessions -> Packages] /\ Unsupported \subseteq Packages
  /\ MaxRuns \in Nat \ {0} /\ MaxVersions \in Nat \ {0}

(* A Cargo.lock: none, a version of the registry, or the start of a file.  *)
NoLock == 0
CutLock == MaxVersions + 1

VARIABLES
  runner,     \* the run in progress, or how it ended
  runs,       \* how often the runner was started
  at,         \* where in run_on_crate each crate stands
  archive,    \* the downloaded <name>-<version>.crate
  source,     \* the unpacked crate: [workspace] tables added, Cargo.lock, and
              \* the sessions whose output is in its target directory
  lock_cache, \* the Cargo.lock kept for the crate
  registry,   \* the version of the registry
  ok,         \* what cargo check answered
  failed,     \* failed_crates
  checked,    \* history: what cargo has checked of each crate, over all runs
  inherited   \* history: the sessions whose output an earlier run has left

crates == <<runner, runs, at, archive, source, lock_cache, registry, ok, failed,
            checked, inherited>>
allVars == <<vars, crates>>

Missing == [workspaces |-> 0, lock |-> NoLock, built |-> {}]
UnpackedAt == {"append", "lock", "check", "checking", "cache", "caching", "remove"}
Busy == {p \in Packages : at[p] \notin {"queued", "done", "panicked"}}
SessionsOf(p) == {s \in Sessions : PackageOf[s] = p}

StartsRun ==
  /\ runner' = "running" /\ runs' = runs + 1
  /\ at' = [p \in Packages |-> "queued"]
  /\ ok' = [p \in Packages |-> FALSE]
  /\ failed' = {}
  /\ inherited' = UNION {source[p].built : p \in Packages}

CratesInit ==
  /\ Init
  /\ runner = "running" /\ runs = 1
  /\ at = [p \in Packages |-> "queued"]
  /\ ok = [p \in Packages |-> FALSE]
  /\ failed = {} /\ inherited = {}
  /\ archive = [p \in Packages |-> "none"]
  /\ source = [p \in Packages |-> Missing]
  /\ lock_cache = [p \in Packages |-> NoLock]
  /\ registry = 1
  /\ checked = [p \in Packages |-> {}]

(* top_crates_parallel removes the results directory and makes a new one.  *)
StartRun ==
  /\ runner # "running" /\ runs < MaxRuns /\ compiles = 0
  /\ StartsRun
  /\ pc' = [s \in Sessions |-> "waiting"] /\ suffix' = [s \in Sessions |-> 0]
  /\ log_files' = {} /\ result_files' = NoTotal /\ overlapped' = {}
  /\ UNCHANGED <<mutants_log_on, compilation, archive, source, lock_cache, registry, checked>>

-----------------------------------------------------------------------------
(* run_on_crate, by a thread of the pool.                                  *)

Goes(p, from, to) ==
  /\ runner = "running" /\ at[p] = from
  /\ at' = [at EXCEPT ![p] = to]
  /\ UNCHANGED <<vars, runner, runs, registry, inherited>>

(* The next crate, unless one has panicked (panic_fuse).                   *)
Takes(p, to) ==
  /\ Cardinality(Busy) < Jobs /\ \A q \in Packages : at[q] # "panicked"
  /\ Goes(p, "queued", to)
  /\ UNCHANGED <<archive, source, lock_cache, ok, checked>>

(* A crate that is not supported is one that failed.                       *)
Refuse(p) ==
  /\ p \in Unsupported
  /\ Takes(p, "done")
  /\ failed' = failed \cup {p}

Begin(p) ==
  /\ p \notin Unsupported
  /\ Takes(p, IF archive[p] = "none" THEN "download" ELSE "unpack")
  /\ UNCHANGED failed

Panic(p, from) ==
  /\ Goes(p, from, "panicked")
  /\ UNCHANGED <<archive, source, lock_cache, ok, failed, checked>>

(* Cargo.toml cannot be opened or written, Cargo.lock not copied; or cargo *)
(* build of the tool fails, or cargo check cannot be started.              *)
StepPanics(p) == \E from \in {"append", "lock", "check"} : Panic(p, from)

(* get, then File::create.                                                 *)
Download(p) ==
  \/ /\ Goes(p, "download", "copy")
     /\ archive' = [archive EXCEPT ![p] = "cut"]
     /\ UNCHANGED <<source, lock_cache, ok, failed, checked>>
  \/ Panic(p, "download")

(* copy_to the file; the status of the response is not looked at.          *)
CopyBody(p) ==
  \/ /\ Goes(p, "copy", "unpack")
     /\ \E body \in {"whole", "page"} : archive' = [archive EXCEPT ![p] = body]
     /\ UNCHANGED <<source, lock_cache, ok, failed, checked>>
  \/ Panic(p, "copy")

UnpackIfMissing(p) ==
  \/ /\ archive[p] = "whole"
     /\ Goes(p, "unpack", "append")
     /\ UNCHANGED <<archive, source, lock_cache, ok, failed, checked>>
  \/ archive[p] # "whole" /\ Panic(p, "unpack")

(* tar writes Cargo.toml anew, and leaves a Cargo.lock of an earlier run.  *)
Unpack(p) ==
  \/ /\ archive[p] = "whole"
     /\ Goes(p, "unpack", "append")
     /\ source' = [source EXCEPT ![p].workspaces = 0]
     /\ UNCHANGED <<archive, lock_cache, ok, failed, checked>>
  \/ archive[p] # "whole" /\ Panic(p, "unpack")

AppendWorkspace(p) ==
  /\ Goes(p, "append", "lock")
  /\ source' = [source EXCEPT ![p].workspaces = @ + 1]
  /\ UNCHANGED <<archive, lock_cache, ok, failed, checked>>

UseLock(p) ==
  /\ Goes(p, "lock", "check")
  /\ source' = IF lock_cache[p] = NoLock THEN source
               ELSE [source EXCEPT ![p].lock = lock_cache[p]]
  /\ UNCHANGED <<archive, lock_cache, ok, failed, checked>>

(* cargo check makes a Cargo.lock if there is none, and starts compilers.  *)
Check(p) ==
  /\ Goes(p, "check", "checking")
  /\ source[p].lock # CutLock
  /\ source' = [source EXCEPT ![p].lock = IF @ = NoLock THEN registry ELSE @]
  /\ checked' = [checked EXCEPT ![p] = @ \cup {<<source'[p].workspaces, source'[p].lock>>}]
  /\ UNCHANGED <<archive, lock_cache, ok, failed>>

(* cargo cannot read the Cargo.lock, or fails before it has made one.      *)
CheckFailsEarly(p) ==
  /\ Goes(p, "check", "cache")
  /\ source[p].lock \in {CutLock, NoLock}
  /\ UNCHANGED <<archive, source, lock_cache, ok, failed, checked>>

(* cargo starts the compilers of a package one after the other, the next   *)
(* only if the last one did not fail, and none whose output it finds.      *)
StartSession(s) ==
  /\ runner = "running" /\ at[PackageOf[s]] = "checking"
  /\ s \notin source[PackageOf[s]].built
  /\ \A t \in SessionsOf(PackageOf[s]) :
       pc[t] = "waiting" \/ t \in source[PackageOf[s]].built
  /\ Start(s)
  /\ UNCHANGED crates

(* cargo learns that a compiler has ended well, and notes it.              *)
NoteSession(s) ==
  LET p == PackageOf[s] IN
  /\ Goes(p, "checking", "checking")
  /\ pc[s] = "over" /\ s \notin source[p].built
  /\ source' = [source EXCEPT ![p].built = @ \cup {s}]
  /\ UNCHANGED <<archive, lock_cache, ok, failed, checked>>

EndCheckUnheeded(p) ==
  /\ Goes(p, "checking", "cache")
  /\ SessionsOf(p) \cap Running = {}
  /\ ok' = [ok EXCEPT ![p] = TRUE]
  /\ UNCHANGED <<archive, source, lock_cache, failed, checked>>

(* The crate compiles only if all its targets have; it may fail anyway.    *)
EndCheck(p) ==
  /\ Goes(p, "checking", "cache")
  /\ SessionsOf(p) \cap Running = {}
  /\ \E success \in {FALSE, SessionsOf(p) \subseteq source[p].built} :
       ok' = [ok EXCEPT ![p] = success]
  /\ UNCHANGED <<archive, source, lock_cache, failed, checked>>

CacheLockOnSuccess(p) ==
  /\ Goes(p, "cache", IF lock_cache[p] = NoLock /\ ok[p] THEN "caching" ELSE "remove")
  /\ lock_cache' = IF lock_cache[p] = NoLock /\ ok[p]
                   THEN [lock_cache EXCEPT ![p] = CutLock] ELSE lock_cache
  /\ UNCHANGED <<archive, source, ok, failed, checked>>

(* fs::copy, unless the lock is cached: it is an error if there is none.   *)
CacheLock(p) ==
  \/ /\ lock_cache[p] # NoLock
     /\ Goes(p, "cache", "remove")
     /\ UNCHANGED <<archive, source, lock_cache, ok, failed, checked>>
  \/ /\ lock_cache[p] = NoLock /\ source[p].lock # NoLock
     /\ Goes(p, "cache", "caching")
     /\ lock_cache' = [lock_cache EXCEPT ![p] = CutLock]
     /\ UNCHANGED <<archive, source, ok, failed, checked>>
  \/ lock_cache[p] = NoLock /\ source[p].lock = NoLock /\ Panic(p, "cache")

CacheLockEnd(p) ==
  /\ Goes(p, "caching", "remove")
  /\ lock_cache' = [lock_cache EXCEPT ![p] = source[p].lock]
  /\ UNCHANGED <<archive, source, ok, failed, checked>>

RemoveDir(p) ==
  /\ Goes(p, "remove", IF ok[p] THEN "done" ELSE "record")
  /\ source' = [source EXCEPT ![p] = Missing]
  /\ UNCHANGED <<archive, lock_cache, ok, failed, checked>>

(* remove_dir_all fails part way.                                          *)
RemoveDirFails(p) ==
  /\ Goes(p, "remove", "panicked")
  /\ \E lock \in {source[p].lock, NoLock}, built \in SUBSET source[p].built :
       source' = [source EXCEPT ![p].lock = lock, ![p].built = built]
  /\ UNCHANGED <<archive, lock_cache, ok, failed, checked>>

RecordFailure(p) ==
  /\ Goes(p, "record", "done")
  /\ failed' = failed \cup {p}
  /\ UNCHANGED <<archive, source, lock_cache, ok, checked>>

RunOnCrate(p) ==
  \/ Refuse(p) \/ Begin(p) \/ Download(p) \/ CopyBody(p)
  \/ Unpack(p) \/ AppendWorkspace(p) \/ UseLock(p)
  \/ Check(p) \/ CheckFailsEarly(p) \/ EndCheck(p)
  \/ CacheLock(p) \/ CacheLockEnd(p) \/ RemoveDir(p) \/ RemoveDirFails(p)
  \/ RecordFailure(p) \/ StepPanics(p)

-----------------------------------------------------------------------------
(* for_each returns: the log is written, or the panic goes on.             *)
EndRun ==
  /\ runner = "running" /\ Busy = {}
  /\ IF \E p \in Packages : at[p] = "panicked"
       THEN runner' = "panicked"
       ELSE (\A p \in Packages : at[p] = "done") /\ runner' = "over"
  /\ UNCHANGED <<vars, runs, at, archive, source, lock_cache, registry, ok, failed, checked, inherited>>

(* The run and its processes are killed.                                   *)
KillRun ==
  /\ runner = "running" /\ runner' = "killed"
  /\ pc' = [s \in Sessions |-> IF s \in Running THEN "killed" ELSE pc[s]]
  /\ UNCHANGED <<mutants_log_on, suffix, log_files, result_files, compilation, overlapped>>
  /\ UNCHANGED <<runs, at, archive, source, lock_cache, registry, ok, failed, checked, inherited>>

(* A dependency of the crates has a new version on crates.io.              *)
Publish ==
  /\ registry < MaxVersions /\ registry' = registry + 1
  /\ UNCHANGED <<vars, runner, runs, at, archive, source, lock_cache, ok, failed,
                 checked, inherited>>

(* Totals are compiled of the runs that came to their end (a bound).       *)
CratesNext ==
  \/ StartRun \/ EndRun \/ KillRun \/ Publish
  \/ \E p \in Packages : RunOnCrate(p)
  \/ \E s \in Sessions : StartSession(s) \/ NoteSession(s)
  \/ \E s \in Sessions : (SessionGoesOn(s) \/ Kill(s)) /\ UNCHANGED crates
  \/ runner = "over" /\ (Compile \/ CompileKilled) /\ UNCHANGED crates

CratesSpec == CratesInit /\ [][CratesNext]_allVars

-----------------------------------------------------------------------------

(* The sessions and the files have their types; a crate is compiled only   *)
(* where it was unpacked, and no more crates are under way than threads.   *)
CratesTypeOK ==
  /\ TypeOK
  /\ runner \in {"running", "over", "panicked", "killed"} /\ runs \in 1..MaxRuns
  /\ archive \in [Packages -> {"none", "cut", "page", "whole"}]
  /\ \A p \in Packages : at[p] \in UnpackedAt => archive[p] = "whole"
  /\ lock_cache \in [Packages -> 0..registry \cup {CutLock}]
  /\ Cardinality(Busy) <= Jobs
  /\ \A s \in Running : at[PackageOf[s]] = "checking"

(* Whichever run checks a crate, after whatever was killed, panicked or    *)
(* published before, it checks the same: one [workspace] table, for with   *)
(* two cargo refuses the manifest, and one set of dependencies.            *)
ChecksAgree ==
  \A p \in Packages :
    Cardinality(checked[p]) <= 1 /\ \A c \in checked[p] : c[1] = 1

(* When the log of failed crates is written, every session is accounted    *)
(* for: its crate is in the log, or its counts are in the results          *)
(* directory (if the log of mutants is on, and the name was not used by    *)
(* two at a time).  The exception is an output that a run which did not    *)
(* come to remove_dir_all has left: cargo does not compile it again, and   *)
(* the counts of that run are gone with its results directory.             *)
EveryCrateAccounted ==
  runner = "over" =>
    \A s \in Sessions :
      \/ PackageOf[s] \in failed
      \/ s \in inherited
      \/ /\ pc[s] = "over"
         /\ mutants_log_on /\ CrateOf[s] \notin overlapped =>
              PathOf(s) \in DOMAIN result_files /\ result_files[PathOf(s)] = s

=============================================================================

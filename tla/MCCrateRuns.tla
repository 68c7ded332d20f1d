---------------------------- MODULE MCCrateRuns -----------------------------
(* Instances of CrateRuns for TLC.                                         *)
EXTENDS CrateRuns

CONSTANTS s1, s2, s3, p1, p2, p3, build_script_build, lib_a

(* Two packages with a build script each, and the library of the first;    *)
(* the third package is not supported.                                     *)
MCCrateOf == s1 :> build_script_build @@ s2 :> build_script_build @@ s3 :> lib_a
MCPackageOf == s1 :> p1 @@ s2 :> p2 @@ s3 :> p1

(* CratesNext, with fewer interleavings: without the log one run is enough,*)
(* since its sessions overwrite each other and what else a run leaves to   *)
(* the next does not depend on it; and a run looks at the registry once    *)
(* for each crate, so that what is published meanwhile could as well be    *)
(* published before or after it.                                           *)
MCNext ==
  \/ mutants_log_on /\ StartRun
  \/ runner # "running" /\ Publish
  \/ EndRun \/ KillRun
  \/ \E p \in Packages : RunOnCrate(p)
  \/ \E s \in Sessions : StartSession(s) \/ NoteSession(s)
  \/ \E s \in Sessions : (SessionGoesOn(s) \/ Kill(s)) /\ UNCHANGED crates
  \/ runner = "over" /\ (Compile \/ CompileKilled) /\ UNCHANGED crates
MCSpec == CratesInit /\ [][MCNext]_allVars
=============================================================================

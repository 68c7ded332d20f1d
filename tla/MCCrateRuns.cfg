CONSTANTS
  s1 = s1
  s2 = s2
  s3 = s3
  p1 = p1
  p2 = p2
  p3 = p3
  build_script_build = build_script_build
  lib_a = lib_a
  Sessions = {s1, s2, s3}
  Crates = {build_script_build, lib_a}
  CrateOf <- MCCrateOf
  Packages = {p1, p2, p3}
  PackageOf <- MCPackageOf
  Unsupported = {p3}
  Jobs = 2
  MaxCompiles = 2
  MaxRuns = 2
  MaxVersions = 2
SPECIFICATION MCSpec
INVARIANTS CratesTypeOK ResultsKept  EveryCrateAccounted
PROPERTIES CompiledIsTotal
CHECK_DEADLOCK FALSE

# pcg-mutation-testing in TLA+

`pcg-mutation-testing` asks whether the place capability graph (PCG) that the
`pcg` library computes for a Rust function is right. It runs as a compiler: for
every function of a crate it makes *mutants* of the MIR body that the PCG says
break the borrow rules, hands each mutant to the borrow checker (a fork of
`rustc_borrowck`, under `borrowck/`), and counts how many it rejects. A mutant
that passes is evidence against the PCG. The counts are only worth something if
the tool makes the mutants it claims to make, each once, judges each by its own
errors and adds the counts up right; and if the borrow checker's loans and
regions are right. These modules state that and check it.

## The system

| Part | Source | State | Operations | Talks to |
|---|---|---|---|---|
| Mutation run | `src/main.rs`, `src/lib.rs` | `BODIES` (a thread-local map), counts per mutation, mutants log, bodies that passed | `mir_borrowck` provider, `run_mutation_tests`, `run_mutation_tests_for_body`, a `catch_unwind` per mutant | compiler callbacks, Mutator, borrow checker, error tracker, results directory |
| Error tracker | `src/errors/mod.rs` | `ERROR_CODES` (global) | `track_diagnostic` callback, `track_body_error_codes`, `get_registered_errors` | written by the diagnostics of the borrow checker, read by the run |
| Mutator | `src/mutator/mutator_impl.rs` | queue of blocks, loaded block, statement index, current stream | `next` | pulled by the run; asks a mutation for streams |
| Mutations | `src/mutator/*.rs` | the list of places left in a stream | six `make_stream`s and `next`s | read the PCG at two locations, edit a clone of the body |
| places_blocking | `src/mutator/expiry_order.rs` | a worklist | one walk over the borrow PCG | used by the two expiry mutations |
| Results directory | `src/main.rs`, `tests/top_crates.rs`, `tests/compile_results.rs` | files | probe, create, write; read all and add up | many compiler processes, the compilation |
| Borrow checker | `borrowck/src` | see below | `do_mir_borrowck` | the run |
| - borrow set | `borrow_set.rs` | loans by location, pending two-phase activations | one visit of the body | loan scopes, access checks |
| - MIR type check, liveness | `type_check/` | constraints, liveness of regions | one visit of the body | region inference |
| - region inference | `region_infer/`, `constraints/`, `member_constraints.rs` | values of the SCCs | `solve` | loan scopes, errors |
| - universal regions, closures | `universal_regions.rs`, `type_check/free_region_relations.rs`, `constraint_conversion.rs` | the regions an item is given, by number; what is known of them; requirements on the creator | `UniversalRegions::new`, `prove_closure_bounds` | region inference of the item, type check of its creator |
| - loan scopes | `dataflow.rs` | worklist, kills by location, dataflow state | precomputation, transfer functions | access checks |
| - access checks | `lib.rs`, `places_conflict.rs`, `path_utils.rs` | buffered diagnostics, reservation errors | one visit of the dataflow results | the verdict |
| - Polonius facts | `facts.rs`, `nll.rs`, `polonius/` | fact tables | one visit of the body | off in the compiler unless asked for; the tool asks for the facts, not for what follows from them |
| - reports of region errors | `diagnostics/region_errors.rs`, `outlives_suggestion.rs`, `region_name.rs` | the bounds to suggest, the names given | `report_region_errors` | called with what region inference found |
| - diagnostics | `diagnostics/`, `mod diags` of `lib.rs` | three buffers of diagnostics, what was already reported | `report_*`, `buffer_*_error`, `emit_errors` | called by the access checks; error tracker |
| Runner over the top crates | `tests/top_crates.rs`, `tests/common` | downloaded archives, unpacked crates, cached lock files, failed crates | download, unpack, check, keep the lock, remove, in parallel | crates.io, cargo, compiler processes |

What is hard to test here is listed in `PROJECT.json` under `hazards`, each at
its line: a cursor with three pieces of state across many calls; edits at the
edges of a block; a walk over a hypergraph with no visited set; a global set of
error codes; panics caught half way; processes that share a directory; and, in
the borrow checker, worklists that visit a block once however many paths lead to
it.

What makes each part correct:

* Mutator: every mutant handed out once, in body order, none skipped, and an end.
* Mutations: the mutant is the original with the one edit; the place is lent
  where the edit is.
* places_blocking: exactly the places that block on a valid path.
* Mutation run: counts, codes, log, kept bodies and the error count of the
  session tell the same story as the verdicts.
* Results directory: counts are neither lost, mixed nor added twice.
* Runner: whatever earlier runs left, each run checks the same manifest and the same
  dependencies of a crate, and every crate is in the results or in the failed list.
* Loan scopes: a loan is in scope at a point exactly when a path leads there
  that stays in its region and on which its place is not overwritten.
* Region inference: the values solve the constraints and hold nothing that the
  constraints and member choices do not put there; a relation the function cannot
  prove is reported or asked of its creator, never dropped; every error has a
  constraint to blame.
* Closures: what an item needs of the regions it is given arrives at its creator,
  about the regions that were meant, through any nesting; what it assumes of them is
  true there.
* Reports of region errors: an error that was promised is told, or stands behind one
  that is; the bounds that are suggested are missing ones, and they suffice.
* Borrow set and access checks: no run of an accepted body uses a reference after
  another access has ended what it stands for, nor reads what is not initialised;
  a two-phase loan counts as active exactly when its reference has been used; a
  conflict that is reported is one; a `mut` called unused is.
* places_conflict: a conflict exactly when the access may touch what is lent.

## The modules

| Module | Models | Correspondence |
|---|---|---|
| `Mutator` | `Mutator::next` and its caller | the variables are the fields; `Yield`, `MakeStream`, `LoadBlock` are the branches of the loop, `CheckProgress` its assertion, `ReturnNone` its exit. A stream is the list of mutants it will yield. |
| `MutantEnumeration` | what a Mutator promises | delivers each mutant of a scope once, then finishes |
| `MutatorProofs` | theorems about `Mutator` | |
| `MutationRun` | one compiler session | `pc` says where in `run_mutation_tests` and in the closure under `catch_unwind` the session stands. The borrow checker answers arbitrarily. An owner has a body in the map or none; the analysis and the mutators may panic outside of the `catch_unwind`, which ends the session. Environment variables have any value, the unexpected one that makes `env_feature_enabled` panic included. |
| `MutationRunProofs` | theorems about `MutationRun` | |
| `ResultsDir` | the files and the processes that write and read them | one action per system call that others can see: probing, creating, writing; `Kill` stops a process anywhere |
| `CrateRuns` | `run_on_crate` and its threads, over several runs of the runner | extends `ResultsDir`, whose sessions are the compilers that cargo starts; `at[p]` is where in `run_on_crate` a crate stands, one action per change of a file or directory that a later run can find, each of which may fail with a panic (`StepPanics`, `RemoveDirFails` part way); cargo, tar and crates.io are external |
| `CrateRunsProofs` | theorems about `CrateRuns` and `ResultsDir` | |
| `MutantEdits` | `make_stream` and `next` of the six mutations | `Picks` is what `make_stream` collects, `MutantOf` the edit. Statements are opaque, places are model values with a local each. |
| `MutantEditsProofs` | theorems about `MutantEdits` | |
| `PlacesBlocking` | `places_blocking` | `Visit` is a turn of the loop; an order of the hash maps is chosen arbitrarily |
| `PlacesBlockingProofs` | a theorem about `PlacesBlocking` | |
| `LoanScopes` | `OutOfScopePrecomputer` and the `Borrows` dataflow | extends `PlacesConflict`, which says what an assignment forgets; `StartLoan`, `VisitBlock`, `FinishLoan` are the precomputation (successors are pushed in any order), `FlowBlock` the dataflow engine joining a block's effect into its successors |
| `UniversalRelations` | the classes of universal regions, their declared relation and its bounds | the operators are the methods of `UniversalRegionRelations`; the transitive relation is external |
| `RegionInfer` | `RegionInferenceContext::new` and `solve` | `add_outlives_static` and `init_free_and_bound_regions` are `new`; `compute_value_for_scc` is the visit of one component, in any order the component graph allows, `apply_member_constraint` a turn of its last loop; `check_type_tests`, `check_universal_regions` (or the subset errors of Polonius) and `check_member_constraints` follow; the assertion of `non_local_upper_bounds` that fails ends the run as `"panicked"` |
| `RegionInferProofs` | theorems about `RegionInfer` and `RegionErrors` | |
| `RegionErrors` | `report_region_errors`, the names of regions, `best_blame_constraint`, `OutlivesSuggestionBuilder` | extends `RegionInfer`, whose errors it reports: `report_region_errors` is one step, with an operator per `report_*`; what the compiler knows of the function besides (names, types of inputs and upvars, categories) is a setting chosen then |
| `ClosureRegions` | `UniversalRegions::new`, `UniversalRegionRelationsBuilder::create`, `prove_closure_bounds`, `closure_mapping` | one item after the other, those inside first, as the code asks for their requirements when it meets them: `new`, `typeck_mir`, `prove_closure_bounds` for each closure created, `solve`, which ends as `"panicked"` where the assertion of `non_local_upper_bounds` fails. A region as the compiler names it is a triple, as the item numbers it a number |
| `ClosureRegionsProofs` | theorems about `ClosureRegions` | |
| `PlacesConflict` | `borrow_conflicts_with_place` | a place is a local and a sequence of projections; what the code looks up of a base's type is a field of the projection |
| `BorrowSet` | `GatherBorrows`, `ignore_borrow`, `is_active` | `GatherLocation` visits the statement and terminator of a block; the maps keep the code's names, a borrow is named by its location. `pc = "panic"` is one of its compiler bugs. |
| `Diagnostics` | `diagnostics/*_errors.rs` and the buffers of `lib.rs` | one operator per `report_*` and `buffer_*`, on the record of what `MirBorrowckCtxt` keeps of errors; a diagnostic is its kind, place and location. What a report leaves out because another stands in for it (the same moves, local, place or reservation) is modelled, with the walk that finds the moves; wording, labels and suggestions are not. |
| `BodyFlow` | liveness of `type_check/liveness`, regions and loans in scope | what the borrow check knows before its visit, as the sets of points that the backward and forward walks compute, where a statement and the goto after it are two points (a loan may end between them): `Live` and `DropLive` are the two walks of `trace.rs`, `Flows` the ties between references, a region the points of both kinds that it holds, `InScope` where a loan is in scope (`LoanScopes` and `RegionInfer` have the algorithms) |
| `Polonius` | `polonius/`, `liveness/polonius.rs`, and the naive rules of the engine | facts by location: `loan_killed_at`, `loan_invalidated_at`, `subset_base`, liveness; `errors` is what the rules derive, a round of all rules at a time |
| `BorrowCheck` | `do_mir_borrowck` from the borrow set to `used_mut` | `Infer` is `compute_regions` and `get_flow_results`, `borrows_in_scope` either the loans in scope or the errors of Polonius at the location, `VisitLocation` the whole visit of one location, with every access it makes in the code's order, `Finish` `report_move_errors`, `gather_used_muts` and `emit_errors`. |
| `BorrowRun` | runs of the bodies that were checked | an abstract machine with tags: a borrow makes a tag for the cells it lends, an access ends the tags it may not live with, a use of an ended tag is `ub`. The machine knows nothing of regions, scopes or dominators. |
| `PlaceOverlap` | what places denote, and one comparison | extends `LoanScopes`: `Compare` asks of a loan that is in scope at a statement and of a place named there |
| `PlaceOverlapProofs` | theorems about `LoanScopes` and `PlaceOverlap` | |
| `MC*` | instances | model values and small inputs |

`Mutator` implements `MutantEnumeration` (`ImplementsEnumeration`): the
refinement maps `delivered` to the set of mutants received and `finished` to the
cursor having answered `None`. `MutationRun` numbers the mutants of a stream
that `Mutator` describes and takes their verdicts as arbitrary, which is all the
run knows of the borrow checker. `LoanScopes` and `BorrowCheck` use the conflicts of `PlacesConflict`,
and `BorrowRun` judges it by running the body. `CrateRuns` extends `ResultsDir`: a session
starts when cargo checks its package. `ResultsDir` takes the counts a run ends with
as one value named by its session. `MutantEdits` takes for the expiry mutations
the blocking relation that `PlacesBlocking` computes. Definitions in a module
that no specification uses (`LoadBlockKeepingIndex`, `VisitForgettingKinds`, ...)
are plausible mistakes: replacing the definition below each by it makes the
property that `PROJECT.json` pairs it with fail.

## The runs

| Run | Question | Bounds, and why they are enough |
|---|---|---|
| `mutator` | is every mutant handed out once, in order, and does it end? | bodies of up to 3 blocks of up to 3 locations, up to 2 mutants a pair: a first, a middle and a last block, blocks without analysis, empty and non-empty streams |
| `mutator_whole_body` | is the whole body traversed? (**no**) | 2 blocks |
| `mutation_run` | do the results agree with the verdicts, and does the session end? | 2 owners of any kind, 2 mutations, 3 mutants, one code: a mutant before and after a panicking one, in the same and in another mutation or owner |
| `crate_runs` | are counts lost, mixed or added twice; do runs agree on what they check; is every crate accounted for? | two packages and an unsupported one, 3 sessions, two of one name, 2 threads, 2 runs, 2 versions of the registry, 2 compilations after a run that ended, deaths and panics anywhere: what two sessions can do to a third's file needs two of a name, and what a run can find was left by the one before it. `MCNext` keeps sessions without the log to one run, and publishes a version between runs only: a run reads the registry once for each crate |
| `mutant_edits` | is each mutant the intended edit? | a block of 1 or 2 statements beside another, 3 places, up to 2 borrow edges: edits at the start, middle and end of a block; a place lent twice |
| `read_from_write_only` | does a read-from-write-only mutant read its place? (**no**) | as above |
| `places_blocking` | exactly the blocking places? | all graphs of up to 3 of 30 edges over 4 nodes: chains, diamonds, parallel edges, edges with two ends on either side. Four edges take minutes and add no shape. |
| `loans_and_places` | is a loan in scope exactly where a path keeps it, and is a conflict with a loan in scope found exactly on overlap? | two loans, a loop back to the first block or a diamond, every pair of regions, seven kinds of statement; and one loan with an access, for five types, each with every projection at each of up to four levels; offsets up to 3 (`MaxIndex`), lengths up to 7, beyond the sum of any two |
| `region_inference` | are the constraints solved, universes kept, relations and type tests checked, errors explained, and do member choices keep the rest true? | a closure with an external and a local region and its body, existential regions in two universes, a placeholder; every set of up to two constraints of 25 pairs, and of three of 18 of them: a component of two regions, chains through one region, a tie that forces a tie. With two member constraints up to two constraints and another hidden region: a choice that grows a region another choice depends on. With type tests: two types, a lower bound of each class, bounds that are a region, a clause with and without `for`, and combinations; with Polonius, every set of relations that it could derive; a local region declared to outlive 'static or not |
| `region_errors` | is every region error answered? | a function, closure or constant with three lifetimes, two existential regions and a placeholder, up to three constraints, or two with whatever else makes errors; seven settings, in which every kind of report and most sources of a name occur |
| `closure_regions` | do requirements arrive, and do assumptions hold? | three shapes of a function with two items in it: a closure in a closure with early-bound lifetimes, whose input implies that its lifetime is shorter than another, longer, or as long as 'static; a closure called once in a closure, with captured regions and a late-bound lifetime outside its signature, whose inputs imply bounds between regions of its creator and through one of its own; a coroutine and an inline constant side by side in a C-variadic function. Every single relation and type test asked for, and everything the creators may give: two levels are where a requirement is rewritten twice |
| `borrow_check` | does the borrow check accept only bodies whose runs are sound, know when a two-phase loan is active, and have a reason to reject, with loan scopes and with Polonius? | 26027 bodies, 9925 of them with Polonius, of five or six one-statement blocks: a line, a diamond, a loop back to the first location, and a longer loop around which a reference is carried; calls that return the reference they are given; guards, whose destructor uses the reference they hold, dropped, moved out, forgotten or initialised on one branch only; what has a destructor, written, moved and dropped in part and as a whole; statements that use and redefine a reference (with Polonius only, see below); two pairs, mutable, two-phase and shared references, reborrows, moves, drops, ends of storage; a function with variables that are arguments or not, `mut` or not, or temporaries of the compiler, and a constant. A loan, its reborrow, an access that ends it and a later use take four locations, a loan met again by itself takes a loop |

`CrateRuns` bounds runs and versions (`MaxRuns`, `MaxVersions`), `ResultsDir` compilations
(`MaxCompiles`). `MutationRun` bounds the mutants of a session (`MaxMutants`) in the guard of
`NextMutant`, `BorrowRun` the steps of a run (`MaxSteps`: ten, twice around the
longer loop) in the guard of `Step`; the other bounds are of the inputs.

`ConflictIsReal` speaks of bodies without branches whose references are assigned once:
elsewhere the borrow checker rejects sound bodies by design, since a region is one set
of points for all the values a variable ever holds, whichever path is taken.
`AcceptedIsSafe`, `ActiveWhenUsed` and `UnusedMutIsNeverMutated` speak of every accepted
body. `PoloniusIsMorePrecise` compares the two ways to find the loans that matter at a
location: what the rules of Polonius find violated is in scope without them, so that
Polonius adds no conflict. The bodies checked with Polonius are references carried
around a loop, one reassigned while what it referred to is reborrowed, guards, what has
a destructor, variables that are no arguments, and references that a statement uses and
redefines (`m1 = &mut *m1`); the rest was tried with it once, too. The latter are the
property's exception (`Redefines`): such a reference is live before the statement for
Polonius, and `compute_use_live_points_for`, which looks for a definition from the use
backwards and finds the statement's own, does not make it so. MIR has no such statement
where the compiler builds it, as operands are put into temporaries first; for the same
reason these bodies are checked with Polonius only. The bodies keep what building MIR guarantees and the code assumes in a comment (`path_utils.rs`,
106-110): the activation of a two-phase borrow post-dominates its reservation.

The two runs that end in a violation are disagreements of the code with its
own comments: the loop of `Mutator::next` stops before the last block of a body
is paired (a body of one block gets no mutants at all); and the statement that
`read-from-write-only` inserts does not mention the place it is to read.

A third is within `ConflictIsOverlap`, which says of the bias `NoOverlap` only that
places found to conflict may overlap. `dataflow.rs` (554-557) says more, that they
definitely denote the same locations; but an element of a slice counted from the front
and one counted from the end compare as equal with that bias, too (`places_conflict.rs:432`
does not look at it), so that an assignment to one forgets the borrows behind the
other, which need not be the same.

A fourth is within `RequirementsSuffice`: "Grow `shorter_fr` until we find some non-local
regions. (We always will.)" (`region_infer/mod.rs`, 1594). `non_local_bounds` walks up
with `TransitiveRelation::parents`, which leaves out the regions that are equal to the one
it starts from. A local region that is known to outlive 'static, as an argument of type
`&'static &'x T` of a closure says of `'x`, has only equal ones above it: the walk finds
nothing, and the assertion "can't find an upper bound!?" (`free_region_relations.rs:93`)
stops the compiler. The property says that it stops nowhere else. `ClosureRegions` has
such a closure among its programs, and its `solve` then stops, too.

Others were noticed and have no run, since the verdict does not depend on them.
`outlives_suggestion.rs` (190) skips the final help if there is a single constraint, since
"we already suggested it in the intermediate suggestion above", which leaves out a bound
by `'static`: such a bound is suggested nowhere. With Polonius, if four lifetimes
have to be equal, `unified_already` drops an equation from the help that is to
include "all collected constraints" (179); the errors themselves suggest it. The
comment at `borrowck/src/lib.rs:2447` says that a buffered move error is replaced
when the new place is a prefix of the one reported;
`report_use_of_moved_or_uninitialized` (`conflict_errors.rs:120`) then keeps the
old one and replaces it otherwise. `has_buffered_diags` (`lib.rs:2550`, used at 2177) answers
whether there are none. In `tests/common/mod.rs` a download that was cut short, or the
page of an error, is taken for the archive by every later run, which then panics (195-206),
and so is the copy of a `Cargo.lock` that was cut short, with which cargo fails (286-290).
A run that stops before `remove_dir_all` (292) leaves the `target` directory behind: the
next run removes the results, cargo finds the crate compiled and starts no compiler, and
the crate counts as one that did not fail, without results. `EveryCrateAccounted` states
what remains, with these outputs (`inherited`) as its exception.

The borrow check has to emit an error, not to find one: a diagnostic that a
report leaves out because another stands in for it, or that is cancelled for a
later one, must leave some other behind. `AcceptedIsSafe` is stated of `Accepted`,
which is what `emit_errors` emitted, and is violated when `emit_errors` loses the
move errors or `report_use_of_moved` trusts a diagnostic that is not there.

Fairness is weak fairness of the whole next-state relation in the sequential
modules: the code is a loop that runs while it can. `ResultsDir` and `CrateRuns` assume
none: what they say is true of processes that stop anywhere.

## Proofs

`MutatorProofs` proves for every number of blocks, locations and mutants per
pair, from `BoundsAssumption` (the bounds are natural numbers) alone:

* `MutatorTypeOK`, and from it that the assertion in `next` never fails (`pc`
  is never `"panicked"`);
* `MutatorDeliveredIsBehind`, `MutatorNoDuplicates`, `MutatorDoneIsComplete`;
* `MutatorImplementsEnumeration`: the safety part of the refinement.

`TypeOK` is not inductive: nothing in it says that the loaded block is the one
before the head of the queue. `CursorInv` adds that the queue is the tail of the
blocks, that `bb_stmts` is the block before it, and where the rest of the
current stream stands; `DeliveryInv` says that what was handed out is exactly
what lies behind the cursor, each once. Each branch of the loop gets a lemma.

`MutationRunProofs` proves from `SizesAssumption` alone, for any number of
owners, mutations, mutants and error codes:

* `MutationRunTypeOK`: `TypeOK` is strengthened by the shape of the entries
  (`Data`) and by what is known while a mutation is under way (`InMutation`);
* `MutationRunCountsAddUp`: `CountsInv` ties the tally of each entry to the
  mutants judged so far, the one that is pending included;
* `MutationRunVerdictsCounted` and `MutationRunCodesAttributed`: the ghost `history`
  says nothing about where the code stands, so `Latest` first ties its last entry to
  `pc`. With it `CountedInv` (each count, plus one that is awaited, is the number of
  verdicts of its kind) and `CodesInv` (the codes of a mutation, with those about to
  be taken over, are those of its rejected mutants) are inductive;
* `MutationRunErrorsTakenBack`, from `ErrorsInv`: between mutants an error is left
  only by one that panicked;
* `MutationRunLogIsHistory`, from `LogInv`: what is in the log, with the entry that a
  mutant under way will add, is what the history says so far. The property selects from
  the history with `SelectSeq`, which the library defines by recursion; what it does to
  one more element is all the proof needs (`LogIsAppended`).

`CrateRunsProofs` proves from `SessionsAssumption`, `ContentAssumption` and
`PackagesAssumption`, of `CratesSpec`, for any number of packages, sessions,
threads, runs and versions:

* `CrateRunsResultsKept`: `DirInv` adds to the property that overlaps are noted
  (`OverlapsNoted`), that a session about to write finds its file empty unless its name
  overlapped (`FilesInv`), and that with the log on no session past the probe is
  on the path of one that ended (`LogInv`);
* `CrateRunsCompiledIsTotal`: `TotalInv` says what the running total is after some
  of the files (`CountOne` adds one), and needs that a session's counts are in one
  file only, and that no session runs while files are read;
* `CrateRunsChecksAgree`: `LockInv` says where the lock of the first check
  is at each place a run can be killed: in the unpacked crate until the copy is
  whole, in the cache from then on;
* `CrateRunsEveryCrateAccounted`, from `AccountInv` and `DirInv`.

* `CrateRunsTypeOK`: that the suffixes do not run out is a count. `PathsInv` says that a
  session that tries a suffix found the names with the smaller ones taken, each by
  another session: there are fewer than sessions. `PoolInv` counts the threads,
  `RunsInv` and `CrateFilesInv` are the rest.

`MutantEditsProofs` proves `MutantEditsMutantIsTheEdit` and
`MutantEditsPlaceIsStillLent` from `BodyAssumption` (the places and the regions
of the borrow edges are finitely many, as a body's are), for any places, edges
and number of statements in the block. `EditInv` says that the body is one that
`Init` makes, that what is pending and what was made are picks, and that the
last mutant is `MutantOf` the last pick: no mutant depends on those before it.
The rest is about sequences: erasing what was inserted gives the statements
back (`EraseInserted`), and so does joining what was split (`JoinSplit`);
`InsertionChangesOne` and `SplitMakesTwo` say what an edit leaves alone.

`PlacesBlockingProofs` proves `PlacesBlockingFindsExactlyBlocking` from `GraphAssumption`
(the nodes can be numbered so that every edge goes up, as in a borrow PCG, which is
acyclic), for any nodes, edges and orders of the hash maps. `WalkInv` says that each entry
of the list to visit is the end of a path with the kinds met on it (`LeadsTo`), and
that each path that counts either has an edge that waits in the list, with the path behind
it, or has had its end collected (`Pending`, `Served`). No edge comes twice in a path
(`Ascends`), so the paths are finitely long and their sequences are among those that the
property quantifies over.

`PlaceOverlapProofs` proves, of `LoanScopes` from `BodiesAssumption` and of
`PlaceOverlap` from `PlacesAssumption` as well:

* `LoanScopesKillsAreFrontier`: `WalkInv` says of the walk for the current loan that
  every block it came to is on the stack or was searched for an end, and that a block
  without an end had its successors visited; each end is recorded once, since a block is
  searched once;
* `LoanScopesInScopeIsPath`: `FlowInv` bounds the state on entry of each block from above
  by where a path leads, and says of a block that is not dirty that its effect is in its
  successors' states. `dirty` empty is then the fixpoint. What a path reaches is the
  least set closed under its steps (`Reached`), so that no induction on its length is
  needed: the states themselves are such a set;
* `PlaceOverlapConflictIsOverlap`: by cases on each pair of projections, the decision
  for one level agrees with whether some length lets the two share a position
  (`ComparedAgrees`), for indices up to any `MaxIndex`. Lengths up to twice that and one
  are enough, because a longer one moves nothing that is counted from the end over what
  is counted from the front. The level at which two places part is a least number.

`PlacesAssumption` is what MIR guarantees: two places of one local have projections of
the same type until they part, and a subslice of an array is not empty.

`RegionInferProofs` proves from `UniversalAssumption` and `InferAssumption`, for
any set of regions and constraints:

* `RegionInferTypeOK`, with the component graph being closed (`Closed`);
* `RegionInferSolvesConstraints`: a component already visited holds all that its
  successors hold (`Settled`), one not visited has been read by no one
  (`NotYetRead`), and none loses its own elements (`OwnKept`). The property alone
  is not inductive: it says nothing before the end.
* `RegionInferUniversesRespected`: the ties to 'static are computed in one round,
  before any is added. `ReachIsExact` says that a region outside the component of
  'static after the round reaches what it did before it, so that no new violation
  arises (`OneRoundIsEnough`).
* `RegionInferMembersAddNoError`: `MemberInv` keeps what every component below a
  universal region holds within what that region is known to outlive. A choice is
  below all the universal regions above the component it is added to, and known
  relations are transitive.
* `RegionInferSolutionIsExact`: `ReachedInv` bounds the values from above by what
  is reached, `ReachedIsHeld` from below; that each constraint evaluates as true
  then needs `UniversesRespected`.
* `RegionInferBlameIsFound`: the search does not take every edge that propagation
  took. `TieInv` says that a region is tied to 'static only for a violation along
  the constraints of the type check, `BlameInv` that outside the component of
  'static every element of a value came along edges that are searched (`Traced`).
  It uses that a body has a first block (in `InferAssumption`): without a point
  'static would start from nothing that an error could name.
* `RegionInferRequirementsSuffice`: the code compares only the representatives of two
  components and reports only the first relation that a component lacks. `FoundIsGranted`
  says that all others follow: what is asked of the creator goes from a region below
  the longer one to regions above the shorter, which `non_local_bounds` reaches by
  parents (`ReachedBy`). That there are some, unless a local region is as high as
  'static (`PanicInv`), is a matter of counting: of the regions the walk meets, the one with
  the fewest above it has a parent if it is local (`ParentIsFound`), and fewer are above that.
* `RegionInferTypeTestsSuffice`: the tests are answered while values can still be
  compared; `AnswerStays` says that nothing a test's answer depends on changes
  afterwards. `EvalOutlivesMeans` says what it is for one region to evaluate as outliving
  another: every universal region in the value of the latter is outlived by one in that of
  the former, for which 'static must outlive all (`StaticOutlivesAll`). A region of a
  type is then replaced by one that the creator can name and that outlives the same.

`RegionInferProofs` also proves `RegionErrorsErrorsAreAnswered`, of `RegionErrors`, from `SettingsAssumption` as well
(a region that the user did not name occurs in a type of the body or in a bound, and only the
body itself has no name), for any settings. `ErrorInv` says which errors there are when they
are reported: a relation that is told is not known, so that its shorter region is not the body
and its longer one not 'static. The first relation that a component lacks is a least number
(`FirstIsReported`), and so is the first member constraint in a row with one opaque type
(`HiddenIsTold`). Without Polonius a longer region lacks one relation, so that the regions that
lack each other come in pairs: `unified_already` then holds one of each (`OneIsUnified`), and
the equation of the other is in the help (`HelpFacts`).

`ClosureRegionsProofs` proves from `ProgramsAssumption` (items are nested, an item declares a
region once, and what the inputs of an item imply is about regions that they can mention:
its own, those of the signature, the captured ones and those of the function), for any
function, any items in it, nested to any depth, and whatever their code asks for:

* `ClosureRegionsRequirementsArrive`: three parts of `Inv` follow the check from the
  innermost item outwards. `NumberedInv` says that an item whose check has begun has the
  regions that `build` gave it; `SolvedInv` that what a solved item found follows from what it
  knows and what it asks for (`SolutionIsGranted`, since the code compares only a
  component's representative with the others, and asks for relations between the nearest
  regions that the creator can name); `PassedInv` that what a closure asks for is among
  the constraints of its creator once that has checked where the closure is created. The
  property speaks of the end only and is not inductive. `MeaningIsMapped` says that
  `closure_mapping` gives each external region its meaning: `build` numbers 'static, then the
  arguments, then the late-bound regions of the items around, and `closure_mapping` lists
  them in the same order, whatever the depth (`ScopeFacts`, `ExternalNamesFacts`);
* `ClosureRegionsAssumptionsHold`: what an item takes as known is the least relation
  that holds the bounds declared by the function, on the item's copies of their regions, and those
  that its inputs imply (`RelationsFromFacts`). The inputs may relate regions of the creator, directly or
  through a region of the item's own; the property grants them, as each call proves that
  its arguments are well-formed (`type_check/mod.rs:1356-1368`), and nothing else: the declared
  bounds must hold for the creator (`BoundsAreGiven`), and what follows from both must
  follow where the item is created.

What `build` computes is a recursive function over a sequence, and `Reach` a fold over a set.
`Recursion` and `AllowsExists` show by least counterexamples that such functions exist and
unfold, `ReachIsClosure` and `ReachIsLeast` that `Reach` is the least reflexive and transitive
relation that holds the edges; nothing else is used of them.

Only model-checked:

* liveness (`EventuallyOver`, `Returns`, `ReachesFixpoint` and the fairness part of
  `ImplementsEnumeration`): it needs fairness and ENABLED, which the proof system does not
  handle;
* `BorrowRun`: that a body which the borrow checker accepts runs safely relates two
  programs, and both are written with folds over the accesses of a statement, whose
  results for sequences of any length take an induction.

## Not modelled, and why

* The relating of types in the MIR type check: constraints arise from the
  compiler's type system, which a model would have to contain. `BorrowCheck` has
  the ties an assignment, a call and a reborrow make between references.
* In the access checks: closures and upvars, coroutines, raw pointers, unions,
  thread-locals, references inside aggregates (a guard is a whole local) and FakeRead.
  Regions flow between whole locals, as the sets of
  points they come to, not through the constraints of `RegionInfer`.
* The range a mutant reports (`end_loc` of the expiry mutations is an index into
  the block that was split, and can lie behind the end of the new one): printed
  only.
* The wording of diagnostics, the `.ftl` messages, graph and MIR dumps: what a
  diagnostic says does not change the verdict, which is whether one is emitted.
* In Polonius: the derivation of the errors of subsets of universal regions, of which
  `RegionInfer` checks the reports; the hybrid and the optimised algorithm, which are to
  compute what the naive rules do; the numbers of points in the location table.
* In region inference: opaque types. `BlameIsFound` says that the search that the
  code unwraps finds a path; which constraint on it is shown is in `RegionErrors`.
* In the reports of region errors: labels, wording, synthesized names' numbers, and
  suggestions other than of bounds. The diagnostics that the compiler itself has for some
  pairs of regions are taken as arbitrary.
* In `ClosureRegions`: error regions, universes and points of the CFG (`RegionInfer` has
  the latter two), normalisation, and how the compiler derives implied bounds from types:
  they are an input, any between regions that the types can mention. A constant or a
  static as the root is numbered as a function without inputs. The code checks an inner
  item when it meets it, the model before its creator; neither changes what the other
  sees.
* The `pcg` library: a dependency outside this repository. Modules that use its
  answers take any answer of the right shape.
* `.rs.old` files: copies of the borrow checker that are not built.
* Repeated picks: `mutably-lend-shared` and `write-to-shared` make one mutant for each edge of
  a place and region; the model makes one for all, since they are the same. The `?` on a
  missing block or statement (`mutably_lend_shared.rs:67-69`) never applies, as the
  location edited is one of the body's statements.
* `PlaceOverlap` says of what is behind a raw pointer that dropping the pointer touches it,
  as the code does; no loan is tracked there (`place_ext.rs`), so that nothing depends on it.
* The lifetime transmuted to `'tcx` in `main.rs` (206): memory is not modelled.
* The cached list of the top crates (`Crates::top`) and `selected_crates.rs`.

## Plan

Done so far: the tool itself, places, loan scopes, region inference, the borrow
set, liveness, the access checks, their diagnostics and Polonius, the reports of region
errors, and closures with their creators. Left:

1. Theorems: the type invariant of `BorrowSet` (activations belong to tracked borrows).
2. `ConstraintGraph`, `MemberConstraints` (linked lists that are merged),
   `LocationTable`, the explanations of a borrow (`explain_borrow.rs`, `find_use.rs`), opaque
   types, agreement of the two loan-scope precomputations.

------------------------------ MODULE Mutator ------------------------------
(***************************************************************************)
(* The cursor that walks a MIR body and generates its mutants              *)
(* (src/mutator/mutator_impl.rs).  One mutation is applied to one body:    *)
(* the caller queries next() until it answers None.                        *)
(*                                                                         *)
(* The PCG analysis of the body is data here.  analysis[b] is the sequence *)
(* of the PcgLocations of basic block b (its statements, then its          *)
(* terminator), each given as the number of mutants the mutation makes     *)
(* between it and its successor; it is empty when the block has no PCG or  *)
(* its analysis failed.  Blocks are numbered from 1.  An Option that is    *)
(* None is the empty sequence: the loop treats bb_stmts = None as it does  *)
(* a vector without elements, and mutants = None as an exhausted stream.   *)
(***************************************************************************)
EXTENDS Naturals, Sequences

CONSTANTS
  MaxBlocks,  \* bound: basic blocks in a body
  MaxStmts,   \* bound: locations in a block
  MaxYield    \* bound: mutants made for one pair of locations

ASSUME BoundsAssumption ==
  MaxBlocks \in Nat /\ MaxStmts \in Nat /\ MaxYield \in Nat

VARIABLES
  analysis,      \* the analysis of every block of the body, never changed
  basic_blocks,  \* VecDeque: the blocks not yet loaded
  bb_stmts,      \* the locations of the block last loaded
  stmt_idx,      \* the next location of bb_stmts to pair with its successor
  mutants,       \* what the current stream has yet to yield
  pc,            \* the caller is "idle", next() "seek"s, "done", "panicked"
  produced       \* the mutants the caller has received, in order

cursor == <<basic_blocks, bb_stmts, stmt_idx, mutants>>
vars == <<analysis, cursor, pc, produced>>

-----------------------------------------------------------------------------

(* No location follows the terminator's, so it makes no mutant.            *)
BlockAnalyses ==
  {made \in UNION {[1..n -> 0..MaxYield] : n \in 0..MaxStmts} :
     made # << >> => made[Len(made)] = 0}

Bodies == UNION {[1..n -> BlockAnalyses] : n \in 1..MaxBlocks}

(* get_all_for_bb: location <<b, i>> is the i-th of block b.               *)
Locations(b) == [i \in 1..Len(analysis[b]) |-> <<b, i>>]

StreamOfLastFirst(curr) ==
  LET n == analysis[curr[1]][curr[2]]
  IN [k \in 1..n |-> <<curr[1], curr[2], n + 1 - k>>]

(* make_stream: mutant <<b, i, k>> is the k-th of location <<b, i>>.       *)
StreamOf(curr) ==
  [k \in 1..analysis[curr[1]][curr[2]] |-> <<curr[1], curr[2], k>>]

HasMutant == mutants # << >>

HasPair == stmt_idx + 2 <= Len(bb_stmts)

-----------------------------------------------------------------------------

Init ==
  /\ analysis \in Bodies
  /\ basic_blocks = [b \in 1..Len(analysis) |-> b]
  /\ bb_stmts = << >>
  /\ stmt_idx = 0
  /\ mutants = << >>
  /\ pc = "idle"
  /\ produced = << >>

(* The caller asks for the next mutant.                                    *)
Query ==
  /\ pc = "idle"
  /\ pc' = "seek"
  /\ UNCHANGED <<analysis, cursor, produced>>

(* The first branch of the loop: the current stream yields a mutant.       *)
Yield ==
  /\ pc = "seek" /\ basic_blocks # << >>
  /\ HasMutant
  /\ produced' = Append(produced, Head(mutants))
  /\ mutants' = Tail(mutants)
  /\ pc' = "idle"
  /\ UNCHANGED <<analysis, basic_blocks, bb_stmts, stmt_idx>>

(* The assertion that ends an iteration which returned no mutant.          *)
CheckProgress ==
  pc' = IF Len(basic_blocks') < Len(basic_blocks) \/ stmt_idx' > stmt_idx
          THEN "seek" ELSE "panicked"

(* The second branch: a pair of locations is left in the loaded block.     *)
MakeStream ==
  /\ pc = "seek" /\ basic_blocks # << >>
  /\ ~HasMutant /\ HasPair
  /\ mutants' = StreamOf(bb_stmts[stmt_idx + 1])
  /\ stmt_idx' = stmt_idx + 1
  /\ UNCHANGED <<basic_blocks, bb_stmts>>
  /\ CheckProgress
  /\ UNCHANGED <<analysis, produced>>

LoadBlockKeepingIndex ==
  /\ pc = "seek" /\ basic_blocks # << >>
  /\ ~HasMutant /\ ~HasPair
  /\ bb_stmts' = Locations(Head(basic_blocks))
  /\ basic_blocks' = Tail(basic_blocks)
  /\ UNCHANGED <<stmt_idx, mutants>>
  /\ CheckProgress
  /\ UNCHANGED <<analysis, produced>>

LoadBlockRetryingFailed ==
  /\ pc = "seek" /\ basic_blocks # << >>
  /\ ~HasMutant /\ ~HasPair
  /\ stmt_idx' = 0
  /\ bb_stmts' = Locations(Head(basic_blocks))
  /\ basic_blocks' = IF bb_stmts' = << >> THEN basic_blocks ELSE Tail(basic_blocks)
  /\ UNCHANGED mutants
  /\ CheckProgress
  /\ UNCHANGED <<analysis, produced>>

(* The third branch: the loaded block is used up.  The next block leaves   *)
(* the queue as it is loaded.                                              *)
LoadBlock ==
  /\ pc = "seek" /\ basic_blocks # << >>
  /\ ~HasMutant /\ ~HasPair
  /\ stmt_idx' = 0
  /\ bb_stmts' = Locations(Head(basic_blocks))
  /\ basic_blocks' = Tail(basic_blocks)
  /\ UNCHANGED mutants
  /\ CheckProgress
  /\ UNCHANGED <<analysis, produced>>

(* The loop ends when the queue is empty: next() answers None, and the     *)
(* caller's while let stops.                                               *)
ReturnNone ==
  /\ pc = "seek" /\ basic_blocks = << >>
  /\ pc' = "done"
  /\ UNCHANGED <<analysis, cursor, produced>>

Next == Query \/ Yield \/ MakeStream \/ LoadBlock \/ ReturnNone

(* next() is a loop in a sequential program and its caller a while let: as *)
(* long as either can take a step, it does.                                *)
Spec == Init /\ [][Next]_vars /\ WF_vars(Next)

-----------------------------------------------------------------------------

(* The mutants of the blocks 1..n of the body.                             *)
MutantsOfFirst(n) ==
  {m \in (1..n) \X (1..MaxStmts) \X (1..MaxYield) :
     m[2] <= Len(analysis[m[1]]) /\ m[3] <= analysis[m[1]][m[2]]}

(* The loop stops as soon as its queue is empty, and a block leaves the    *)
(* queue when it is loaded: the mutants of the last block are never made.  *)
Generated == MutantsOfFirst(Len(analysis) - 1)

Delivered == {produced[j] : j \in 1..Len(produced)}

(* Where the cursor stands: the block last loaded, 0 before the first.     *)
CurrBlock == Len(analysis) - Len(basic_blocks)

(* The mutant is behind the cursor: its block has been left, or it is in   *)
(* the loaded block at a location already paired, and not in the stream.   *)
Behind(m) ==
  \/ m[1] < CurrBlock
  \/ m[1] = CurrBlock /\ m[2] < stmt_idx
  \/ m[1] = CurrBlock /\ m[2] = stmt_idx /\ ~\E j \in 1..Len(mutants) : mutants[j] = m

(* Type invariant.                                                         *)
TypeOK ==
  /\ analysis \in Seq(Seq(0..MaxYield))
  /\ basic_blocks \in Seq(Nat)
  /\ bb_stmts \in Seq(Nat \X Nat)
  /\ stmt_idx \in Nat
  /\ mutants \in Seq(Nat \X Nat \X Nat)
  /\ pc \in {"idle", "seek", "done"}
  /\ produced \in Seq(Nat \X Nat \X Nat)

(* Whatever the interleaving of the three branches, the caller has         *)
(* received exactly the mutants behind the cursor: a stream is never       *)
(* dropped half read, no pair of locations is skipped, and none is taken   *)
(* from a block whose locations were replaced.                             *)
DeliveredIsBehind ==
  Delivered = {m \in MutantsOfFirst(CurrBlock) : Behind(m)} 

(* No mutant is handed out twice (its results would be counted twice).     *)
NoDuplicates == \A i, j \in 1..Len(produced) : produced[i] = produced[j] => i = j

(* When next() answers None every mutant of the blocks it generates for    *)
(* has been handed out.                                                    *)
DoneIsComplete == pc = "done" => Delivered = Generated

(* "It can be repeatedly queried for new mutants until it has finished     *)
(* traversing the entire `Body`": what the comment on Mutator says.        *)
TraversesEntireBody == pc = "done" => Delivered = MutantsOfFirst(Len(analysis))

(* The cursor implements the enumeration of its mutants in body order.     *)
Enumeration ==
  INSTANCE MutantEnumeration WITH
    Mutants <- (1..MaxBlocks) \X (1..MaxStmts) \X (1..MaxYield),
    scope <- Generated, delivered <- Delivered, finished <- (pc = "done")

ImplementsEnumeration == Enumeration!EnumSpec
=============================================================================

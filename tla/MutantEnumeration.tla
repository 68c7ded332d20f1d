------------------------- MODULE MutantEnumeration -------------------------
(***************************************************************************)
(* What a Mutator promises its caller, without the cursor that keeps it    *)
(* (src/mutator/mutator_impl.rs): asked again and again for the next       *)
(* mutant, it hands out every mutant in its scope once, in the order of    *)
(* the body, and then says that there is none left.                        *)
(*                                                                         *)
(* A mutant is named by the place it was made for: <<b, i, k>> is the k-th *)
(* mutant made between statements i and i + 1 of basic block b.            *)
(***************************************************************************)
EXTENDS Naturals

CONSTANT Mutants      \* the mutants there can be, triples of numbers

VARIABLES scope,      \* the mutants this enumeration is to hand out
          delivered,  \* the mutants it has handed out
          finished    \* it has answered None

enumVars == <<scope, delivered, finished>>

(* The order of the body: by block, then by statement, then by mutant.     *)
Precedes(m, n) ==
  \/ m[1] < n[1]
  \/ m[1] = n[1] /\ m[2] < n[2]
  \/ m[1] = n[1] /\ m[2] = n[2] /\ m[3] < n[3]

EnumInit ==
  /\ scope \subseteq Mutants
  /\ delivered = {}
  /\ finished = FALSE

Deliver(m) ==
  /\ ~finished
  /\ \A n \in scope \ delivered : n = m \/ Precedes(m, n)
  /\ delivered' = delivered \cup {m}
  /\ UNCHANGED <<scope, finished>>

Finish ==
  /\ delivered = scope
  /\ finished' = TRUE
  /\ UNCHANGED <<scope, delivered>>

EnumNext == (\E m \in scope \ delivered : Deliver(m)) \/ Finish

EnumSafety == EnumInit /\ [][EnumNext]_enumVars

EnumSpec == EnumSafety /\ WF_enumVars(EnumNext)

=============================================================================

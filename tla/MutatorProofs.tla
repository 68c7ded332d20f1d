--------------------------- MODULE MutatorProofs ---------------------------
(***************************************************************************)
(* Proofs about the cursor of src/mutator/mutator_impl.rs, for bodies of   *)
(* any size.                                                               *)
(*                                                                         *)
(* DeliveredIsBehind is not inductive: that Yield hands out a mutant of    *)
(* the location just paired, and that LoadBlock leaves nothing of the old  *)
(* block undelivered, depends on how the queue, the loaded locations and   *)
(* the stream belong together.  CursorInv says how.                        *)
(***************************************************************************)
EXTENDS Mutator, SequenceTheorems, TLAPS

(* The queue is what is left of the body, in order.                        *)
QueueIsRest ==
  /\ Len(basic_blocks) <= Len(analysis)
  /\ \A j \in 1..Len(basic_blocks) : basic_blocks[j] = CurrBlock + j

(* bb_stmts holds the locations of the last block that left the queue.     *)
StmtsAreOfCurrBlock ==
  IF CurrBlock = 0 THEN bb_stmts = << >> ELSE bb_stmts = Locations(CurrBlock)

IndexInBlock ==
  /\ stmt_idx <= Len(bb_stmts)
  /\ basic_blocks = << >> => stmt_idx = 0

(* The stream is a tail of the one made for the location before stmt_idx.  *)
StreamIsRest ==
  /\ stmt_idx = 0 => mutants = << >>
  /\ stmt_idx > 0 =>
       LET made == analysis[CurrBlock][stmt_idx] IN
         /\ Len(mutants) <= made
         /\ \A j \in 1..Len(mutants) :
              mutants[j] = <<CurrBlock, stmt_idx, made - Len(mutants) + j>>

BodyInv == 
  /\ analysis \in Seq(Seq(0..MaxYield))
  /\ \A b \in 1..Len(analysis) : Len(analysis[b]) <= MaxStmts
  /\ \A b \in 1..Len(analysis) :
       analysis[b] # << >> => analysis[b][Len(analysis[b])] = 0

CursorInv ==
  /\ TypeOK
  /\ BodyInv
  /\ QueueIsRest
  /\ StmtsAreOfCurrBlock
  /\ IndexInBlock
  /\ StreamIsRest

LEMMA InitCursor == Init => CursorInv
<1> SUFFICES ASSUME Init PROVE CursorInv
  OBVIOUS
<1> USE BoundsAssumption DEF Init
<1>1. analysis \in Seq(BlockAnalyses)
  BY DEF Bodies
<1>2. \A made \in BlockAnalyses : 
        /\ made \in Seq(0..MaxYield) 
        /\ Len(made) <= MaxStmts
        /\ made # << >> => made[Len(made)] = 0
  BY DEF BlockAnalyses
<1>3. BodyInv
  BY <1>1, <1>2 DEF BodyInv
<1>4. TypeOK
  BY <1>3 DEF TypeOK, BodyInv
<1>5. QueueIsRest /\ CurrBlock = 0
  BY <1>1 DEF QueueIsRest, CurrBlock
<1>6. StmtsAreOfCurrBlock /\ IndexInBlock /\ StreamIsRest
  BY <1>5 DEF StmtsAreOfCurrBlock, IndexInBlock, StreamIsRest
<1> QED BY <1>3, <1>4, <1>5, <1>6 DEF CursorInv

(* What the parts of CursorInv say together of the cursor's position.      *)
LEMMA CursorBounds ==
  CursorInv =>
    /\ CurrBlock \in 0..Len(analysis)
    /\ CurrBlock > 0 => /\ analysis[CurrBlock] \in Seq(0..MaxYield)
                        /\ bb_stmts = Locations(CurrBlock)
                        /\ Len(bb_stmts) = Len(analysis[CurrBlock])
    /\ CurrBlock = 0 => bb_stmts = << >>
    /\ stmt_idx > 0 => /\ CurrBlock > 0
                       /\ stmt_idx \in 1..Len(analysis[CurrBlock])
                       /\ analysis[CurrBlock][stmt_idx] \in Nat
<1> SUFFICES ASSUME CursorInv
             PROVE  CursorBounds!2
  OBVIOUS
<1> USE DEF CursorInv
<1>1. CurrBlock \in 0..Len(analysis)
  BY DEF CurrBlock, QueueIsRest, TypeOK
<1>2. ASSUME CurrBlock > 0
      PROVE  /\ analysis[CurrBlock] \in Seq(0..MaxYield)
             /\ bb_stmts = Locations(CurrBlock)
             /\ Len(bb_stmts) = Len(analysis[CurrBlock])
  BY <1>1, <1>2 DEF BodyInv, StmtsAreOfCurrBlock, Locations
<1>3. CurrBlock = 0 => bb_stmts = << >>
  BY DEF StmtsAreOfCurrBlock
<1>4. ASSUME stmt_idx > 0
      PROVE  /\ CurrBlock > 0
             /\ stmt_idx \in 1..Len(analysis[CurrBlock])
             /\ analysis[CurrBlock][stmt_idx] \in Nat
  <2>1. CurrBlock > 0
    BY <1>1, <1>3, <1>4 DEF IndexInBlock, TypeOK
  <2>2. stmt_idx \in 1..Len(analysis[CurrBlock])
    BY <1>2, <1>4, <2>1 DEF IndexInBlock, TypeOK
  <2>3. analysis[CurrBlock][stmt_idx] \in 0..MaxYield
    BY <1>2, <2>1, <2>2, ElementOfSeq
  <2> QED BY <2>1, <2>2, <2>3, BoundsAssumption
<1> QED BY <1>1, <1>2, <1>3, <1>4

(* Steps of the cursor, one by one.                                        *)
LEMMA NextCursor == CursorInv /\ [Next]_vars => CursorInv'
<1> SUFFICES ASSUME CursorInv, [Next]_vars PROVE CursorInv'
  OBVIOUS
<1> USE DEF CursorInv
<1>1. CASE Query
  BY <1>1 DEF Query, cursor, TypeOK, BodyInv, QueueIsRest, StmtsAreOfCurrBlock,
     IndexInBlock, StreamIsRest, CurrBlock, Locations
<1>2. CASE Yield
  <2> USE <1>2 DEF Yield, HasMutant
  <2>1. /\ UNCHANGED <<analysis, basic_blocks, bb_stmts, stmt_idx, CurrBlock>>
        /\ mutants' = Tail(mutants) /\ mutants # << >>
    BY DEF CurrBlock
  <2>2. TypeOK'
    BY DEF TypeOK
  <2>3. StreamIsRest'
    <3>1. CASE stmt_idx = 0
      BY <2>1, <3>1 DEF StreamIsRest
    <3>2. CASE stmt_idx > 0
      <4> DEFINE made == analysis[CurrBlock][stmt_idx]
      <4>1. made \in Nat /\ CurrBlock \in Nat
        BY <3>2, CursorBounds
      <4>2. /\ Len(mutants) \in Nat /\ Len(mutants') = Len(mutants) - 1
            /\ \A j \in 1..Len(mutants') : mutants'[j] = mutants[j + 1]
        BY <2>1, HeadTailProperties, LenProperties DEF TypeOK
      <4>3. /\ Len(mutants) <= made
            /\ \A j \in 1..Len(mutants) :
                 mutants[j] = <<CurrBlock, stmt_idx, made - Len(mutants) + j>>
        BY <3>2 DEF StreamIsRest
      <4> DEFINE len == Len(mutants)
                 left == Len(mutants')
      <4>4. \A j \in 1..left : j + 1 \in 1..len /\ made - len + (j + 1) = made - left + j
        <5>1. made \in Nat /\ len \in Nat /\ left = len - 1
          BY <4>1, <4>2
        <5> HIDE DEF made, len, left
        <5> QED BY <5>1
      <4>5. \A j \in 1..Len(mutants') :
              mutants'[j] = <<CurrBlock, stmt_idx, made - Len(mutants') + j>>
        BY <4>2, <4>3, <4>4
      <4>6. Len(mutants') <= made
        BY <4>1, <4>2, <4>3
      <4> QED BY <2>1, <3>2, <4>5, <4>6 DEF StreamIsRest
    <3> QED BY <3>1, <3>2 DEF TypeOK
  <2>4. BodyInv' /\ QueueIsRest' /\ StmtsAreOfCurrBlock' /\ IndexInBlock'
    BY <2>1 DEF BodyInv, QueueIsRest, StmtsAreOfCurrBlock, IndexInBlock, Locations
  <2> QED BY <2>2, <2>3, <2>4
<1>3. CASE MakeStream
  <2> USE <1>3 DEF MakeStream, HasMutant, HasPair
  <2>1. /\ UNCHANGED <<analysis, basic_blocks, bb_stmts, CurrBlock>>
        /\ stmt_idx' = stmt_idx + 1 /\ pc' = "seek"
    BY DEF CurrBlock, CheckProgress, TypeOK
  <2>2. /\ CurrBlock \in 1..Len(analysis)
        /\ bb_stmts = [i \in 1..Len(analysis[CurrBlock]) |-> <<CurrBlock, i>>]
    <3>1. CurrBlock > 0
      BY CursorBounds DEF TypeOK
    <3> QED BY <3>1, CursorBounds DEF Locations
  <2>3. /\ analysis[CurrBlock] \in Seq(0..MaxYield)
        /\ stmt_idx + 1 \in 1..Len(analysis[CurrBlock])
        /\ bb_stmts[stmt_idx + 1] = <<CurrBlock, stmt_idx + 1>>
    BY <2>2 DEF TypeOK, BodyInv
  <2>4. /\ analysis[CurrBlock][stmt_idx + 1] \in Nat
        /\ mutants' = [k \in 1..analysis[CurrBlock][stmt_idx + 1] |->
                         <<CurrBlock, stmt_idx + 1, k>>]
    BY <2>3, BoundsAssumption DEF StreamOf
  <2>5. mutants' \in Seq(Nat \X Nat \X Nat)
    <3> DEFINE made == analysis[CurrBlock][stmt_idx + 1]
    <3>1. made \in Nat /\ \A k \in 1..made : <<CurrBlock, stmt_idx + 1, k>> \in Nat \X Nat \X Nat
      <4>1. made \in Nat /\ CurrBlock \in Nat /\ stmt_idx \in Nat
        BY <2>2, <2>4 DEF TypeOK
      <4> HIDE DEF made
      <4> QED BY <4>1
    <3>2. mutants' \in [1..made -> Nat \X Nat \X Nat]
      BY <2>4, <3>1
    <3> QED BY <3>1, <3>2, SeqDef
  <2>6. TypeOK'
    BY <2>1, <2>5 DEF TypeOK
  <2>7. StreamIsRest'
    <3> DEFINE made == analysis[CurrBlock][stmt_idx + 1]
    <3>1. Len(mutants') = made /\ \A j \in 1..made : mutants'[j] = <<CurrBlock, stmt_idx + 1, j>>
      BY <2>4
    <3>2. \A j \in 1..made : made - made + j = j
      BY <2>4
    <3>3. /\ analysis'[CurrBlock'][stmt_idx'] = made /\ stmt_idx' > 0
          /\ CurrBlock' = CurrBlock /\ stmt_idx' = stmt_idx + 1 /\ made \in Nat
      BY <2>1, <2>4 DEF TypeOK
    <3>4. Len(mutants') <= made /\ \A j \in 1..Len(mutants') :
            mutants'[j] = <<CurrBlock', stmt_idx', made - Len(mutants') + j>>
      <4> HIDE DEF made
      <4> QED BY <3>1, <3>2, <3>3
    <3> HIDE DEF made
    <3> QED BY <3>3, <3>4 DEF StreamIsRest
  <2>8. BodyInv' /\ QueueIsRest' /\ StmtsAreOfCurrBlock' /\ IndexInBlock'
    BY <2>1 DEF BodyInv, QueueIsRest, StmtsAreOfCurrBlock, IndexInBlock, Locations, TypeOK
  <2> QED BY <2>6, <2>7, <2>8
<1>4. CASE LoadBlock
  <2> USE <1>4 DEF LoadBlock, HasMutant, HasPair
  <2>1. /\ basic_blocks' = Tail(basic_blocks) /\ basic_blocks # << >>
        /\ UNCHANGED analysis /\ stmt_idx' = 0 /\ mutants' = << >>
        /\ CurrBlock \in 0..Len(analysis)-1
        /\ Head(basic_blocks) = CurrBlock + 1 /\ CurrBlock' = CurrBlock + 1
        /\ pc' = "seek"
    BY DEF CurrBlock, QueueIsRest, TypeOK, CheckProgress
  <2>2. bb_stmts' = [i \in 1..Len(analysis[CurrBlock']) |-> <<CurrBlock', i>>]
    BY <2>1 DEF Locations
  <2>3. bb_stmts' \in Seq(Nat \X Nat)
    <3>1. Len(analysis[CurrBlock']) \in Nat /\ CurrBlock' \in Nat
      BY <2>1, ElementOfSeq, LenProperties DEF BodyInv
    <3>2. bb_stmts' \in [1..Len(analysis[CurrBlock']) -> Nat \X Nat]
      BY <2>2, <3>1
    <3> QED BY <3>1, <3>2, SeqDef
  <2>4. TypeOK'
    BY <2>1, <2>3 DEF TypeOK
  <2>5. QueueIsRest'
    BY <2>1 DEF QueueIsRest, TypeOK
  <2>6. StmtsAreOfCurrBlock' /\ StreamIsRest' /\ BodyInv'
    BY <2>1, <2>2 DEF StmtsAreOfCurrBlock, StreamIsRest, BodyInv, Locations
  <2>7. IndexInBlock'
    BY <2>1, <2>3 DEF IndexInBlock
  <2> QED BY <2>4, <2>5, <2>6, <2>7
<1>5. CASE ReturnNone
  BY <1>5 DEF ReturnNone, cursor, TypeOK, BodyInv, QueueIsRest, StmtsAreOfCurrBlock,
     IndexInBlock, StreamIsRest, CurrBlock, Locations
<1>6. CASE UNCHANGED vars
  BY <1>6 DEF vars, cursor, TypeOK, BodyInv, QueueIsRest, StmtsAreOfCurrBlock,
     IndexInBlock, StreamIsRest, CurrBlock, Locations
<1> QED BY <1>1, <1>2, <1>3, <1>4, <1>5, <1>6 DEF Next

(* The types hold for every body; in particular the assertion that guards  *)
(* the loop against running forever never fails (pc is never "panicked").  *)
THEOREM MutatorTypeOK == Spec => []TypeOK
<1>1. CursorInv => TypeOK
  BY DEF CursorInv
<1> QED BY InitCursor, NextCursor, <1>1, PTL DEF Spec

-----------------------------------------------------------------------------

Triples == Nat \X Nat \X Nat

(* A mutant still in the stream is not behind the cursor, and it is one of *)
(* the loaded block.                                                       *)
LEMMA StreamIsAhead ==
  ASSUME CursorInv, NEW j \in 1..Len(mutants)
  PROVE  /\ mutants[j] \in MutantsOfFirst(CurrBlock)
         /\ ~Behind(mutants[j])
         /\ mutants[j][1] = CurrBlock /\ mutants[j][2] = stmt_idx
         /\ \A i \in 1..Len(mutants) : mutants[i] = mutants[j] => i = j
<1> USE DEF CursorInv
<1> DEFINE made == analysis[CurrBlock][stmt_idx]
<1>1. stmt_idx > 0
  BY DEF StreamIsRest, TypeOK
<1>2. /\ CurrBlock \in 1..Len(analysis) /\ stmt_idx \in 1..Len(analysis[CurrBlock])
      /\ made \in Nat /\ Len(analysis[CurrBlock]) \in Nat
  BY <1>1, CursorBounds, LenProperties
<1>3. /\ Len(mutants) \in Nat /\ Len(mutants) <= made
      /\ \A i \in 1..Len(mutants) :
           mutants[i] = <<CurrBlock, stmt_idx, made - Len(mutants) + i>>
  <2>1. Len(mutants) \in Nat
    BY DEF TypeOK
  <2> QED BY <1>1, <2>1 DEF StreamIsRest
<1>4. analysis[CurrBlock] \in Seq(0..MaxYield)
  BY <1>2, CursorBounds
<1>5. made \in 0..MaxYield
  BY <1>2, <1>4, ElementOfSeq
<1>6. stmt_idx \in 1..MaxStmts /\ CurrBlock \in 1..CurrBlock
  BY <1>2, BoundsAssumption DEF BodyInv
<1> DEFINE k == made - Len(mutants) + j
<1>7. k \in 1..made /\ k \in 1..MaxYield
  <2> HIDE DEF made
  <2> QED BY <1>2, <1>3, <1>5, BoundsAssumption
<1>9. mutants[j] = <<CurrBlock, stmt_idx, k>>
  BY <1>3
<1>8. mutants[j] \in (1..CurrBlock) \X (1..MaxStmts) \X (1..MaxYield)
  <2> HIDE DEF k
  <2> QED BY <1>6, <1>7, <1>9
<1>10. mutants[j] \in MutantsOfFirst(CurrBlock)
  BY <1>2, <1>7, <1>8, <1>9 DEF MutantsOfFirst
<1>11. ~Behind(mutants[j])
  <2>1. mutants[j][1] = CurrBlock /\ mutants[j][2] = stmt_idx
    BY <1>9
  <2>2. \E i \in 1..Len(mutants) : mutants[i] = mutants[j]
    OBVIOUS
  <2> QED BY <1>2, <2>1, <2>2 DEF Behind
<1>12. \A i \in 1..Len(mutants) : mutants[i] = mutants[j] => i = j
  <2> HIDE DEF made
  <2> QED BY <1>2, <1>3
<1> QED BY <1>9, <1>10, <1>11, <1>12

(* Yield moves exactly the head of the stream behind the cursor.           *)
LEMMA YieldBehind ==
  ASSUME CursorInv, Yield
  PROVE  /\ Delivered' = Delivered \cup {Head(mutants)}
         /\ Head(mutants) \in MutantsOfFirst(CurrBlock)
         /\ ~Behind(Head(mutants))
         /\ \A m \in MutantsOfFirst(CurrBlock) :
              Behind(m)' <=> Behind(m) \/ m = Head(mutants)
<1> USE DEF CursorInv
<1>1. /\ mutants \in Seq(Triples) /\ mutants # << >> /\ produced \in Seq(Triples)
      /\ mutants' = Tail(mutants) /\ produced' = Append(produced, Head(mutants))
      /\ CurrBlock' = CurrBlock /\ stmt_idx' = stmt_idx
  BY DEF Yield, HasMutant, TypeOK, CurrBlock, Triples
<1>2. /\ Len(mutants) \in Nat \ {0} /\ Head(mutants) = mutants[1]
      /\ Len(mutants') = Len(mutants) - 1
      /\ \A j \in 1..Len(mutants') : mutants'[j] = mutants[j + 1]
  BY <1>1, HeadTailProperties, LenProperties
<1>3. Delivered' = Delivered \cup {Head(mutants)}
  <2>1. /\ Len(produced') = Len(produced) + 1 /\ Len(produced) \in Nat
        /\ \A j \in 1..Len(produced) : produced'[j] = produced[j]
        /\ produced'[Len(produced) + 1] = Head(mutants)
    BY <1>1
  <2> QED BY <2>1 DEF Delivered
<1>4. Head(mutants) \in MutantsOfFirst(CurrBlock) /\ ~Behind(Head(mutants))
  BY <1>2, StreamIsAhead
<1>5. ASSUME NEW m \in MutantsOfFirst(CurrBlock)
      PROVE  Behind(m)' <=> Behind(m) \/ m = Head(mutants)
  <2>1. (\E j \in 1..Len(mutants) : mutants[j] = m)
          <=> m = Head(mutants) \/ \E j \in 1..Len(mutants') : mutants'[j] = m
    <3>1. ASSUME NEW j \in 1..Len(mutants), mutants[j] = m, m # Head(mutants)
          PROVE  \E i \in 1..Len(mutants') : mutants'[i] = m
      <4>1. j - 1 \in 1..Len(mutants') /\ mutants'[j - 1] = m
        BY <1>2, <3>1
      <4> QED BY <4>1
    <3>2. ASSUME NEW j \in 1..Len(mutants'), mutants'[j] = m
          PROVE  \E i \in 1..Len(mutants) : mutants[i] = m
      BY <1>2, <3>2
    <3> QED BY <1>2, <3>1, <3>2
  <2>2. ~\E j \in 1..Len(mutants') : mutants'[j] = Head(mutants)
    <3> SUFFICES ASSUME NEW j \in 1..Len(mutants'), mutants'[j] = Head(mutants)
                 PROVE  FALSE
      OBVIOUS
    <3>1. j + 1 \in 1..Len(mutants) /\ 1 \in 1..Len(mutants) /\ mutants[j + 1] = mutants[1]
      BY <1>2
    <3>2. \A i \in 1..Len(mutants) : mutants[i] = mutants[1] => i = 1
      BY <3>1, StreamIsAhead
    <3> QED BY <3>1, <3>2
  <2>3. Head(mutants)[1] = CurrBlock /\ Head(mutants)[2] = stmt_idx
    BY <1>2, StreamIsAhead
  <2> QED BY <1>1, <2>1, <2>2, <2>3 DEF Behind
<1> QED BY <1>3, <1>4, <1>5

(* Making the next stream moves nothing behind the cursor.                 *)
LEMMA MakeStreamBehind ==
  ASSUME CursorInv, CursorInv', MakeStream
  PROVE  /\ CurrBlock' = CurrBlock
         /\ \A m \in MutantsOfFirst(CurrBlock) : Behind(m)' <=> Behind(m)
<1> USE DEF CursorInv
<1>1. /\ CurrBlock' = CurrBlock /\ stmt_idx' = stmt_idx + 1 /\ mutants = << >>
      /\ stmt_idx \in Nat
      /\ analysis' = analysis
      /\ bb_stmts \in Seq(Nat \X Nat) /\ stmt_idx + 1 <= Len(bb_stmts)
      /\ mutants' = StreamOf(bb_stmts[stmt_idx + 1])
  BY DEF MakeStream, HasMutant, HasPair, TypeOK, CurrBlock
<1>2. /\ CurrBlock \in 1..Len(analysis)
      /\ bb_stmts[stmt_idx + 1] = <<CurrBlock, stmt_idx + 1>>
      /\ stmt_idx + 1 \in 1..Len(analysis[CurrBlock])
      /\ analysis[CurrBlock] \in Seq(0..MaxYield)
  BY <1>1, CursorBounds, LenProperties DEF Locations
<1> DEFINE made == analysis[CurrBlock][stmt_idx + 1]
<1>3. made \in Nat
  BY <1>2, ElementOfSeq, BoundsAssumption
<1>4. mutants' = [k \in 1..made |-> <<CurrBlock, stmt_idx + 1, k>>]
  BY <1>1, <1>2 DEF StreamOf
<1>5. ASSUME NEW m \in MutantsOfFirst(CurrBlock),
             m[1] = CurrBlock, m[2] = stmt_idx + 1
      PROVE  \E j \in 1..Len(mutants') : mutants'[j] = m
  <2>1. m = <<m[1], m[2], m[3]>> /\ m[3] \in 1..made
    BY <1>3, <1>5 DEF MutantsOfFirst
  <2>2. Len(mutants') = made /\ mutants'[m[3]] = m
    BY <1>3, <1>4, <1>5, <2>1
  <2> QED BY <2>1, <2>2
<1>6. ASSUME NEW m \in MutantsOfFirst(CurrBlock)
      PROVE  Behind(m)' <=> Behind(m)
  <2>1. m[1] \in Nat /\ m[2] \in Nat
    BY DEF MutantsOfFirst
  <2>2. ~\E j \in 1..Len(mutants) : mutants[j] = m
    BY <1>1
  <2> QED BY <1>1, <1>5, <2>1, <2>2 DEF Behind
<1> QED BY <1>1, <1>6

(* A block is left only when all its mutants are behind the cursor.        *)
LEMMA LoadBlockBehind ==
  ASSUME CursorInv, LoadBlock
  PROVE  /\ \A m \in MutantsOfFirst(CurrBlock) : Behind(m) /\ Behind(m)'
         /\ \A m \in MutantsOfFirst(CurrBlock') :
              Behind(m)' => m \in MutantsOfFirst(CurrBlock)
         /\ MutantsOfFirst(CurrBlock) \subseteq MutantsOfFirst(CurrBlock')
<1> USE DEF CursorInv
<1>1. /\ CurrBlock' = CurrBlock + 1 /\ stmt_idx' = 0 /\ mutants = << >>
      /\ CurrBlock \in 0..Len(analysis)-1 /\ Len(analysis) \in Nat
      /\ stmt_idx \in Nat /\ stmt_idx + 2 > Len(bb_stmts)
      /\ Len(bb_stmts) \in Nat
  BY DEF LoadBlock, HasMutant, HasPair, TypeOK, CurrBlock, QueueIsRest
<1>2. ASSUME NEW m \in MutantsOfFirst(CurrBlock)
      PROVE  Behind(m) /\ Behind(m)'
  <2>1. m[1] \in 1..CurrBlock /\ m[2] \in 1..Len(analysis[m[1]])
        /\ m[3] \in Nat /\ m[3] >= 1 /\ m[3] <= analysis[m[1]][m[2]]
    BY <1>1 DEF MutantsOfFirst
  <2>2. Behind(m)'
    BY <1>1, <2>1 DEF Behind
  <2>3. CASE m[1] < CurrBlock
    BY <2>2, <2>3 DEF Behind
  <2>4. CASE m[1] = CurrBlock
    <3>1. CurrBlock > 0 /\ Len(analysis[CurrBlock]) = Len(bb_stmts)
      BY <1>1, <2>1, <2>4, CursorBounds
    <3>2. analysis[CurrBlock] # << >> => analysis[CurrBlock][Len(bb_stmts)] = 0
      BY <1>1, <3>1 DEF BodyInv
    <3>3. m[2] # Len(bb_stmts)
      <4> SUFFICES ASSUME m[2] = Len(bb_stmts) PROVE FALSE
        OBVIOUS
      <4>1. analysis[CurrBlock] # << >>
        BY <2>1, <2>4, <3>1
      <4>2. m[3] <= 0
        BY <2>1, <2>4, <3>2, <4>1
      <4> QED BY <2>1, <4>2
    <3>4. m[2] <= stmt_idx
      BY <1>1, <2>1, <2>4, <3>1, <3>3
    <3> QED BY <1>1, <2>1, <2>2, <2>4, <3>4 DEF Behind
  <2> QED BY <1>1, <2>1, <2>3, <2>4
<1>3. ASSUME NEW m \in MutantsOfFirst(CurrBlock'), Behind(m)'
      PROVE  m \in MutantsOfFirst(CurrBlock)
  <2>1. m \in (1..CurrBlock+1) \X (1..MaxStmts) \X (1..MaxYield)
        /\ m[2] <= Len(analysis[m[1]]) /\ m[3] <= analysis[m[1]][m[2]]
    BY <1>1 DEF MutantsOfFirst
  <2>2. m[1] < CurrBlock + 1
    BY <1>1, <1>3, <2>1, BoundsAssumption DEF Behind
  <2> QED BY <1>1, <2>1, <2>2 DEF MutantsOfFirst
<1>4. MutantsOfFirst(CurrBlock) \subseteq MutantsOfFirst(CurrBlock')
  BY <1>1 DEF MutantsOfFirst
<1> QED BY <1>2, <1>3, <1>4

(* What the caller has received, and that it received nothing twice.       *)
DeliveryInv ==
  /\ DeliveredIsBehind
  /\ NoDuplicates
  /\ pc = "done" => basic_blocks = << >>

LEMMA InitDelivery == Init => DeliveryInv
<1> SUFFICES ASSUME Init PROVE DeliveryInv
  OBVIOUS
<1>1. produced = << >> /\ Len(produced) = 0 /\ pc # "done" 
  BY DEF Init
<1>2. CurrBlock = 0
  <2>1. Len(analysis) \in Nat /\ Len(basic_blocks) = Len(analysis)
    <3>1. analysis \in Seq(BlockAnalyses)
      BY BoundsAssumption DEF Init, Bodies
    <3>2. Len(analysis) \in Nat
      BY <3>1
    <3> QED BY <3>2 DEF Init
  <2> QED BY <2>1 DEF CurrBlock
<1>3. MutantsOfFirst(CurrBlock) = {}
  BY <1>2 DEF MutantsOfFirst
<1> QED BY <1>1, <1>3 DEF DeliveryInv, DeliveredIsBehind, NoDuplicates, Delivered

LEMMA NextDelivery == CursorInv /\ CursorInv' /\ DeliveryInv /\ [Next]_vars => DeliveryInv'
<1> SUFFICES ASSUME CursorInv, CursorInv', DeliveryInv, [Next]_vars PROVE DeliveryInv'
  OBVIOUS
<1> USE DEF DeliveryInv
<1>a. ASSUME UNCHANGED <<analysis, cursor, produced>>, pc' = "done" => basic_blocks = << >>
      PROVE  DeliveryInv'
  BY <1>a DEF DeliveredIsBehind, NoDuplicates, Delivered, MutantsOfFirst, Behind,
     CurrBlock, cursor
<1>1. CASE Query
  BY <1>1, <1>a DEF Query
<1>2. CASE Yield
  <2>1. /\ analysis' = analysis /\ CurrBlock' = CurrBlock /\ pc' = "idle"
        /\ MutantsOfFirst(CurrBlock)' = MutantsOfFirst(CurrBlock)
    BY <1>2 DEF Yield, CurrBlock, MutantsOfFirst
  <2>2. DeliveredIsBehind'
    BY <1>2, <2>1, YieldBehind DEF DeliveredIsBehind
  <2>3. NoDuplicates'
    <3>1. Head(mutants) \notin Delivered
      BY <1>2, YieldBehind DEF DeliveredIsBehind
    <3>2. /\ Len(produced) \in Nat /\ Len(produced') = Len(produced) + 1
          /\ \A j \in 1..Len(produced) : produced'[j] = produced[j]
          /\ produced'[Len(produced) + 1] = Head(mutants)
      <4>1. /\ produced \in Seq(Triples) /\ Head(mutants) \in Triples
            /\ produced' = Append(produced, Head(mutants))
        BY <1>2, HeadTailProperties DEF Yield, HasMutant, CursorInv, TypeOK, Triples
      <4> QED BY <4>1
    <3> QED BY <3>1, <3>2 DEF NoDuplicates, Delivered
  <2> QED BY <2>1, <2>2, <2>3
<1>3. CASE MakeStream
  <2>1. /\ UNCHANGED <<analysis, produced, basic_blocks>> /\ CurrBlock' = CurrBlock
        /\ MutantsOfFirst(CurrBlock)' = MutantsOfFirst(CurrBlock) /\ Delivered' = Delivered
        /\ pc' # "done"
    BY <1>3 DEF MakeStream, CheckProgress, CurrBlock, MutantsOfFirst, Delivered
  <2>2. DeliveredIsBehind'
    BY <1>3, <2>1, MakeStreamBehind DEF DeliveredIsBehind
  <2> QED BY <2>1, <2>2 DEF NoDuplicates
<1>4. CASE LoadBlock
  <2>1. /\ UNCHANGED <<analysis, produced>> /\ Delivered' = Delivered /\ pc' # "done"
        /\ MutantsOfFirst(CurrBlock)' = MutantsOfFirst(CurrBlock')
    BY <1>4 DEF LoadBlock, CheckProgress, MutantsOfFirst, Delivered
  <2>2. DeliveredIsBehind'
    BY <1>4, <2>1, LoadBlockBehind DEF DeliveredIsBehind
  <2> QED BY <2>1, <2>2 DEF NoDuplicates
<1>5. CASE ReturnNone
  BY <1>5, <1>a DEF ReturnNone
<1>6. CASE UNCHANGED vars
  BY <1>6, <1>a DEF vars
<1> QED BY <1>1, <1>2, <1>3, <1>4, <1>5, <1>6 DEF Next

LEMMA SpecInv == Spec => [](CursorInv /\ DeliveryInv)
BY InitCursor, NextCursor, InitDelivery, NextDelivery, PTL DEF Spec

(* At every moment the caller has received exactly the mutants behind the  *)
(* cursor, in every body: the statement index, the loaded block and the    *)
(* stream never fall out of step over any number of calls to next().       *)
THEOREM MutatorDeliveredIsBehind == Spec => []DeliveredIsBehind
<1>1. DeliveryInv => DeliveredIsBehind
  BY DEF DeliveryInv
<1> QED BY SpecInv, <1>1, PTL

(* No mutant is handed out twice.                                          *)
THEOREM MutatorNoDuplicates == Spec => []NoDuplicates
<1>1. DeliveryInv => NoDuplicates
  BY DEF DeliveryInv
<1> QED BY SpecInv, <1>1, PTL

(* What the invariants say when the queue has run empty.                   *)
LEMMA QueueEmptyIsComplete ==
  CursorInv /\ DeliveryInv /\ basic_blocks = << >> => Delivered = Generated
<1> SUFFICES ASSUME CursorInv, DeliveryInv, basic_blocks = << >>
             PROVE  Delivered = Generated
  OBVIOUS
<1>1. stmt_idx = 0 /\ CurrBlock = Len(analysis) /\ Len(analysis) \in Nat
  BY DEF CursorInv, IndexInBlock, CurrBlock, TypeOK
<1>2. \A m \in MutantsOfFirst(CurrBlock) : Behind(m) <=> m[1] < CurrBlock
  BY <1>1 DEF MutantsOfFirst, Behind
<1>3. \A m : m \in MutantsOfFirst(CurrBlock) /\ m[1] < CurrBlock <=> m \in Generated
  BY <1>1 DEF MutantsOfFirst, Generated
<1> QED BY <1>2, <1>3 DEF DeliveryInv, DeliveredIsBehind

(* Once next() has answered None, every mutant of every block but the last *)
(* has been handed out.                                                    *)
THEOREM MutatorDoneIsComplete == Spec => []DoneIsComplete
<1>1. CursorInv /\ DeliveryInv => DoneIsComplete
  BY QueueEmptyIsComplete DEF DoneIsComplete, DeliveryInv
<1> QED BY SpecInv, <1>1, PTL

-----------------------------------------------------------------------------

(* The mutant Yield hands out is the first of those still to come.         *)
LEMMA YieldIsDeliver ==
  ASSUME CursorInv, DeliveryInv, Yield
  PROVE  /\ Head(mutants) \in Generated \ Delivered
         /\ Enumeration!Deliver(Head(mutants))
<1> USE DEF CursorInv
<1> DEFINE h == Head(mutants)
           made == analysis[CurrBlock][stmt_idx]
<1>1. /\ CurrBlock \in 0..Len(analysis)-1 /\ Len(analysis) \in Nat
      /\ mutants \in Seq(Triples) /\ mutants # << >> /\ stmt_idx \in Nat
      /\ h = mutants[1] /\ Len(mutants) \in Nat \ {0}
  <2>1. /\ mutants \in Seq(Triples) /\ mutants # << >> /\ basic_blocks # << >>
        /\ basic_blocks \in Seq(Nat) /\ Len(analysis) \in Nat /\ stmt_idx \in Nat
    BY DEF Yield, HasMutant, TypeOK, Triples
  <2>2. Len(basic_blocks) \in Nat \ {0} /\ CurrBlock \in 0..Len(analysis)
    BY <2>1, CursorBounds
  <2>3. CurrBlock # Len(analysis)
    BY <2>1, <2>2 DEF CurrBlock
  <2>4. h = mutants[1] /\ Len(mutants) \in Nat \ {0}
    BY <2>1
  <2> QED BY <2>1, <2>2, <2>3, <2>4
<1>2. h \in MutantsOfFirst(CurrBlock) /\ h \notin Delivered
      /\ h[1] = CurrBlock /\ h[2] = stmt_idx
  BY <1>1, YieldBehind, StreamIsAhead DEF DeliveryInv, DeliveredIsBehind
<1>3. h \in Generated
  BY <1>1, <1>2 DEF Generated, MutantsOfFirst
<1>4. ASSUME NEW n \in Generated \ Delivered, n # h
      PROVE  Enumeration!Precedes(h, n)
  <2>1. /\ n[1] \in Nat /\ n[2] \in Nat /\ n[3] \in Nat \ {0}
        /\ n[3] <= analysis[n[1]][n[2]] /\ n = <<n[1], n[2], n[3]>>
    BY BoundsAssumption DEF Generated, MutantsOfFirst
  <2>2. n[1] <= CurrBlock => ~Behind(n)
    <3> SUFFICES ASSUME n[1] <= CurrBlock PROVE n \in MutantsOfFirst(CurrBlock)
      BY DEF DeliveryInv, DeliveredIsBehind
    <3> QED BY <1>1, <2>1 DEF Generated, MutantsOfFirst
  <2>3. CASE n[1] > CurrBlock
    BY <1>2, <2>3 DEF Enumeration!Precedes
  <2>4. CASE n[1] <= CurrBlock /\ ~(n[1] = CurrBlock /\ n[2] = stmt_idx)
    <3>1. n[1] = CurrBlock /\ n[2] > stmt_idx
      BY <1>1, <2>1, <2>2, <2>4 DEF Behind
    <3> QED BY <1>2, <3>1 DEF Enumeration!Precedes
  <2>5. CASE n[1] = CurrBlock /\ n[2] = stmt_idx
    <3>1. PICK j \in 1..Len(mutants) : mutants[j] = n
      BY <1>1, <2>2, <2>5 DEF Behind
    <3>2. stmt_idx > 0
      BY <1>1 DEF StreamIsRest
    <3>3. /\ h[3] = made - Len(mutants) + 1
          /\ n[3] = made - Len(mutants) + j
          /\ made \in Nat
      <4>1. /\ made \in Nat
            /\ \A i \in 1..Len(mutants) :
                 mutants[i] = <<CurrBlock, stmt_idx, made - Len(mutants) + i>>
        BY <3>2, CursorBounds DEF StreamIsRest
      <4>2. 1 \in 1..Len(mutants)
        BY <1>1
      <4> HIDE DEF made
      <4> QED BY <1>1, <3>1, <4>1, <4>2
    <3>4. j # 1
      BY <1>1, <1>4, <3>1
    <3>5. h[3] < n[3]
      <4> HIDE DEF made, h
      <4> QED BY <1>1, <3>3, <3>4
    <3> QED BY <1>2, <2>5, <3>5 DEF Enumeration!Precedes
  <2> QED BY <1>1, <2>1, <2>3, <2>4, <2>5
<1>5. pc # "done" /\ pc' # "done" /\ Generated' = Generated /\ Delivered' = Delivered \cup {h}
  BY YieldBehind DEF Yield, Generated, MutantsOfFirst
<1>6. Enumeration!Deliver(h)
  BY <1>3, <1>2, <1>4, <1>5 DEF Enumeration!Deliver
<1> QED BY <1>2, <1>3, <1>6

(* The cursor implements the enumeration: it starts as one, and each of    *)
(* its steps hands out the next mutant in body order, finishes, or is      *)
(* invisible.  (That it goes on to finish is model-checked.)               *)
THEOREM MutatorImplementsEnumeration == Spec => Enumeration!EnumSafety
<1>1. Init => Enumeration!EnumInit
  <2> SUFFICES ASSUME Init PROVE Enumeration!EnumInit
    OBVIOUS
  <2>1. analysis \in Seq(BlockAnalyses) /\ Len(analysis) \in 0..MaxBlocks
    BY BoundsAssumption DEF Init, Bodies
  <2>2. Generated \subseteq (1..MaxBlocks) \X (1..MaxStmts) \X (1..MaxYield)
    BY <2>1, BoundsAssumption DEF Generated, MutantsOfFirst
  <2>3. Delivered = {} /\ pc # "done"
    BY DEF Init, Delivered
  <2> QED BY <2>2, <2>3 DEF Enumeration!EnumInit
<1>2. CursorInv /\ CursorInv' /\ DeliveryInv /\ [Next]_vars
        => [Enumeration!EnumNext]_Enumeration!enumVars
  <2> SUFFICES ASSUME CursorInv, CursorInv', DeliveryInv, [Next]_vars
               PROVE  [Enumeration!EnumNext]_Enumeration!enumVars
    OBVIOUS
  <2>a. ASSUME UNCHANGED <<analysis, produced>>, pc # "done", pc' # "done"
        PROVE  UNCHANGED Enumeration!enumVars
    BY <2>a DEF Enumeration!enumVars, Generated, MutantsOfFirst, Delivered
  <2>1. CASE Query
    BY <2>1, <2>a DEF Query
  <2>2. CASE Yield
    BY <2>2, YieldIsDeliver DEF Enumeration!EnumNext
  <2>3. CASE MakeStream
    BY <2>3, <2>a DEF MakeStream, CheckProgress
  <2>4. CASE LoadBlock
    BY <2>4, <2>a DEF LoadBlock, CheckProgress
  <2>5. CASE ReturnNone
    <3>1. Delivered = Generated /\ UNCHANGED <<analysis, produced>> /\ pc' = "done"
      BY <2>5, QueueEmptyIsComplete DEF ReturnNone
    <3>2. Delivered' = Delivered /\ Generated' = Generated
      BY <3>1 DEF Delivered, Generated, MutantsOfFirst
    <3> QED BY <3>1, <3>2 DEF Enumeration!EnumNext, Enumeration!Finish
  <2>6. CASE UNCHANGED vars
    BY <2>6 DEF vars, Enumeration!enumVars, Generated, MutantsOfFirst, Delivered
  <2> QED BY <2>1, <2>2, <2>3, <2>4, <2>5, <2>6 DEF Next
<1> QED BY <1>1, <1>2, SpecInv, PTL DEF Spec, Enumeration!EnumSafety

=============================================================================

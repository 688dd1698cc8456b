------------------------- MODULE MscPipelineProofs -------------------------
(***************************************************************************)
(* Proofs about MscPipeline for every number of blocks per frame, every    *)
(* CIF length, every backlog and every block to begin with.                *)
(***************************************************************************)
EXTENDS MscPipeline, ProofLemmas, TLAPS

USE NrBlocksAssumption, FirstMscAssumption, CifAssumption, MaxFramesAssumption

\* The place of a block in its CIF, and of the block after it.
LEMMA PlaceInCif ==
  ASSUME NEW b \in Nat, b >= FirstMscBlock
  PROVE  /\ currentblk(b) \in 0 .. BlocksPerCif - 1
         /\ currentblk(b + 1) = IF currentblk(b) = BlocksPerCif - 1
                                THEN 0 ELSE currentblk(b) + 1
<1>. DEFINE x == b - FirstMscBlock
            y == (b + 1) - FirstMscBlock
<1>1. x \in Int /\ y \in Int /\ y = x + 1
  OBVIOUS
<1>2. /\ x % BlocksPerCif \in 0 .. BlocksPerCif - 1
      /\ y % BlocksPerCif = IF x % BlocksPerCif = BlocksPerCif - 1
                            THEN 0 ELSE (x % BlocksPerCif) + 1
  <2>. HIDE DEF x, y
  <2>. QED BY <1>1, RemainderStep
<1>. QED BY <1>2 DEF currentblk

----------------------------------------------------------------------------
(***************************************************************************)
(* Types and credits.                                                      *)
(***************************************************************************)
Base == TypeOK /\ Credits /\ GuardsHold

\* The slot after currentBlock.
LEMMA NextSlot ==
  ASSUME TypeOK
  PROVE  (currentBlock + 1) % NrBlocks =
           IF currentBlock = NrBlocks - 1 THEN 0 ELSE currentBlock + 1
BY CyclicStep DEF TypeOK, Slots

LEMMA BaseInit == Init => Base
<1>. SUFFICES ASSUME Init PROVE Base
  OBVIOUS
<1>1. NoCif \in Cif
  BY DEF NoCif, NoBlock, Cif, CifBlock, Slots, FrameTag, NoFrame
<1>2. TypeOK
  <2>1. work_to_be_done \in BOOLEAN
    BY DEF Init
  <2>2. command \in [Slots -> FrameTag]
    BY DEF Init, FrameTag
  <2>. QED BY <1>1, <2>1, <2>2 DEF Init, TypeOK, Slots, FrameTag
<1>3. Credits /\ GuardsHold
  BY DEF Init, Credits, GuardsHold, One
<1>. QED BY <1>2, <1>3 DEF Base

LEMMA BaseStep == Base /\ [Next]_vars => Base'
<1>. SUFFICES ASSUME Base, [Next]_vars PROVE Base'
  OBVIOUS
<1>. USE DEF Base, TypeOK, Credits, GuardsHold, One, Slots
<1>1. CASE Acquire
  BY <1>1 DEF Acquire, Larger, consumerVars
<1>2. CASE EndCopy
  BY <1>2 DEF EndCopy, consumerVars, FrameTag
<1>3. CASE Post
  BY <1>3 DEF Post, NextBlock, consumerVars
<1>4. CASE Take
  BY <1>4 DEF Take, producerVars
<1>5. CASE EndRead
  BY <1>5 DEF EndRead, producerVars
<1>6. CASE Demodulate
  <2>1. cifVector' \in Cif /\ handedOver' \in Cif
    <3>. DEFINE block == [blk |-> currentBlock, frame |-> fft_buffer,
                          ref |-> phaseReference]
    <3>1. block \in CifBlock
      BY DEF CifBlock
    <3>2. CASE currentBlock >= FirstMscBlock
      <4>. HIDE DEF block
      <4>1. cifVector' \in Cif
        BY <1>6, <3>1, <3>2 DEF Demodulate, process_mscBlock, Cif, block
      <4>. QED
        BY <1>6, <3>2, <4>1 DEF Demodulate, process_mscBlock, block
    <3>3. CASE ~(currentBlock >= FirstMscBlock)
      BY <1>6, <3>3 DEF Demodulate
    <3>. QED BY <3>2, <3>3
  <2>. QED BY <1>6, <2>1 DEF Demodulate, producerVars
<1>7. CASE Release
  BY <1>7 DEF Release, producerVars
<1>8. CASE Advance
  BY <1>8, NextSlot DEF Advance, producerVars
<1>9. CASE set_Channel
  BY <1>9 DEF set_Channel, producerVars, consumerVars
<1>10. CASE UNCHANGED vars
  BY <1>10 DEF vars, producerVars, consumerVars
<1>. QED
  BY <1>1, <1>2, <1>3, <1>4, <1>5, <1>6, <1>7, <1>8, <1>9, <1>10
     DEF Next, process_Msc, run

\* Every variable keeps its type, in particular amount and bufferSpace stay
\* within what the L slots allow, and no credit is ever lost or duplicated.
THEOREM TypesAndCredits == Spec => [](TypeOK /\ Credits /\ GuardsHold)
<1>1. Base <=> (TypeOK /\ Credits /\ GuardsHold)
  BY DEF Base
<1>. QED BY BaseInit, BaseStep, <1>1, PTL DEF Spec

----------------------------------------------------------------------------
(***************************************************************************)
(* The drift of the reader.                                                *)
(***************************************************************************)
LEMMA DriftStep == Base /\ DriftLaw /\ [Next]_vars => DriftLaw'
<1>. SUFFICES ASSUME Base, DriftLaw, [Next]_vars PROVE DriftLaw'
  OBVIOUS
<1>. USE DEF Base, TypeOK, DriftLaw, Slots
<1>1. CASE Post
  <2>1. CASE blkno = NrBlocks - 1
    <3>1. (NrBlocks - 1) * (frame + 1) = (NrBlocks - 1) * frame + (NrBlocks - 1)
      OBVIOUS
    <3>. QED BY <1>1, <2>1, <3>1 DEF Post, NextBlock, consumerVars
  <2>2. CASE blkno # NrBlocks - 1
    BY <1>1, <2>2 DEF Post, NextBlock, consumerVars
  <2>. QED BY <2>1, <2>2
<1>2. CASE Advance
  <2>1. CASE currentBlock = NrBlocks - 1
    <3>1. NrBlocks * (lap + 1) = NrBlocks * lap + NrBlocks
      OBVIOUS
    <3>. QED BY <1>2, <2>1, <3>1, NextSlot DEF Advance, producerVars
  <2>2. CASE currentBlock # NrBlocks - 1
    <3>1. currentBlock' = currentBlock + 1 /\ lap' = lap
      BY <1>2, <2>2, NextSlot DEF Advance
    <3>2. /\ amount' = amount - 1 /\ frame' = frame /\ blkno' = blkno
          /\ first' = first
      BY <1>2 DEF Advance, producerVars
    <3>. QED BY <3>1, <3>2
  <2>. QED BY <2>1, <2>2
<1>3. CASE Acquire \/ EndCopy \/ set_Channel \/ UNCHANGED vars
  BY <1>3 DEF Acquire, EndCopy, set_Channel, vars, producerVars, consumerVars
<1>4. CASE Take \/ EndRead \/ Demodulate \/ Release
  BY <1>4 DEF Take, EndRead, Demodulate, Release, producerVars
<1>. QED BY <1>1, <1>2, <1>3, <1>4 DEF Next, process_Msc, run

\* The reader drifts by exactly one block per frame: the law that ties its
\* position to the writer's, whatever the two threads' schedule.
THEOREM Drift == Spec => []DriftLaw
<1>1. Init => DriftLaw
  BY DEF Init, DriftLaw
<1>. QED BY <1>1, BaseInit, BaseStep, DriftStep, PTL DEF Spec

\* Two threads in one slot: only after the drift has used up all L slots.
THEOREM SlotsDisjoint == Spec => []NoOverlap
<1>1. Base /\ DriftLaw => NoOverlap
  <2>. SUFFICES ASSUME Base, DriftLaw, pc = "copy", mpc = "read",
                       blkno = currentBlock
                PROVE  frame + amount + first >= NrBlocks
    BY DEF NoOverlap, Drifted
  <2>. USE DEF Base, TypeOK, DriftLaw, Slots
  <2>1. NrBlocks * (frame - lap) = frame + amount + first
    <3>1. /\ NrBlocks * (frame - lap) = NrBlocks * frame - NrBlocks * lap
          /\ (NrBlocks - 1) * frame = NrBlocks * frame - frame
      OBVIOUS
    <3>. QED BY <3>1
  <2>2. NrBlocks * (frame - lap) >= NrBlocks
    <3>. SUFFICES ASSUME NrBlocks * (frame - lap) < NrBlocks PROVE FALSE
      OBVIOUS
    <3>1. NrBlocks * (frame - lap) > -NrBlocks
      BY <2>1
    <3>2. frame - lap = 0
      BY <3>1, SmallMultiple
    <3>. QED BY <2>1, <3>2
  <2>. QED BY <2>1, <2>2
<1>. QED BY <1>1, Drift, BaseInit, BaseStep, PTL DEF Spec

----------------------------------------------------------------------------
(***************************************************************************)
(* What the slots hold.                                                    *)
(***************************************************************************)
LEMMA SlotTagsStep == Base /\ SlotTags /\ [Next]_vars => SlotTags'
<1>. SUFFICES ASSUME Base, SlotTags, [Next]_vars PROVE SlotTags'
  OBVIOUS
<1>. USE DEF Base, TypeOK, SlotTags, Written, Slots
<1>1. CASE Acquire
  BY <1>1 DEF Acquire, consumerVars
<1>2. CASE EndCopy
  BY <1>2 DEF EndCopy, consumerVars
<1>3. CASE Post
  BY <1>3 DEF Post, NextBlock, consumerVars
<1>4. CASE Take \/ EndRead \/ Demodulate \/ Release \/ Advance
  BY <1>4 DEF Take, EndRead, Demodulate, Release, Advance, producerVars
<1>5. CASE set_Channel \/ UNCHANGED vars
  BY <1>5 DEF set_Channel, vars, producerVars, consumerVars
<1>. QED BY <1>1, <1>2, <1>3, <1>4, <1>5 DEF Next, process_Msc, run

\* In the early frames the slot the reader is about to read holds the frame
\* whose number is the reader's lap.
LEMMA ReadsItsLap ==
  ASSUME Base, DriftLaw, SlotTags, EarlyFrames, mpc = "read",
         currentBlock >= 1
  PROVE  command[currentBlock] = lap
<1>. USE DEF Base, TypeOK, DriftLaw, SlotTags, Written, EarlyFrames, GuardsHold,
             Slots
<1>1. NrBlocks * (frame - lap) = frame + currentBlock + amount - (blkno - first)
  <2>1. /\ NrBlocks * (frame - lap) = NrBlocks * frame - NrBlocks * lap
        /\ (NrBlocks - 1) * frame = NrBlocks * frame - frame
    OBVIOUS
  <2>. QED BY <2>1
<1>2. frame = lap \/ frame = lap + 1
  <2>1. NrBlocks * (frame - lap - 1) = NrBlocks * (frame - lap) - NrBlocks
    OBVIOUS
  <2>2. NrBlocks * (frame - lap) > -NrBlocks
    BY <1>1
  <2>3. NrBlocks * (frame - lap) < 2 * NrBlocks
    BY <1>1
  <2>4. CASE NrBlocks * (frame - lap) < NrBlocks
    BY <2>2, <2>4, SmallMultiple
  <2>5. CASE NrBlocks * (frame - lap) >= NrBlocks
    <3>1. frame - lap - 1 = 0
      BY <2>1, <2>3, <2>5, SmallMultiple
    <3>. QED BY <3>1
  <2>. QED BY <2>4, <2>5
<1>3. CASE frame = lap
  <2>1. currentBlock < blkno
    BY <1>1, <1>3
  <2>. QED BY <1>3, <2>1
<1>4. CASE frame = lap + 1
  <2>1. NrBlocks = frame + currentBlock + amount - (blkno - first)
    BY <1>1, <1>4
  <2>2. ~Written(currentBlock)
    BY <2>1
  <2>. QED BY <1>4, <2>2
<1>. QED BY <1>2, <1>3, <1>4

----------------------------------------------------------------------------
(***************************************************************************)
(* Coherence of the CIFs of the early frames.                              *)
(***************************************************************************)
EarlyInv == EarlyFrames => LapTags

\* Frame numbers and the longest backlog only grow, so what is early now was early before.
LEMMA EarlyBefore ==
  ASSUME Base, [Next]_vars, EarlyFrames'
  PROVE  EarlyFrames
BY DEF Base, TypeOK, EarlyFrames, Next, process_Msc, run, Acquire, Larger,
       EndCopy, Post, NextBlock, Take, EndRead, Demodulate, Release, Advance,
       set_Channel, vars, producerVars, consumerVars

\* The demodulated block joins the CIF behind its predecessors of that lap.
LEMMA DemodulateFills ==
  ASSUME Base, EarlyFrames, LapTags, Demodulate,
         currentBlock >= FirstMscBlock
  PROVE  \A i \in 0 .. currentblk(currentBlock) :
           cifVector'[i] =
             [blk   |-> currentBlock - (currentblk(currentBlock) - i),
              frame |-> lap, ref |-> lap]
<1>. USE DEF Base, TypeOK, Slots
<1>. DEFINE k == currentblk(currentBlock)
            block == [blk |-> currentBlock, frame |-> lap, ref |-> lap]
<1>1. k \in 0 .. BlocksPerCif - 1
  BY PlaceInCif
<1>2. fft_buffer = lap /\ phaseReference = lap
  BY DEF LapTags, Done, Demodulate
<1>3. cifVector' = [cifVector EXCEPT ![k] = block]
  BY <1>2 DEF Demodulate, process_mscBlock
<1>4. DOMAIN cifVector = 0 .. BlocksPerCif - 1
  BY DEF Cif
<1>5. cifVector'[k] = block
  BY <1>1, <1>3, <1>4
<1>6. ASSUME NEW i \in 0 .. k - 1
      PROVE  cifVector'[i] = [blk   |-> currentBlock - (k - i),
                              frame |-> lap, ref |-> lap]
  <2>1. currentBlock > FirstMscBlock
    <3>1. SUFFICES ASSUME currentBlock = FirstMscBlock PROVE k = 0
      BY <1>6
    <3>. QED BY <3>1 DEF currentblk
  <2>2. currentblk(currentBlock - 1) = k - 1
    <3>1. /\ currentBlock - 1 \in Nat /\ currentBlock - 1 >= FirstMscBlock
          /\ (currentBlock - 1) + 1 = currentBlock
      BY <2>1
    <3>2. k = IF currentblk(currentBlock - 1) = BlocksPerCif - 1
              THEN 0 ELSE currentblk(currentBlock - 1) + 1
      BY <3>1, PlaceInCif
    <3>3. currentblk(currentBlock - 1) \in Int
      BY <3>1, PlaceInCif
    <3>. QED BY <1>1, <1>6, <3>2, <3>3
  <2>3. cifVector[i] =
          [blk   |-> currentBlock - 1 - (currentblk(currentBlock - 1) - i),
           frame |-> lap, ref |-> lap]
    <3>1. Done = currentBlock
      BY DEF Done, Demodulate
    <3>. QED BY <2>1, <2>2, <3>1 DEF LapTags
  <2>4. currentBlock - 1 - (currentblk(currentBlock - 1) - i)
          = currentBlock - (k - i)
    BY <2>2, <1>1
  <2>5. cifVector'[i] = cifVector[i]
    BY <1>1, <1>3, <1>4
  <2>. QED BY <2>3, <2>4, <2>5
<1>7. ASSUME NEW i \in 0 .. k
      PROVE  cifVector'[i] = [blk   |-> currentBlock - (k - i),
                              frame |-> lap, ref |-> lap]
  <2>1. CASE i = k
    BY <1>1, <1>5, <2>1
  <2>2. CASE i # k
    BY <1>1, <1>6, <2>2
  <2>. QED BY <2>1, <2>2
<1>. QED BY <1>7

LEMMA EarlyStep ==
  Base /\ DriftLaw /\ SlotTags /\ EarlyInv /\ [Next]_vars => EarlyInv'
<1>. SUFFICES ASSUME Base, DriftLaw, SlotTags, EarlyInv, [Next]_vars,
                     EarlyFrames'
              PROVE  LapTags'
  BY DEF EarlyInv
<1>0. EarlyFrames /\ LapTags
  BY EarlyBefore DEF EarlyInv
<1>. USE <1>0 DEF Base, TypeOK, Slots, LapTags, Done
<1>1. CASE Acquire \/ EndCopy \/ Post
  BY <1>1 DEF Acquire, EndCopy, Post, consumerVars
<1>2. CASE set_Channel \/ UNCHANGED vars
  BY <1>2 DEF set_Channel, vars, consumerVars
<1>3. CASE Take
  BY <1>3 DEF Take
<1>4. CASE EndRead
  <2>1. currentBlock >= 1 => fft_buffer' = lap
    BY <1>4, ReadsItsLap DEF EndRead
  <2>. QED BY <1>4, <2>1 DEF EndRead
<1>5. CASE Demodulate
  <2>1. /\ currentBlock' = currentBlock /\ lap' = lap
        /\ mpc' = "release" /\ mpc = "demod"
        /\ fft_buffer' = fft_buffer /\ phaseReference' = fft_buffer
    BY <1>5 DEF Demodulate
  <2>2. currentBlock >= 1 => fft_buffer = lap
    BY <2>1
  <2>3. currentBlock >= FirstMscBlock =>
          \A i \in 0 .. currentblk(currentBlock) :
            cifVector'[i] =
              [blk   |-> currentBlock - (currentblk(currentBlock) - i),
               frame |-> lap, ref |-> lap]
    BY <1>5, DemodulateFills
  <2>4. Done' = currentBlock + 1 /\ Done' - 1 = currentBlock
    BY <2>1
  <2>. HIDE DEF Done
  <2>5. Done' >= 2 => phaseReference' = lap
    BY <2>1, <2>2, <2>4
  <2>6. Done' > FirstMscBlock => currentBlock >= FirstMscBlock
    BY <2>4
  <2>. QED BY <2>1, <2>2, <2>3, <2>4, <2>5, <2>6
<1>6. CASE Release
  BY <1>6 DEF Release
<1>7. CASE Advance
  <2>1. CASE currentBlock = NrBlocks - 1
    BY <1>7, <2>1, NextSlot DEF Advance
  <2>2. CASE currentBlock # NrBlocks - 1
    <3>1. /\ currentBlock' = currentBlock + 1 /\ lap' = lap /\ mpc' = "take"
          /\ phaseReference' = phaseReference /\ cifVector' = cifVector
      <4>1. (currentBlock + 1) % NrBlocks = currentBlock + 1
        BY <2>2, NextSlot
      <4>. QED BY <1>7, <2>2, <4>1 DEF Advance
    <3>2. Done' = Done
      BY <1>7, <3>1 DEF Advance
    <3>. HIDE DEF Done
    <3>. QED BY <3>1, <3>2
  <2>. QED BY <2>1, <2>2
<1>. QED BY <1>1, <1>2, <1>3, <1>4, <1>5, <1>6, <1>7 DEF Next, process_Msc, run

LEMMA CoherentStep ==
  Base /\ Base' /\ EarlyInv /\ CoherentAtFirst /\ [Next]_vars
    => CoherentAtFirst'
<1>. SUFFICES ASSUME Base, Base', EarlyInv, CoherentAtFirst, [Next]_vars,
                     EarlyFrames', handedOver' # NoCif
              PROVE  Coherent(handedOver')
  BY DEF CoherentAtFirst, EarlyFrames
<1>0. EarlyFrames /\ LapTags
  BY EarlyBefore DEF EarlyInv
<1>1. CASE handedOver' = handedOver
  BY <1>0, <1>1 DEF CoherentAtFirst, EarlyFrames
<1>2. CASE handedOver' # handedOver
  <2>1. Demodulate
    BY <1>2 DEF Next, process_Msc, run, Acquire, EndCopy, Post, Take, EndRead,
                Release, Advance, set_Channel, vars, consumerVars
  <2>2. /\ currentBlock >= FirstMscBlock
        /\ currentblk(currentBlock) = BlocksPerCif - 1
        /\ handedOver' = cifVector'
    BY <1>2, <2>1 DEF Demodulate, process_mscBlock
  <2>3. DOMAIN handedOver' = 0 .. BlocksPerCif - 1
    BY DEF Base, TypeOK, Cif
  <2>4. \A i \in 0 .. BlocksPerCif - 1 :
          handedOver'[i] = [blk   |-> currentBlock - (BlocksPerCif - 1 - i),
                            frame |-> lap, ref |-> lap]
    BY <1>0, <2>1, <2>2, DemodulateFills
  <2>5. currentBlock \in Int /\ 0 \in 0 .. BlocksPerCif - 1
    BY DEF Base, TypeOK, Slots
  <2>. QED BY <2>3, <2>4, <2>5 DEF Coherent
<1>. QED BY <1>1, <1>2

\* Every CIF handed over while frames and backlog leave room in a frame
\* is made of consecutive blocks of one frame, each demodulated against its
\* predecessor; the whole inductive invariant with it.
THEOREM Coherence == Spec => []IInv
<1>1. Init => SlotTags /\ EarlyInv /\ CoherentAtFirst
  <2>1. Init => SlotTags
    BY DEF Init, SlotTags, Written, NoFrame, Slots
  <2>2. Init => EarlyInv /\ CoherentAtFirst
    BY DEF Init, EarlyInv, LapTags, Done, CoherentAtFirst
  <2>. QED BY <2>1, <2>2
<1>2. Init => DriftLaw
  BY DEF Init, DriftLaw
<1>3. Base /\ DriftLaw /\ SlotTags /\ EarlyInv /\ CoherentAtFirst <=> IInv
  BY DEF IInv, Base, EarlyInv
<1>. QED
  BY <1>1, <1>2, <1>3, BaseInit, BaseStep, DriftStep, SlotTagsStep, EarlyStep,
     CoherentStep, PTL DEF Spec

\* The property the runs check, of its own.
THEOREM EarlyCifsCoherent == Spec => []CoherentAtFirst
<1>1. IInv => CoherentAtFirst
  BY DEF IInv
<1>. QED BY <1>1, Coherence, PTL
============================================================================

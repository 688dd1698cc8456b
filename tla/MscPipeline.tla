---------------------------- MODULE MscPipeline ----------------------------
(***************************************************************************)
(* The data path of mscHandler (src/backend/msc-handler.cpp) between two   *)
(* calls of reset: the dabProcessor thread hands the OFDM blocks of each   *)
(* DAB frame to the mscHandler thread through the slots command[0..L-1],   *)
(* the semaphore bufferSpace and the counter amount; the mscHandler thread *)
(* demodulates them and collects CIFs for the backends.                    *)
(*                                                                         *)
(* A block's content is abstracted to the number of the frame it belongs   *)
(* to.  Copying a block into or out of a slot takes two steps, so that two *)
(* copies which overlap in time are visible as a state.                    *)
(*                                                                         *)
(* It begins with any block of a frame: reset_msc of the GUI thread        *)
(* (dab-processor.cpp:363) restarts the mscHandler thread, with slot 0,    *)
(* wherever the dabProcessor thread is in its frame.  The blocks that were *)
(* posted before are taken to be worked off (DabThreads has them).         *)
(***************************************************************************)
EXTENDS Integers

CONSTANTS
  NrBlocks,      \* L, the number of OFDM blocks in a frame (76 in mode I)
  FirstMscBlock, \* the first block of a frame with MSC data (4)
  BlocksPerCif,  \* numberofblocksperCIF (18 in mode I)
  MaxFrames      \* bound: frames the transmitter sends

ASSUME NrBlocksAssumption   == NrBlocks \in Nat /\ NrBlocks >= 2
ASSUME FirstMscAssumption   == FirstMscBlock \in 2 .. NrBlocks - 1
ASSUME CifAssumption        == BlocksPerCif \in Nat \ {0}
ASSUME MaxFramesAssumption  == MaxFrames \in Nat

Slots    == 0 .. NrBlocks - 1
NoFrame  == -1                       \* a slot nobody has written
FrameTag == {NoFrame} \cup Nat
CifBlock == [blk : Slots, frame : FrameTag, ref : FrameTag]
NoBlock  == [blk |-> 0, frame |-> NoFrame, ref |-> NoFrame]
Cif      == [0 .. BlocksPerCif - 1 -> CifBlock]

VARIABLES
  pc,             \* where the dabProcessor thread is in process_Msc
  frame,          \* the frame it is handing over
  blkno,          \* the block of that frame it hands over next
  bufferSpace, amount, command,      \* what the two threads share
  mpc,            \* where the mscHandler thread is in run
  currentBlock,   \* the slot that thread takes next
  fft_buffer, phaseReference,        \* the frames these two vectors are from
  cifVector, work_to_be_done,
  handedOver,     \* history: the last CIF given to the backends
  lap,            \* history: how often currentBlock has wrapped
  first,          \* history: the block of frame 0 that is the first one
  backlog         \* history: the most blocks that ever waited at once

producerVars == <<pc, frame, blkno, backlog, first>>
consumerVars == <<mpc, currentBlock, fft_buffer, phaseReference, cifVector,
                  handedOver, lap>>
vars == <<producerVars, bufferSpace, amount, command, consumerVars,
          work_to_be_done>>

Larger(a, b) == IF a < b THEN b ELSE a

NoCif == [i \in 0 .. BlocksPerCif - 1 |-> NoBlock]

Init ==
  /\ first \in 1 .. NrBlocks - 1
  /\ pc = "acquire" /\ frame = 0 /\ blkno = first
  /\ bufferSpace = NrBlocks /\ amount = 0
  /\ command = [s \in Slots |-> IF 1 <= s /\ s < first THEN 0 ELSE NoFrame]
  /\ mpc = "take" /\ currentBlock = 0
  /\ fft_buffer = NoFrame /\ phaseReference = NoFrame
  /\ cifVector = NoCif /\ work_to_be_done = FALSE
  /\ handedOver = NoCif /\ lap = 0 /\ backlog = 0

(***************************************************************************)
(* The dabProcessor thread: process_Msc (b, blkno) for blkno 1 .. L - 1 of *)
(* every frame (dab-processor.cpp:233-249).                                *)
(***************************************************************************)
\* bufferSpace. acquire (1): waits for a free slot.
Acquire ==
  /\ pc = "acquire" /\ frame < MaxFrames
  /\ bufferSpace > 0
  /\ bufferSpace' = bufferSpace - 1
  /\ backlog' = Larger(backlog, amount + 1)
  /\ pc' = "copy"
  /\ UNCHANGED <<frame, blkno, first, amount, command, consumerVars, work_to_be_done>>

\* The memcpy into command [blkno] ends; it is under way while pc = "copy".
EndCopy ==
  /\ pc = "copy"
  /\ command' = [command EXCEPT ![blkno] = frame]
  /\ pc' = "post"
  /\ UNCHANGED <<frame, blkno, first, backlog, bufferSpace, amount, consumerVars,
                 work_to_be_done>>

\* The next turn of the loop over the blocks of a frame.
NextBlock ==
  IF blkno = NrBlocks - 1 THEN blkno' = 1 /\ frame' = frame + 1
                          ELSE blkno' = blkno + 1 /\ frame' = frame

\* amount ++ under the lock helper, and the wake-up of the other thread,
\* which needs no variable: that thread also wakes by itself every 100 ms.
Post ==
  /\ pc = "post"
  /\ amount' = amount + 1
  /\ pc' = "acquire"
  /\ NextBlock
  /\ UNCHANGED <<first, backlog, bufferSpace, command, consumerVars,
                 work_to_be_done>>

(***************************************************************************)
(* The mscHandler thread: the loop of run.                                 *)
(***************************************************************************)
\* Woken with amount > 0: the memcpy out of command [currentBlock] begins.
Take ==
  /\ mpc = "take" /\ amount > 0
  /\ mpc' = "read"
  /\ UNCHANGED <<producerVars, bufferSpace, amount, command, currentBlock,
                 fft_buffer, phaseReference, cifVector, handedOver, lap,
                 work_to_be_done>>

\* That memcpy ends.
EndRead ==
  /\ mpc = "read"
  /\ fft_buffer' = command[currentBlock]
  /\ mpc' = "demod"
  /\ UNCHANGED <<producerVars, bufferSpace, amount, command, currentBlock,
                 phaseReference, cifVector, handedOver, lap, work_to_be_done>>

\* The place of block blk in its CIF.
currentblk(blk) == (blk - FirstMscBlock) % BlocksPerCif

\* process_mscBlock that hands over one block too early.
process_mscBlockEarly(block) ==
  /\ cifVector' = [cifVector EXCEPT ![currentblk(block.blk)] = block]
  /\ handedOver' = IF /\ currentblk(block.blk) >= BlocksPerCif - 2
                      /\ work_to_be_done
                   THEN cifVector' ELSE handedOver

\* process_mscBlock: store the block; with the last one of a CIF in place,
\* and a service selected, the CIF goes to every backend.
process_mscBlock(block) ==
  /\ cifVector' = [cifVector EXCEPT ![currentblk(block.blk)] = block]
  /\ handedOver' = IF /\ currentblk(block.blk) = BlocksPerCif - 1
                      /\ work_to_be_done
                   THEN cifVector' ELSE handedOver

\* The same step with the update of phaseReference left to MSC blocks.
DemodulateStaleReference ==
  /\ mpc = "demod"
  /\ IF currentBlock >= FirstMscBlock
     THEN process_mscBlock([blk |-> currentBlock, frame |-> fft_buffer,
                            ref |-> phaseReference])
     ELSE UNCHANGED <<cifVector, handedOver>>
  /\ phaseReference' = IF currentBlock >= FirstMscBlock THEN fft_buffer
                                                        ELSE phaseReference
  /\ mpc' = "release"
  /\ UNCHANGED <<producerVars, bufferSpace, amount, command, currentBlock,
                 fft_buffer, lap, work_to_be_done>>

\* FFT; an MSC block is demodulated against its predecessor; then the block
\* itself becomes the phase reference.
Demodulate ==
  /\ mpc = "demod"
  /\ IF currentBlock >= FirstMscBlock
     THEN process_mscBlock([blk |-> currentBlock, frame |-> fft_buffer,
                            ref |-> phaseReference])
     ELSE UNCHANGED <<cifVector, handedOver>>
  /\ phaseReference' = fft_buffer
  /\ mpc' = "release"
  /\ UNCHANGED <<producerVars, bufferSpace, amount, command, currentBlock,
                 fft_buffer, lap, work_to_be_done>>

\* A release that comes back short.
ReleaseNothing ==
  /\ mpc = "release"
  /\ bufferSpace' = bufferSpace
  /\ mpc' = "advance"
  /\ UNCHANGED <<producerVars, amount, command, currentBlock, fft_buffer,
                 phaseReference, cifVector, handedOver, lap, work_to_be_done>>

\* bufferSpace. release (1), before amount is decremented.
Release ==
  /\ mpc = "release"
  /\ bufferSpace' = bufferSpace + 1
  /\ mpc' = "advance"
  /\ UNCHANGED <<producerVars, amount, command, currentBlock, fft_buffer,
                 phaseReference, cifVector, handedOver, lap, work_to_be_done>>

\* Under helper: to the next slot, one block less to do.
Advance ==
  /\ mpc = "advance"
  /\ currentBlock' = (currentBlock + 1) % NrBlocks
  /\ lap' = IF currentBlock = NrBlocks - 1 THEN lap + 1 ELSE lap
  /\ amount' = amount - 1
  /\ mpc' = "take"
  /\ UNCHANGED <<producerVars, bufferSpace, command, fft_buffer,
                 phaseReference, cifVector, handedOver, work_to_be_done>>

(***************************************************************************)
(* The GUI thread: set_Channel adds the first backend.                     *)
(***************************************************************************)
set_Channel ==
  /\ ~work_to_be_done
  /\ work_to_be_done' = TRUE
  /\ UNCHANGED <<producerVars, bufferSpace, amount, command, consumerVars>>

process_Msc == Acquire \/ EndCopy \/ Post
run         == Take \/ EndRead \/ Demodulate \/ Release \/ Advance
Next        == process_Msc \/ run \/ set_Channel

Spec     == Init /\ [][Next]_vars
\* Both threads are scheduled; the user need not select a service.
FairSpec == Spec /\ WF_vars(process_Msc) /\ WF_vars(run)
----------------------------------------------------------------------------
TypeOK ==
  /\ pc \in {"acquire", "copy", "post"}
  /\ frame \in 0 .. MaxFrames
  /\ blkno \in 1 .. NrBlocks - 1 /\ first \in 1 .. NrBlocks - 1
  /\ bufferSpace \in 0 .. NrBlocks /\ amount \in 0 .. NrBlocks + 1
  /\ command \in [Slots -> FrameTag]
  /\ mpc \in {"take", "read", "demod", "release", "advance"}
  /\ currentBlock \in Slots /\ lap \in Nat /\ backlog \in Nat
  /\ fft_buffer \in FrameTag /\ phaseReference \in FrameTag
  /\ cifVector \in Cif /\ handedOver \in Cif
  /\ work_to_be_done \in BOOLEAN

One(b) == IF b THEN 1 ELSE 0

\* No slot is ever lost or created: every one of the L credits is free, with
\* the producer, or accounts for a posted block.  Between bufferSpace.
\* release and the decrement of amount one block is counted twice, so the
\* bound on amount that process_Msc relies on is L + 1 and not L.
Credits ==
  bufferSpace + One(pc # "acquire") + amount = NrBlocks + One(mpc = "advance")

\* The reader takes L slots per lap where the writer fills L - 1 per frame
\* (slot 0 is never written: the dabProcessor thread does not call
\* mscHandler::processBlock_0), so with every frame the reader falls one
\* block further behind the writer than the blocks that wait explain.  It
\* starts behind by the blocks of the frame that went before the first.
DriftLaw ==
  NrBlocks * lap + currentBlock + amount
    = (NrBlocks - 1) * frame + blkno - first

\* How far the reader may fall behind before the writer laps it.
Drifted == frame + amount + first >= NrBlocks

\* As long as the drift leaves room, the two threads never copy into and out
\* of the same slot at the same time (nothing but the drift keeps them apart:
\* no lock covers command).
NoOverlap ==
  pc = "copy" /\ mpc = "read" /\ blkno = currentBlock => Drifted

\* A CIF is coherent when all its blocks are of one frame, in sequence, each
\* demodulated against its predecessor in that frame.
Coherent(c) ==
  /\ \A i \in DOMAIN c : c[i].frame = c[0].frame /\ c[i].ref = c[0].frame
  /\ \A i \in DOMAIN c : c[i].blk = c[0].blk + i

\* Every CIF the backends get in the first frames after a (re)start is
\* coherent: as long as the frames handed over, the longest backlog there has
\* been and the blocks before the first do not exceed L - 1 together.
EarlyFrames == frame + backlog + first <= NrBlocks
CoherentAtFirst ==
  handedOver # NoCif /\ EarlyFrames => Coherent(handedOver)

\* The facts CoherentAtFirst rests on.  What a thread saw when it passed its
\* guard still holds until its step is complete.
GuardsHold ==
  /\ amount <= backlog
  /\ pc # "acquire" => frame < MaxFrames /\ amount < backlog
  /\ mpc # "take" => amount > 0

\* Slot i holds the current frame's block i once that is copied, and the
\* previous frame's before.
Written(i) == i < blkno \/ (i = blkno /\ pc = "post")
SlotTags ==
  \A i \in 1 .. NrBlocks - 1 :
    command[i] = IF Written(i) THEN frame ELSE frame - 1

\* As long as the drift leaves room, lap n of the reader works on frame n
\* only: the block it has, its reference, and the CIF it is filling.
Done == IF mpc \in {"release", "advance"} THEN currentBlock + 1
                                          ELSE currentBlock
LapTags ==
  /\ currentBlock >= 1 /\ mpc \notin {"take", "read"} => fft_buffer = lap
  /\ Done >= 2 => phaseReference = lap
  /\ Done > FirstMscBlock =>
       \A i \in 0 .. currentblk(Done - 1) :
         cifVector[i] = [blk   |-> Done - 1 - (currentblk(Done - 1) - i),
                         frame |-> lap, ref |-> lap]

\* The inductive invariant of the coherence theorem.
IInv == /\ TypeOK /\ Credits /\ GuardsHold /\ DriftLaw /\ SlotTags
        /\ EarlyFrames => LapTags
        /\ CoherentAtFirst

\* Every CIF the backends ever get is coherent, which is what the comments of
\* run and process_mscBlock say of it.
AlwaysCoherent == handedOver # NoCif => Coherent(handedOver)

\* The dabProcessor thread, which must keep up with the sample stream, never
\* stays blocked in bufferSpace. acquire.
ProducerProceeds ==
  pc = "acquire" /\ frame < MaxFrames ~> pc = "copy"

\* Whatever is posted is taken in the end: the queue empties.
QueueDrains == <>[](amount = 0)

\* Neither thread starves the other (msc-handler.cpp:90, 107).
BothProceed == ProducerProceeds /\ QueueDrains
============================================================================

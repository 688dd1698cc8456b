------------------------------ MODULE Backend ------------------------------
(***************************************************************************)
(* One Backend (src/backend/backend.cpp, with __THREADED_BACKEND): the     *)
(* mscHandler thread gives it the service's fragment of every CIF through  *)
(* the slots theData; the backend's own thread undoes the time             *)
(* interleaving and passes logical frames on to its driver.                *)
(*                                                                         *)
(* A fragment's content is abstracted to the number of its CIF, counted    *)
(* from the creation of the backend; in the interleaver the numbers below  *)
(* 0 stand for the zeros the constructor fills in.  A logical frame is the *)
(* function that gives, for each bit position modulo 16, the CIF the bit   *)
(* was taken from.                                                         *)
(***************************************************************************)
EXTENDS Integers

CONSTANTS
  NrSlots,   \* slots in theData (20)
  MaxCifs    \* bound: CIFs in the run

ASSUME NrSlotsAssumption == NrSlots \in Nat \ {0}
ASSUME MaxCifsAssumption == MaxCifs \in Nat

Slots   == 0 .. NrSlots - 1
Depth   == 16
Lanes   == 0 .. Depth - 1
Nothing == [i \in {} |-> 0]

interleaveMapTypo ==
  [j \in Lanes |-> <<0,8,4,12,2,10,6,14,1,9,5,13,3,11,15,7>>[j + 1]]
interleaveMap ==
  [j \in Lanes |-> <<0,8,4,12,2,10,6,14,1,9,5,13,3,11,7,15>>[j + 1]]

VARIABLES
  running,
  freeSlots, usedSlots, theData, nextIn, nextOut,
  ppc,        \* where the mscHandler thread is in process; idle: not in it
  cpc,        \* where the backend's thread is in run; done: it has ended
  interleaveData, interleaverIndex, countforInterleaver, tempX,
  outV,       \* history: the last logical frame passed to the driver
  frames,     \* history: how many were
  accepted, delivered, got   \* history: see BoundedStream

queueVars    == <<freeSlots, usedSlots, theData, nextIn, nextOut>>
deinterVars  == <<interleaveData, interleaverIndex, tempX>>
outputVars   == <<countforInterleaver, outV, frames>>
streamVars   == <<accepted, delivered, got>>
vars == <<running, queueVars, ppc, cpc, deinterVars, outputVars, streamVars>>

\* The constructor, with the thread started.
Init ==
  /\ running = TRUE
  /\ freeSlots = NrSlots /\ usedSlots = 0
  /\ theData = [s \in Slots |-> -1] /\ nextIn = 0 /\ nextOut = 0
  /\ ppc = "idle" /\ cpc = "test"
  /\ interleaveData = [s \in Lanes |-> s - Depth]
  /\ interleaverIndex = 0 /\ countforInterleaver = 0
  /\ tempX = [j \in Lanes |-> -Depth]
  /\ outV = tempX /\ frames = 0
  /\ accepted = 0 /\ delivered = 0 /\ got = Nothing

(***************************************************************************)
(* The mscHandler thread: process, called with mscHandler's locker held.   *)
(* stopRunning is called under the same lock, so running is still set      *)
(* here and the early return of process never happens.                     *)
(***************************************************************************)
StartProcess ==
  /\ ppc = "idle" /\ running /\ accepted < MaxCifs
  /\ ppc' = "acquire"
  /\ UNCHANGED <<running, queueVars, cpc, deinterVars, outputVars, streamVars>>

\* freeSlots. tryAcquire (1, 200), repeated until it succeeds.
AcquireFree ==
  /\ ppc = "acquire" /\ freeSlots > 0
  /\ freeSlots' = freeSlots - 1
  /\ ppc' = "copy"
  /\ UNCHANGED <<running, usedSlots, theData, nextIn, nextOut, cpc,
                 deinterVars, outputVars, streamVars>>

\* The memcpy into theData [nextIn] ends.
StoreFragment ==
  /\ ppc = "copy"
  /\ theData' = [theData EXCEPT ![nextIn] = accepted]
  /\ ppc' = "release"
  /\ UNCHANGED <<running, freeSlots, usedSlots, nextIn, nextOut, cpc,
                 deinterVars, outputVars, streamVars>>

\* A wrap-around one slot too late.
ReleaseUsedOffByOne ==
  /\ ppc = "release"
  /\ nextIn' = IF nextIn = 0 THEN 1 % NrSlots
               ELSE IF nextIn = NrSlots - 1 THEN 1 % NrSlots ELSE nextIn + 1
  /\ usedSlots' = usedSlots + 1
  /\ accepted' = accepted + 1
  /\ ppc' = "idle"
  /\ UNCHANGED <<running, freeSlots, theData, nextOut, cpc, deinterVars,
                 outputVars, delivered, got>>

ReleaseUsed ==
  /\ ppc = "release"
  /\ nextIn' = (nextIn + 1) % NrSlots
  /\ usedSlots' = usedSlots + 1
  /\ accepted' = accepted + 1
  /\ ppc' = "idle"
  /\ UNCHANGED <<running, freeSlots, theData, nextOut, cpc, deinterVars,
                 outputVars, delivered, got>>

(***************************************************************************)
(* The backend's thread: run and processSegment.                           *)
(***************************************************************************)
\* while (running. load ())
TestRunning ==
  /\ cpc = "test"
  /\ cpc' = IF running THEN "acquire" ELSE "done"
  /\ UNCHANGED <<running, queueVars, ppc, deinterVars, outputVars, streamVars>>

\* usedSlots. tryAcquire (1, 200) succeeds.
AcquireUsed ==
  /\ cpc = "acquire" /\ usedSlots > 0
  /\ usedSlots' = usedSlots - 1
  /\ cpc' = "segment"
  /\ UNCHANGED <<running, freeSlots, theData, nextIn, nextOut, ppc,
                 deinterVars, outputVars, streamVars>>

\* It times out, and the backend has been stopped.
GiveUp ==
  /\ cpc = "acquire" /\ usedSlots = 0 /\ ~running
  /\ cpc' = "done"
  /\ UNCHANGED <<running, queueVars, ppc, deinterVars, outputVars, streamVars>>

\* The loop over the fragment ends: each bit of tempX comes from the row of
\* its lane, and the fragment replaces the oldest row.
Deinterleave ==
  /\ cpc = "segment"
  /\ tempX' = [j \in Lanes |->
                 interleaveData[(interleaverIndex + interleaveMap[j]) % Depth]]
  /\ interleaveData' = [interleaveData EXCEPT ![interleaverIndex] = theData[nextOut]]
  /\ interleaverIndex' = (interleaverIndex + 1) % Depth
  /\ cpc' = "free"
  /\ UNCHANGED <<running, queueVars, ppc, outputVars, streamVars>>

\* The slot is not given back.
FreeSlotForgotten ==
  /\ cpc = "free"
  /\ nextOut' = (nextOut + 1) % NrSlots
  /\ delivered' = delivered + 1
  /\ got' = [i \in 0 .. 0 |-> interleaveData[(interleaverIndex + 15) % Depth]]
  /\ cpc' = "output"
  /\ UNCHANGED <<running, freeSlots, usedSlots, theData, nextIn, ppc,
                 deinterVars, outputVars, accepted>>

\* The slot goes back to the writer.
FreeSlot ==
  /\ cpc = "free"
  /\ nextOut' = (nextOut + 1) % NrSlots
  /\ freeSlots' = freeSlots + 1
  /\ delivered' = delivered + 1
  /\ got' = [i \in 0 .. 0 |-> interleaveData[(interleaverIndex + 15) % Depth]]
  /\ cpc' = "output"
  /\ UNCHANGED <<running, usedSlots, theData, nextIn, ppc, deinterVars,
                 outputVars, accepted>>

\* Warm-up that ends one frame early.
OutputEarly ==
  /\ cpc = "output"
  /\ IF countforInterleaver < 15
     THEN /\ countforInterleaver' = countforInterleaver + 1
          /\ UNCHANGED <<outV, frames>>
     ELSE /\ outV' = tempX
          /\ frames' = frames + 1
          /\ UNCHANGED countforInterleaver
  /\ cpc' = "test"
  /\ UNCHANGED <<running, queueVars, ppc, deinterVars, streamVars>>

\* Only continue when the de-interleaver is filled: deconvolution, energy
\* dispersal and driver. addtoFrame.
Output ==
  /\ cpc = "output"
  /\ IF countforInterleaver <= 15
     THEN /\ countforInterleaver' = countforInterleaver + 1
          /\ UNCHANGED <<outV, frames>>
     ELSE /\ outV' = tempX
          /\ frames' = frames + 1
          /\ UNCHANGED countforInterleaver
  /\ cpc' = "test"
  /\ UNCHANGED <<running, queueVars, ppc, deinterVars, streamVars>>

(***************************************************************************)
(* mscHandler::reset and the destructor: stopRunning, under locker; it     *)
(* then waits for the thread to end.                                       *)
(***************************************************************************)
stopRunning ==
  /\ running /\ ppc = "idle"
  /\ running' = FALSE
  /\ UNCHANGED <<queueVars, ppc, cpc, deinterVars, outputVars, streamVars>>

process        == AcquireFree \/ StoreFragment \/ ReleaseUsed
processSegment == Deinterleave \/ FreeSlot \/ Output
run            == TestRunning \/ AcquireUsed \/ GiveUp \/ processSegment

Next == StartProcess \/ process \/ run \/ stopRunning

Spec == Init /\ [][Next]_vars
\* Both threads are scheduled; the driver's addtoFrame returns.
FairSpec == Spec /\ WF_vars(process) /\ WF_vars(run)
----------------------------------------------------------------------------
TypeOK ==
  /\ running \in BOOLEAN
  /\ freeSlots \in 0 .. NrSlots /\ usedSlots \in 0 .. NrSlots
  /\ theData \in [Slots -> Int] /\ nextIn \in Slots /\ nextOut \in Slots
  /\ ppc \in {"idle", "acquire", "copy", "release"}
  /\ cpc \in {"test", "acquire", "segment", "free", "output", "done"}
  /\ interleaveData \in [Lanes -> Int] /\ interleaverIndex \in Lanes
  /\ tempX \in [Lanes -> Int] /\ outV \in [Lanes -> Int]
  /\ countforInterleaver \in 0 .. Depth /\ frames \in Nat
  /\ accepted \in Nat /\ delivered \in Nat

One(b) == IF b THEN 1 ELSE 0

\* Every slot is free, used, or in the hands of exactly one thread.
SlotCredits ==
  freeSlots + usedSlots + One(ppc \in {"copy", "release"})
    + One(cpc \in {"segment", "free"}) = NrSlots

\* The writer and the reader are never in the same slot at the same time.
NoOverlap == ppc = "copy" /\ cpc = "segment" => nextIn # nextOut

\* The interleaver of the standard: lane j of a logical frame is sent as many
\* CIFs later as the four bits of j read backwards say.
Delay(j) ==
  8 * (j % 2) + 4 * ((j \div 2) % 2) + 2 * ((j \div 4) % 2) + (j \div 8)

\* Every logical frame the driver gets is put together from exactly the CIFs
\* its bits were sent in, and the frames come in order from frame 0 on, with
\* none missing and none built from the zeros of the constructor.
Deinterleaved ==
  frames > 0 => \A j \in Lanes : outV[j] = frames - 1 + Delay(j)

\* What the two properties above rest on.  The queue: the slots from nextOut
\* on hold the fragments that are not delivered, oldest first, also the one
\* that is stored and not yet counted.
Queued == usedSlots + One(cpc \in {"segment", "free"})
QueueContents ==
  /\ accepted - delivered = Queued
  /\ nextIn = (nextOut + Queued) % NrSlots
  /\ \A i \in 0 .. Queued + One(ppc = "release") - 1 :
       theData[(nextOut + i) % NrSlots] = delivered + i

\* The interleaver: the row d places after interleaverIndex is that of d CIFs
\* after the oldest one; the frame in tempX is the one that CIF completes.
Interleaved == delivered + One(cpc = "free")
Rows ==
  /\ \A d \in Lanes :
       interleaveData[(interleaverIndex + d) % Depth] = Interleaved - Depth + d
  /\ cpc \in {"free", "output"} =>
       \A j \in Lanes : tempX[j] = Interleaved - 1 - Depth + interleaveMap[j]

\* The warm-up: nothing is passed on before 16 CIFs are in the interleaver.
Passed == delivered - One(cpc = "output")
WarmUp ==
  /\ IF Passed <= Depth THEN countforInterleaver = Passed /\ frames = 0
     ELSE countforInterleaver = Depth /\ frames = Passed - Depth
  /\ frames > 0 => \A j \in Lanes : outV[j] = frames - 1 + interleaveMap[j]

\* The inductive invariant.
IInv == TypeOK /\ SlotCredits /\ QueueContents /\ Rows /\ WarmUp

\* The queue is the bounded stream it promises to be.
Stream == INSTANCE BoundedStream WITH Capacity <- NrSlots
StreamSpec == Stream!Spec

\* process returns: the mscHandler thread, which holds locker, comes back to
\* its blocks and the GUI thread waiting for locker gets it.
ProcessReturns == ppc # "idle" ~> ppc = "idle"

\* stopRunning returns: the thread it waits for ends, whatever is queued.
StopReturns == ~running ~> cpc = "done"

\* Neither of the two waits for ever (backend.cpp:97, 155).
WaitsEnd == ProcessReturns /\ StopReturns
============================================================================

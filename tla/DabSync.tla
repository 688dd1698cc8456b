------------------------------ MODULE DabSync ------------------------------
(***************************************************************************)
(* How the dabProcessor thread finds and keeps the start of a DAB frame    *)
(* (dabProcessor::run with timeSyncer), through sampleReader and the       *)
(* buffer of the RTL-SDR handler, while the GUI thread starts, stops and   *)
(* resets it.                                                              *)
(*                                                                         *)
(* A sample of a channel with a DAB signal is its position in the frame:   *)
(* first the null period, then nrBlocks blocks of T_g samples of cyclic    *)
(* prefix and T_u samples of data.  Numbers are taken out of the signal    *)
(* exactly: a sample is low if it is in the null period, and the           *)
(* correlation finds the first data sample of block 0 if it is there.      *)
(***************************************************************************)
EXTENDS Integers, Sequences

CONSTANTS
  T_null, T_g, T_u, nrBlocks,   \* the frame, in samples
  Capacity,     \* samples the buffer of the device can hold
  Threshold,    \* getSample waits until there are more than this (2048)
  Chunk,        \* samples the callback of the device puts at a time
  WarmUp,       \* samples that are read to begin with (T_F / 5)
  Slack,        \* how much longer than T_null a dip may last (50)
  MaxLost,      \* bound: samples lost because the buffer is full
  MaxStops      \* bound: stops and resets by the GUI thread

T_s == T_g + T_u
T_F == T_null + nrBlocks * T_s

ASSUME FrameAssumption ==
  /\ T_null \in Nat \ {0} /\ T_g \in Nat \ {0} /\ T_u \in Nat
  /\ T_g < T_u /\ nrBlocks \in Nat \ {0, 1} /\ T_null <= 2 * T_s
ASSUME DeviceAssumption ==
  /\ Capacity \in Nat /\ Chunk \in Nat \ {0}
  /\ Threshold \in Nat /\ Threshold < Capacity
  /\ T_s <= Capacity /\ T_null <= Capacity
ASSUME CountsAssumption ==
  WarmUp \in Nat /\ Slack \in Nat /\ MaxLost \in Nat /\ MaxStops \in Nat

Positions == 0 .. T_F - 1
Flat      == T_F        \* what an empty channel gives
Zero      == T_F + 1    \* a sample that was never received
Received  == Positions \cup {Flat}
Samples   == Received \cup {Zero}
Start     == T_null + T_g          \* the first data sample of block 0
After(x, n) == (x + n) % T_F
Low(x)    == x < T_null \/ x = Zero

Channels == {"dab", "empty"}

VARIABLES
  driver, tuned, ring, air,    \* the device: whether it delivers, its channel,
                               \* its buffer, the next sample to come
  asked, scanMode, gui,        \* what the GUI thread asked for and waits for
  running, bufferContent, polling,   \* sampleReader; polling: getSample waits
  pc, counter, low, attempts, startFailures,
  ofdmBuffer, ofdmBufferIndex, ofdmSymbolCount,
  last, intact, tracking, gapped, reported,  \* history, see below
  lost, stops

\* last: the sample read last; intact: every sample since Start is there;
\* tracking: this frame follows one that was read to its end; gapped: a sample
\* has been missed, or read without being there, since the thread was started;
\* reported: No_Signal_Found was emitted since then.

deviceVars == <<driver, tuned, ring, air, lost>>
guiVars    == <<asked, scanMode, gui, stops>>
readerVars == <<running, bufferContent, polling>>
syncVars   == <<counter, low, attempts, startFailures>>
bufferVars == <<ofdmBuffer, ofdmBufferIndex, ofdmSymbolCount>>
history    == <<last, intact, tracking, gapped, reported>>
dataVars   == <<deviceVars, guiVars, readerVars, bufferVars, last, intact,
                tracking, gapped>>
vars == <<deviceVars, guiVars, readerVars, pc, syncVars, bufferVars, history>>

Index == 0 .. 2 * T_s - 1

Init ==
  /\ driver = FALSE /\ tuned = "empty" /\ ring = << >> /\ air = 0
  /\ asked = "empty" /\ scanMode = FALSE /\ gui = "idle"
  /\ running = FALSE /\ bufferContent = 0 /\ polling = FALSE
  /\ pc = "off" /\ counter = 0 /\ low = FALSE
  /\ attempts = 0 /\ startFailures = 0
  /\ ofdmBuffer = [i \in Index |-> Zero]
  /\ ofdmBufferIndex = 0 /\ ofdmSymbolCount = 0
  /\ last = Zero /\ intact = FALSE /\ tracking = FALSE
  /\ gapped = FALSE /\ reported = FALSE
  /\ lost = 0 /\ stops = 0

Lesser(a, b) == IF a < b THEN a ELSE b

(***************************************************************************)
(* The device.                                                             *)
(***************************************************************************)
\* RTLSDRCallBack: what does not fit is lost.
Receive ==
  LET n == Lesser(Chunk, Capacity - Len(ring)) IN
  /\ driver
  /\ lost + Chunk - n <= MaxLost
  /\ lost' = lost + Chunk - n
  /\ ring' = ring \o [i \in 1 .. n |-> IF tuned = "dab" THEN After(air, i - 1)
                                                         ELSE Flat]
  /\ air' = After(air, Chunk)
  /\ UNCHANGED <<driver, tuned, guiVars, readerVars, pc, syncVars, bufferVars,
                 history>>

(***************************************************************************)
(* The GUI thread.                                                         *)
(***************************************************************************)
start ==
  /\ gui = "idle" /\ pc = "off"
  /\ asked' \in Channels /\ scanMode' \in BOOLEAN
  /\ startFailures' = 0
  /\ pc' = "flush"
  /\ UNCHANGED <<deviceVars, gui, stops, readerVars, counter, low, attempts,
                 bufferVars, history>>

\* stop and reset begin with setRunning (false), and wait for the thread.
Stop ==
  /\ gui = "idle" /\ stops < MaxStops
  /\ stops' = stops + 1
  /\ running' = FALSE
  /\ gui' \in {"stop", "reset"}
  /\ UNCHANGED <<deviceVars, asked, scanMode, bufferContent, polling, pc,
                 syncVars, bufferVars, history>>

\* stopReader: the driver thread is stopped and deleted.
StopDone ==
  /\ gui = "stop" /\ pc = "off"
  /\ gui' = "idle" /\ driver' = FALSE
  /\ UNCHANGED <<tuned, ring, air, lost, asked, scanMode, stops, readerVars, pc,
                 syncVars, bufferVars, history>>

\* The thread is started again and the device has not been stopped.
ResetDone ==
  /\ gui = "reset" /\ pc = "off"
  /\ gui' = "idle" /\ pc' = "flush"
  /\ UNCHANGED <<deviceVars, asked, scanMode, stops, readerVars, syncVars,
                 bufferVars, history>>

guiThread == StopDone \/ ResetDone

(***************************************************************************)
(* dabProcessor::run up to its loop.                                       *)
(***************************************************************************)
\* resetBuffer.  The callback may be putting, and then stores its index after
\* the flush: what is before it in the buffer is there once more (RingBuffer
\* has the details; one sample stands for all of it).
resetBuffer ==
  /\ pc = "flush"
  /\ \/ ring' = << >>
     \/ driver /\ \E x \in Received :
          /\ x = Flat <=> tuned = "empty"
          /\ ring' = <<x>>
  /\ attempts' = 0
  /\ pc' = "restart"
  /\ UNCHANGED <<driver, tuned, air, lost, guiVars, readerVars, counter, low,
                 startFailures, bufferVars, history>>

\* restartReader: nothing if the driver thread is there.
restartReader ==
  /\ pc = "restart"
  /\ IF driver THEN UNCHANGED <<driver, tuned, ring, air>>
     ELSE /\ ring' = << >>
          /\ \/ UNCHANGED <<driver, tuned, air>>      \* rtlsdr_reset_buffer fails
             \/ /\ driver' = TRUE /\ tuned' = asked
                /\ air' \in IF asked = "dab" THEN Positions ELSE {0}
  /\ pc' = "run"
  /\ UNCHANGED <<lost, guiVars, readerVars, syncVars, bufferVars, history>>

\* setRunning (true)
setRunning ==
  /\ pc = "run"
  /\ running' = TRUE
  /\ counter' = 0
  /\ pc' = "warm"
  /\ last' = Zero /\ gapped' = FALSE /\ reported' = FALSE
  /\ intact' = FALSE /\ tracking' = FALSE
  /\ UNCHANGED <<deviceVars, guiVars, bufferContent, polling, low, attempts,
                 startFailures, bufferVars>>

(***************************************************************************)
(* sampleReader.  getSample is called where Sampling holds, getSamples at  *)
(* the places in BlockReads.                                               *)
(***************************************************************************)
SampleReads == {"warm", "level", "null", "endNull"}
Sampling == \/ pc = "warm" /\ counter < WarmUp
            \/ pc = "level"
            \/ pc = "null" /\ ~low
            \/ pc = "endNull" /\ low
BlockReads  == {"phase", "block0", "data", "skip"}

\* How many samples getSamples is asked for, and where they go.
Wanted == CASE pc = "phase"  -> T_u
            [] pc = "block0" -> T_u - ofdmBufferIndex
            [] pc = "data"   -> T_s
            [] OTHER         -> T_null
Place == IF pc = "block0" THEN ofdmBufferIndex ELSE 0

\* The wait of getSample, at first if bufferContent is used up, then until
\* there is enough; the wait of getSamples until there are n.
Poll ==
  /\ running
  /\ \/ Sampling /\ (polling \/ bufferContent = 0)
     \/ pc \in BlockReads /\ Wanted > bufferContent
  /\ bufferContent' = Len(ring)
  /\ polling' = (Sampling /\ Len(ring) <= Threshold)
  /\ UNCHANGED <<deviceVars, guiVars, running, pc, syncVars, bufferVars, history>>

\* An exception after which the loop looks for the next frame.
ThrowResync ==
  /\ ~running
  /\ Sampling \/ pc \in BlockReads
  /\ pc' = IF pc = "level" THEN "phase" ELSE "level"
  /\ polling' = FALSE
  /\ UNCHANGED <<deviceVars, guiVars, running, bufferContent, syncVars,
                 bufferVars, history>>

\* The exceptions 20 and 21 end the loop.  getSamples tests once more when the
\* samples have been taken, and then leaves bufferContent as it was.
Throw ==
  /\ ~running
  /\ \/ (Sampling \/ pc \in BlockReads) /\ UNCHANGED ring
     \/ /\ pc \in BlockReads /\ Wanted <= bufferContent
        /\ ring' = SubSeq(ring, Lesser(Wanted, Len(ring)) + 1, Len(ring))
  /\ pc' = "off" /\ polling' = FALSE
  /\ UNCHANGED <<driver, tuned, air, lost, guiVars, running, bufferContent,
                 syncVars, bufferVars, history>>

Follows(x, y, n) == x \in Positions /\ y = After(x, n)

\* getSample gives x, which is not there if the buffer is empty.
getSample(x) ==
  /\ running /\ ~polling /\ bufferContent > 0
  /\ bufferContent' = bufferContent - 1
  /\ \/ /\ ring # << >> /\ x = Head(ring) /\ ring' = Tail(ring)
        /\ gapped' = (gapped \/ ~(last = Zero \/ Follows(last, x, 1)))
     \/ /\ ring = << >> /\ x = Zero /\ UNCHANGED ring
        /\ gapped' = TRUE
  /\ last' = x
  /\ UNCHANGED <<driver, tuned, air, lost, guiVars, running, polling,
                 bufferVars, intact, tracking>>

\* getSamples fills the buffer as far as there are samples.
getSamples ==
  LET n == Lesser(Wanted, Len(ring)) IN
  /\ running /\ Wanted <= bufferContent
  /\ bufferContent' = bufferContent - n
  /\ ofdmBuffer' = [i \in Index |-> IF Place <= i /\ i < Place + n
                                    THEN ring[i - Place + 1] ELSE ofdmBuffer[i]]
  /\ ring' = SubSeq(ring, n + 1, Len(ring))
  /\ last' = IF n > 0 THEN ring[n] ELSE last
  /\ LET whole == n = Wanted /\ \A i \in 1 .. n : Follows(last, ring[i], i)
     IN intact' = (intact /\ whole) /\ gapped' = (gapped \/ ~whole)
  /\ UNCHANGED <<driver, tuned, air, lost, guiVars, running, polling>>

(***************************************************************************)
(* timeSyncer::sync, and what run makes of its result.                     *)
(***************************************************************************)
\* notSynced: a new attempt.
Resync == pc' = "level" /\ counter' = 0 /\ UNCHANGED low

\* The samples that are read to begin with.
ReadFirst ==
  /\ pc = "warm"
  /\ \/ /\ Sampling
        /\ \E x \in Samples : getSample(x)
        /\ counter' = counter + 1
        /\ UNCHANGED <<pc, low>>
     \/ ~Sampling /\ Resync /\ UNCHANGED dataVars
  /\ UNCHANGED <<attempts, startFailures, reported>>

\* The level to begin with: over 50 samples in the code, here of one.
ReadLevel ==
  /\ pc = "level"
  /\ \E x \in Samples : getSample(x) /\ low' = Low(x)
  /\ pc' = "null" /\ counter' = 0
  /\ UNCHANGED <<attempts, startFailures, reported>>

\* A count that goes on after the report.
NoDipKept ==
  /\ Resync
  /\ attempts' = IF scanMode THEN attempts + 1 ELSE attempts
  /\ reported' = (reported \/ attempts' >= 5)

\* NO_DIP_FOUND.  In scan mode the fifth time is reported, wherever the other
\* four were in this run.
NoDip ==
  /\ Resync
  /\ IF scanMode /\ attempts + 1 >= 5
     THEN attempts' = 0 /\ reported' = TRUE
     ELSE /\ attempts' = IF scanMode THEN attempts + 1 ELSE attempts
          /\ UNCHANGED reported

\* A dip whose end is not waited for.
SeekDipOnly ==
  /\ pc = "null"
  /\ \/ /\ low
        /\ pc' = "phase" /\ counter' = 0
        /\ UNCHANGED <<dataVars, low, attempts, reported>>
     \/ /\ ~low
        /\ \E x \in Samples :
             /\ getSample(x)
             /\ \/ counter >= T_F /\ NoDip
                \/ /\ counter < T_F
                   /\ low' = Low(x) /\ counter' = counter + 1
                   /\ UNCHANGED <<pc, attempts, reported>>
  /\ UNCHANGED startFailures

\* SyncOnNull: a dip, or none in a whole frame.
SeekDip ==
  /\ pc = "null"
  /\ \/ /\ low
        /\ pc' = "endNull" /\ counter' = 0
        /\ UNCHANGED <<dataVars, low, attempts, reported>>
     \/ /\ ~low
        /\ \E x \in Samples :
             /\ getSample(x)
             /\ \/ counter >= T_F /\ NoDip
                \/ /\ counter < T_F
                   /\ low' = Low(x) /\ counter' = counter + 1
                   /\ UNCHANGED <<pc, attempts, reported>>
  /\ UNCHANGED startFailures

\* A level that was never reached again.
SeekEndTooShort ==
  /\ pc = "endNull" /\ low
  /\ \E x \in Samples : getSample(x)
  /\ Resync
  /\ UNCHANGED <<attempts, startFailures, reported>>

\* SyncOnEndNull: its end, or NO_END_OF_DIP_FOUND, which is not counted.
SeekEnd ==
  /\ pc = "endNull"
  /\ \/ /\ ~low
        /\ pc' = "phase"
        /\ tracking' = FALSE
        /\ UNCHANGED <<deviceVars, guiVars, readerVars, bufferVars, last, intact,
                       gapped, low, counter>>
     \/ /\ low
        /\ \E x \in Samples :
             /\ getSample(x)
             /\ \/ counter >= T_null + Slack /\ Resync
                \/ /\ counter < T_null + Slack
                   /\ low' = Low(x) /\ counter' = counter + 1
                   /\ UNCHANGED pc
  /\ UNCHANGED <<attempts, startFailures, reported>>

(***************************************************************************)
(* A frame.                                                                *)
(***************************************************************************)
\* SyncOnPhase
ReadPhase ==
  /\ pc = "phase"
  /\ getSamples
  /\ pc' = "find"
  /\ UNCHANGED <<syncVars, ofdmBufferIndex, ofdmSymbolCount, tracking, reported>>

\* findIndex gives i: what is read on from there is one block 0, if all of it
\* is there.  The samples that belong to it are moved to the front.
MoveShort(i) ==
  /\ ofdmBuffer' = [j \in Index |-> IF j < T_u - i THEN ofdmBuffer[i + j]
                                                    ELSE ofdmBuffer[j]]
  /\ ofdmBufferIndex' = T_u - i - 1
MoveToFront(i) ==
  /\ ofdmBuffer' = [j \in Index |-> IF j < T_u - i THEN ofdmBuffer[i + j]
                                                    ELSE ofdmBuffer[j]]
  /\ ofdmBufferIndex' = T_u - i

PhaseFound ==
  /\ pc = "find"
  /\ \E i \in 0 .. T_u - 1 :
       /\ ofdmBuffer[i] = Start
       /\ MoveToFront(i)
       /\ intact' = (/\ \A j \in i .. T_u - 1 : ofdmBuffer[j] = After(Start, j - i)
                     /\ last = ofdmBuffer[T_u - 1])
  /\ startFailures' = 0
  /\ pc' = "block0"
  /\ UNCHANGED <<deviceVars, guiVars, readerVars, counter, low, attempts,
                 ofdmSymbolCount, last, tracking, gapped, reported>>

\* The fourth failure in a row is reported in scan mode; out of it the count
\* goes on, to no effect (it is held at 4 here).
PhaseNotFound ==
  /\ pc = "find"
  /\ \A i \in 0 .. T_u - 1 : ofdmBuffer[i] # Start
  /\ IF scanMode /\ startFailures + 1 > 3
     THEN startFailures' = 0 /\ reported' = TRUE
     ELSE startFailures' = Lesser(startFailures + 1, 4) /\ UNCHANGED reported
  /\ Resync
  /\ UNCHANGED <<dataVars, attempts>>

\* The rest of block 0.
ReadBlock0 ==
  /\ pc = "block0"
  /\ getSamples
  /\ pc' = "data" /\ ofdmSymbolCount' = 1
  /\ UNCHANGED <<syncVars, ofdmBufferIndex, tracking, reported>>

\* The other blocks; each is handed to my_ficHandler or my_mscHandler.
ReadData ==
  /\ pc = "data"
  /\ getSamples
  /\ ofdmSymbolCount' = ofdmSymbolCount + 1
  /\ pc' = IF ofdmSymbolCount' < nrBlocks THEN "data" ELSE "skip"
  /\ UNCHANGED <<syncVars, ofdmBufferIndex, tracking, reported>>

\* A frame that ends without its null period.
NoNullPeriod ==
  /\ pc = "skip"
  /\ pc' = "phase"
  /\ tracking' = intact
  /\ UNCHANGED <<deviceVars, guiVars, readerVars, syncVars, bufferVars, last,
                 intact, gapped, reported>>

\* NewOffset: the null period is read over.
ReadNull ==
  /\ pc = "skip"
  /\ getSamples
  /\ pc' = "phase"
  /\ tracking' = intact'
  /\ UNCHANGED <<syncVars, ofdmBufferIndex, ofdmSymbolCount, reported>>

reading == ReadFirst \/ ReadLevel \/ SeekDip \/ SeekEnd \/ ReadPhase
             \/ ReadBlock0 \/ ReadData \/ ReadNull
run == resetBuffer \/ restartReader \/ setRunning \/ Poll \/ Throw \/ reading
         \/ PhaseFound \/ PhaseNotFound

Next == Receive \/ start \/ Stop \/ guiThread \/ run

Spec == Init /\ [][Next]_vars
\* The device delivers as long as its driver thread runs, and the threads are
\* scheduled.
FairSpec == Spec /\ WF_vars(Receive) /\ WF_vars(guiThread) /\ WF_vars(run)
----------------------------------------------------------------------------
DeviceTyped ==
  /\ tuned \in Channels /\ air \in Positions /\ lost \in 0 .. MaxLost
  /\ ring \in Seq(Received) /\ Len(ring) <= Capacity
GuiTyped ==
  /\ asked \in Channels /\ stops \in 0 .. MaxStops
  /\ gui \in {"idle", "stop", "reset"}
SyncTyped ==
  /\ pc \in {"off", "flush", "restart", "run", "find"} \cup SampleReads \cup BlockReads
  /\ bufferContent \in Nat /\ counter \in Nat
  /\ attempts \in 0 .. 4 /\ startFailures \in 0 .. 4
BufferTyped ==
  /\ ofdmBuffer \in [Index -> Samples] /\ last \in Samples
  /\ ofdmBufferIndex \in 0 .. T_u /\ ofdmSymbolCount \in 0 .. nrBlocks
FlagsTyped ==
  /\ driver \in BOOLEAN /\ scanMode \in BOOLEAN
  /\ running \in BOOLEAN /\ polling \in BOOLEAN /\ low \in BOOLEAN
  /\ intact \in BOOLEAN /\ tracking \in BOOLEAN
  /\ gapped \in BOOLEAN /\ reported \in BOOLEAN

TypeOK == DeviceTyped /\ GuiTyped /\ SyncTyped /\ BufferTyped /\ FlagsTyped

Loop == SampleReads \cup BlockReads \cup {"find"}

\* A sample of the channel that was asked for, or none at all.
Own(x) == x = Zero \/ (x = Flat <=> asked = "empty")

\* A driver thread delivers the channel that was asked for.
DriverTuned == driver => tuned = asked
\* The buffer has nothing else, unless restartReader is still to empty it.
RingOwn == driver \/ pc \in Loop \cup {"run"} =>
             \A i \in 1 .. Len(ring) : Own(ring[i])
\* Between two starts there is no driver thread.
IdleOff == pc = "off" /\ gui = "idle" => ~driver
\* The loop only ends when the GUI thread waits for its end.
FlagKept == pc \in Loop /\ gui = "idle" => running
LastOwn == pc \in Loop => Own(last)
\* A block is read only if there is one left in the frame.
BlockLeft == pc = "data" => ofdmSymbolCount < nrBlocks

\* The types, and why nothing of another channel is read.
OwnInv == TypeOK /\ DriverTuned /\ RingOwn /\ IdleOff /\ FlagKept /\ LastOwn
            /\ BlockLeft

\* ofdmBuffer begins with the n samples of the frame from position p on.
Holds(p, n) == \A i \in 0 .. n - 1 : ofdmBuffer[i] = p + i
BlockFrom(k) == T_null + k * T_s

\* How far a frame has been read, if every sample since Start is there.
FrameWhole ==
  /\ pc = "block0" /\ intact =>
       /\ ofdmBufferIndex > 0 /\ Holds(Start, ofdmBufferIndex)
       /\ last = Start + ofdmBufferIndex - 1
  /\ pc = "data" => ofdmSymbolCount > 0
  /\ pc = "skip" => ofdmSymbolCount = nrBlocks
  /\ pc \in {"data", "skip"} /\ intact =>
       /\ last = BlockFrom(ofdmSymbolCount) - 1
       /\ IF ofdmSymbolCount = 1 THEN Holds(Start, T_u)
                                 ELSE Holds(BlockFrom(ofdmSymbolCount - 1), T_s)
  /\ pc = "phase" /\ tracking /\ intact => last = T_null - 1
  /\ pc = "find" /\ tracking /\ intact => Holds(T_null, T_u)

\* Where the thread is in the frame, if nothing was missed since its start:
\* before the dip, in it, or right behind it.  A report needs a gap: on a
\* channel without a signal no sample follows the one before.
NothingMissed ==
  /\ reported => gapped
  /\ gapped
     \/ /\ pc = "null" /\ ~low => \/ last \in T_null + counter .. T_F - 1
                                  \/ last = Flat /\ counter = 0
        /\ pc \in {"null", "endNull"} /\ low => last \in 0 .. T_null - 1
        /\ pc = "endNull" /\ ~low => last = T_null
        /\ pc = "phase" => last + 1 \in {T_null, T_null + 1}
        /\ pc = "find" => \E p \in {T_null, T_null + 1} :
                            Holds(p, T_u) /\ last = p + T_u - 1
        /\ pc \in {"block0", "data", "skip"} => intact

\* Inductive.
IInv == OwnInv /\ FrameWhole /\ NothingMissed

\* Every block that is handed on is the block of its number, whole and from
\* its first sample, if the device lost nothing since the start of block 0 was
\* found: the samples moved to the front and all reads since then add up.
BlocksAligned ==
  intact =>
    /\ pc = "data" /\ ofdmSymbolCount = 1 =>
         \A i \in 0 .. T_u - 1 : ofdmBuffer[i] = Start + i
    /\ pc \in {"data", "skip"} /\ ofdmSymbolCount > 1 =>
         \A i \in 0 .. T_s - 1 :
           ofdmBuffer[i] = T_null + (ofdmSymbolCount - 1) * T_s + i

\* A frame that was read whole leads to the next one: its block 0 is found T_g
\* samples on (dab-processor.cpp:277-279), with no need to look for the dip.
StaysLocked ==
  pc = "find" /\ tracking /\ intact => ofdmBuffer[T_g] = Start

\* In a scan, No_Signal_Found is not emitted for a channel with a signal of
\* which nothing was missed.
NoFalseAlarm ==
  reported /\ tuned = "dab" => gapped

\* All that is read is of the channel that was asked for: nothing in the
\* buffers or the device is left of the one before.
OnlyAsked ==
  pc \in {"null", "endNull", "find"} /\ last # Zero =>
    (last = Flat <=> asked = "empty")

\* The start of a frame is found on a channel that has one.
Locks ==
  pc = "level" /\ asked = "dab" ~> pc = "data" \/ ~running \/ ~driver

\* No_Signal_Found comes in a scan for a channel without a signal.
DeadReported ==
  pc = "level" /\ asked = "empty" /\ scanMode ~> reported \/ ~running \/ ~driver

\* A channel that is listened to is found or reported (dab-processor.cpp:141).
ScanAnswered == Locks /\ DeadReported

\* Wherever it is, the thread ends when the flag is cleared.
ThreadEnds ==
  pc \in SampleReads \cup BlockReads /\ ~running ~> pc = "off"
============================================================================

---------------------------- MODULE Mp4Processor ----------------------------
(***************************************************************************)
(* mp4Processor: five DAB frames make a superframe of DAB+.  Where it      *)
(* begins is told by the fire code of its first frame only.  The last five *)
(* frames are looked at, with every frame or, after a superframe was       *)
(* processed, five frames later.                                           *)
(*                                                                         *)
(* A frame is known by its superframe and its place in it; that it is      *)
(* "good", "noisy" (the Reed-Solomon code makes it good again) or "bad".   *)
(***************************************************************************)
EXTENDS Integers, Sequences

CONSTANTS
  Period,      \* superframes looked at between two reports: 20
  num_aus,     \* access units of a superframe: 2, 3, 4 or 6
  MaxAac       \* bound: access units of a superframe that are not decoded

\* Assumed of the constants by FrameProcessors.
PeriodAssumption == Period \in Nat \ {0}
UnitsAssumption  == num_aus \in {2, 3, 4, 6} /\ MaxAac \in 0 .. num_aus

VARIABLES
  sent,            \* superframe and place of the next frame
  frameBytes, blockFillIndex, blocksInBuffer,
  quality,         \* the counters, and what was reported last
  aacInitialized,
  fine,            \* history: the frames of this superframe since its first
                   \* one, that one good and none of them bad
  processed        \* history: the superframe that the last frame completed

superVars == <<sent, frameBytes, blockFillIndex, blocksInBuffer, quality,
               aacInitialized, fine, processed>>

None == -1
States == {"good", "noisy", "bad"}
NoFrame == [superframe |-> None, place |-> 0, state |-> "bad"]
Init ==
  /\ sent \in [superframe : {0}, place : 0 .. 4]
  /\ frameBytes = [i \in 0 .. 4 |-> NoFrame]
  /\ blockFillIndex = 0 /\ blocksInBuffer = 0
  /\ quality = [frameCount |-> 0, frameErrors |-> 0, rsErrors |-> 0,
                aacErrors |-> 0, shown |-> 100]
  /\ aacInitialized = FALSE /\ fine = 0 /\ processed = None

\* The fire code of what is taken for a first frame may come right by chance.
FireCodes(f) == IF f.place = 0 /\ f.state = "good" THEN {TRUE} ELSE BOOLEAN

\* processSuperframe, on the frames from base on: the rows of the superframe
\* are found out to be wrong unless they are those of one superframe.  Of one
\* that is bad they may be changed to others: then the bounds of the access
\* units contradict each other, or their CRCs fail.
FromBase(bytes, base) == [k \in 0 .. 4 |-> bytes[(base + k) % 5]]
Aligned(f)   == \A k \in 0 .. 4 : f[k] = [superframe |-> f[0].superframe,
                                          place |-> k, state |-> f[k].state]
Outcomes(f) ==
  IF ~Aligned(f) THEN {"rsError"}
  ELSE IF \E k \in 0 .. 4 : f[k].state = "bad"
  THEN {"rsError", "contradiction", "crcErrors"}
  ELSE {"processed"}

\* What the last five frames turn out to be: no superframe, or an outcome.
Findings(bytes, fill) ==
  LET f == FromBase(bytes, fill)
  IN (IF FALSE \in FireCodes(f[0]) THEN {"fireError"} ELSE {})
     \cup (IF TRUE \in FireCodes(f[0]) THEN Outcomes(f) ELSE {})
Returns(found) == found \in {"processed", "crcErrors"}

\* The report that is due before the check.
Reported(q) ==
  IF q.frameCount + 1 < Period THEN [q EXCEPT !.frameCount = @ + 1]
  ELSE [frameCount |-> 0, frameErrors |-> 0, rsErrors |-> 0, aacErrors |-> 0,
        shown |-> 100 - 5 * q.frameErrors - q.aacErrors - q.rsErrors]

\* The frames that are kept when there was no superframe in the last five.
Kept == 4

Check(bytes, fill) ==
  \E found \in Findings(bytes, fill), errors \in 0 .. MaxAac :
    /\ found # "processed" => errors = 0
    /\ blocksInBuffer' = IF Returns(found) THEN 0 ELSE Kept
    /\ quality' = [Reported(quality) EXCEPT
                     !.frameErrors = IF Returns(found) THEN @ ELSE @ + 1,
                     !.rsErrors = IF found = "rsError" THEN @ + 1 ELSE @,
                     !.aacErrors = @ + errors]
    /\ aacInitialized' = (aacInitialized \/ found = "processed")
    /\ processed' = IF found = "processed" THEN bytes[fill].superframe ELSE None

addtoFrame(state) ==
  LET bytes == [frameBytes EXCEPT ![blockFillIndex] =
                  [superframe |-> sent.superframe, place |-> sent.place,
                   state |-> state]]
      fill  == (blockFillIndex + 1) % 5
  IN /\ frameBytes' = bytes /\ blockFillIndex' = fill
     /\ IF blocksInBuffer + 1 >= 5 THEN Check(bytes, fill)
        ELSE /\ blocksInBuffer' = blocksInBuffer + 1
             /\ processed' = None
             /\ UNCHANGED <<quality, aacInitialized>>

Advance == sent' = [superframe |-> IF sent.place = 4 THEN 1 - sent.superframe
                                   ELSE sent.superframe,
                    place |-> (sent.place + 1) % 5]

Next ==
  \E state \in States :
    /\ addtoFrame(state)
    /\ Advance
    /\ fine' = IF sent.place = 0 THEN (IF state = "good" THEN 1 ELSE 0)
               ELSE IF fine > 0 /\ state # "bad" THEN fine + 1 ELSE 0
----------------------------------------------------------------------------
TypeOK ==
  /\ sent \in [superframe : 0 .. 1, place : 0 .. 4]
  /\ frameBytes \in [0 .. 4 -> [superframe : {None, 0, 1}, place : 0 .. 4,
                               state : States]]
  /\ blockFillIndex \in 0 .. 4 /\ blocksInBuffer \in 0 .. 4
  /\ quality \in [frameCount : 0 .. Period - 1, frameErrors : 0 .. Period,
                  rsErrors : Nat, aacErrors : Nat, shown : Int]
  /\ quality.rsErrors <= quality.frameErrors
  /\ quality.shown \in 100 - (6 + MaxAac) * Period .. 100
  /\ aacInitialized \in BOOLEAN /\ fine \in 0 .. 5
  /\ processed # None => aacInitialized

\* Between two reports a check finds at most one frame to be wrong.
Counted ==
  /\ quality.frameErrors <= quality.frameCount + 1
  /\ quality.aacErrors <= MaxAac * (quality.frameCount + 1)

\* The superframe that is under way, or was completed by the last frame.
Current == IF sent.place = 0 THEN 1 - sent.superframe ELSE sent.superframe

\* As long as a superframe is fine, its frames are the last ones in frameBytes,
\* and the next look at five frames comes with its last one at the latest: a
\* superframe is only ever processed with a frame that is the last of one.
InStep ==
  /\ fine \in {0, IF sent.place = 0 THEN 5 ELSE sent.place}
  /\ fine \in 1 .. 4 => blocksInBuffer >= fine
  /\ \A j \in 0 .. fine - 1 :
       LET f == frameBytes[(blockFillIndex + 5 - fine + j) % 5]
       IN /\ f.superframe = Current /\ f.place = j
          /\ f.state \in IF j = 0 THEN {"good"} ELSE {"good", "noisy"}

\* A superframe that came in right, or with errors that can be corrected, is
\* processed with its last frame: whatever came before it, however often the
\* fire code was right by chance, it is never out of step
\* (mp4processor.cpp:118-134).
NoneSkipped == fine = 5 => processed = Current

IInv == TypeOK /\ Counted /\ InStep /\ NoneSkipped
=============================================================================

---------------------------- MODULE ServiceProofs ----------------------------
(***************************************************************************)
(* Proofs about what becomes of the bits of a service.                     *)
(*                                                                         *)
(* FrameProcessors, for every carousel of data groups, every sequence of   *)
(* programme associated data and every bound of damage: MPEG frames stay   *)
(* aligned, superframes are not skipped, and the objects and slides that   *)
(* are handed on are whole.  Each processor has an inductive invariant of  *)
(* its own; as only one of them is there, theirs together are inductive.   *)
(*                                                                         *)
(* Backend, for every number of slots and every number of CIFs: the queue  *)
(* implements BoundedStream, and every logical frame is put together from  *)
(* the right CIFs.                                                         *)
(***************************************************************************)
EXTENDS Backend, FrameProcessors, ProofLemmas, FiniteSetTheorems, SequenceTheorems,
        TLAPS

(***************************************************************************)
(* Superframes.                                                            *)
(***************************************************************************)
LEMMA Mp4Begins == Mp4!Init => Mp4!IInv
<1>. SUFFICES ASSUME Mp4!Init PROVE Mp4!IInv
  OBVIOUS
<1>. USE Mp4Assumption DEF Mp4!Init, Mp4!PeriodAssumption, Mp4!UnitsAssumption
<1>0. Period \in Nat \ {0} /\ MaxAac \in Nat
  OBVIOUS
<1>1. Mp4!TypeOK
  <2>1. 100 - (6 + MaxAac) * Period <= 100
    <3>1. (6 + MaxAac) * Period \in Nat
      BY <1>0
    <3>. QED BY <3>1
  <2>2. 100 \in 100 - (6 + MaxAac) * Period .. 100
    <3>1. (6 + MaxAac) * Period \in Nat
      BY <1>0
    <3>. QED BY <2>1, <3>1
  <2>3. frameBytes \in [0 .. 4 -> [superframe : {Mp4!None, 0, 1}, place : 0 .. 4,
                                  state : Mp4!States]]
    BY DEF Mp4!NoFrame, Mp4!States
  <2>4. quality \in [frameCount : 0 .. Period - 1, frameErrors : 0 .. Period,
                     rsErrors : Nat, aacErrors : Nat, shown : Int]
    BY <1>0
  <2>5. sent \in [superframe : 0 .. 1, place : 0 .. 4]
    OBVIOUS
  <2>6. /\ blockFillIndex \in 0 .. 4 /\ blocksInBuffer \in 0 .. 4
        /\ quality.rsErrors <= quality.frameErrors
        /\ fine \in 0 .. 5 /\ quality.shown = 100
    OBVIOUS
  <2>7. aacInitialized \in BOOLEAN /\ processed = Mp4!None
    OBVIOUS
  <2>. QED BY <2>2, <2>3, <2>4, <2>5, <2>6, <2>7 DEF Mp4!TypeOK
<1>2. Mp4!Counted
  BY <1>0 DEF Mp4!Counted
<1>3. Mp4!InStep /\ Mp4!NoneSkipped
  BY DEF Mp4!InStep, Mp4!NoneSkipped
<1>. QED BY <1>1, <1>2, <1>3 DEF Mp4!IInv

\* A frame: the last five, and where the next one goes.
LEMMA FrameStored ==
  ASSUME Mp4!IInv, NEW state \in Mp4!States, Mp4!addtoFrame(state), Mp4!Advance
  PROVE  /\ frameBytes' = [frameBytes EXCEPT ![blockFillIndex] =
                             [superframe |-> sent.superframe, place |-> sent.place,
                              state |-> state]]
         /\ blockFillIndex' = (blockFillIndex + 1) % 5
         /\ sent' \in [superframe : 0 .. 1, place : 0 .. 4]
         /\ Mp4!Current' = sent.superframe
         /\ sent'.place = IF sent.place = 4 THEN 0 ELSE sent.place + 1
<1>1. sent \in [superframe : 0 .. 1, place : 0 .. 4]
  BY DEF Mp4!IInv, Mp4!TypeOK
<1>2. sent' = [superframe |-> IF sent.place = 4 THEN 1 - sent.superframe
                              ELSE sent.superframe,
               place |-> (sent.place + 1) % 5]
  BY DEF Mp4!Advance
<1>. QED BY <1>1, <1>2 DEF Mp4!addtoFrame, Mp4!Current
\* Five frames later or sooner.
LEMMA Places ==
  ASSUME NEW a \in 0 .. 4, NEW n \in 1 .. 5, NEW j \in 0 .. n - 1
  PROVE  LET b == (a + 1) % 5
             k == (b + 5 - n + j) % 5
         IN /\ b \in 0 .. 4 /\ k \in 0 .. 4
            /\ j = n - 1 => k = a
            /\ j < n - 1 => k # a /\ k = (a + 5 - (n - 1) + j) % 5
            /\ n = 5 => k = (b + j) % 5
OBVIOUS

\* The frames of a superframe that is fine are the last ones.
LEMMA FrameInStep ==
  ASSUME Mp4!IInv, NEW state \in Mp4!States, Mp4!addtoFrame(state), Mp4!Advance,
         fine' = IF sent.place = 0 THEN (IF state = "good" THEN 1 ELSE 0)
                 ELSE IF fine > 0 /\ state # "bad" THEN fine + 1 ELSE 0,
         fine' # 0
  PROVE  /\ fine' = sent.place + 1
         /\ \A j \in 0 .. fine' - 1 :
              LET f == frameBytes'[(blockFillIndex' + 5 - fine' + j) % 5]
              IN /\ f.superframe = sent.superframe /\ f.place = j
                 /\ f.state \in IF j = 0 THEN {"good"} ELSE {"good", "noisy"}
<1>1. /\ sent \in [superframe : 0 .. 1, place : 0 .. 4]
      /\ frameBytes \in [0 .. 4 -> [superframe : {Mp4!None, 0, 1}, place : 0 .. 4,
                                   state : Mp4!States]]
      /\ blockFillIndex \in 0 .. 4 /\ fine \in 0 .. 5
  BY DEF Mp4!IInv, Mp4!TypeOK
<1>2. fine' = sent.place + 1 /\ (sent.place # 0 => fine = sent.place)
  BY <1>1 DEF Mp4!IInv, Mp4!InStep
<1>3. ASSUME NEW j \in 0 .. fine' - 1
      PROVE  LET f == frameBytes'[(blockFillIndex' + 5 - fine' + j) % 5]
             IN /\ f.superframe = sent.superframe /\ f.place = j
                /\ f.state \in IF j = 0 THEN {"good"} ELSE {"good", "noisy"}
  <2>. DEFINE k == (blockFillIndex' + 5 - fine' + j) % 5
  <2>1. /\ k \in 0 .. 4
        /\ j = fine' - 1 => k = blockFillIndex
        /\ j < fine' - 1 => /\ k # blockFillIndex
                            /\ k = (blockFillIndex + 5 - (fine' - 1) + j) % 5
    <3>. DEFINE a == blockFillIndex
                n == fine'
    <3>1. a \in 0 .. 4 /\ n \in 1 .. 5 /\ j \in 0 .. n - 1 /\ a' = (a + 1) % 5
      BY <1>1, <1>2, FrameStored
    <3>. HIDE DEF n
    <3>2. LET k1 == (((a + 1) % 5) + 5 - n + j) % 5
          IN /\ k1 \in 0 .. 4
             /\ j = n - 1 => k1 = a
             /\ j < n - 1 => k1 # a /\ k1 = (a + 5 - (n - 1) + j) % 5
      BY <3>1, Places
    <3>. QED BY <3>1, <3>2 DEF n
  <2>. HIDE DEF k
  <2>2. ASSUME j = fine' - 1
        PROVE  /\ frameBytes'[k].superframe = sent.superframe
               /\ frameBytes'[k].place = j
               /\ frameBytes'[k].state \in IF j = 0 THEN {"good"} ELSE {"good", "noisy"}
    <3>1. frameBytes'[k] = [superframe |-> sent.superframe, place |-> sent.place,
                            state |-> state]
      BY <1>1, <2>1, <2>2, FrameStored
    <3>2. state \in IF j = 0 THEN {"good"} ELSE {"good", "noisy"}
      BY <1>1, <1>2, <2>2 DEF Mp4!States
    <3>. QED BY <1>1, <1>2, <2>2, <3>1, <3>2
  <2>3. ASSUME j < fine' - 1
        PROVE  /\ frameBytes'[k].superframe = sent.superframe
               /\ frameBytes'[k].place = j
               /\ frameBytes'[k].state \in IF j = 0 THEN {"good"} ELSE {"good", "noisy"}
    <3>1. j \in 0 .. fine - 1 /\ sent.place # 0 /\ fine = fine' - 1
      BY <1>1, <1>2, <2>3
    <3>2. frameBytes'[k] = frameBytes[(blockFillIndex + 5 - fine + j) % 5]
      <4>1. k # blockFillIndex /\ k \in 0 .. 4
            /\ k = (blockFillIndex + 5 - fine + j) % 5
        BY <2>1, <2>3, <3>1
      <4>2. frameBytes'[k] = frameBytes[k]
        BY <1>1, <4>1, FrameStored
      <4>. QED BY <4>1, <4>2
    <3>3. Mp4!Current = sent.superframe
      BY <3>1 DEF Mp4!Current
    <3>4. LET g == frameBytes[(blockFillIndex + 5 - fine + j) % 5]
          IN /\ g.superframe = Mp4!Current /\ g.place = j
             /\ g.state \in IF j = 0 THEN {"good"} ELSE {"good", "noisy"}
      BY <3>1, Zenon DEF Mp4!IInv, Mp4!InStep
    <3>. QED BY <3>2, <3>3, <3>4
  <2>4. j = fine' - 1 \/ j < fine' - 1
    BY <1>1, <1>2
  <2>. QED BY <2>2, <2>3, <2>4, Zenon DEF k
<1>. QED BY <1>2, <1>3

\* What is looked at are frames of one superframe only when it is complete.
LEMMA Superframe ==
  ASSUME Mp4!IInv, NEW state \in Mp4!States, Mp4!addtoFrame(state), Mp4!Advance
  PROVE  Mp4!Aligned(Mp4!FromBase(frameBytes', blockFillIndex')) => sent.place = 4
<1>1. /\ sent \in [superframe : 0 .. 1, place : 0 .. 4]
      /\ frameBytes \in [0 .. 4 -> [superframe : {Mp4!None, 0, 1}, place : 0 .. 4,
                                   state : Mp4!States]]
      /\ blockFillIndex \in 0 .. 4
  BY DEF Mp4!IInv, Mp4!TypeOK
<1>. DEFINE f == Mp4!FromBase(frameBytes', blockFillIndex')
<1>2. f[4] = frameBytes'[blockFillIndex]
  BY <1>1, FrameStored DEF Mp4!FromBase
<1>3. frameBytes'[blockFillIndex].place = sent.place
  BY <1>1, FrameStored
<1>4. Mp4!Aligned(f) => f[4].place = 4
  <2>. HIDE DEF f
  <2>. QED BY DEF Mp4!Aligned
<1>. QED BY <1>2, <1>3, <1>4
\* The counters: q before a check that finds so much wrong.
After(q, wrong, rs, errors) ==
  [Mp4!Reported(q) EXCEPT !.frameErrors = @ + wrong, !.rsErrors = @ + rs,
                          !.aacErrors = @ + errors]
Qualities ==
  [frameCount : 0 .. Period - 1, frameErrors : 0 .. Period, rsErrors : Nat,
   aacErrors : Nat, shown : Int]
Consistent(q) ==
  /\ q \in Qualities /\ q.rsErrors <= q.frameErrors
  /\ q.shown \in 100 - (6 + MaxAac) * Period .. 100
  /\ q.frameErrors <= q.frameCount + 1
  /\ q.aacErrors <= MaxAac * (q.frameCount + 1)

\* What one more look at five frames leaves of the counters.
LEMMA AfterIs ==
  ASSUME NEW q, NEW c, NEW e, NEW r, NEW a, NEW n, NEW wrong, NEW rs, NEW errors,
         Mp4!Reported(q) = [frameCount |-> c, frameErrors |-> e, rsErrors |-> r,
                            aacErrors |-> a, shown |-> n],
         NEW e1, NEW r1, NEW a1, e1 = e + wrong, r1 = r + rs, a1 = a + errors
  PROVE  After(q, wrong, rs, errors) =
           [frameCount |-> c, frameErrors |-> e1, rsErrors |-> r1, aacErrors |-> a1,
            shown |-> n]
<1>0. PICK v : v = [frameCount |-> c, frameErrors |-> e, rsErrors |-> r,
                    aacErrors |-> a, shown |-> n]
  OBVIOUS
<1>1. PICK x : x = [v EXCEPT !.frameErrors = @ + wrong]
  OBVIOUS
<1>2. PICK y : y = [x EXCEPT !.rsErrors = @ + rs]
  OBVIOUS
<1>3. PICK z : z = [y EXCEPT !.aacErrors = @ + errors]
  OBVIOUS
<1>4. x = [frameCount |-> c, frameErrors |-> e1, rsErrors |-> r,
           aacErrors |-> a, shown |-> n]
  BY <1>0, <1>1
<1>5. y = [frameCount |-> c, frameErrors |-> e1, rsErrors |-> r1,
           aacErrors |-> a, shown |-> n]
  BY <1>2, <1>4
<1>6. z = [frameCount |-> c, frameErrors |-> e1, rsErrors |-> r1,
           aacErrors |-> a1, shown |-> n]
  BY <1>3, <1>5
<1>7. z = [v EXCEPT !.frameErrors = @ + wrong, !.rsErrors = @ + rs,
                    !.aacErrors = @ + errors]
  BY <1>1, <1>2, <1>3
<1>. QED BY <1>0, <1>6, <1>7 DEF After

\* The counters stay consistent, whatever one more look finds.
LEMMA Report ==
  ASSUME NEW q, Consistent(q), NEW wrong \in 0 .. 1, NEW rs \in 0 .. wrong,
         NEW errors \in 0 .. MaxAac
  PROVE  Consistent(After(q, wrong, rs, errors))
<1>1. Period \in Nat \ {0} /\ MaxAac \in Nat
  BY Mp4Assumption DEF Mp4!PeriodAssumption, Mp4!UnitsAssumption
<1>2. PICK c \in 0 .. Period - 1, e \in 0 .. Period, r \in Nat, a \in Nat, n \in Int :
        q = [frameCount |-> c, frameErrors |-> e, rsErrors |-> r, aacErrors |-> a,
             shown |-> n]
  BY DEF Consistent, Qualities
<1>3. /\ r <= e /\ n \in 100 - (6 + MaxAac) * Period .. 100
      /\ e <= c + 1 /\ a <= MaxAac * (c + 1)
  BY <1>2 DEF Consistent
<1>4. MaxAac * (c + 2) = MaxAac * (c + 1) + MaxAac /\ MaxAac * (c + 1) \in Nat
  BY <1>1
<1>5. CASE c + 1 < Period
  <2>1. After(q, wrong, rs, errors) =
          [frameCount |-> c + 1, frameErrors |-> e + wrong, rsErrors |-> r + rs,
           aacErrors |-> a + errors, shown |-> n]
    <3>1. Mp4!Reported(q) = [frameCount |-> c + 1, frameErrors |-> e, rsErrors |-> r,
                             aacErrors |-> a, shown |-> n]
      BY <1>2, <1>5 DEF Mp4!Reported
    <3>. QED BY <3>1, AfterIs
  <2>2. /\ c + 1 \in 0 .. Period - 1 /\ e + wrong \in 0 .. Period
        /\ r + rs \in Nat /\ a + errors \in Nat /\ r + rs <= e + wrong
        /\ e + wrong <= (c + 1) + 1
    BY <1>1, <1>3, <1>5
  <2>3. a + errors <= MaxAac * ((c + 1) + 1)
    <3>1. MaxAac * ((c + 1) + 1) = MaxAac * (c + 2)
      OBVIOUS
    <3>. QED BY <1>1, <1>3, <1>4, <3>1
  <2>. QED BY <1>3, <2>1, <2>2, <2>3 DEF Consistent, Qualities
<1>6. CASE c + 1 = Period
  <2>. DEFINE m == 100 - 5 * e - a - r
  <2>1. After(q, wrong, rs, errors) =
          [frameCount |-> 0, frameErrors |-> 0 + wrong, rsErrors |-> 0 + rs,
           aacErrors |-> 0 + errors, shown |-> m]
    <3>1. Mp4!Reported(q) = [frameCount |-> 0, frameErrors |-> 0, rsErrors |-> 0,
                             aacErrors |-> 0, shown |-> m]
      BY <1>1, <1>2, <1>6 DEF Mp4!Reported
    <3>. HIDE DEF m
    <3>. QED BY <3>1, AfterIs
  <2>2. m \in 100 - (6 + MaxAac) * Period .. 100
    <3>. DEFINE x == MaxAac * Period
                y == (6 + MaxAac) * Period
    <3>1. a <= x /\ y = 6 * Period + x /\ x \in Nat
      BY <1>1, <1>3, <1>6
    <3>. HIDE DEF x, y
    <3>2. m \in 100 - y .. 100
      BY <1>1, <1>3, <3>1
    <3>. QED BY <3>2 DEF y
  <2>3. MaxAac * (0 + 1) = MaxAac
    BY <1>1
  <2>4. m \in Int
    BY <1>2
  <2>. HIDE DEF m
  <2>. QED BY <1>1, <2>1, <2>2, <2>3, <2>4 DEF Consistent, Qualities
<1>. QED BY <1>1, <1>2, <1>5, <1>6


\* A place in the ring of five frames.
LEMMA Fifth ==
  ASSUME NEW b \in 0 .. 4, NEW j \in 0 .. 4
  PROVE  (b + j) % 5 \in 0 .. 4 /\ (b + 0) % 5 = b
OBVIOUS

\* A check: the counters, and the frames that are kept.
LEMMA Checked ==
  ASSUME NEW q, Consistent(q), NEW q1, NEW found, NEW errors \in 0 .. MaxAac,
         q1 = [Mp4!Reported(q) EXCEPT
                 !.frameErrors = IF Mp4!Returns(found) THEN @ ELSE @ + 1,
                 !.rsErrors = IF found = "rsError" THEN @ + 1 ELSE @,
                 !.aacErrors = @ + errors]
  PROVE  Consistent(q1)
<1>. DEFINE wrong == IF Mp4!Returns(found) THEN 0 ELSE 1
            rs == IF found = "rsError" THEN 1 ELSE 0
<1>1. wrong \in 0 .. 1 /\ rs \in 0 .. wrong
  BY DEF Mp4!Returns
<1>2. PICK v : v = Mp4!Reported(q)
  OBVIOUS
<1>3. v.frameErrors \in Int /\ v.rsErrors \in Int
  BY <1>2 DEF Consistent, Qualities, Mp4!Reported
<1>4. PICK x : x = [v EXCEPT !.frameErrors = @ + wrong]
  OBVIOUS
<1>5. PICK y : y = [x EXCEPT !.rsErrors = @ + rs]
  OBVIOUS
<1>6. PICK z : z = [y EXCEPT !.aacErrors = @ + errors]
  OBVIOUS
<1>7. z = After(q, wrong, rs, errors)
  <2>. HIDE DEF wrong, rs
  <2>. QED BY <1>2, <1>4, <1>5, <1>6 DEF After
<1>8. x = [v EXCEPT !.frameErrors = IF Mp4!Returns(found) THEN @ ELSE @ + 1]
  BY <1>3, <1>4
<1>9. y = [x EXCEPT !.rsErrors = IF found = "rsError" THEN @ + 1 ELSE @]
  <2>1. x.rsErrors = v.rsErrors
    BY <1>8
  <2>. QED BY <1>3, <1>5, <2>1
<1>10. q1 = z
  BY <1>2, <1>6, <1>8, <1>9
<1>11. Consistent(After(q, wrong, rs, errors))
  <2>. HIDE DEF wrong, rs
  <2>. QED BY <1>1, Report
<1>. QED BY <1>7, <1>10, <1>11

\* The invariant of the mp4Processor is inductive.
LEMMA Mp4Step ==
  ASSUME Mp4!IInv, Mp4!Next
  PROVE  Mp4!IInv'
<1>1. PICK state \in Mp4!States :
        /\ Mp4!addtoFrame(state) /\ Mp4!Advance
        /\ fine' = IF sent.place = 0 THEN (IF state = "good" THEN 1 ELSE 0)
                   ELSE IF fine > 0 /\ state # "bad" THEN fine + 1 ELSE 0
  BY DEF Mp4!Next
<1>. DEFINE f == Mp4!FromBase(frameBytes', blockFillIndex')
<1>2. /\ sent \in [superframe : 0 .. 1, place : 0 .. 4]
      /\ frameBytes \in [0 .. 4 -> [superframe : {Mp4!None, 0, 1}, place : 0 .. 4,
                                   state : Mp4!States]]
      /\ blockFillIndex \in 0 .. 4 /\ fine \in 0 .. 5 /\ blocksInBuffer \in 0 .. 4
      /\ aacInitialized \in BOOLEAN
  BY DEF Mp4!IInv, Mp4!TypeOK
<1>3. \/ /\ blocksInBuffer < 4 /\ blocksInBuffer' = blocksInBuffer + 1
         /\ processed' = Mp4!None /\ quality' = quality
         /\ aacInitialized' = aacInitialized
      \/ /\ blocksInBuffer = 4 /\ Mp4!Check(frameBytes', blockFillIndex')
  <2>1. /\ frameBytes' = [frameBytes EXCEPT ![blockFillIndex] =
                            [superframe |-> sent.superframe, place |-> sent.place,
                             state |-> state]]
        /\ blockFillIndex' = (blockFillIndex + 1) % 5
    BY <1>1, FrameStored DEF Mp4!IInv
  <2>2. CASE blocksInBuffer + 1 >= 5
    BY <1>1, <1>2, <2>1, <2>2 DEF Mp4!addtoFrame
  <2>3. CASE ~(blocksInBuffer + 1 >= 5)
    BY <1>1, <1>2, <2>3 DEF Mp4!addtoFrame
  <2>. QED BY <2>2, <2>3
<1>4. /\ sent' \in [superframe : 0 .. 1, place : 0 .. 4]
      /\ Mp4!Current' = sent.superframe
      /\ sent'.place = IF sent.place = 4 THEN 0 ELSE sent.place + 1
      /\ frameBytes' = [frameBytes EXCEPT ![blockFillIndex] =
                          [superframe |-> sent.superframe, place |-> sent.place,
                           state |-> state]]
      /\ blockFillIndex' = (blockFillIndex + 1) % 5
  BY <1>1, FrameStored
<1>5. /\ frameBytes' \in [0 .. 4 -> [superframe : {Mp4!None, 0, 1}, place : 0 .. 4,
                                    state : Mp4!States]]
      /\ blockFillIndex' \in 0 .. 4
  <2>1. [superframe |-> sent.superframe, place |-> sent.place, state |-> state]
          \in [superframe : {Mp4!None, 0, 1}, place : 0 .. 4, state : Mp4!States]
    BY <1>2
  <2>. QED BY <1>2, <1>4, <2>1
<1>6. fine' # 0 =>
        /\ fine' = sent.place + 1
        /\ \A j \in 0 .. fine' - 1 :
             LET g == frameBytes'[(blockFillIndex' + 5 - fine' + j) % 5]
             IN /\ g.superframe = sent.superframe /\ g.place = j
                /\ g.state \in IF j = 0 THEN {"good"} ELSE {"good", "noisy"}
  BY <1>1, FrameInStep
<1>7. /\ Consistent(quality)' /\ aacInitialized' \in BOOLEAN
      /\ processed' # Mp4!None => aacInitialized'
      /\ blocksInBuffer' \in 0 .. 4
      /\ sent.place # 4 =>
           blocksInBuffer' = IF blocksInBuffer < 4 THEN blocksInBuffer + 1 ELSE 4
  <2>1. Consistent(quality)
    BY DEF Mp4!IInv, Mp4!TypeOK, Mp4!Counted, Consistent, Qualities
  <2>2. CASE /\ blocksInBuffer < 4 /\ blocksInBuffer' = blocksInBuffer + 1
             /\ processed' = Mp4!None /\ quality' = quality
             /\ aacInitialized' = aacInitialized
    <3>1. Consistent(quality')
      BY <2>1, <2>2
    <3>. QED BY <1>2, <2>2, <3>1 DEF Consistent, Qualities
  <2>3. CASE blocksInBuffer = 4 /\ Mp4!Check(frameBytes', blockFillIndex')
    <3>1. PICK found \in Mp4!Findings(frameBytes', blockFillIndex'),
               errors \in 0 .. MaxAac :
            /\ blocksInBuffer' = IF Mp4!Returns(found) THEN 0 ELSE 4
            /\ quality' =
                 [Mp4!Reported(quality) EXCEPT
                    !.frameErrors = IF Mp4!Returns(found) THEN @ ELSE @ + 1,
                    !.rsErrors = IF found = "rsError" THEN @ + 1 ELSE @,
                    !.aacErrors = @ + errors]
            /\ aacInitialized' = (aacInitialized \/ found = "processed")
            /\ processed' = IF found = "processed"
                            THEN frameBytes'[blockFillIndex'].superframe
                            ELSE Mp4!None
      BY <2>3 DEF Mp4!Check, Mp4!Kept
    <3>2. Consistent(quality')
      BY <2>1, <3>1, Checked
    <3>3. Mp4!Returns(found) => Mp4!Aligned(f)
      <4>. HIDE DEF f
      <4>1. found \in (IF FALSE \in Mp4!FireCodes(f[0]) THEN {"fireError"} ELSE {})
                      \cup (IF TRUE \in Mp4!FireCodes(f[0]) THEN Mp4!Outcomes(f)
                            ELSE {})
        BY <3>1 DEF Mp4!Findings, f
      <4>. QED BY <4>1 DEF Mp4!Returns, Mp4!Outcomes
    <3>4. Mp4!Returns(found) => sent.place = 4
      BY <1>1, <3>3, Superframe
    <3>5. Consistent(quality)'
      BY <3>2 DEF Consistent, Qualities
    <3>6. aacInitialized' \in BOOLEAN /\ (processed' # Mp4!None => aacInitialized')
      BY <1>2, <3>1
    <3>7. blocksInBuffer' \in {0, 4}
      BY <3>1
    <3>8. sent.place # 4 => blocksInBuffer' = 4
      BY <3>1, <3>4
    <3>9. blocksInBuffer' \in 0 .. 4
      BY <3>7
    <3>10. ~(blocksInBuffer < 4)
      BY <2>3
    <3>. QED BY <3>5, <3>6, <3>8, <3>9, <3>10
  <2>. QED BY <1>3, <2>2, <2>3
<1>8. Mp4!TypeOK'
  BY <1>2, <1>4, <1>5, <1>6, <1>7 DEF Mp4!TypeOK, Consistent, Qualities
<1>9. Mp4!Counted'
  BY <1>7 DEF Mp4!Counted, Consistent
<1>10. fine' \in 1 .. 4 => blocksInBuffer' >= fine'
  <2>1. SUFFICES ASSUME fine' \in 1 .. 4 PROVE blocksInBuffer' >= fine'
    OBVIOUS
  <2>2. sent.place \in 0 .. 3 /\ fine' = sent.place + 1
    BY <1>2, <1>6, <2>1
  <2>3. CASE sent.place = 0
    BY <1>2, <1>7, <2>2, <2>3
  <2>4. CASE sent.place # 0
    <3>1. fine = sent.place
      BY <1>1, <1>2, <2>2, <2>4 DEF Mp4!IInv, Mp4!InStep
    <3>2. blocksInBuffer >= fine
      BY <1>2, <2>2, <2>4, <3>1 DEF Mp4!IInv, Mp4!InStep
    <3>. QED BY <1>2, <1>7, <2>2, <3>1, <3>2
  <2>. QED BY <2>3, <2>4
<1>11. Mp4!InStep'
  BY <1>2, <1>4, <1>6, <1>10 DEF Mp4!InStep
<1>12. Mp4!NoneSkipped'
  <2>1. SUFFICES ASSUME fine' = 5 PROVE processed' = sent.superframe
    BY <1>4 DEF Mp4!NoneSkipped
  <2>2. sent.place = 4 /\ fine = 4 /\ blocksInBuffer = 4
    <3>1. sent.place = 4
      BY <1>2, <1>6, <2>1
    <3>2. fine = 4
      BY <1>1, <1>2, <2>1, <3>1
    <3>. QED BY <1>2, <3>1, <3>2 DEF Mp4!IInv, Mp4!InStep
  <2>3. Mp4!Check(frameBytes', blockFillIndex')
    BY <1>3, <2>2
  <2>4. \A j \in 0 .. 4 :
          /\ f[j].superframe = sent.superframe /\ f[j].place = j
          /\ f[j].state \in IF j = 0 THEN {"good"} ELSE {"good", "noisy"}
    <3>1. SUFFICES ASSUME NEW j \in 0 .. 4
                   PROVE  /\ f[j].superframe = sent.superframe /\ f[j].place = j
                          /\ f[j].state \in IF j = 0 THEN {"good"}
                                            ELSE {"good", "noisy"}
      OBVIOUS
    <3>2. f[j] = frameBytes'[(blockFillIndex' + j) % 5]
      BY DEF Mp4!FromBase
    <3>3. (blockFillIndex' + 5 - fine' + j) % 5 = (blockFillIndex' + j) % 5
      BY <1>5, <2>1
    <3>4. j \in 0 .. fine' - 1
      BY <2>1
    <3>. QED BY <1>6, <2>1, <3>2, <3>3, <3>4
  <2>5. \A j \in 0 .. 4 : f[j] \in [superframe : {Mp4!None, 0, 1}, place : 0 .. 4,
                                    state : Mp4!States]
    <3>1. \A j \in 0 .. 4 : (blockFillIndex' + j) % 5 \in 0 .. 4
      BY <1>5, Fifth
    <3>. QED BY <1>5, <3>1 DEF Mp4!FromBase
  <2>6. Mp4!Findings(frameBytes', blockFillIndex') = {"processed"}
    <3>1. Mp4!Findings(frameBytes', blockFillIndex') =
            (IF FALSE \in Mp4!FireCodes(f[0]) THEN {"fireError"} ELSE {})
            \cup (IF TRUE \in Mp4!FireCodes(f[0]) THEN Mp4!Outcomes(f) ELSE {})
      BY DEF Mp4!Findings
    <3>. HIDE DEF f
    <3>2. Mp4!FireCodes(f[0]) = {TRUE}
      <4>1. f[0].place = 0 /\ f[0].state = "good"
        BY <2>4
      <4>. QED BY <4>1 DEF Mp4!FireCodes
    <3>3. Mp4!Aligned(f)
      BY <2>4, <2>5 DEF Mp4!Aligned
    <3>4. ~ \E k \in 0 .. 4 : f[k].state = "bad"
      BY <2>4
    <3>5. Mp4!Outcomes(f) = {"processed"}
      BY <3>3, <3>4 DEF Mp4!Outcomes
    <3>. QED BY <3>1, <3>2, <3>5
  <2>7. processed' = frameBytes'[blockFillIndex'].superframe
    BY <2>3, <2>6 DEF Mp4!Check
  <2>8. f[0] = frameBytes'[blockFillIndex']
    <3>1. (blockFillIndex' + 0) % 5 = blockFillIndex'
      BY <1>5, Fifth
    <3>2. f[0] = frameBytes'[(blockFillIndex' + 0) % 5]
      BY DEF Mp4!FromBase
    <3>. QED BY <3>1, <3>2
  <2>. QED BY <2>4, <2>7, <2>8
<1>. QED BY <1>8, <1>9, <1>11, <1>12 DEF Mp4!IInv

(***************************************************************************)
(* MPEG frames.                                                            *)
(***************************************************************************)
LEMMA Sizes ==
  /\ Ones \in Nat \ {0} /\ Header = Ones + 3 /\ Mp2!Size \in Nat
  /\ Mp2!Size > Header
  /\ \A r : Mp2!FrameLength(r) \in {Mp2!Size, 2 * Mp2!Size}
<1>1. PICK b \in Bodies : b = CHOOSE c \in Bodies : TRUE
  BY Mp2Assumption DEF Mp2!BodiesAssumption
<1>2. Len(b) \in Nat \ {0}
  BY Mp2Assumption DEF Mp2!BodiesAssumption
<1>. QED BY <1>1, <1>2, Mp2Assumption
     DEF Mp2!OnesAssumption, Mp2!Size, Mp2!FrameLength

\* The bits of the header that is looked for.
LEMMA HeaderBitsAre ==
  /\ Mp2!HeaderBits \in Seq({0, 1}) /\ Len(Mp2!HeaderBits) = Header
  /\ \A i \in 1 .. Ones : Mp2!HeaderBits[i] = 1
  /\ Mp2!HeaderBits[Ones + 1] = IF rate = 48000 THEN 1 ELSE 0
  /\ Mp2!HeaderBits[Ones + 2] = 1 /\ Mp2!HeaderBits[Ones + 3] = 0
<1>. DEFINE p == [i \in 1 .. Ones |-> 1]
            q == <<IF rate = 48000 THEN 1 ELSE 0, 1, 0>>
<1>1. p \in Seq({0, 1}) /\ Len(p) = Ones /\ \A i \in 1 .. Ones : p[i] = 1
  BY Sizes
<1>2. q \in Seq({0, 1}) /\ Len(q) = 3
  OBVIOUS
<1>3. q[1] = (IF rate = 48000 THEN 1 ELSE 0) /\ q[2] = 1 /\ q[3] = 0
  OBVIOUS
<1>4. Mp2!HeaderBits = p \o q
  BY DEF Mp2!HeaderBits
<1>. HIDE DEF p, q
<1>5. /\ p \o q \in Seq({0, 1}) /\ Len(p \o q) = Ones + 3
      /\ \A i \in 1 .. Ones : (p \o q)[i] = p[i]
      /\ (p \o q)[Ones + 1] = q[1] /\ (p \o q)[Ones + 2] = q[2]
      /\ (p \o q)[Ones + 3] = q[3]
  <2>1. /\ p \o q \in Seq({0, 1}) /\ Len(p \o q) = Ones + 3
        /\ \A i \in 1 .. Ones + 3 : (p \o q)[i] = IF i <= Ones THEN p[i]
                                                  ELSE q[i - Ones]
    <3>1. /\ p \o q \in Seq({0, 1}) /\ Len(p \o q) = Len(p) + Len(q)
          /\ \A i \in 1 .. Len(p) + Len(q) :
               (p \o q)[i] = IF i <= Len(p) THEN p[i] ELSE q[i - Len(p)]
      BY <1>1, <1>2, ConcatProperties, Zenon
    <3>. QED BY <1>1, <1>2, <3>1
  <2>2. /\ Ones + 1 \in 1 .. Ones + 3 /\ Ones + 2 \in 1 .. Ones + 3
        /\ Ones + 3 \in 1 .. Ones + 3 /\ ~(Ones + 1 <= Ones)
        /\ ~(Ones + 2 <= Ones) /\ ~(Ones + 3 <= Ones)
        /\ (Ones + 1) - Ones = 1 /\ (Ones + 2) - Ones = 2 /\ (Ones + 3) - Ones = 3
        /\ \A i \in 1 .. Ones : i \in 1 .. Ones + 3 /\ i <= Ones
    BY Sizes
  <2>. QED BY <2>1, <2>2
<1>. QED BY <1>1, <1>3, <1>4, <1>5, Sizes

\* What comes in for a DAB frame.
LEMMA BitsAre ==
  ASSUME NEW b \in Bodies
  PROVE  /\ Mp2!Bits(b) \in Seq({0, 1}) /\ Len(Mp2!Bits(b)) = Mp2!Size
         /\ ~half => \A i \in 1 .. Header : Mp2!Bits(b)[i] = Mp2!HeaderBits[i]
<1>1. b \in Seq({0, 1}) /\ Len(b) = Mp2!Size - Header /\ Len(b) >= 1
  BY Mp2Assumption, Sizes DEF Mp2!BodiesAssumption
<1>2. Mp2!Filler(b) \in Seq({0, 1}) /\ Len(Mp2!Filler(b)) = Header
  <2>1. b[Len(b)] \in {0, 1}
    BY <1>1
  <2>. QED BY <2>1, Sizes DEF Mp2!Filler
<1>. DEFINE p == IF half THEN Mp2!Filler(b) ELSE Mp2!HeaderBits
<1>3. p \in Seq({0, 1}) /\ Len(p) = Header
  BY <1>2, HeaderBitsAre
<1>4. Mp2!Bits(b) = p \o b
  BY DEF Mp2!Bits
<1>5. ~half => p = Mp2!HeaderBits
  OBVIOUS
<1>. HIDE DEF p
<1>6. /\ p \o b \in Seq({0, 1}) /\ Len(p \o b) = Mp2!Size
      /\ \A i \in 1 .. Header : (p \o b)[i] = p[i]
  <2>1. /\ p \o b \in Seq({0, 1}) /\ Len(p \o b) = Len(p) + Len(b)
        /\ \A i \in 1 .. Len(p) + Len(b) :
             (p \o b)[i] = IF i <= Len(p) THEN p[i] ELSE b[i - Len(p)]
    BY <1>1, <1>3, ConcatProperties, Zenon
  <2>. QED BY <1>1, <1>3, <2>1, Sizes
<1>. QED BY <1>4, <1>5, <1>6

\* The processor in the middle of a DAB frame.
BaudRates == {48000, 24000}
BitStates ==
  [ok : 0 .. 2, headerCount : Nat, bitCount : Nat, first : Int,
   header : Seq({0, 1}), baudRate : BaudRates, all : Nat, whole : Nat]

KeepsFrame(u, t) == u.first = t.first /\ u.header = t.header
KeepsRate(u, t)  == u.baudRate = t.baudRate
KeepsCount(u, t) == u.all = t.all /\ u.whole = t.whole

\* What may be written into the state of the loop over the bits.
LEMMA SetOk ==
  ASSUME NEW t \in BitStates, NEW x \in 0 .. 2
  PROVE  [t EXCEPT !.ok = x] \in BitStates
BY DEF BitStates
LEMMA SetHeaderCount ==
  ASSUME NEW t \in BitStates, NEW x \in Nat
  PROVE  [t EXCEPT !.headerCount = x] \in BitStates
BY DEF BitStates
LEMMA SetBitCount ==
  ASSUME NEW t \in BitStates, NEW x \in Nat
  PROVE  [t EXCEPT !.bitCount = x] \in BitStates
BY DEF BitStates
LEMMA SetFirst ==
  ASSUME NEW t \in BitStates, NEW x \in Int
  PROVE  [t EXCEPT !.first = x] \in BitStates
BY DEF BitStates
LEMMA SetHeader ==
  ASSUME NEW t \in BitStates, NEW x \in Seq({0, 1})
  PROVE  [t EXCEPT !.header = x] \in BitStates
BY DEF BitStates
LEMMA SetBaudRate ==
  ASSUME NEW t \in BitStates, NEW x \in BaudRates
  PROVE  [t EXCEPT !.baudRate = x] \in BitStates
BY DEF BitStates
LEMMA SetAll ==
  ASSUME NEW t \in BitStates, NEW x \in Nat
  PROVE  [t EXCEPT !.all = x] \in BitStates
BY DEF BitStates
LEMMA SetWhole ==
  ASSUME NEW t \in BitStates, NEW x \in Nat
  PROVE  [t EXCEPT !.whole = x] \in BitStates
BY DEF BitStates

\* A bit of the search for a header.
LEMMA SearchedIs ==
  ASSUME NEW t \in BitStates, NEW bit \in {0, 1}, NEW p \in Int, t.ok = 0
  PROVE  LET u == Mp2!Searched(t, bit, p)
         IN /\ u \in BitStates /\ KeepsRate(u, t) /\ KeepsCount(u, t)
            /\ bit = 0 => /\ u.ok = 0 /\ u.headerCount = 0 /\ KeepsFrame(u, t)
                          /\ u.bitCount = t.bitCount
            /\ bit = 1 /\ t.headerCount + 1 # Ones =>
                 /\ u.ok = 0 /\ u.headerCount = t.headerCount + 1
                 /\ KeepsFrame(u, t) /\ u.bitCount = t.bitCount
            /\ bit = 1 /\ t.headerCount + 1 = Ones =>
                 /\ u.ok = 1 /\ u.headerCount = Ones /\ u.bitCount = Ones
                 /\ u.first = (p - Ones + 1) % Mp2!FrameLength(rate)
                 /\ u.header = [i \in 1 .. Ones |-> 1]
<1>1. /\ Ones \in Nat /\ [i \in 1 .. Ones |-> 1] \in Seq({0, 1})
      /\ (p - Ones + 1) % Mp2!FrameLength(rate) \in Int
  BY Sizes
<1>. DEFINE u == Mp2!Searched(t, bit, p)
<1>2. t.headerCount \in Nat /\ 0 \in Nat /\ 1 \in 0 .. 2
  BY DEF BitStates
<1>3. CASE bit = 0
  <2>1. u = [t EXCEPT !.headerCount = 0]
    BY <1>3 DEF Mp2!Searched
  <2>. HIDE DEF u
  <2>2. u \in BitStates
    BY <1>2, <2>1, SetHeaderCount, Zenon
  <2>3. /\ u.headerCount = 0 /\ u.ok = 0 /\ u.bitCount = t.bitCount
        /\ KeepsFrame(u, t) /\ KeepsRate(u, t) /\ KeepsCount(u, t)
    BY <2>1 DEF BitStates, KeepsFrame, KeepsRate, KeepsCount
  <2>. QED BY <1>3, <2>2, <2>3 DEF u
<1>4. CASE bit = 1 /\ t.headerCount + 1 # Ones
  <2>. DEFINE n == t.headerCount + 1
  <2>1. n \in Nat
    BY <1>2
  <2>2. u = [t EXCEPT !.headerCount = n]
    BY <1>4 DEF Mp2!Searched
  <2>. HIDE DEF u, n
  <2>3. u \in BitStates
    BY <2>1, <2>2, SetHeaderCount, Zenon
  <2>4. /\ u.headerCount = n /\ u.ok = 0 /\ u.bitCount = t.bitCount
        /\ KeepsFrame(u, t) /\ KeepsRate(u, t) /\ KeepsCount(u, t)
    BY <2>2 DEF BitStates, KeepsFrame, KeepsRate, KeepsCount
  <2>. QED BY <1>4, <2>3, <2>4 DEF u, n
<1>5. CASE bit = 1 /\ t.headerCount + 1 = Ones
  <2>. DEFINE f == (p - Ones + 1) % Mp2!FrameLength(rate)
              h == [i \in 1 .. Ones |-> 1]
  <2>1. u = [t EXCEPT !.headerCount = Ones, !.ok = 1, !.bitCount = Ones, !.first = f,
                      !.header = h]
    <3>1. bit # 0 /\ ~(t.headerCount + 1 # Ones)
      BY <1>5
    <3>. QED BY <1>5, <3>1, Zenon DEF Mp2!Searched
  <2>2. Ones \in Nat /\ f \in Int /\ h \in Seq({0, 1})
    BY <1>1
  <2>. HIDE DEF u, f, h
  <2>3. PICK a : a = [t EXCEPT !.headerCount = Ones]
    OBVIOUS
  <2>4. PICK b : b = [a EXCEPT !.ok = 1]
    OBVIOUS
  <2>5. PICK c : c = [b EXCEPT !.bitCount = Ones]
    OBVIOUS
  <2>6. PICK d : d = [c EXCEPT !.first = f]
    OBVIOUS
  <2>7. u = [d EXCEPT !.header = h]
    BY <2>1, <2>3, <2>4, <2>5, <2>6
  <2>8. a \in BitStates
    BY <2>2, <2>3, SetHeaderCount, Zenon
  <2>9. b \in BitStates
    BY <1>2, <2>4, <2>8, SetOk, Zenon
  <2>10. c \in BitStates
    BY <2>2, <2>5, <2>9, SetBitCount, Zenon
  <2>11. d \in BitStates
    BY <2>2, <2>6, <2>10, SetFirst, Zenon
  <2>12. u \in BitStates
    BY <2>2, <2>7, <2>11, SetHeader, Zenon
  <2>13. /\ u.headerCount = Ones /\ u.ok = 1 /\ u.bitCount = Ones /\ u.first = f
         /\ u.header = h /\ KeepsRate(u, t) /\ KeepsCount(u, t)
    BY <2>1 DEF BitStates, KeepsRate, KeepsCount
  <2>. QED BY <1>5, <2>12, <2>13 DEF u, f, h
<1>. HIDE DEF u
<1>. QED BY <1>3, <1>4, <1>5 DEF u

\* The search changes neither the bit rate nor the counts of frames.
LEMMA SearchKeeps ==
  ASSUME NEW t \in BitStates, NEW bit \in {0, 1}, NEW p \in Int, t.ok = 0,
         NEW u, u = Mp2!Searched(t, bit, p)
  PROVE  u \in BitStates /\ KeepsRate(u, t) /\ KeepsCount(u, t)
BY SearchedIs, Zenon

LEMMA SearchCounts ==
  ASSUME NEW t \in BitStates, NEW p \in Int, t.ok = 0, t.headerCount + 1 # Ones,
         NEW u, u = Mp2!Searched(t, 1, p)
  PROVE  u.ok = 0 /\ u.headerCount = t.headerCount + 1
<1>1. 1 \in {0, 1}
  OBVIOUS
<1>. QED BY <1>1, SearchedIs, Zenon

AllOnes == [i \in 1 .. Ones |-> 1]

\* The search ends with as many ones as a header begins with.
LEMMA SearchFinds ==
  ASSUME NEW t \in BitStates, NEW p \in Int, t.ok = 0, t.headerCount + 1 = Ones,
         NEW u, u = Mp2!Searched(t, 1, p)
  PROVE  /\ u.ok = 1 /\ u.bitCount = Ones
         /\ u.first = (p - Ones + 1) % Mp2!FrameLength(rate)
         /\ u.header = AllOnes
<1>1. 1 \in {0, 1}
  OBVIOUS
<1>. QED BY <1>1, SearchedIs, Zenon DEF AllOnes

\* A bit of the header.
LEMMA HeaderReadIs ==
  ASSUME NEW t \in BitStates, NEW bit \in {0, 1}, t.ok = 1
  PROVE  LET u == Mp2!HeaderRead(t, bit)
         IN /\ u \in BitStates /\ KeepsCount(u, t) /\ u.first = t.first
            /\ u.headerCount = t.headerCount /\ u.bitCount = t.bitCount + 1
            /\ u.header = Append(t.header, bit)
            /\ t.bitCount + 1 < Header => u.ok = 1 /\ KeepsRate(u, t)
            /\ t.bitCount + 1 >= Header =>
                 u.ok = 2 /\ u.baudRate = Mp2!setSamplerate(u.header, t.baudRate)
<1>. DEFINE h == Append(t.header, bit)
<1>1. h \in Seq({0, 1}) /\ t.bitCount + 1 \in Nat
  BY DEF BitStates
<1>2. Mp2!setSamplerate(h, t.baudRate) \in {48000, 24000}
  BY DEF Mp2!setSamplerate, BitStates, BaudRates
<1>. HIDE DEF h
<1>. DEFINE n == t.bitCount + 1
            r == Mp2!setSamplerate(h, t.baudRate)
<1>. HIDE DEF n, r
<1>3. PICK v : v = [t EXCEPT !.bitCount = n]
  OBVIOUS
<1>4. PICK w : w = [v EXCEPT !.header = h]
  OBVIOUS
<1>5. n \in Nat
  BY <1>1 DEF n
<1>12. r \in BaudRates
  BY <1>2 DEF r, BaudRates
<1>13. 2 \in 0 .. 2
  OBVIOUS
<1>6. v \in BitStates
  BY <1>3, <1>5, SetBitCount, Zenon
<1>7. w \in BitStates
  BY <1>1, <1>4, <1>6, SetHeader, Zenon
<1>8. /\ w.bitCount = n /\ w.header = h /\ w.ok = 1 /\ w.first = t.first
      /\ w.headerCount = t.headerCount /\ KeepsCount(w, t) /\ w.baudRate = t.baudRate
  BY <1>3, <1>4 DEF BitStates, KeepsCount
<1>9. Mp2!HeaderRead(t, bit) = IF w.bitCount < Header THEN w
                               ELSE [w EXCEPT !.ok = 2, !.baudRate = r]
  <2>1. w = [t EXCEPT !.bitCount = @ + 1, !.header = h]
    BY <1>3, <1>4 DEF n
  <2>2. Mp2!HeaderRead(t, bit) =
          IF w.bitCount < Header THEN w
          ELSE [w EXCEPT !.ok = 2, !.baudRate = Mp2!setSamplerate(h, @)]
    BY <2>1 DEF Mp2!HeaderRead, h
  <2>. QED BY <1>8, <2>2 DEF r
<1>10. CASE n < Header
  <2>1. Mp2!HeaderRead(t, bit) = w
    BY <1>8, <1>9, <1>10
  <2>2. ~(n >= Header)
    BY <1>5, <1>10, Sizes
  <2>. QED BY <1>7, <1>8, <2>1, <2>2, <1>10 DEF h, n, KeepsRate
<1>11. CASE n >= Header
  <2>1. PICK u : u = [w EXCEPT !.ok = 2, !.baudRate = r]
    OBVIOUS
  <2>2. Mp2!HeaderRead(t, bit) = u
    BY <1>5, <1>8, <1>9, <1>11, <2>1, Sizes
  <2>3. PICK x : x = [w EXCEPT !.ok = 2]
    OBVIOUS
  <2>4. u = [x EXCEPT !.baudRate = r]
    BY <2>1, <2>3
  <2>5. x \in BitStates
    BY <1>13, <1>7, <2>3, SetOk, Zenon
  <2>6. u \in BitStates
    BY <1>12, <2>4, <2>5, SetBaudRate, Zenon
  <2>7. /\ u.bitCount = n /\ u.header = h /\ u.ok = 2 /\ u.first = t.first
        /\ u.headerCount = t.headerCount /\ KeepsCount(u, t) /\ u.baudRate = r
    BY <1>7, <1>8, <2>1 DEF BitStates, KeepsCount
  <2>8. ~(n < Header)
    BY <1>5, <1>11, Sizes
  <2>. QED BY <2>2, <2>6, <2>7, <2>8 DEF h, n, r
<1>. QED BY <1>5, <1>10, <1>11, Sizes

\* A bit of the frame; with the last one the frame is decoded, or given up.
LEMMA CollectedIs ==
  ASSUME NEW t \in BitStates, NEW lf \in Nat, t.ok = 2
  PROVE  LET u == Mp2!Collected(t, lf)
         IN /\ u \in BitStates /\ KeepsFrame(u, t) /\ KeepsRate(u, t)
            /\ t.bitCount + 1 < lf =>
                 /\ u.ok = 2 /\ u.bitCount = t.bitCount + 1
                 /\ u.headerCount = t.headerCount /\ KeepsCount(u, t)
            /\ t.bitCount + 1 >= lf =>
                 /\ u.ok = 0 /\ u.bitCount = 0 /\ u.headerCount = 0
                 /\ ~Mp2!Decodable(t.header) => KeepsCount(u, t)
                 /\ Mp2!Decodable(t.header) =>
                      /\ u.all = t.all + 1
                      /\ u.whole = t.whole +
                           IF t.first = 0 /\ t.bitCount + 1 = Mp2!FrameLength(rate)
                           THEN 1 ELSE 0
<1>. DEFINE n == t.bitCount + 1
            k == IF t.first = 0 /\ n = Mp2!FrameLength(rate) THEN 1 ELSE 0
<1>1. /\ n \in Nat /\ 0 \in Nat /\ 0 \in 0 .. 2 /\ k \in Nat
      /\ \A m \in Nat : m + 1 \in Nat /\ m + k \in Nat
  BY DEF BitStates
<1>. HIDE DEF n
<1>2. PICK w : w = [t EXCEPT !.bitCount = n]
  OBVIOUS
<1>3. w \in BitStates
  BY <1>1, <1>2, SetBitCount, Zenon
<1>4. /\ w.bitCount = n /\ w.ok = 2 /\ w.first = t.first /\ w.header = t.header
      /\ w.headerCount = t.headerCount /\ KeepsRate(w, t) /\ KeepsCount(w, t)
  BY <1>2 DEF BitStates, KeepsRate, KeepsCount
<1>5. w = [t EXCEPT !.bitCount = @ + 1]
  BY <1>2 DEF n
<1>6. k = IF w.first = 0 /\ w.bitCount = Mp2!FrameLength(rate) THEN 1 ELSE 0
  BY <1>4
<1>. HIDE DEF k
<1>7. Mp2!Collected(t, lf) =
        IF w.bitCount < lf THEN w
        ELSE IF ~Mp2!Decodable(w.header) THEN Mp2!Begun(w)
        ELSE [Mp2!Begun(w) EXCEPT !.all = @ + 1, !.whole = @ + k]
  BY <1>5, <1>6 DEF Mp2!Collected
<1>8. PICK x : x = Mp2!Begun(w)
  OBVIOUS
<1>9. x \in BitStates
  <2>1. PICK a : a = [w EXCEPT !.ok = 0]
    OBVIOUS
  <2>2. PICK b : b = [a EXCEPT !.headerCount = 0]
    OBVIOUS
  <2>3. x = [b EXCEPT !.bitCount = 0]
    BY <1>8, <2>1, <2>2 DEF Mp2!Begun
  <2>4. a \in BitStates
    BY <1>1, <1>3, <2>1, SetOk, Zenon
  <2>5. b \in BitStates
    BY <1>1, <2>2, <2>4, SetHeaderCount, Zenon
  <2>. QED BY <1>1, <2>3, <2>5, SetBitCount, Zenon
<1>10. /\ x.bitCount = 0 /\ x.ok = 0 /\ x.headerCount = 0 /\ KeepsFrame(x, w)
       /\ KeepsRate(x, w) /\ KeepsCount(x, w)
  BY <1>3, <1>8 DEF Mp2!Begun, BitStates, KeepsFrame, KeepsRate, KeepsCount
<1>11. CASE n < lf
  BY <1>1, <1>3, <1>4, <1>7, <1>11 DEF n, KeepsFrame
<1>12. CASE n >= lf /\ ~Mp2!Decodable(t.header)
  <2>1. Mp2!Collected(t, lf) = x /\ ~(n < lf)
    BY <1>1, <1>4, <1>7, <1>8, <1>12
  <2>. QED BY <1>4, <1>9, <1>10, <1>12, <2>1 DEF n, KeepsFrame, KeepsRate, KeepsCount
<1>13. CASE n >= lf /\ Mp2!Decodable(t.header)
  <2>1. PICK u : u = [x EXCEPT !.all = @ + 1, !.whole = @ + k]
    OBVIOUS
  <2>2. Mp2!Collected(t, lf) = u /\ ~(n < lf)
    BY <1>1, <1>4, <1>7, <1>8, <1>13, <2>1
  <2>3. PICK y : y = [x EXCEPT !.all = @ + 1]
    OBVIOUS
  <2>4. u = [y EXCEPT !.whole = @ + k]
    BY <2>1, <2>3
  <2>5. x.all + 1 \in Nat /\ x.whole + k \in Nat
    BY <1>1, <1>9 DEF BitStates
  <2>6. y \in BitStates
    BY <1>9, <2>3, <2>5, SetAll, Zenon
  <2>7. y.whole = x.whole
    BY <1>9, <2>3 DEF BitStates
  <2>8. u \in BitStates
    <3>1. u = [y EXCEPT !.whole = x.whole + k]
      BY <2>4, <2>7
    <3>. QED BY <2>5, <2>6, <3>1, SetWhole, Zenon
  <2>9. /\ u.all = x.all + 1 /\ u.whole = x.whole + k /\ u.ok = 0 /\ u.bitCount = 0
        /\ u.headerCount = 0 /\ KeepsFrame(u, x) /\ KeepsRate(u, x)
    BY <1>9, <1>10, <2>1 DEF BitStates, KeepsFrame, KeepsRate
  <2>10. u.all = t.all + 1 /\ u.whole = t.whole + k
    BY <1>4, <1>10, <2>9 DEF KeepsCount
  <2>. QED BY <1>4, <1>10, <1>13, <2>2, <2>8, <2>9, <2>10
       DEF n, k, KeepsFrame, KeepsRate, KeepsCount
<1>. QED BY <1>1, <1>11, <1>12, <1>13

\* A bit takes a state of the loop to one.
LEMMA BitIs ==
  ASSUME NEW t \in BitStates, NEW bit \in {0, 1}, NEW p \in Int, NEW lf \in Nat
  PROVE  LET u == Mp2!Bit(t, bit, p, lf)
         IN /\ t.ok = 0 => u = Mp2!Searched(t, bit, p)
            /\ t.ok = 1 => u = Mp2!HeaderRead(t, bit)
            /\ t.ok = 2 => u = Mp2!Collected(t, lf)
            /\ u \in BitStates
<1>1. t.ok \in 0 .. 2
  BY DEF BitStates
<1>2. CASE t.ok = 0
  <2>1. Mp2!Bit(t, bit, p, lf) = Mp2!Searched(t, bit, p)
    BY <1>2 DEF Mp2!Bit
  <2>2. Mp2!Searched(t, bit, p) \in BitStates
    BY <1>2, SearchedIs
  <2>. QED BY <1>2, <2>1, <2>2
<1>3. CASE t.ok = 1
  <2>1. Mp2!Bit(t, bit, p, lf) = Mp2!HeaderRead(t, bit)
    BY <1>3 DEF Mp2!Bit
  <2>2. Mp2!HeaderRead(t, bit) \in BitStates
    BY <1>3, HeaderReadIs
  <2>. QED BY <1>3, <2>1, <2>2
<1>4. CASE t.ok = 2
  <2>1. Mp2!Bit(t, bit, p, lf) = Mp2!Collected(t, lf)
    BY <1>4 DEF Mp2!Bit
  <2>2. Mp2!Collected(t, lf) \in BitStates
    BY <1>4, CollectedIs
  <2>. QED BY <1>4, <2>1, <2>2
<1>. QED BY <1>1, <1>2, <1>3, <1>4

\* The service, as it stays.
Service == rate \in {48000, 24000} /\ half \in BOOLEAN /\ (half => rate = 24000)

\* Where the first bit of the ones is in the frame that is sent.
LEMMA FirstOne ==
  ASSUME Service, NEW i \in 1 .. Mp2!Size
  PROVE  LET L == Mp2!FrameLength(rate)
             f == (Mp2!Position + i - Ones) % L
         IN f \in 0 .. L - 1 /\ \E k \in -2 .. 2 : f + Ones = Mp2!Position + i + k * L
<1>. DEFINE L == Mp2!FrameLength(rate)
            x == Mp2!Position + i - Ones
            f == x % L
<1>1. /\ L \in Nat \ {0} /\ Mp2!Size \in Nat /\ Mp2!Size >= Ones /\ Ones \in Nat
      /\ Mp2!Position \in {0, Mp2!Size} /\ (Mp2!Position # 0 => L = 2 * Mp2!Size)
      /\ L \in {Mp2!Size, 2 * Mp2!Size}
  BY Sizes DEF Service, Mp2!Position, Mp2!FrameLength
<1>2. x \in Int /\ -L <= x /\ x < 3 * L
  BY <1>1
<1>. HIDE DEF L
<1>3. f = IF x < 0 THEN x + L ELSE IF x < L THEN x
          ELSE IF x < 2 * L THEN x - L ELSE x - 2 * L
  <2>. HIDE DEF x
  <2>. QED BY <1>1, <1>2, Turns
<1>4. f \in 0 .. L - 1
  <2>. HIDE DEF x, f
  <2>. QED BY <1>1, <1>2, <1>3
<1>5. \E k \in -2 .. 2 : f = x + k * L
  <2>1. /\ 0 * L = 0 /\ 1 * L = L /\ (-1) * L = -L /\ (-2) * L = -(2 * L)
    BY <1>1
  <2>2. f \in {x + 0 * L, x + 1 * L, x + (-1) * L, x + (-2) * L}
    <3>. HIDE DEF x, f
    <3>. QED BY <1>1, <1>2, <1>3, <2>1
  <2>3. 0 \in -2 .. 2 /\ 1 \in -2 .. 2 /\ -1 \in -2 .. 2 /\ -2 \in -2 .. 2
    OBVIOUS
  <2>. HIDE DEF x, f
  <2>. QED BY <2>2, <2>3
<1>6. PICK k \in -2 .. 2 : f = x + k * L
  BY <1>5
<1>7. k * L \in Int
  BY <1>1
<1>8. f + Ones = Mp2!Position + i + k * L
  <2>. HIDE DEF f
  <2>. QED BY <1>1, <1>6, <1>7
<1>. HIDE DEF f
<1>9. f \in 0 .. L - 1 /\ \E j \in -2 .. 2 : f + Ones = Mp2!Position + i + j * L
  BY <1>4, <1>8
<1>. QED BY <1>9 DEF f, L, x

\* After i bits of a DAB frame.
Bounded(t) ==
  /\ t.ok = 0 => t.headerCount < Ones /\ t.bitCount = 0
  /\ t.headerCount <= Ones
  /\ t.ok = 1 => t.bitCount \in Ones .. Header - 1
  /\ t.ok = 2 => t.bitCount \in Header .. 2 * Mp2!Size - 1
  /\ t.first \in 0 .. Mp2!FrameLength(rate) - 1
  /\ t.whole <= t.all
PlacedAt(t, i) ==
  t.ok # 0 => \E k \in -2 .. 2 :
    t.first + t.bitCount = Mp2!Position + i + k * Mp2!FrameLength(rate)
Counting(t, i, lf) ==
  /\ i < Mp2!Size => t.whole = 0
  /\ t.ok = 2 /\ i >= 1 => t.bitCount < lf \/ t.bitCount = Header
  /\ t.all > 0 => t.bitCount < i /\ t.headerCount < i
  /\ t.ok = 2 /\ t.bitCount >= Header + i => t.baudRate = baudRate
Within(t, i, lf) == Bounded(t) /\ PlacedAt(t, i) /\ Counting(t, i, lf)

Off == IF half THEN Mp2!Size - 1 ELSE -1

\* One bit keeps the counters within their bounds.
LEMMA BoundedStep ==
  ASSUME Service, NEW lf \in {Mp2!Size, 2 * Mp2!Size}, NEW i \in 1 .. Mp2!Size,
         NEW t \in BitStates, NEW bit \in {0, 1}, Bounded(t)
  PROVE  Bounded(Mp2!Bit(t, bit, i + Off, lf))
<1>. DEFINE u == Mp2!Bit(t, bit, i + Off, lf)
<1>0. t.ok \in 0 .. 2 /\ t.headerCount \in Nat /\ t.bitCount \in Nat
      /\ t.all \in Nat /\ t.whole \in Nat /\ t.first \in Int
  BY DEF BitStates
<1>1. i + Off \in Int /\ lf \in Nat
  BY Sizes DEF Off, Service
<1>2. CASE t.ok = 0
  <2>1. u = Mp2!Searched(t, bit, i + Off)
    BY <1>1, <1>2, BitIs
  <2>. HIDE DEF u
  <2>2. CASE bit = 0
    <3>1. u.ok = 0 /\ u.headerCount = 0 /\ KeepsFrame(u, t) /\ KeepsCount(u, t)
          /\ u.bitCount = t.bitCount
      BY <1>1, <1>2, <2>1, <2>2, SearchedIs
    <3>. QED BY <1>0, <1>2, <3>1, Sizes DEF Bounded, KeepsFrame, KeepsCount, u
  <2>3. CASE bit = 1 /\ t.headerCount + 1 # Ones
    <3>1. u.ok = 0 /\ u.headerCount = t.headerCount + 1 /\ KeepsFrame(u, t)
          /\ KeepsCount(u, t) /\ u.bitCount = t.bitCount
      BY <1>1, <1>2, <2>1, <2>3, SearchedIs
    <3>. QED BY <1>0, <1>2, <2>3, <3>1, Sizes DEF Bounded, KeepsFrame, KeepsCount, u
  <2>4. CASE bit = 1 /\ t.headerCount + 1 = Ones
    <3>1. u.ok = 1 /\ u.headerCount = Ones /\ u.bitCount = Ones /\ KeepsCount(u, t)
          /\ u.first = ((i + Off) - Ones + 1) % Mp2!FrameLength(rate)
      <4>. DEFINE q == i + Off
      <4>1. q \in Int /\ u = Mp2!Searched(t, bit, q)
        BY <1>1, <2>1
      <4>. HIDE DEF q
      <4>2. u.ok = 1 /\ u.headerCount = Ones /\ u.bitCount = Ones /\ KeepsCount(u, t)
            /\ u.first = (q - Ones + 1) % Mp2!FrameLength(rate)
        BY <1>2, <2>4, <4>1, SearchedIs
      <4>. QED BY <4>2, Zenon DEF q
    <3>2. ((i + Off) - Ones) + 1 = Mp2!Position + i - Ones
      BY Sizes DEF Off, Mp2!Position, Service
    <3>3. u.first \in 0 .. Mp2!FrameLength(rate) - 1
      BY <3>1, <3>2, FirstOne
    <3>. QED BY <1>0, <1>2, <3>1, <3>3, Sizes DEF Bounded, KeepsCount, u
  <2>. QED BY <2>2, <2>3, <2>4
<1>3. CASE t.ok = 1
  <2>1. u = Mp2!HeaderRead(t, bit)
    BY <1>1, <1>3, BitIs
  <2>. HIDE DEF u
  <2>2. /\ KeepsCount(u, t) /\ u.first = t.first /\ u.headerCount = t.headerCount
        /\ u.bitCount = t.bitCount + 1
        /\ u.ok = IF t.bitCount + 1 < Header THEN 1 ELSE 2
    BY <1>0, <1>1, <1>3, <2>1, HeaderReadIs, Sizes
  <2>. QED BY <1>0, <1>3, <2>2, Sizes DEF Bounded, KeepsCount, u
<1>4. CASE t.ok = 2
  <2>1. u = Mp2!Collected(t, lf)
    BY <1>1, <1>4, BitIs
  <2>. HIDE DEF u
  <2>2. /\ KeepsFrame(u, t)
        /\ t.bitCount + 1 < lf => /\ u.ok = 2 /\ u.bitCount = t.bitCount + 1
                                  /\ u.headerCount = t.headerCount /\ KeepsCount(u, t)
        /\ t.bitCount + 1 >= lf =>
             /\ u.ok = 0 /\ u.bitCount = 0 /\ u.headerCount = 0
             /\ \/ KeepsCount(u, t)
                \/ u.all = t.all + 1 /\ u.whole \in {t.whole, t.whole + 1}
    <3>1. t.whole + 0 = t.whole
      BY <1>0
    <3>. QED BY <1>1, <1>4, <2>1, <3>1, CollectedIs
  <2>3. t.bitCount + 1 < lf \/ t.bitCount + 1 >= lf
    BY <1>0, <1>1
  <2>. QED BY <1>0, <1>1, <1>4, <2>2, <2>3, Sizes DEF Bounded, KeepsFrame, KeepsCount, u
<1>. QED BY <1>0, <1>2, <1>3, <1>4

\* One bit keeps what was collected in its place.
LEMMA PlacedStep ==
  ASSUME Service, NEW lf \in {Mp2!Size, 2 * Mp2!Size}, NEW i \in 1 .. Mp2!Size,
         NEW t \in BitStates, NEW bit \in {0, 1}, PlacedAt(t, i - 1)
  PROVE  PlacedAt(Mp2!Bit(t, bit, i + Off, lf), i)
<1>. DEFINE u == Mp2!Bit(t, bit, i + Off, lf)
            L == Mp2!FrameLength(rate)
<1>0. t.ok \in 0 .. 2 /\ t.bitCount \in Nat /\ t.first \in Int /\ L \in Int
      /\ Mp2!Position \in Int
  BY Sizes DEF BitStates, Mp2!Position
<1>1. i + Off \in Int /\ lf \in Nat
  BY Sizes DEF Off, Service
<1>. HIDE DEF L
<1>2. ASSUME t.ok # 0, u.first = t.first, u.bitCount = t.bitCount + 1
      PROVE  PlacedAt(u, i)
  <2>1. PICK k \in -2 .. 2 : t.first + t.bitCount = Mp2!Position + (i - 1) + k * L
    BY <1>2 DEF PlacedAt, L
  <2>2. k * L \in Int
    BY <1>0
  <2>3. u.first + u.bitCount = Mp2!Position + i + k * L
    BY <1>0, <1>2, <2>1, <2>2
  <2>. QED BY <2>3 DEF PlacedAt, L
<1>3. CASE t.ok = 0
  <2>1. u = Mp2!Searched(t, bit, i + Off)
    BY <1>1, <1>3, BitIs
  <2>. HIDE DEF u
  <2>2. CASE ~(bit = 1 /\ t.headerCount + 1 = Ones)
    <3>1. u.ok = 0
      BY <1>1, <1>3, <2>1, <2>2, SearchedIs
    <3>. QED BY <3>1 DEF PlacedAt, u
  <2>3. CASE bit = 1 /\ t.headerCount + 1 = Ones
    <3>1. u.bitCount = Ones /\ u.first = ((i + Off) - Ones + 1) % L
      <4>. DEFINE q == i + Off
      <4>1. q \in Int /\ u = Mp2!Searched(t, bit, q)
        BY <1>1, <2>1
      <4>. HIDE DEF q
      <4>2. u.bitCount = Ones /\ u.first = (q - Ones + 1) % L
        BY <1>3, <2>3, <4>1, SearchedIs DEF L
      <4>. QED BY <4>2, Zenon DEF q
    <3>2. ((i + Off) - Ones) + 1 = Mp2!Position + i - Ones
      BY Sizes DEF Off, Mp2!Position, Service
    <3>3. \E k \in -2 .. 2 : u.first + u.bitCount = Mp2!Position + i + k * L
      BY <3>1, <3>2, FirstOne DEF L
    <3>. QED BY <3>3 DEF PlacedAt, u, L
  <2>. QED BY <2>2, <2>3
<1>4. CASE t.ok = 1
  <2>1. u = Mp2!HeaderRead(t, bit)
    BY <1>1, <1>4, BitIs
  <2>2. u.first = t.first /\ u.bitCount = t.bitCount + 1
    BY <1>4, <2>1, HeaderReadIs
  <2>. QED BY <1>2, <1>4, <2>2
<1>5. CASE t.ok = 2
  <2>1. u = Mp2!Collected(t, lf)
    BY <1>1, <1>5, BitIs
  <2>2. CASE t.bitCount + 1 < lf
    <3>1. u.first = t.first /\ u.bitCount = t.bitCount + 1
      BY <1>1, <1>5, <2>1, <2>2, CollectedIs DEF KeepsFrame
    <3>. QED BY <1>2, <1>5, <3>1
  <2>3. CASE t.bitCount + 1 >= lf
    <3>1. u.ok = 0
      BY <1>1, <1>5, <2>1, <2>3, CollectedIs
    <3>. QED BY <3>1 DEF PlacedAt
  <2>. QED BY <1>0, <1>1, <2>2, <2>3
<1>. QED BY <1>0, <1>3, <1>4, <1>5
\* A whole frame ends where the frame that is sent does.
LEMMA WholeAt ==
  ASSUME Service, NEW i \in 1 .. Mp2!Size, NEW k \in -2 .. 2,
         Mp2!FrameLength(rate) = Mp2!Position + i + k * Mp2!FrameLength(rate)
  PROVE  i = Mp2!Size /\ Mp2!Position + Mp2!Size = Mp2!FrameLength(rate)
<1>. DEFINE L == Mp2!FrameLength(rate)
<1>1. /\ Mp2!Size \in Nat \ {0}
      /\ \/ Mp2!Position = 0 /\ L = Mp2!Size
         \/ Mp2!Position = 0 /\ L = 2 * Mp2!Size
         \/ Mp2!Position = Mp2!Size /\ L = 2 * Mp2!Size
  BY Sizes DEF Service, Mp2!Position, Mp2!FrameLength
<1>2. L = Mp2!Position + i + k * L
  OBVIOUS
<1>. HIDE DEF L
<1>3. 0 * L = 0 /\ 1 * L = L /\ (-1) * L = -L /\ (-2) * L = -(2 * L) /\ 2 * L = L + L
  BY <1>1
<1>4. k \in {-2, -1, 0, 1, 2}
  OBVIOUS
<1>5. L \in {Mp2!Position + i, Mp2!Position + i + L, Mp2!Position + i - L,
             Mp2!Position + i - 2 * L, Mp2!Position + i + 2 * L}
  BY <1>1, <1>2, <1>3, <1>4
<1>6. i = Mp2!Size /\ Mp2!Position + Mp2!Size = L
  BY <1>1, <1>5
<1>. QED BY <1>6 DEF L

\* One bit keeps what is known of the frames that ended so far.
LEMMA CountingStep ==
  ASSUME Service, NEW lf \in {Mp2!Size, 2 * Mp2!Size}, NEW i \in 1 .. Mp2!Size,
         NEW t \in BitStates, NEW bit \in {0, 1}, Within(t, i - 1, lf)
  PROVE  Counting(Mp2!Bit(t, bit, i + Off, lf), i, lf)
<1>. DEFINE u == Mp2!Bit(t, bit, i + Off, lf)
<1>0. /\ t.ok \in 0 .. 2 /\ t.headerCount \in Nat /\ t.bitCount \in Nat
      /\ t.all \in Nat /\ t.whole \in Nat /\ t.first \in Int
  BY DEF BitStates
<1>1. i + Off \in Int /\ lf \in Nat
  BY Sizes DEF Off, Service
<1>2. /\ t.whole = 0
      /\ t.all > 0 => t.bitCount < i - 1 /\ t.headerCount < i - 1
      /\ t.ok = 2 /\ t.bitCount >= Header + (i - 1) => t.baudRate = baudRate
  BY Sizes DEF Within, Counting
<1>3. CASE t.ok = 0
  <2>1. u = Mp2!Searched(t, bit, i + Off)
    BY <1>1, <1>3, BitIs
  <2>. HIDE DEF u
  <2>2. /\ KeepsCount(u, t) /\ u.ok # 2 /\ u.headerCount \in {0, t.headerCount + 1}
        /\ u.bitCount \in {0, t.headerCount + 1}
    <3>. DEFINE q == i + Off
    <3>1. q \in Int /\ u = Mp2!Searched(t, bit, q)
      BY <1>1, <2>1
    <3>. HIDE DEF q
    <3>2. t.bitCount = 0
      BY <1>3 DEF Within, Bounded
    <3>3. CASE bit = 0
      <4>1. /\ u.ok = 0 /\ u.headerCount = 0 /\ KeepsCount(u, t)
            /\ u.bitCount = t.bitCount
        BY <1>3, <3>1, <3>3, SearchedIs
      <4>. QED BY <3>2, <3>3, <4>1
    <3>4. CASE bit = 1 /\ t.headerCount + 1 # Ones
      <4>1. /\ u.ok = 0 /\ u.headerCount = t.headerCount + 1 /\ KeepsCount(u, t)
            /\ u.bitCount = t.bitCount
        BY <1>3, <3>1, <3>4, SearchedIs
      <4>. QED BY <3>2, <3>4, <4>1
    <3>5. CASE bit = 1 /\ t.headerCount + 1 = Ones
      <4>1. /\ u.ok = 1 /\ u.headerCount = Ones /\ KeepsCount(u, t)
            /\ u.bitCount = Ones
        BY <1>3, <3>1, <3>5, SearchedIs
      <4>. QED BY <3>2, <3>5, <4>1
    <3>. QED BY <3>3, <3>4, <3>5
  <2>. QED BY <1>0, <1>2, <1>3, <2>2 DEF Counting, KeepsCount, u
<1>4. CASE t.ok = 1
  <2>1. u = Mp2!HeaderRead(t, bit)
    BY <1>1, <1>4, BitIs
  <2>. HIDE DEF u
  <2>2. /\ KeepsCount(u, t) /\ u.headerCount = t.headerCount
        /\ u.bitCount = t.bitCount + 1
        /\ u.ok = IF t.bitCount + 1 < Header THEN 1 ELSE 2
    BY <1>0, <1>1, <1>4, <2>1, HeaderReadIs, Sizes
  <2>3. t.bitCount < Header
    BY <1>4, Sizes DEF Within, Bounded
  <2>4. u.ok = 2 => u.bitCount = Header
    BY <1>0, <2>2, <2>3, Sizes
  <2>. QED BY <1>0, <1>2, <1>4, <2>2, <2>4, Sizes DEF Counting, KeepsCount, u
<1>5. CASE t.ok = 2
  <2>1. u = Mp2!Collected(t, lf)
    BY <1>1, <1>5, BitIs
  <2>. HIDE DEF u
  <2>2. CASE t.bitCount + 1 < lf
    <3>1. /\ u.ok = 2 /\ u.bitCount = t.bitCount + 1 /\ KeepsRate(u, t)
          /\ u.headerCount = t.headerCount /\ KeepsCount(u, t)
      BY <1>1, <1>5, <2>1, <2>2, CollectedIs
    <3>. QED BY <1>0, <1>2, <1>5, <2>2, <3>1, Sizes
         DEF Counting, KeepsCount, KeepsRate, u
  <2>3. CASE t.bitCount + 1 >= lf
    <3>1. /\ u.ok = 0 /\ u.bitCount = 0 /\ u.headerCount = 0
          /\ ~Mp2!Decodable(t.header) => KeepsCount(u, t)
          /\ Mp2!Decodable(t.header) =>
               u.whole = t.whole +
                 IF t.first = 0 /\ t.bitCount + 1 = Mp2!FrameLength(rate)
                 THEN 1 ELSE 0
      BY <1>1, <1>5, <2>1, <2>3, CollectedIs
    <3>2. i < Mp2!Size => u.whole = 0
      <4>1. SUFFICES ASSUME i < Mp2!Size, u.whole # 0 PROVE FALSE
        OBVIOUS
      <4>2. t.first = 0 /\ t.bitCount + 1 = Mp2!FrameLength(rate)
        BY <1>0, <1>2, <3>1, <4>1 DEF KeepsCount
      <4>. DEFINE L == Mp2!FrameLength(rate)
      <4>3. PICK k \in -2 .. 2 :
              t.first + t.bitCount = Mp2!Position + (i - 1) + k * L
        BY <1>5 DEF Within, PlacedAt
      <4>4. L \in Int /\ Mp2!Position \in Int
        BY Sizes DEF Mp2!Position
      <4>. HIDE DEF L
      <4>5. k * L \in Int
        BY <4>4
      <4>6. L = Mp2!Position + i + k * L
        BY <1>0, <4>2, <4>3, <4>4, <4>5 DEF L
      <4>. QED BY <4>1, <4>6, WholeAt, Sizes DEF L
    <3>. QED BY <3>1, <3>2 DEF Counting, u
  <2>. QED BY <1>0, <1>1, <2>2, <2>3
<1>. QED BY <1>0, <1>3, <1>4, <1>5

\* The header of the frame that is sent, as far as its first n bits tell.
Prefix(h, n) ==
  LET m == IF n < Header THEN n ELSE Header
  IN Len(h) = m /\ \A j \in 1 .. m : h[j] = Mp2!HeaderBits[j]

\* A header that is read bit by bit.
LEMMA PrefixAppended ==
  ASSUME NEW h \in Seq({0, 1}), NEW n \in 1 .. Header, Prefix(h, n - 1)
  PROVE  Prefix(Append(h, Mp2!HeaderBits[n]), n)
<1>1. Len(h) = n - 1 /\ \A j \in 1 .. n - 1 : h[j] = Mp2!HeaderBits[j]
  BY Sizes DEF Prefix
<1>2. /\ Len(Append(h, Mp2!HeaderBits[n])) = n
      /\ \A j \in 1 .. n - 1 : Append(h, Mp2!HeaderBits[n])[j] = h[j]
      /\ Append(h, Mp2!HeaderBits[n])[n] = Mp2!HeaderBits[n]
  BY <1>1
<1>. QED BY <1>1, <1>2, Sizes DEF Prefix

LEMMA PrefixOnes == Prefix(AllOnes, Ones)
<1>1. Len(AllOnes) = Ones /\ \A j \in 1 .. Ones : AllOnes[j] = 1
  BY Sizes DEF AllOnes
<1>. QED BY <1>1, HeaderBitsAre, Sizes DEF Prefix

\* The whole header: the rate, and that it is of Layer II.
LEMMA PrefixWhole ==
  ASSUME Service, NEW h \in Seq({0, 1}), NEW n \in Int, n >= Header, Prefix(h, n)
  PROVE  /\ \A old : Mp2!setSamplerate(h, old) = rate
         /\ Mp2!Decodable(h) /\ h = Mp2!HeaderBits
<1>1. Len(h) = Header /\ \A j \in 1 .. Header : h[j] = Mp2!HeaderBits[j]
  BY Sizes DEF Prefix
<1>2. Ones + 1 \in 1 .. Header /\ Ones + 2 \in 1 .. Header /\ Ones + 3 \in 1 .. Header
  BY Sizes
<1>3. /\ h[Ones + 1] = IF rate = 48000 THEN 1 ELSE 0
      /\ h[Ones + 2] = 1 /\ h[Ones + 3] = 0
  BY <1>1, <1>2, HeaderBitsAre
<1>4. h = Mp2!HeaderBits
  <2>1. Mp2!HeaderBits \in Seq({0, 1}) /\ Len(Mp2!HeaderBits) = Header
    BY HeaderBitsAre
  <2>. QED BY <1>1, <2>1, SeqEqual
<1>. QED BY <1>3, <1>4 DEF Service, Mp2!setSamplerate, Mp2!Decodable

\* A frame of 48 kHz, or the first half of a frame, that came in as it was
\* sent: what is collected from its first bit on is its header.
Known(t, i) ==
  t.ok # 0 /\ t.bitCount = i =>
    Prefix(t.header, i) /\ (t.ok = 2 => t.baudRate = rate)

\* What is known of an undamaged frame goes on being known.
LEMMA KnownStep ==
  ASSUME Service, NEW lf \in {Mp2!Size, 2 * Mp2!Size}, NEW i \in 1 .. Mp2!Size,
         NEW t \in BitStates, NEW bit \in {0, 1}, Bounded(t), Known(t, i - 1),
         i <= Header => bit = Mp2!HeaderBits[i]
  PROVE  Known(Mp2!Bit(t, bit, i + Off, lf), i)
<1>. DEFINE u == Mp2!Bit(t, bit, i + Off, lf)
<1>0. t.ok \in 0 .. 2 /\ t.bitCount \in Nat /\ t.header \in Seq({0, 1})
  BY DEF BitStates
<1>1. i + Off \in Int /\ lf \in Nat
  BY Sizes DEF Off, Service
<1>2. SUFFICES ASSUME u.ok # 0, u.bitCount = i
               PROVE  Prefix(u.header, i) /\ (u.ok = 2 => u.baudRate = rate)
  BY DEF Known
<1>3. CASE t.ok = 0
  <2>. DEFINE q == i + Off
  <2>1. q \in Int /\ u = Mp2!Searched(t, bit, q)
    BY <1>1, <1>3, BitIs
  <2>. HIDE DEF q, u
  <2>2. bit = 1 /\ t.headerCount + 1 = Ones
    BY <1>2, <1>3, <2>1, SearchedIs
  <2>3. u.ok = 1 /\ u.bitCount = Ones /\ u.header = AllOnes
    <3>1. u = Mp2!Searched(t, 1, q)
      BY <2>1, <2>2
    <3>. QED BY <1>3, <2>1, <2>2, <3>1, SearchFinds
  <2>. QED BY <1>2, <2>3, PrefixOnes
<1>4. CASE t.ok = 1
  <2>1. u = Mp2!HeaderRead(t, bit)
    BY <1>1, <1>4, BitIs
  <2>. HIDE DEF u
  <2>2. /\ u.bitCount = t.bitCount + 1 /\ u.header = Append(t.header, bit)
        /\ t.bitCount + 1 < Header => u.ok = 1
        /\ t.bitCount + 1 >= Header =>
             u.baudRate = Mp2!setSamplerate(u.header, t.baudRate)
        /\ u \in BitStates
    BY <1>4, <2>1, HeaderReadIs
  <2>3. t.bitCount = i - 1 /\ i \in 1 .. Header
    BY <1>0, <1>2, <1>4, <2>2, Sizes DEF Bounded
  <2>4. Prefix(u.header, i)
    <3>1. Prefix(t.header, i - 1)
      BY <1>4, <2>3 DEF Known
    <3>. QED BY <1>0, <2>2, <2>3, <3>1, PrefixAppended
  <2>5. CASE i < Header
    BY <2>2, <2>3, <2>4, <2>5, Sizes
  <2>6. CASE i >= Header
    <3>1. u.header \in Seq({0, 1})
      BY <2>2 DEF BitStates
    <3>2. Mp2!setSamplerate(u.header, t.baudRate) = rate
      BY <2>4, <2>6, <3>1, PrefixWhole
    <3>. QED BY <1>0, <2>2, <2>3, <2>4, <2>6, <3>2
  <2>. QED BY <2>5, <2>6, Sizes
<1>5. CASE t.ok = 2
  <2>1. u = Mp2!Collected(t, lf)
    BY <1>1, <1>5, BitIs
  <2>. HIDE DEF u
  <2>2. t.bitCount + 1 < lf
    BY <1>0, <1>1, <1>2, <1>5, <2>1, CollectedIs
  <2>3. u.bitCount = t.bitCount + 1 /\ KeepsRate(u, t) /\ KeepsFrame(u, t)
    BY <1>1, <1>5, <2>1, <2>2, CollectedIs
  <2>4. t.bitCount = i - 1 /\ i - 1 >= Header
    BY <1>0, <1>2, <1>5, <2>3, Sizes DEF Bounded
  <2>5. Prefix(t.header, i - 1) /\ t.baudRate = rate
    BY <1>5, <2>4 DEF Known
  <2>6. Prefix(t.header, i)
    BY <2>4, <2>5, Sizes DEF Prefix
  <2>. QED BY <2>3, <2>5, <2>6 DEF KeepsRate, KeepsFrame
<1>. QED BY <1>0, <1>3, <1>4, <1>5
\* The whole frame that ends a search.
LEMMA Locks ==
  ASSUME Service, baudRate \in {48000, 24000}, NEW lf,
         lf = Mp2!FrameLength(baudRate),
         NEW t \in BitStates, NEW bit \in {0, 1}, Within(t, Mp2!Size - 1, lf),
         ~half => Known(t, Mp2!Size - 1),
         NEW u, u = Mp2!Bit(t, bit, Mp2!Size + Off, lf), u.whole > 0
  PROVE  /\ u.ok = 0 /\ u.headerCount = 0 /\ u.all = 1 /\ u.whole = 1
         /\ u.baudRate = rate
         /\ Mp2!Position + Mp2!Size = Mp2!FrameLength(rate)
<1>. DEFINE S == Mp2!Size
            L == Mp2!FrameLength(rate)
<1>0. /\ t.ok \in 0 .. 2 /\ t.headerCount \in Nat /\ t.bitCount \in Nat
      /\ t.all \in Nat /\ t.whole \in Nat /\ t.first \in Int
  BY DEF BitStates
<1>1. S + Off \in Int /\ lf \in Nat /\ lf \in {S, 2 * S} /\ S \in Nat \ {0}
      /\ S > Header /\ Header \in Nat /\ S - 1 < S /\ S - 1 >= 1
  BY Sizes DEF Off, Service
<1>2. t.whole = 0 /\ (t.all > 0 => t.bitCount < S - 1)
      /\ (t.ok = 2 /\ t.bitCount >= Header + (S - 1) => t.baudRate = baudRate)
      /\ (t.ok = 2 => t.bitCount < lf \/ t.bitCount = Header)
  BY <1>1 DEF Within, Counting
<1>3. t.ok = 2
  <2>1. t.ok # 0
    <3>1. SUFFICES ASSUME t.ok = 0 PROVE FALSE
      OBVIOUS
    <3>2. u = Mp2!Searched(t, bit, S + Off)
      BY <1>1, <3>1, BitIs
    <3>3. KeepsCount(u, t)
      BY <1>1, <3>1, <3>2, SearchKeeps
    <3>. QED BY <1>2, <3>3 DEF KeepsCount
  <2>2. t.ok # 1
    <3>1. SUFFICES ASSUME t.ok = 1 PROVE FALSE
      OBVIOUS
    <3>2. u = Mp2!HeaderRead(t, bit)
      BY <1>1, <3>1, BitIs
    <3>3. KeepsCount(u, t)
      BY <1>1, <3>1, <3>2, HeaderReadIs
    <3>. QED BY <1>2, <3>3 DEF KeepsCount
  <2>. QED BY <1>0, <2>1, <2>2
<1>4. u = Mp2!Collected(t, lf)
  BY <1>1, <1>3, BitIs
<1>5. /\ KeepsRate(u, t)
      /\ t.bitCount + 1 < lf => KeepsCount(u, t)
      /\ t.bitCount + 1 >= lf =>
           /\ u.ok = 0 /\ u.headerCount = 0
           /\ ~Mp2!Decodable(t.header) => KeepsCount(u, t)
           /\ Mp2!Decodable(t.header) =>
                /\ u.all = t.all + 1
                /\ u.whole = t.whole +
                     IF t.first = 0 /\ t.bitCount + 1 = Mp2!FrameLength(rate)
                     THEN 1 ELSE 0
  BY <1>1, <1>3, <1>4, CollectedIs
<1>6. t.bitCount + 1 >= lf /\ Mp2!Decodable(t.header)
  BY <1>0, <1>1, <1>2, <1>5 DEF KeepsCount
<1>7. t.first = 0 /\ t.bitCount + 1 = L /\ u.whole = 1
  BY <1>0, <1>2, <1>5, <1>6
<1>8. Mp2!Position + S = L
  <2>1. PICK k \in -2 .. 2 : t.first + t.bitCount = Mp2!Position + (S - 1) + k * L
    BY <1>3 DEF Within, PlacedAt
  <2>2. L \in Int /\ Mp2!Position \in Int
    BY Sizes DEF Mp2!Position
  <2>. HIDE DEF L
  <2>3. k * L \in Int
    BY <2>2
  <2>4. L = Mp2!Position + S + k * L
    BY <1>0, <1>1, <1>7, <2>1, <2>2, <2>3
  <2>5. S \in 1 .. Mp2!Size
    BY <1>1
  <2>. QED BY <2>4, <2>5, WholeAt DEF L
<1>9. u.all = 1
  <2>1. t.bitCount >= S - 1
    BY <1>0, <1>1, <1>7, Sizes DEF Mp2!FrameLength
  <2>2. t.all = 0
    BY <1>0, <1>1, <1>2, <2>1
  <2>. QED BY <1>5, <1>6, <2>2
<1>10. t.baudRate = rate
  <2>1. CASE half
    <3>1. L = 2 * S /\ rate = 24000
      BY <2>1 DEF Service, Mp2!FrameLength
    <3>2. t.bitCount >= Header + (S - 1)
      BY <1>0, <1>1, <1>7, <3>1
    <3>3. t.baudRate = baudRate
      BY <1>2, <1>3, <3>2
    <3>4. lf = 2 * S
      BY <1>0, <1>1, <1>2, <1>3, <1>7, <3>1
    <3>5. baudRate = 24000
      BY <1>1, <3>4 DEF Mp2!FrameLength
    <3>. QED BY <3>1, <3>3, <3>5
  <2>2. CASE ~half
    <3>1. L = S
      BY <1>1, <1>8, <2>2 DEF Mp2!Position
    <3>2. t.bitCount = S - 1
      BY <1>0, <1>1, <1>7, <3>1
    <3>. QED BY <1>3, <2>2, <3>2 DEF Known
  <2>. QED BY <2>1, <2>2
<1>. QED BY <1>5, <1>6, <1>7, <1>8, <1>9, <1>10 DEF KeepsRate

\* When the search is done: after n bits of the frame that is sent.
Sure(t, n) ==
  /\ t.baudRate = rate
  /\ IF n = Mp2!FrameLength(rate)
     THEN t.ok = 0 /\ t.headerCount = 0 /\ t.all = 1 /\ t.whole = 1
     ELSE /\ t.all = 0 /\ t.whole = 0
          /\ IF n < Ones THEN t.ok = 0 /\ t.headerCount = n
             ELSE /\ t.ok = IF n < Header THEN 1 ELSE 2
                  /\ t.bitCount = n /\ t.first = 0 /\ Prefix(t.header, n)

\* In a frame that was found where it begins, no other is.
LEMMA SureStep ==
  ASSUME Service, NEW i \in 1 .. Mp2!Size, NEW t \in BitStates, NEW bit \in {0, 1},
         ~half /\ i <= Header => bit = Mp2!HeaderBits[i],
         Sure(t, Mp2!Position + i - 1)
  PROVE  Sure(Mp2!Bit(t, bit, i + Off, Mp2!FrameLength(rate)), Mp2!Position + i)
<1>. DEFINE L == Mp2!FrameLength(rate)
            u == Mp2!Bit(t, bit, i + Off, L)
            n == Mp2!Position + i
<1>0. /\ t.ok \in 0 .. 2 /\ t.headerCount \in Nat /\ t.bitCount \in Nat
      /\ t.all \in Nat /\ t.whole \in Nat /\ t.header \in Seq({0, 1})
  BY DEF BitStates
<1>1. /\ i + Off = n - 1 /\ L \in Nat /\ n \in 1 .. L /\ n - 1 # L
      /\ Mp2!Position + i - 1 = n - 1 /\ L > Header
      /\ n <= Header => bit = Mp2!HeaderBits[n]
  BY Sizes DEF Off, Service, Mp2!Position, Mp2!FrameLength
<1>2. u = Mp2!Bit(t, bit, n - 1, L) /\ n - 1 \in Int /\ n \in Int
  BY <1>1
<1>. HIDE DEF L, u, n
<1>3. /\ t.baudRate = rate /\ t.all = 0 /\ t.whole = 0
      /\ IF n - 1 < Ones THEN t.ok = 0 /\ t.headerCount = n - 1
         ELSE /\ t.ok = IF n - 1 < Header THEN 1 ELSE 2
              /\ t.bitCount = n - 1 /\ t.first = 0 /\ Prefix(t.header, n - 1)
  BY <1>1 DEF Sure, L
<1>4. u \in BitStates
  BY <1>1, <1>2, BitIs
<1>5. CASE n - 1 < Ones
  <2>1. u = Mp2!Searched(t, bit, n - 1) /\ t.ok = 0
    BY <1>1, <1>2, <1>3, <1>5, BitIs
  <2>2. bit = 1
    <3>1. n \in 1 .. Ones /\ n <= Header
      BY <1>1, <1>5, Sizes
    <3>. QED BY <1>1, <3>1, HeaderBitsAre
  <2>3. CASE n # Ones
    <3>1. t.headerCount + 1 # Ones /\ t.headerCount + 1 = n /\ n < Ones /\ n # L
      BY <1>1, <1>3, <1>5, <2>3, Sizes
    <3>2. u.ok = 0 /\ u.headerCount = n /\ KeepsRate(u, t) /\ KeepsCount(u, t)
      BY <1>2, <2>1, <2>2, <3>1, SearchKeeps, SearchCounts
    <3>. QED BY <1>3, <3>1, <3>2 DEF Sure, KeepsRate, KeepsCount, L, u, n
  <2>4. CASE n = Ones
    <3>1. t.headerCount + 1 = Ones /\ n < Header /\ n # L /\ ~(n < Ones)
      BY <1>1, <1>3, <1>5, <2>4, Sizes
    <3>2. /\ u.ok = 1 /\ u.bitCount = n /\ KeepsRate(u, t) /\ KeepsCount(u, t)
          /\ u.first = (n - 1 - Ones + 1) % L
          /\ u.header = AllOnes
      <4>. DEFINE q == n - 1
      <4>1. q \in Int /\ u = Mp2!Searched(t, bit, q)
        BY <1>2, <2>1
      <4>. HIDE DEF q
      <4>2. /\ u.ok = 1 /\ u.bitCount = Ones /\ KeepsRate(u, t) /\ KeepsCount(u, t)
            /\ u.first = (q - Ones + 1) % L
            /\ u.header = AllOnes
        <5>1. u = Mp2!Searched(t, 1, q)
          BY <2>2, <4>1
        <5>2. /\ u.ok = 1 /\ u.bitCount = Ones
              /\ u.first = (q - Ones + 1) % Mp2!FrameLength(rate)
              /\ u.header = AllOnes
          <6>1. t.ok = 0 /\ t.headerCount + 1 = Ones /\ q \in Int
            BY <2>1, <3>1, <4>1
          <6>. QED BY <5>1, <6>1, SearchFinds, Zenon
        <5>3. KeepsRate(u, t) /\ KeepsCount(u, t)
          BY <2>1, <4>1, SearchKeeps, Zenon
        <5>. QED BY <5>2, <5>3, Zenon DEF L
      <4>. QED BY <2>4, <4>2 DEF q
    <3>3. u.first = 0
      <4>1. n - 1 - Ones + 1 = 0
        BY <1>1, <2>4, Sizes
      <4>2. 0 \in 0 .. L - 1
        BY <1>1
      <4>3. 0 % L = 0
        BY <1>1, <4>2, Small
      <4>. QED BY <3>2, <4>1, <4>3
    <3>4. Prefix(u.header, n)
      BY <2>4, <3>2, PrefixOnes
    <3>. QED BY <1>3, <3>1, <3>2, <3>3, <3>4
         DEF Sure, KeepsRate, KeepsCount, L, u, n
  <2>. QED BY <2>3, <2>4
<1>6. CASE n - 1 >= Ones /\ n - 1 < Header
  <2>1. u = Mp2!HeaderRead(t, bit) /\ t.ok = 1 /\ t.bitCount + 1 = n
    BY <1>1, <1>2, <1>3, <1>6, BitIs, Sizes
  <2>2. /\ KeepsCount(u, t) /\ u.first = t.first /\ u.bitCount = n
        /\ u.header = Append(t.header, bit)
        /\ n < Header => u.ok = 1 /\ KeepsRate(u, t)
        /\ n >= Header => u.ok = 2 /\
                          u.baudRate = Mp2!setSamplerate(u.header, t.baudRate)
    BY <2>1, HeaderReadIs
  <2>3. n \in 1 .. Header /\ n # L /\ ~(n < Ones)
    BY <1>1, <1>6, Sizes
  <2>4. Prefix(u.header, n)
    <3>1. Prefix(t.header, n - 1) /\ bit = Mp2!HeaderBits[n]
      BY <1>1, <1>3, <1>6, <2>3, Sizes
    <3>. QED BY <1>0, <2>2, <2>3, <3>1, PrefixAppended
  <2>5. u.baudRate = rate /\ u.ok = IF n < Header THEN 1 ELSE 2
    <3>1. CASE n < Header
      BY <1>3, <2>2, <3>1 DEF KeepsRate
    <3>2. CASE n >= Header
      <4>1. u.header \in Seq({0, 1})
        BY <1>4 DEF BitStates
      <4>2. Mp2!setSamplerate(u.header, t.baudRate) = rate
        BY <1>1, <2>4, <3>2, <4>1, PrefixWhole
      <4>. QED BY <1>1, <2>2, <3>2, <4>2, Sizes
    <3>. QED BY <1>1, <3>1, <3>2, Sizes
  <2>. QED BY <1>3, <1>6, <2>1, <2>2, <2>3, <2>4, <2>5, Sizes
       DEF Sure, KeepsCount, L, u, n
<1>7. CASE n - 1 >= Header
  <2>1. u = Mp2!Collected(t, L) /\ t.ok = 2 /\ t.bitCount + 1 = n
        /\ Prefix(t.header, n - 1) /\ t.first = 0 /\ ~(n < Ones) /\ ~(n < Header)
    BY <1>1, <1>2, <1>3, <1>7, BitIs, Sizes
  <2>2. CASE n < L
    <3>1. /\ u.ok = 2 /\ u.bitCount = n /\ KeepsCount(u, t) /\ KeepsFrame(u, t)
          /\ KeepsRate(u, t)
      BY <1>1, <2>1, <2>2, CollectedIs
    <3>2. Prefix(u.header, n)
      BY <1>1, <1>7, <2>1, <3>1, Sizes DEF Prefix, KeepsFrame
    <3>. QED BY <1>1, <1>3, <2>1, <2>2, <3>1, <3>2
         DEF Sure, KeepsCount, KeepsRate, KeepsFrame, L, u, n
  <2>3. CASE n = L
    <3>1. Mp2!Decodable(t.header)
      BY <1>0, <1>1, <1>7, <2>1, PrefixWhole
    <3>2. /\ u.ok = 0 /\ u.headerCount = 0 /\ KeepsRate(u, t)
          /\ u.all = t.all + 1 /\ u.whole = t.whole + 1
      <4>1. L >= L
        BY <1>1
      <4>. QED BY <1>1, <2>1, <2>3, <3>1, <4>1, CollectedIs DEF L
    <3>. QED BY <1>3, <2>3, <3>2 DEF Sure, KeepsRate, L, u, n
  <2>. QED BY <1>1, <2>2, <2>3
<1>. QED BY <1>1, <1>5, <1>6, <1>7, Sizes
\* The loop over the bits of a DAB frame.
Before == [ok |-> MP2Header_OK, headerCount |-> MP2headerCount,
           bitCount |-> MP2bitCount, first |-> first, header |-> header,
           baudRate |-> baudRate, all |-> 0, whole |-> 0]
Looped(u, v) ==
  /\ u[0] = Before /\ \A i \in 0 .. Mp2!Size : u[i] \in BitStates
  /\ \A i \in 1 .. Mp2!Size :
       u[i] = Mp2!Bit(u[i - 1], v[i], i + Off, Mp2!FrameLength(baudRate))
Leaves(w) ==
  /\ MP2Header_OK' = w.ok /\ MP2headerCount' = w.headerCount
  /\ MP2bitCount' = w.bitCount /\ first' = w.first /\ header' = w.header
  /\ baudRate' = w.baudRate /\ decoded' = [all |-> w.all, whole |-> w.whole]

\* addtoFrame goes through the states u of its loop, one for every bit.
LEMMA FrameAdded ==
  ASSUME Mp2!TypeOK, NEW v \in Seq({0, 1}), Len(v) = Mp2!Size, Mp2!addtoFrame(v)
  PROVE  \E u : Looped(u, v) /\ Leaves(u[Mp2!Size])
<1>. DEFINE n == Len(Mp2!Upto(Mp2!Size))
            lf == Mp2!FrameLength(baudRate)
            step(b, i) == Mp2!Bit(b, v[i], i + Off, lf)
            F == [b \in BitStates |-> [i \in 1 .. n |-> step(b, Mp2!Upto(Mp2!Size)[i])]]
            Is(t) == t = [i \in 0 .. n |-> IF i = 0 THEN Before
                            ELSE step(t[i - 1], Mp2!Upto(Mp2!Size)[i])]
            u == CHOOSE t : Is(t)
<1>1. /\ n = Mp2!Size /\ n \in Nat /\ \A i \in 1 .. n : Mp2!Upto(Mp2!Size)[i] = i
      /\ \A i \in 1 .. n : v[i] \in {0, 1} /\ i + Off \in Int
      /\ lf \in Nat
  BY Sizes DEF Mp2!Upto, Off, Mp2!TypeOK
<1>2. Before \in BitStates
  BY DEF Mp2!TypeOK, Before, BitStates, BaudRates, Mp2!FrameLength
<1>3. Leaves(u[n])
  <2>1. Off = IF half THEN Mp2!Size - 1 ELSE -1
    BY DEF Off
  <2>. QED BY <2>1 DEF Mp2!addtoFrame, Mp2!Along, Leaves, Before
<1>4. \A b \in BitStates, i \in 1 .. n : step(b, Mp2!Upto(Mp2!Size)[i]) \in BitStates
  <2>. HIDE DEF lf, n
  <2>1. SUFFICES ASSUME NEW b \in BitStates, NEW i \in 1 .. n
                 PROVE  step(b, Mp2!Upto(Mp2!Size)[i]) \in BitStates
    OBVIOUS
  <2>2. Mp2!Upto(Mp2!Size)[i] = i /\ v[i] \in {0, 1} /\ i + Off \in Int
    BY <1>1
  <2>3. step(b, i) \in BitStates
    BY <1>1, <2>2, BitIs
  <2>. QED BY <2>2, <2>3
<1>0. \A b \in BitStates, i \in 1 .. n : F[b][i] = step(b, Mp2!Upto(Mp2!Size)[i])
  OBVIOUS
<1>5. F \in [BitStates -> [1 .. n -> BitStates]]
  <2>. HIDE DEF step
  <2>. QED BY <1>4
<1>6. \A i \in 1 .. n : \A b : step(b, Mp2!Upto(Mp2!Size)[i]) = step(b, i)
  BY <1>1
<1>. HIDE DEF F, step, n, lf
<1>7. PICK t : Goes(t, n, BitStates, Before, F)
  BY <1>1, <1>2, <1>5, Rounds
<1>8. Is(t)
  <2>1. \A i \in 1 .. n : t[i - 1] \in BitStates
    BY <1>1, <1>7 DEF Goes
  <2>2. \A i \in 1 .. n : t[i] = step(t[i - 1], Mp2!Upto(Mp2!Size)[i])
    BY <1>0, <1>7, <2>1 DEF Goes
  <2>. QED BY <1>1, <1>7, <2>2 DEF Goes
<1>9. Is(u)
  <2>. HIDE DEF Is
  <2>. QED BY <1>8, Zenon
<1>. HIDE DEF u
<1>10. /\ u[0] = Before
       /\ \A i \in 1 .. n : u[i] = step(u[i - 1], Mp2!Upto(Mp2!Size)[i])
  BY <1>1, <1>9
<1>11. \A i \in 0 .. n : u[i] \in BitStates
  <2>. DEFINE G == {i \in 0 .. n : u[i] \in BitStates}
  <2>1. 0 \in G
    BY <1>1, <1>2, <1>10
  <2>2. ASSUME NEW k \in 0 .. n - 1, k \in G PROVE k + 1 \in G
    <3>1. k + 1 \in 1 .. n /\ (k + 1) - 1 = k /\ k + 1 \in 0 .. n
      BY <1>1
    <3>2. u[k + 1] \in BitStates
      BY <1>4, <1>10, <2>2, <3>1
    <3>. QED BY <3>1, <3>2
  <2>3. \A k \in 0 .. n : k \in G
    <3>. HIDE DEF G
    <3>. QED BY <1>1, <2>1, <2>2, Upwards, Zenon
  <2>. QED BY <2>3
<1>12. \A i \in 1 .. n : u[i] = step(u[i - 1], i)
  BY <1>6, <1>10
<1>13. Looped(u, v)
  BY <1>1, <1>10, <1>11, <1>12 DEF Looped, step, lf
<1>. QED BY <1>1, <1>3, <1>13

\* The mp2Processor begins in its invariant.
LEMMA Mp2Begins == Mp2!Init => Mp2!IInv
<1>. SUFFICES ASSUME Mp2!Init PROVE Mp2!IInv
  OBVIOUS
<1>1. rate \in {48000, 24000}
  BY Mp2Assumption DEF Mp2!Init, Mp2!RatesAssumption
<1>2. Mp2!TypeOK
  <2>1. << >> \in Seq({0, 1})
    OBVIOUS
  <2>2. decoded \in [all : Nat, whole : Nat] /\ decoded.whole <= decoded.all
    BY DEF Mp2!Init
  <2>3. /\ 0 \in 0 .. Mp2!FrameLength(rate) - 1 /\ 0 \in 0 .. 2 * Mp2!Size - 1
        /\ 0 \in 0 .. Ones /\ 0 \in 0 .. 2
    BY Sizes
  <2>4. /\ rate \in Rates /\ half \in BOOLEAN /\ (half => rate = 24000)
        /\ baudRate = 48000 /\ MP2Header_OK = 0 /\ MP2headerCount = 0
        /\ MP2bitCount = 0 /\ first = 0 /\ header = << >> /\ locked = FALSE
    BY DEF Mp2!Init
  <2>5. /\ MP2Header_OK \in 0 .. 2 /\ MP2headerCount \in 0 .. Ones
        /\ MP2bitCount \in 0 .. 2 * Mp2!Size - 1 /\ MP2Header_OK # 1
        /\ first \in 0 .. Mp2!FrameLength(rate) - 1 /\ MP2Header_OK # 2
    BY <2>3, <2>4
  <2>6. header \in Seq({0, 1}) /\ locked \in BOOLEAN /\ baudRate \in {48000, 24000}
    <3>1. header \in Seq({0, 1})
      <4>1. header = << >>
        BY DEF Mp2!Init
      <4>. QED BY <2>1, <4>1
    <3>2. locked \in BOOLEAN
      <4>1. locked = FALSE
        BY DEF Mp2!Init
      <4>. QED BY <4>1
    <3>3. baudRate \in {48000, 24000}
      BY <2>4
    <3>. QED BY <3>1, <3>2, <3>3
  <2>7. /\ rate \in Rates /\ half \in BOOLEAN /\ (half => rate = 24000)
    BY <2>4
  <2>. QED BY <2>2, <2>5, <2>6, <2>7 DEF Mp2!TypeOK
<1>. QED BY <1>2, Sizes
     DEF Mp2!Init, Mp2!IInv, Mp2!Placed, Mp2!Aligned, Mp2!StaysAligned

\* What holds of the bits of a DAB frame that may be damaged.
LEMMA WithinFrame ==
  ASSUME Mp2!IInv, NEW v \in Seq({0, 1}), Len(v) = Mp2!Size, NEW u, Looped(u, v)
  PROVE  \A i \in 0 .. Mp2!Size : Within(u[i], i, Mp2!FrameLength(baudRate))
<1>. DEFINE n == Mp2!Size
            lf == Mp2!FrameLength(baudRate)
            G == {i \in 0 .. n : Within(u[i], i, lf)}
<1>1. Service /\ n \in Nat /\ lf \in {Mp2!Size, 2 * Mp2!Size}
  BY Mp2Assumption, Sizes DEF Service, Mp2!IInv, Mp2!TypeOK, Mp2!RatesAssumption
<1>2. 0 \in G
  <2>1. u[0] = Before
    BY DEF Looped
  <2>2. /\ Before.ok = MP2Header_OK /\ Before.headerCount = MP2headerCount
        /\ Before.bitCount = MP2bitCount /\ Before.first = first
        /\ Before.all = 0 /\ Before.whole = 0 /\ Before.baudRate = baudRate
    BY DEF Before
  <2>3. Bounded(Before)
    BY <2>2, Sizes DEF Bounded, Mp2!IInv, Mp2!TypeOK, Mp2!Placed
  <2>4. PlacedAt(Before, 0)
    <3>1. ASSUME NEW k \in -2 .. 2,
                 first + MP2bitCount = Mp2!Position + k * Mp2!FrameLength(rate)
          PROVE  first + MP2bitCount
                   = Mp2!Position + 0 + k * Mp2!FrameLength(rate)
      <4>1. Mp2!Position + 0 = Mp2!Position
        BY Sizes DEF Mp2!Position
      <4>. QED BY <3>1, <4>1
    <3>. QED BY <2>2, <3>1 DEF PlacedAt, Mp2!IInv, Mp2!Placed
  <2>5. Counting(Before, 0, lf)
    BY <2>2, Sizes DEF Counting
  <2>. QED BY <1>1, <2>1, <2>3, <2>4, <2>5 DEF Within
<1>3. ASSUME NEW k \in 0 .. n - 1, k \in G PROVE k + 1 \in G
  <2>. DEFINE i == k + 1
  <2>1. i \in 1 .. Mp2!Size /\ i - 1 = k /\ i \in 0 .. n
    BY <1>1
  <2>. HIDE DEF i
  <2>2. /\ u[i] = Mp2!Bit(u[i - 1], v[i], i + Off, lf) /\ v[i] \in {0, 1}
        /\ u[i - 1] \in BitStates /\ Within(u[i - 1], i - 1, lf)
    BY <1>3, <2>1 DEF Looped
  <2>. HIDE DEF lf
  <2>3. Bounded(u[i])
    BY <1>1, <2>1, <2>2, BoundedStep DEF Within
  <2>4. PlacedAt(u[i], i)
    BY <1>1, <2>1, <2>2, PlacedStep DEF Within
  <2>5. Counting(u[i], i, lf)
    BY <1>1, <2>1, <2>2, CountingStep
  <2>. QED BY <2>1, <2>3, <2>4, <2>5 DEF Within, i
<1>4. \A k \in 0 .. n : k \in G
  <2>. HIDE DEF G
  <2>. QED BY <1>1, <1>2, <1>3, Upwards, Zenon
<1>. QED BY <1>4

\* What holds of the bits of one that is not.
LEMMA KnownFrame ==
  ASSUME Mp2!IInv, ~half, NEW b \in Bodies, NEW u, Looped(u, Mp2!Bits(b))
  PROVE  \A i \in 0 .. Mp2!Size : Known(u[i], i)
<1>. DEFINE n == Mp2!Size
            v == Mp2!Bits(b)
            lf == Mp2!FrameLength(baudRate)
            G == {i \in 0 .. n : Known(u[i], i)}
<1>1. Service /\ n \in Nat /\ lf \in {Mp2!Size, 2 * Mp2!Size}
  BY Mp2Assumption, Sizes DEF Service, Mp2!IInv, Mp2!TypeOK, Mp2!RatesAssumption
<1>2. /\ v \in Seq({0, 1}) /\ Len(v) = n
      /\ \A i \in 1 .. Header : v[i] = Mp2!HeaderBits[i]
  BY BitsAre
<1>. HIDE DEF v
<1>3. \A i \in 0 .. n : Within(u[i], i, lf)
  BY <1>2, WithinFrame DEF v
<1>4. 0 \in G
  <2>1. u[0] \in BitStates /\ Bounded(u[0])
    BY <1>1, <1>3 DEF Looped, Within
  <2>2. u[0].ok # 0 => u[0].bitCount # 0
    BY <2>1, Sizes DEF Bounded, BitStates
  <2>. QED BY <1>1, <2>2 DEF Known
<1>5. ASSUME NEW k \in 0 .. n - 1, k \in G PROVE k + 1 \in G
  <2>. DEFINE i == k + 1
  <2>1. i \in 1 .. Mp2!Size /\ i - 1 = k /\ i \in 0 .. n
    BY <1>1
  <2>. HIDE DEF i
  <2>2. /\ u[i] = Mp2!Bit(u[i - 1], v[i], i + Off, lf) /\ v[i] \in {0, 1}
        /\ u[i - 1] \in BitStates /\ Bounded(u[i - 1]) /\ Known(u[i - 1], i - 1)
        /\ i <= Header => v[i] = Mp2!HeaderBits[i]
    BY <1>2, <1>3, <1>5, <2>1, Sizes DEF Looped, Within, v
  <2>. HIDE DEF lf
  <2>3. Known(u[i], i)
    BY <1>1, <2>1, <2>2, KnownStep
  <2>. QED BY <2>1, <2>3 DEF i
<1>6. \A k \in 0 .. n : k \in G
  <2>. HIDE DEF G
  <2>. QED BY <1>1, <1>4, <1>5, Upwards, Zenon
<1>. QED BY <1>6

\* What holds of the bits when the search is done.
LEMMA SureFrame ==
  ASSUME Mp2!IInv, locked, NEW b \in Bodies, NEW u, Looped(u, Mp2!Bits(b))
  PROVE  \A i \in 0 .. Mp2!Size : Sure(u[i], Mp2!Position + i)
<1>. DEFINE n == Mp2!Size
            v == Mp2!Bits(b)
            L == Mp2!FrameLength(rate)
            G == {i \in 0 .. n : Sure(u[i], Mp2!Position + i)}
<1>1. Service /\ n \in Nat /\ baudRate = rate /\ Mp2!Position \in Int
  BY Mp2Assumption, Sizes
  DEF Service, Mp2!IInv, Mp2!TypeOK, Mp2!RatesAssumption, Mp2!Aligned, Mp2!Position
<1>2. /\ v \in Seq({0, 1}) /\ Len(v) = n
      /\ ~half => \A i \in 1 .. Header : v[i] = Mp2!HeaderBits[i]
  BY BitsAre
<1>. HIDE DEF v
<1>3. 0 \in G
  <2>1. /\ u[0].ok = MP2Header_OK /\ u[0].headerCount = MP2headerCount
        /\ u[0].bitCount = MP2bitCount /\ u[0].first = first
        /\ u[0].header = header
        /\ u[0].all = 0 /\ u[0].whole = 0 /\ u[0].baudRate = baudRate
    BY DEF Before, Looped
  <2>2. CASE half
    <3>1. /\ Mp2!Position = n /\ n # L /\ ~(n < Ones) /\ ~(n < Header)
          /\ n + 0 = n
      BY <1>1, <2>2, Sizes DEF Service, Mp2!Position, Mp2!FrameLength
    <3>2. Prefix(header, n)
      BY <2>2, <3>1, HeaderBitsAre DEF Prefix, Mp2!IInv, Mp2!Aligned
    <3>3. MP2Header_OK = 2 /\ MP2bitCount = n /\ first = 0
      BY <2>2 DEF Mp2!IInv, Mp2!Aligned
    <3>. QED BY <1>1, <2>1, <3>1, <3>2, <3>3 DEF Sure
  <2>3. CASE ~half
    <3>1. Mp2!Position + 0 = 0 /\ 0 # L /\ 0 < Ones
      BY <1>1, <2>3, Sizes DEF Mp2!Position, Mp2!FrameLength
    <3>2. MP2Header_OK = 0 /\ MP2headerCount = 0
      BY <2>3 DEF Mp2!IInv, Mp2!Aligned
    <3>. QED BY <1>1, <2>1, <3>1, <3>2 DEF Sure
  <2>. QED BY <2>2, <2>3
<1>4. ASSUME NEW k \in 0 .. n - 1, k \in G PROVE k + 1 \in G
  <2>. DEFINE i == k + 1
  <2>1. /\ i \in 1 .. Mp2!Size /\ i - 1 = k /\ i \in 0 .. n
        /\ Mp2!Position + i - 1 = Mp2!Position + k
    BY <1>1
  <2>. HIDE DEF i
  <2>2. /\ u[i] = Mp2!Bit(u[i - 1], v[i], i + Off, L) /\ v[i] \in {0, 1}
        /\ u[i - 1] \in BitStates /\ Sure(u[i - 1], Mp2!Position + i - 1)
        /\ ~half /\ i <= Header => v[i] = Mp2!HeaderBits[i]
    BY <1>1, <1>2, <1>4, <2>1, Sizes DEF Looped, v
  <2>3. Sure(u[i], Mp2!Position + i)
    BY <1>1, <2>1, <2>2, SureStep
  <2>. QED BY <2>1, <2>3 DEF i
<1>5. \A k \in 0 .. n : k \in G
  <2>. HIDE DEF G
  <2>. QED BY <1>1, <1>3, <1>4, Upwards, Zenon
<1>. QED BY <1>5
\* The steps.
LEMMA Mp2Step ==
  ASSUME Mp2!IInv, Mp2!Next
  PROVE  Mp2!IInv'
<1>. DEFINE S == Mp2!Size
            L == Mp2!FrameLength(rate)
            P == Mp2!Position
            lf == Mp2!FrameLength(baudRate)
<1>1. /\ Service /\ baudRate \in {48000, 24000} /\ S \in Nat \ {0}
      /\ L \in {S, 2 * S} /\ L \in Nat /\ P \in Nat /\ S > Header /\ Header > Ones
      /\ Header \in Nat /\ Ones \in Nat \ {0} /\ S \in 0 .. S /\ S \in 1 .. S /\ rate \in Rates
  BY Mp2Assumption, Sizes
  DEF Service, Mp2!IInv, Mp2!TypeOK, Mp2!RatesAssumption, Mp2!Position
<1>2. rate' = rate /\ IF rate = 24000 /\ ~half THEN half' = TRUE ELSE half' = FALSE
  BY DEF Mp2!Next
<1>3. /\ Mp2!FrameLength(rate)' = L /\ Mp2!HeaderBits' = Mp2!HeaderBits
      /\ Mp2!Position' = IF half' THEN S ELSE 0
  <2>1. Mp2!FrameLength(rate)' = L
    BY <1>2 DEF Mp2!FrameLength
  <2>2. Mp2!HeaderBits' = Mp2!HeaderBits
    BY <1>2 DEF Mp2!HeaderBits
  <2>3. Mp2!Position' = IF half' THEN S ELSE 0
    BY DEF Mp2!Position
  <2>. QED BY <2>1, <2>2, <2>3
<1>4. IF half' THEN P = 0 /\ L = 2 * S /\ ~half /\ rate = 24000 ELSE P + S = L
  <2>1. \/ rate = 48000 /\ ~half /\ P = 0 /\ L = S
        \/ rate = 24000 /\ ~half /\ P = 0 /\ L = 2 * S
        \/ rate = 24000 /\ half /\ P = S /\ L = 2 * S
    BY <1>1 DEF Mp2!Position, Mp2!FrameLength, Service
  <2>. HIDE DEF P, L, S
  <2>2. half' <=> rate = 24000 /\ ~half
    BY <1>2
  <2>. QED BY <1>1, <2>1, <2>2
<1>5. PICK v \in Seq({0, 1}) :
        /\ Len(v) = S /\ Mp2!addtoFrame(v)
        /\ \/ /\ locked' = (locked \/ decoded'.whole > 0)
              /\ \E b \in Bodies : v = Mp2!Bits(b)
           \/ locked' = FALSE
  <2>1. CASE Mp2!Intact
    BY <2>1, BitsAre DEF Mp2!Intact
  <2>2. CASE Mp2!Damaged
    BY <2>2, Mp2Assumption DEF Mp2!Damaged, Mp2!NoiseAssumption
  <2>3. Mp2!Intact \/ Mp2!Damaged
    BY DEF Mp2!Next
  <2>. QED BY <2>1, <2>2, <2>3, Zenon
<1>6. PICK u : Looped(u, v) /\ Leaves(u[S])
  BY <1>5, FrameAdded DEF Mp2!IInv
<1>7. \A i \in 0 .. S : Within(u[i], i, lf) /\ u[i] \in BitStates
  BY <1>5, <1>6, WithinFrame DEF Looped
<1>. DEFINE w == u[S]
<1>8. /\ w \in BitStates /\ Bounded(w) /\ PlacedAt(w, S)
      /\ w.ok \in 0 .. 2 /\ w.headerCount \in Nat /\ w.bitCount \in Nat
      /\ w.first \in Int /\ w.header \in Seq({0, 1}) /\ w.baudRate \in {48000, 24000}
      /\ w.all \in Nat /\ w.whole \in Nat
  <2>1. w \in BitStates /\ Bounded(w) /\ PlacedAt(w, S)
    BY <1>1, <1>7 DEF Within
  <2>. HIDE DEF w
  <2>. QED BY <2>1 DEF BitStates, BaudRates
<1>9. /\ MP2Header_OK' = w.ok /\ MP2headerCount' = w.headerCount
      /\ MP2bitCount' = w.bitCount /\ first' = w.first /\ header' = w.header
      /\ baudRate' = w.baudRate /\ decoded' = [all |-> w.all, whole |-> w.whole]
  BY <1>6 DEF Leaves
<1>. HIDE DEF w, L, P, S, lf
<1>10. /\ w.bitCount \in 0 .. 2 * S - 1
       /\ w.first \in 0 .. L - 1 /\ w.whole <= w.all
       /\ w.headerCount \in 0 .. Ones
       /\ w.ok = 1 => w.bitCount \in Ones .. Header - 1
       /\ w.ok = 2 => w.bitCount >= Header
       /\ w.ok = 0 => w.headerCount < Ones /\ w.bitCount = 0
  <2>1. w.ok \in {0, 1, 2}
    BY <1>8
  <2>. QED BY <1>1, <1>8, <2>1 DEF Bounded, S, L
<1>11. locked' \in BOOLEAN
  <2>1. locked \in BOOLEAN
    BY DEF Mp2!IInv, Mp2!TypeOK
  <2>. QED BY <1>5, <2>1
<1>12. Mp2!TypeOK'
  <2>1. decoded' \in [all : Nat, whole : Nat] /\ decoded'.whole <= decoded'.all
    BY <1>8, <1>9, <1>10
  <2>2. /\ rate' \in Rates /\ half' \in BOOLEAN /\ (half' => rate' = 24000)
    <3>1. rate' \in Rates
      BY <1>1, <1>2
    <3>2. half' = TRUE \/ half' = FALSE
      BY <1>2
    <3>3. half' \in BOOLEAN
      BY <3>2
    <3>4. half' => rate' = 24000
      BY <1>2
    <3>. QED BY <3>1, <3>3, <3>4
  <2>3. first' \in 0 .. Mp2!FrameLength(rate)' - 1
    BY <1>3, <1>9, <1>10
  <2>4. MP2bitCount' \in 0 .. 2 * Mp2!Size - 1
    BY <1>9, <1>10 DEF S
  <2>. QED BY <1>8, <1>9, <1>10, <1>11, <2>1, <2>2, <2>3, <2>4 DEF Mp2!TypeOK
<1>13. Mp2!Placed'
  <2>1. w.ok # 0 => \E k \in -2 .. 2 :
          w.first + w.bitCount = Mp2!Position' + k * L
    <3>1. SUFFICES ASSUME w.ok # 0
                   PROVE \E k \in -2 .. 2 : w.first + w.bitCount = Mp2!Position' + k * L
      OBVIOUS
    <3>2. PICK k \in -2 .. 2 : w.first + w.bitCount = P + S + k * L
      BY <1>8, <3>1 DEF PlacedAt, P, S, L
    <3>3. CASE half'
      <4>1. k * L \in Int
        BY <1>1
      <4>2. w.first + w.bitCount = Mp2!Position' + k * L
        BY <1>1, <1>3, <1>4, <1>8, <3>2, <3>3, <4>1
      <4>. QED BY <4>2
    <3>4. CASE ~half'
      <4>1. w.first + w.bitCount < 3 * L
        BY <1>1, <1>8, <1>10
      <4>2. k # 2
        <5>1. 2 * L = L + L
          BY <1>1
        <5>. QED BY <1>1, <1>4, <1>8, <3>2, <3>4, <4>1, <5>1
      <4>3. k + 1 \in -2 .. 2 /\ (k + 1) * L = k * L + L /\ k * L \in Int
        <5>1. \A m \in Int, l \in Int : (m + 1) * l = m * l + l /\ m * l \in Int
          OBVIOUS
        <5>. QED BY <1>1, <4>2, <5>1
      <4>4. w.first + w.bitCount = Mp2!Position' + (k + 1) * L
        BY <1>1, <1>3, <1>4, <1>8, <3>2, <3>4, <4>3
      <4>. QED BY <4>3, <4>4
    <3>. QED BY <1>2, <3>3, <3>4
  <2>. QED BY <1>3, <1>9, <1>10, <2>1 DEF Mp2!Placed
<1>14. locked' =>
         /\ w.baudRate = rate
         /\ IF half' THEN /\ w.ok = 2 /\ w.bitCount = S /\ w.first = 0
                          /\ w.header = Mp2!HeaderBits /\ w.all = 0 /\ w.whole = 0
            ELSE w.ok = 0 /\ w.headerCount = 0 /\ w.all = 1 /\ w.whole = 1
  <2>1. SUFFICES ASSUME locked'
                 PROVE /\ w.baudRate = rate
                       /\ IF half' THEN /\ w.ok = 2 /\ w.bitCount = S /\ w.first = 0
                                        /\ w.header = Mp2!HeaderBits
                                        /\ w.all = 0 /\ w.whole = 0
                          ELSE w.ok = 0 /\ w.headerCount = 0 /\ w.all = 1 /\ w.whole = 1
    OBVIOUS
  <2>2. PICK b \in Bodies : v = Mp2!Bits(b)
    BY <1>5, <2>1
  <2>3. CASE locked
    <3>1. Sure(w, P + S)
      BY <1>1, <1>6, <2>2, <2>3, SureFrame DEF w, P, S
    <3>2. CASE half'
      <4>1. P + S = S /\ S # L /\ ~(S < Ones) /\ ~(S < Header)
        BY <1>1, <1>4, <3>2
      <4>2. /\ w.baudRate = rate /\ w.all = 0 /\ w.whole = 0 /\ w.ok = 2
            /\ w.bitCount = S /\ w.first = 0 /\ Prefix(w.header, S)
        <5>1. Sure(w, S)
          BY <3>1, <4>1
        <5>. QED BY <4>1, <5>1 DEF Sure, L
      <4>3. w.header = Mp2!HeaderBits
        BY <1>1, <1>8, <4>2, PrefixWhole
      <4>. QED BY <3>2, <4>2, <4>3
    <3>3. CASE ~half'
      <4>2. P + S = L
        BY <1>4, <3>3
      <4>1. Sure(w, L)
        BY <3>1, <4>2
      <4>. QED BY <3>3, <4>1 DEF Sure, L
    <3>. QED BY <1>2, <3>2, <3>3
  <2>4. CASE ~locked
    <3>1. w.whole > 0
      <4>1. decoded'.whole = w.whole
        BY <1>9
      <4>2. decoded'.whole > 0
        BY <1>5, <2>1, <2>4, Zenon
      <4>. QED BY <4>1, <4>2
    <3>2. ~half => Known(u[S - 1], S - 1)
      BY <1>1, <1>6, <2>2, KnownFrame DEF S
    <3>3. Within(u[S - 1], S - 1, lf) /\ u[S - 1] \in BitStates
      BY <1>1, <1>7
    <3>4. w = Mp2!Bit(u[S - 1], v[S], S + Off, lf) /\ v[S] \in {0, 1}
      BY <1>1, <1>5, <1>6 DEF Looped, w, lf, S
    <3>5. /\ w.ok = 0 /\ w.headerCount = 0 /\ w.all = 1 /\ w.whole = 1
          /\ w.baudRate = rate /\ P + S = L
      BY <1>1, <3>1, <3>2, <3>3, <3>4, Locks DEF lf, S, L, P
    <3>6. ~half'
      BY <1>1, <1>4, <3>5
    <3>. QED BY <3>5, <3>6
  <2>. QED BY <2>3, <2>4
<1>15. Mp2!Aligned' /\ Mp2!StaysAligned'
  BY <1>2, <1>3, <1>9, <1>14 DEF Mp2!Aligned, Mp2!StaysAligned, S
<1>. QED BY <1>12, <1>13, <1>15 DEF Mp2!IInv

(***************************************************************************)
(* MOT objects.                                                            *)
(***************************************************************************)
Mot == INSTANCE MotObject

\* The operators of MotObject are the same ones wherever it is used.
LEMMA SameSize ==
  ASSUME NEW S
  PROVE  /\ Mot!Cardinality(S) = Cardinality(S)
         /\ Data!M!Cardinality(S) = Cardinality(S)
         /\ Pad!M!Cardinality(S) = Cardinality(S)
BY Zenon DEF Mot!Cardinality, Mot!IsFiniteSet, Data!M!Cardinality, Data!M!IsFiniteSet,
   Pad!M!Cardinality, Pad!M!IsFiniteSet, Cardinality, IsFiniteSet

LEMMA SameNumbers == /\ Data!M!SegmentNumbers = Mot!SegmentNumbers
                     /\ Pad!M!SegmentNumbers = Mot!SegmentNumbers
BY DEF Data!M!SegmentNumbers, Pad!M!SegmentNumbers, Mot!SegmentNumbers

LEMMA SegmentNumber ==
  ASSUME NEW x, x \in Mot!SegmentNumbers
  PROVE  x \in Nat
BY DEF Mot!SegmentNumbers

\* An instance of MotObject in another module means the same.
LEMMA DataMot ==
  ASSUME NEW o, NEW s, NEW w, NEW N, NEW B
  PROVE  /\ Data!M!addBodySegment(o, s) = Mot!addBodySegment(o, s)
         /\ Data!M!handleComplete(o, s) = Mot!handleComplete(o, s)
         /\ Data!M!PartOf(o, w) = Mot!PartOf(o, w)
         /\ Data!M!InOrder(w) = Mot!InOrder(w)
         /\ Data!M!Objects(N, B) = Mot!Objects(N, B)
<1>1. Data!M!addBodySegment(o, s) = Mot!addBodySegment(o, s)
  BY SameNumbers, Zenon DEF Data!M!addBodySegment, Mot!addBodySegment, Data!M!Accepts,
     Mot!Accepts
<1>2. Data!M!handleComplete(o, s) = Mot!handleComplete(o, s)
  <2>. DEFINE n == Mot!addBodySegment(o, s)
  <2>1. Data!M!result(n) = Mot!result(n)
    BY Zenon DEF Data!M!result, Mot!result, Data!M!Before, Mot!Before,
       Data!M!Cardinality, Mot!Cardinality, Data!M!IsFiniteSet, Mot!IsFiniteSet
  <2>2. Data!M!Accepts(o, s) <=> Mot!Accepts(o, s)
    BY SameNumbers, Zenon DEF Data!M!Accepts, Mot!Accepts
  <2>3. Data!M!Complete(n) <=> Mot!Complete(n)
    BY Zenon DEF Data!M!Complete, Mot!Complete
  <2>4. Data!M!addBodySegment(o, s) = n
    BY <1>1, Zenon
  <2>. HIDE DEF n
  <2>5. CASE ~Mot!Accepts(o, s) \/ ~Mot!Complete(n) \/ n.content = "epg"
    BY <2>2, <2>3, <2>4, <2>5, Zenon DEF Data!M!handleComplete, Mot!handleComplete, n
  <2>6. CASE Mot!Accepts(o, s) /\ Mot!Complete(n) /\ n.content # "epg"
    BY <2>1, <2>2, <2>3, <2>4, <2>6, Zenon
       DEF Data!M!handleComplete, Mot!handleComplete, n
  <2>. QED BY <2>5, <2>6, Zenon
<1>3. Data!M!PartOf(o, w) = Mot!PartOf(o, w)
  BY Zenon DEF Data!M!PartOf, Mot!PartOf
<1>4. Data!M!InOrder(w) = Mot!InOrder(w)
  BY Zenon DEF Data!M!InOrder, Mot!InOrder, Data!M!Cardinality, Mot!Cardinality,
     Data!M!IsFiniteSet, Mot!IsFiniteSet
<1>5. Data!M!Objects(N, B) = Mot!Objects(N, B)
  BY Zenon DEF Data!M!Objects, Mot!Objects, Data!M!Contents, Mot!Contents
<1>. QED BY <1>1, <1>2, <1>3, <1>4, <1>5, Zenon

LEMMA PadMot ==
  ASSUME NEW o, NEW s, NEW w, NEW N, NEW B
  PROVE  /\ Pad!M!addBodySegment(o, s) = Mot!addBodySegment(o, s)
         /\ Pad!M!handleComplete(o, s) = Mot!handleComplete(o, s)
         /\ Pad!M!PartOf(o, w) = Mot!PartOf(o, w)
         /\ Pad!M!InOrder(w) = Mot!InOrder(w)
         /\ Pad!M!Objects(N, B) = Mot!Objects(N, B)
<1>1. Pad!M!addBodySegment(o, s) = Mot!addBodySegment(o, s)
  BY SameNumbers, Zenon DEF Pad!M!addBodySegment, Mot!addBodySegment, Pad!M!Accepts,
     Mot!Accepts
<1>2. Pad!M!handleComplete(o, s) = Mot!handleComplete(o, s)
  <2>. DEFINE n == Mot!addBodySegment(o, s)
  <2>1. Pad!M!result(n) = Mot!result(n)
    BY Zenon DEF Pad!M!result, Mot!result, Pad!M!Before, Mot!Before,
       Pad!M!Cardinality, Mot!Cardinality, Pad!M!IsFiniteSet, Mot!IsFiniteSet
  <2>2. Pad!M!Accepts(o, s) <=> Mot!Accepts(o, s)
    BY SameNumbers, Zenon DEF Pad!M!Accepts, Mot!Accepts
  <2>3. Pad!M!Complete(n) <=> Mot!Complete(n)
    BY Zenon DEF Pad!M!Complete, Mot!Complete
  <2>4. Pad!M!addBodySegment(o, s) = n
    BY <1>1, Zenon
  <2>. HIDE DEF n
  <2>5. CASE ~Mot!Accepts(o, s) \/ ~Mot!Complete(n) \/ n.content = "epg"
    BY <2>2, <2>3, <2>4, <2>5, Zenon DEF Pad!M!handleComplete, Mot!handleComplete, n
  <2>6. CASE Mot!Accepts(o, s) /\ Mot!Complete(n) /\ n.content # "epg"
    BY <2>1, <2>2, <2>3, <2>4, <2>6, Zenon
       DEF Pad!M!handleComplete, Mot!handleComplete, n
  <2>. QED BY <2>5, <2>6, Zenon
<1>3. Pad!M!PartOf(o, w) = Mot!PartOf(o, w)
  BY Zenon DEF Pad!M!PartOf, Mot!PartOf
<1>4. Pad!M!InOrder(w) = Mot!InOrder(w)
  BY Zenon DEF Pad!M!InOrder, Mot!InOrder, Pad!M!Cardinality, Mot!Cardinality,
     Pad!M!IsFiniteSet, Mot!IsFiniteSet
<1>5. Pad!M!Objects(N, B) = Mot!Objects(N, B)
  BY Zenon DEF Pad!M!Objects, Mot!Objects, Pad!M!Contents, Mot!Contents
<1>. QED BY <1>1, <1>2, <1>3, <1>4, <1>5, Zenon

\* The numbers below n come first among those of 0 .. size - 1.
LEMMA Result ==
  ASSUME NEW N, NEW B, NEW o \in Mot!Objects(N, B), NEW whole,
         Mot!PartOf(o, whole), Mot!Complete(o)
  PROVE  Mot!result(o) = Mot!InOrder(whole)
<1>. DEFINE size == o.numofSegments
            map  == o.motMap
<1>1. size \in Nat /\ DOMAIN whole = 0 .. size - 1 /\ DOMAIN map = 0 .. size - 1
  BY DEF Mot!Objects, Mot!PartOf, Mot!Complete
<1>2. \A n \in 0 .. size - 1 : map[n] = whole[n]
  BY <1>1 DEF Mot!PartOf
<1>3. Cardinality(0 .. size - 1) = size
  <2>1. 0 \in Int /\ size - 1 \in Int
    BY <1>1
  <2>. HIDE DEF size
  <2>2. Cardinality(0 .. size - 1) = IF 0 > size - 1 THEN 0 ELSE (size - 1) - 0 + 1
    BY <2>1, FS_Interval, Zenon
  <2>. QED BY <1>1, <2>2
<1>4. ASSUME NEW n \in 0 .. size - 1 PROVE Cardinality(Mot!Before(o, n)) = n
  <2>1. Mot!Before(o, n) = 0 .. n - 1
    BY <1>1 DEF Mot!Before
  <2>2. 0 \in Int /\ n - 1 \in Int /\ n \in Nat
    BY <1>1
  <2>3. Cardinality(0 .. n - 1) = IF 0 > n - 1 THEN 0 ELSE (n - 1) - 0 + 1
    BY <2>2, FS_Interval, Zenon
  <2>. QED BY <2>1, <2>2, <2>3
<1>5. ASSUME NEW k \in 1 .. size
      PROVE  map[CHOOSE n \in DOMAIN map : Mot!Cardinality(Mot!Before(o, n)) = k - 1]
               = whole[k - 1]
  <2>. DEFINE c == CHOOSE n \in DOMAIN map : Mot!Cardinality(Mot!Before(o, n)) = k - 1
  <2>1. k - 1 \in 0 .. size - 1
    BY <1>1
  <2>2. Mot!Cardinality(Mot!Before(o, k - 1)) = k - 1
    BY <1>4, <2>1, SameSize, Zenon
  <2>3. c \in DOMAIN map /\ Mot!Cardinality(Mot!Before(o, c)) = k - 1
    BY <1>1, <2>1, <2>2, Zenon
  <2>4. Cardinality(Mot!Before(o, c)) = c
    BY <1>1, <1>4, <2>3, Zenon
  <2>5. c = k - 1
    BY <2>3, <2>4, SameSize, Zenon
  <2>. HIDE DEF c
  <2>6. map[c] = whole[k - 1]
    BY <1>2, <2>1, <2>5, Zenon
  <2>. QED BY <2>6 DEF c
<1>6. /\ Mot!Cardinality(DOMAIN map) = size /\ Mot!Cardinality(DOMAIN whole) = size
  BY <1>1, <1>3, SameSize, Zenon
<1>7. Mot!result(o) = [k \in 1 .. size |->
        map[CHOOSE n \in DOMAIN map : Mot!Cardinality(Mot!Before(o, n)) = k - 1]]
  BY <1>6, Zenon DEF Mot!result
<1>8. Mot!InOrder(whole) = [j \in 1 .. size |-> whole[j - 1]]
  BY <1>6, Zenon DEF Mot!InOrder
<1>. HIDE DEF size, map
<1>. QED BY <1>5, <1>7, <1>8, Zenon

\* A segment of the object that is sent, and one that it accepts.
SegmentOf(s, whole) ==
  /\ s.segmentNumber \in DOMAIN whole /\ s.body = whole[s.segmentNumber]
  /\ s.lastFlag => DOMAIN whole = 0 .. s.segmentNumber

\* A segment of the object leaves a part of it a part of it.
LEMMA SegmentAdded ==
  ASSUME NEW N \in SUBSET Nat, NEW B, NEW o \in Mot!Objects(N, B), NEW whole,
         NEW s, s.segmentNumber \in N, s.body \in B, s.lastFlag \in BOOLEAN,
         Mot!PartOf(o, whole), SegmentOf(s, whole)
  PROVE  /\ Mot!addBodySegment(o, s) \in Mot!Objects(N, B)
         /\ Mot!addBodySegment(o, s).transportId = o.transportId
         /\ Mot!PartOf(Mot!addBodySegment(o, s), whole)
<1>1. CASE ~Mot!Accepts(o, s)
  BY <1>1 DEF Mot!addBodySegment
<1>2. CASE Mot!Accepts(o, s)
  <2>. DEFINE k == s.segmentNumber
              D == DOMAIN o.motMap
              map == [n \in D \cup {k} |-> IF n \in D THEN o.motMap[n] ELSE s.body]
              size == IF s.lastFlag THEN k + 1 ELSE o.numofSegments
              p == [o EXCEPT !.motMap = map, !.numofSegments = size]
  <2>1. Mot!addBodySegment(o, s) = p
    BY <1>2, Zenon DEF Mot!addBodySegment
  <2>2. D \in SUBSET N /\ o.motMap \in [D -> B]
    BY DEF Mot!Objects
  <2>3. map \in [D \cup {k} -> B] /\ D \cup {k} \in SUBSET N
    <3>1. \A n \in D \cup {k} : (IF n \in D THEN o.motMap[n] ELSE s.body) \in B
      BY <2>2
    <3>. QED BY <2>2, <3>1
  <2>4. size \in Nat \cup {-1}
    <3>1. o.numofSegments \in Nat \cup {-1} /\ k \in Nat
      BY DEF Mot!Objects
    <3>. QED BY <3>1
  <2>. HIDE DEF map, size
  <2>5. map \in UNION {[S -> B] : S \in SUBSET N}
    BY <2>3, Zenon
  <2>6. p \in Mot!Objects(N, B)
    BY <2>4, <2>5 DEF Mot!Objects
  <2>7. p.transportId = o.transportId /\ p.motMap = map /\ p.numofSegments = size
    BY DEF Mot!Objects
  <2>8. DOMAIN map = D \cup {k} /\ \A n \in DOMAIN map :
                       map[n] = IF n \in D THEN o.motMap[n] ELSE s.body
    BY Zenon DEF map
  <2>. HIDE DEF p
  <2>9. Mot!PartOf(p, whole)
    <3>1. DOMAIN map \subseteq DOMAIN whole /\ \A n \in DOMAIN map : map[n] = whole[n]
      BY <2>8 DEF Mot!PartOf, SegmentOf
    <3>2. size # -1 => DOMAIN whole = 0 .. size - 1
      <4>1. k \in Nat
        BY Zenon
      <4>2. (k + 1) - 1 = k
        BY <4>1
      <4>. QED BY <4>1, <4>2 DEF size, Mot!PartOf, SegmentOf
    <3>. QED BY <2>7, <3>1, <3>2 DEF Mot!PartOf
  <2>. QED BY <2>1, <2>6, <2>7, <2>9, Zenon
<1>. QED BY <1>1, <1>2

\* What a segment completes is handed on as it was sent.
LEMMA HandedOn ==
  ASSUME NEW N \in SUBSET Nat, NEW B, NEW o \in Mot!Objects(N, B), NEW whole,
         NEW s, s.segmentNumber \in N, s.body \in B, s.lastFlag \in BOOLEAN,
         Mot!PartOf(o, whole), SegmentOf(s, whole),
         NEW x \in Mot!handleComplete(o, s)
  PROVE  x.transportId = o.transportId /\ x.result = Mot!InOrder(whole)
<1>. DEFINE n == Mot!addBodySegment(o, s)
<1>1. /\ n \in Mot!Objects(N, B) /\ n.transportId = o.transportId
      /\ Mot!PartOf(n, whole)
  BY SegmentAdded
<1>2. /\ Mot!Complete(n)
      /\ x = [transportId |-> n.transportId, result |-> Mot!result(n),
              to |-> IF n.content = "slide" /\ ~n.dirElement THEN "screen"
                     ELSE "file"]
  BY DEF Mot!handleComplete
<1>. HIDE DEF n
<1>3. Mot!result(n) = Mot!InOrder(whole)
  BY <1>1, <1>2, Result, Zenon
<1>. QED BY <1>1, <1>2, <1>3

\* The first n elements of a sequence.
LEMMA Beginning ==
  ASSUME NEW S, NEW seq \in Seq(S), NEW n \in Int, n <= Len(seq)
  PROVE  SubSeq(seq, 1, n) \in Seq(S) /\ Len(SubSeq(seq, 1, n)) = IF n > 0 THEN n ELSE 0
<1>1. \A i \in 1 .. n : seq[i] \in S
  BY LenProperties, ElementOfSeq
<1>2. /\ SubSeq(seq, 1, n) \in Seq(S)
      /\ Len(SubSeq(seq, 1, n)) = IF 1 <= n THEN n - 1 + 1 ELSE 0
  BY <1>1, SubSeqProperties
<1>. QED BY <1>2

(***************************************************************************)
(* Packets: objects and files of a data service.                           *)
(***************************************************************************)
\* Slides and files that are parts of what is sent, and directories of such.
DataGood == {o \in Data!MotObjects : Data!Sound(o)}
DataDirs == [transportId : Nat, marked : SUBSET Nat,
             num_dirSegments : Nat \cup {-1}, motComponents : Seq(DataGood)]
DataInv ==
  /\ motTable \in Seq(DataGood) /\ Len(motTable) <= TableSize
  /\ theDirectory \in Seq(DataDirs) /\ Len(theDirectory) <= 1
  /\ Data!PicturesWhole

\* What the headers of the data groups say.
LEMMA GroupIs ==
  ASSUME NEW k \in DOMAIN Carousel
  PROVE  /\ Carousel[k].parts \in Nat \ {0} /\ Carousel[k].crcFlag \in BOOLEAN
         /\ Carousel[k].groupType \in Data!GroupTypes /\ Carousel[k].transportId \in Nat
         /\ Carousel[k].segmentNumber \in Data!M!SegmentNumbers
         /\ Carousel[k].lastFlag \in BOOLEAN
         /\ Carousel[k].groupType = 3 => Carousel[k].content \in Data!M!Contents
         /\ Carousel[k].groupType = 6 => Carousel[k].content \in Seq(Data!Entries)
<1>. DEFINE g == Carousel[k]
<1>1. /\ g.parts \in Nat \ {0} /\ g.crcFlag \in BOOLEAN
      /\ g.groupType \in Data!GroupTypes /\ g.transportId \in Nat
      /\ g.segmentNumber \in Data!M!SegmentNumbers /\ g.lastFlag \in BOOLEAN
      /\ g.groupType = 3 => g.content \in Data!M!Contents
      /\ g.groupType = 6 => g.content \in Seq(Data!Entries)
  <2>1. Data!CarouselAssumption
    BY DataAssumption, Zenon
  <2>. QED BY <2>1, Zenon DEF Data!CarouselAssumption
<1>. HIDE DEF g
<1>. QED BY <1>1, Zenon DEF g

LEMMA NumbersAre == Data!Numbers \in SUBSET Nat
<1>1. ASSUME NEW k \in DOMAIN Carousel PROVE Carousel[k].segmentNumber \in Nat
  <2>1. Carousel[k].segmentNumber \in Data!M!SegmentNumbers
    BY GroupIs, Zenon
  <2>. QED BY <2>1, SameNumbers, SegmentNumber, Zenon
<1>. QED BY <1>1, Zenon DEF Data!Numbers

\* A data group is the segment of its number of the object it belongs to.
LEMMA BodyIs ==
  ASSUME NEW k \in DOMAIN Carousel, Carousel[k].groupType = 4
  PROVE  /\ Carousel[k].crcFlag
         /\ SegmentOf([segmentNumber |-> Carousel[k].segmentNumber,
                       lastFlag |-> Carousel[k].lastFlag, body |-> Data!Parts(k)],
                      Data!Object(Carousel[k].transportId))
<1>. DEFINE tid == Carousel[k].transportId
            n   == Carousel[k].segmentNumber
<1>1. k \in Data!BodyGroups(tid) /\ n \in Data!Segments(tid)
  BY DEF Data!BodyGroups, Data!Segments
<1>2. /\ Carousel[k].crcFlag
      /\ Carousel[k].lastFlag => Data!Segments(tid) = 0 .. n
      /\ \A l \in Data!BodyGroups(tid) : Carousel[l].segmentNumber = n => l = k
  BY DataAssumption, Zenon DEF Data!SegmentsAssumption
<1>3. Data!Group(tid, n) = k
  BY <1>1, <1>2, Zenon DEF Data!Group
<1>4. /\ DOMAIN Data!Object(tid) = Data!Segments(tid)
      /\ Data!Object(tid)[n] = Data!Parts(k)
  BY <1>1, <1>3, Zenon DEF Data!Object
<1>. HIDE DEF tid, n
<1>. DEFINE s == [segmentNumber |-> n, lastFlag |-> Carousel[k].lastFlag,
                  body |-> Data!Parts(k)]
<1>5. s.segmentNumber = n /\ s.body = Data!Parts(k) /\ s.lastFlag = Carousel[k].lastFlag
  OBVIOUS
<1>. HIDE DEF s
<1>6. SegmentOf(s, Data!Object(tid))
  BY <1>1, <1>2, <1>4, <1>5, Zenon DEF SegmentOf
<1>. QED BY <1>2, <1>6, Zenon DEF s, tid, n

\* A new object.
LEMMA NewIsGood ==
  ASSUME NEW tid \in Nat \cup {-1}, NEW content \in Data!M!Contents, NEW b \in BOOLEAN
  PROVE  Data!M!motObject(tid, content, b) \in DataGood
<1>. DEFINE o == Data!M!motObject(tid, content, b)
            B == {Data!Parts(k) : k \in DOMAIN Carousel}
<1>1. << >> \in [{} -> B]
  OBVIOUS
<1>2. {} \in SUBSET Data!Numbers
  OBVIOUS
<1>3. << >> \in UNION {[N -> B] : N \in SUBSET Data!Numbers}
  BY <1>1, <1>2, Zenon
<1>. HIDE DEF B
<1>4. o \in Data!M!Objects(Data!Numbers, B)
  BY <1>3 DEF Data!M!Objects, Data!M!motObject
<1>5. o.motMap = << >> /\ o.numofSegments = -1
  BY DEF Data!M!motObject
<1>. HIDE DEF o
<1>6. DOMAIN o.motMap = {}
  <2>1. DOMAIN << >> = {}
    OBVIOUS
  <2>. QED BY <1>5, <2>1, Zenon
<1>7. Data!Sound(o)
  BY <1>5, <1>6 DEF Data!Sound, Data!M!PartOf
<1>. QED BY <1>4, <1>7, Zenon DEF DataGood, Data!MotObjects, B, o

\* A header begins a slide, the oldest one goes when the table is full.
LEMMA HeaderStep ==
  ASSUME DataInv, NEW k \in DOMAIN Carousel, Carousel[k].groupType = 3,
         Data!HeaderSegment(Carousel[k])
  PROVE  DataInv'
<1>. DEFINE g == Carousel[k]
            o == Data!M!motObject(g.transportId, g.content, FALSE)
            kept == IF Len(motTable) < TableSize THEN motTable ELSE Tail(motTable)
<1>1. o \in DataGood
  <2>1. g.transportId \in Nat \cup {-1} /\ g.content \in Data!M!Contents
    BY GroupIs, Zenon
  <2>. QED BY <2>1, NewIsGood, FALSE \in BOOLEAN, Zenon
<1>. HIDE DEF o
<1>2. TableSize \in Nat \ {0}
  BY DataAssumption, Zenon DEF Data!BoundAssumption
<1>3. motTable \in Seq(DataGood) /\ Len(motTable) <= TableSize
  BY Zenon DEF DataInv
<1>4. kept \in Seq(DataGood) /\ Len(kept) + 1 <= TableSize
  <2>1. CASE Len(motTable) < TableSize
    BY <1>2, <1>3, <2>1, LenProperties
  <2>2. CASE ~(Len(motTable) < TableSize)
    <3>1. Len(motTable) = TableSize /\ motTable # << >>
      BY <1>2, <1>3, <2>2, LenProperties
    <3>2. Tail(motTable) \in Seq(DataGood) /\ Len(Tail(motTable)) = Len(motTable) - 1
      BY <1>3, <3>1, HeadTailProperties
    <3>. QED BY <1>2, <2>2, <3>1, <3>2
  <2>. QED BY <2>1, <2>2
<1>. HIDE DEF kept
<1>5. Append(kept, o) \in Seq(DataGood) /\ Len(Append(kept, o)) <= TableSize
  BY <1>1, <1>4, AppendProperties
<1>6. motTable' = Append(kept, o) \/ motTable' = motTable
  BY Zenon DEF Data!HeaderSegment, Data!setHandle, kept, o
<1>7. motTable' \in Seq(DataGood) /\ Len(motTable') <= TableSize
  BY <1>3, <1>5, <1>6, Zenon
<1>8. theDirectory' = theDirectory /\ pictures' = pictures
  BY Zenon DEF Data!HeaderSegment
<1>. QED BY <1>7, <1>8, Zenon DEF DataInv, Data!PicturesWhole

\* The first one of those in seq that are of this object.
LEMMA FirstWith ==
  ASSUME NEW S, NEW seq \in Seq(S), NEW tid, Data!With(seq, tid) # {}
  PROVE  /\ Data!Min(Data!With(seq, tid)) \in 1 .. Len(seq)
         /\ seq[Data!Min(Data!With(seq, tid))].transportId = tid
<1>. DEFINE W == Data!With(seq, tid)
<1>1. W \in SUBSET (1 .. Len(seq)) /\ \A i \in W : seq[i].transportId = tid
  BY LenProperties DEF Data!With
<1>2. W \in SUBSET Nat
  BY <1>1, LenProperties
<1>. HIDE DEF W
<1>3. PICK m \in W : \A n \in W : m <= n
  BY <1>2, Least, Zenon DEF W
<1>4. Data!Min(W) \in W
  BY <1>3, Zenon DEF Data!Min
<1>. QED BY <1>1, <1>4, Zenon DEF W

\* A data group that is a segment of the object it belongs to.
LEMMA SegmentKeeps ==
  ASSUME NEW k \in DOMAIN Carousel, Carousel[k].groupType = 4,
         NEW o \in DataGood, o.transportId = Carousel[k].transportId,
         NEW s, s = [segmentNumber |-> Carousel[k].segmentNumber,
                     lastFlag |-> Carousel[k].lastFlag, body |-> Data!Parts(k)]
  PROVE  /\ Data!M!addBodySegment(o, s) \in DataGood
         /\ \A x \in Data!M!handleComplete(o, s) :
              x.result = Data!M!InOrder(Data!Object(x.transportId))
<1>. DEFINE N == Data!Numbers
            B == {Data!Parts(l) : l \in DOMAIN Carousel}
            whole == Data!Object(o.transportId)
            a == Mot!addBodySegment(o, s)
<1>1. s.segmentNumber = Carousel[k].segmentNumber /\ s.lastFlag = Carousel[k].lastFlag
      /\ s.body = Data!Parts(k)
  OBVIOUS
<1>2. SegmentOf(s, whole)
  BY BodyIs, Zenon
<1>3. s.segmentNumber \in N /\ s.body \in B /\ s.lastFlag \in BOOLEAN
  BY <1>1, GroupIs, Zenon DEF Data!Numbers
<1>4. o \in Mot!Objects(N, B) /\ Mot!PartOf(o, whole)
  BY DataMot, Zenon DEF DataGood, Data!MotObjects, Data!Sound
<1>. HIDE DEF N, B, whole
<1>5. N \in SUBSET Nat
  BY NumbersAre, Zenon DEF N
<1>6. a \in Mot!Objects(N, B) /\ a.transportId = o.transportId /\ Mot!PartOf(a, whole)
  BY <1>2, <1>3, <1>4, <1>5, SegmentAdded
<1>7. ASSUME NEW x \in Mot!handleComplete(o, s)
      PROVE  x.transportId = o.transportId /\ x.result = Mot!InOrder(whole)
  BY <1>2, <1>3, <1>4, <1>5, HandedOn
<1>8. a \in DataGood
  BY <1>6, DataMot, Zenon DEF DataGood, Data!MotObjects, Data!Sound, N, B, whole
<1>9. \A x \in Data!M!handleComplete(o, s) :
        x.result = Data!M!InOrder(Data!Object(x.transportId))
  BY <1>7, DataMot, Zenon DEF whole
<1>. QED BY <1>8, <1>9, DataMot, Zenon

\* A data group with a segment of a slide or of a file of the directory.
LEMMA BodyStep ==
  ASSUME DataInv, NEW k \in DOMAIN Carousel, Carousel[k].groupType = 4,
         Data!BodySegment(Carousel[k], Data!Parts(k))
  PROVE  DataInv'
<1>. DEFINE g == Carousel[k]
            s == [segmentNumber |-> g.segmentNumber, lastFlag |-> g.lastFlag,
                  body |-> Data!Parts(k)]
            At(seq) == Data!Min(Data!With(seq, g.transportId))
            Add(seq) == [seq EXCEPT ![At(seq)] = Data!M!addBodySegment(seq[At(seq)], s)]
            Done(seq) == Data!M!handleComplete(seq[At(seq)], s)
<1>1. ASSUME NEW seq \in Seq(DataGood), Data!With(seq, g.transportId) # {}
      PROVE  /\ Add(seq) \in Seq(DataGood) /\ Len(Add(seq)) = Len(seq)
             /\ \A x \in Done(seq) :
                  x.result = Data!M!InOrder(Data!Object(x.transportId))
  <2>1. At(seq) \in 1 .. Len(seq) /\ seq[At(seq)].transportId = g.transportId
    BY <1>1, FirstWith, Zenon
  <2>2. seq[At(seq)] \in DataGood
    BY <2>1, ElementOfSeq, Zenon
  <2>3. /\ Data!M!addBodySegment(seq[At(seq)], s) \in DataGood
        /\ \A x \in Done(seq) : x.result = Data!M!InOrder(Data!Object(x.transportId))
    BY <2>1, <2>2, SegmentKeeps, Zenon
  <2>. DEFINE i == At(seq)
              e == Data!M!addBodySegment(seq[i], s)
  <2>4. i \in 1 .. Len(seq) /\ e \in DataGood
    BY <2>1, <2>3, Zenon
  <2>. HIDE DEF i, e
  <2>5. [seq EXCEPT ![i] = e] \in Seq(DataGood) /\ Len([seq EXCEPT ![i] = e]) = Len(seq)
    BY <2>4, ExceptSeq
  <2>. QED BY <2>3, <2>5, Zenon DEF i, e
<1>. HIDE DEF s
<1>2. /\ motTable \in Seq(DataGood) /\ Len(motTable) <= TableSize
      /\ theDirectory \in Seq(DataDirs) /\ Len(theDirectory) <= 1
      /\ Data!PicturesWhole
  BY Zenon DEF DataInv
<1>3. ASSUME NEW seq \in Seq(DataGood), Data!With(seq, g.transportId) # {},
             pictures' = pictures \cup Done(seq)
      PROVE  Data!PicturesWhole'
  <2>1. \A x \in Done(seq) : x.result = Data!M!InOrder(Data!Object(x.transportId))
    BY <1>1, <1>3, Zenon
  <2>. HIDE DEF Done
  <2>. QED BY <1>2, <1>3, <2>1, Zenon DEF Data!PicturesWhole
<1>4. CASE Data!InTable(g.transportId)
  <2>1. /\ motTable' = Add(motTable) /\ pictures' = pictures \cup Done(motTable)
        /\ theDirectory' = theDirectory
    BY <1>4, Zenon DEF Data!BodySegment, s
  <2>2. motTable \in Seq(DataGood) /\ Data!With(motTable, g.transportId) # {}
    BY <1>2, <1>4, Zenon DEF Data!InTable
  <2>3. motTable' \in Seq(DataGood) /\ Len(motTable') = Len(motTable)
    BY <1>1, <2>1, <2>2, Zenon
  <2>4. Data!PicturesWhole'
    BY <1>3, <2>1, <2>2, Zenon
  <2>. HIDE DEF Add, Done
  <2>. QED BY <1>2, <2>1, <2>3, <2>4, Zenon DEF DataInv
<1>5. CASE ~Data!InTable(g.transportId) /\ Data!getHandle(g.transportId)
  <2>1. /\ theDirectory' = [theDirectory EXCEPT
                             ![1].motComponents = Add(theDirectory[1].motComponents)]
        /\ pictures' = pictures \cup Done(Data!dirObjects)
        /\ motTable' = motTable
    BY <1>5, Zenon DEF Data!BodySegment, s
  <2>. DEFINE d == theDirectory[1]
  <2>2. Data!With(Data!dirObjects, g.transportId) # {}
    BY <1>5, Zenon DEF Data!getHandle
  <2>3. theDirectory # << >>
    BY <2>2 DEF Data!dirObjects, Data!With
  <2>4. 1 \in 1 .. Len(theDirectory) /\ d \in DataDirs
    BY <1>2, <2>3, EmptySeq, ElementOfSeq
  <2>5. d.motComponents \in Seq(DataGood) /\ Data!dirObjects = d.motComponents
    BY <2>3, <2>4 DEF DataDirs, Data!dirObjects
  <2>6. Add(d.motComponents) \in Seq(DataGood)
    BY <1>1, <2>2, <2>5, Zenon
  <2>. DEFINE m == Add(d.motComponents)
              e == [d EXCEPT !.motComponents = m]
  <2>. HIDE DEF m, d
  <2>7. e \in DataDirs
    BY <2>4, <2>6 DEF DataDirs, m
  <2>8. theDirectory' = [theDirectory EXCEPT ![1] = e]
    BY <2>1, Zenon DEF m, d
  <2>. HIDE DEF e
  <2>9. theDirectory' \in Seq(DataDirs) /\ Len(theDirectory') = Len(theDirectory)
    BY <1>2, <2>4, <2>7, <2>8, ExceptSeq
  <2>10. Data!PicturesWhole'
    BY <1>3, <2>1, <2>2, <2>5, Zenon
  <2>. HIDE DEF Add, Done
  <2>. QED BY <1>2, <2>1, <2>9, <2>10, Zenon DEF DataInv
<1>6. CASE ~Data!getHandle(g.transportId)
  <2>1. ~Data!InTable(g.transportId)
    BY <1>6, Zenon DEF Data!getHandle
  <2>2. UNCHANGED Data!objects
    BY <1>6, <2>1, Zenon DEF Data!BodySegment
  <2>3. motTable' = motTable /\ theDirectory' = theDirectory /\ pictures' = pictures
    BY <2>2 DEF Data!objects
  <2>. QED BY <1>2, <2>3, Zenon DEF DataInv, Data!PicturesWhole
<1>. QED BY <1>4, <1>5, <1>6, Zenon

\* The first segment of a directory, and the ones that follow.
LEMMA DirectoryBegins ==
  ASSUME DataInv, NEW k \in DOMAIN Carousel, Data!DirectoryStart(Carousel[k])
  PROVE  DataInv'
<1>. DEFINE d == [transportId |-> Carousel[k].transportId, marked |-> {0},
                  num_dirSegments |-> -1, motComponents |-> << >>]
<1>1. Carousel[k].transportId \in Nat
  BY GroupIs, Zenon
<1>2. d \in DataDirs
  <2>1. << >> \in Seq(DataGood) /\ {0} \in SUBSET Nat /\ -1 \in Nat \cup {-1}
    BY EmptySeq
  <2>. QED BY <1>1, <2>1 DEF DataDirs
<1>3. theDirectory' = theDirectory \/ theDirectory' = <<d>>
  BY Zenon DEF Data!DirectoryStart
<1>. HIDE DEF d
<1>4. <<d>> \in Seq(DataDirs) /\ Len(<<d>>) = 1
  BY <1>2
<1>5. theDirectory' \in Seq(DataDirs) /\ Len(theDirectory') <= 1
  <2>1. CASE theDirectory' = theDirectory
    BY <2>1, Zenon DEF DataInv
  <2>2. CASE theDirectory' = <<d>>
    BY <1>4, <2>2
  <2>. QED BY <1>3, <2>1, <2>2
<1>6. motTable' = motTable /\ pictures' = pictures
  BY Zenon DEF Data!DirectoryStart
<1>. QED BY <1>5, <1>6, Zenon DEF DataInv, Data!PicturesWhole

\* The entries of the directory that are read.
LEMMA ReadableIs ==
  ASSUME NEW d, NEW entries \in Seq(Data!Entries)
  PROVE  Data!Readable(d, entries) \in Seq(Data!Entries)
<1>. DEFINE W == Data!Missing(d, entries)
<1>1. CASE W = {}
  BY <1>1, Zenon DEF Data!Readable
<1>2. CASE W # {}
  <2>1. W \in SUBSET (1 .. Len(entries)) /\ Len(entries) \in Nat
    BY LenProperties DEF Data!Missing
  <2>. HIDE DEF W
  <2>2. W \in SUBSET Nat
    BY <2>1
  <2>3. PICK m \in W : \A n \in W : m <= n
    BY <1>2, <2>2, Least, Zenon
  <2>4. Data!Min(W) \in W
    BY <2>3, Zenon DEF Data!Min
  <2>. DEFINE n == Data!Min(W) - 1
  <2>5. n \in Int /\ n <= Len(entries)
    <3>. DEFINE x == Data!Min(W)
    <3>1. x \in 1 .. Len(entries)
      BY <2>1, <2>4, Zenon
    <3>. HIDE DEF x
    <3>2. x - 1 \in Int /\ x - 1 <= Len(entries)
      BY <2>1, <3>1
    <3>. QED BY <3>2, Zenon DEF x
  <2>6. Data!Readable(d, entries) = SubSeq(entries, 1, n)
    BY <1>2, Zenon DEF Data!Readable, W
  <2>. HIDE DEF n
  <2>7. SubSeq(entries, 1, n) \in Seq(Data!Entries)
    BY <2>5, Beginning
  <2>. QED BY <2>6, <2>7, Zenon
<1>. QED BY <1>1, <1>2, Zenon

\* A directory that was analysed: a part of the objects it tells of, all new.
LEMMA AnalysedIs ==
  ASSUME NEW d \in DataDirs, NEW entries \in Seq(Data!Entries),
         NEW a \in Data!Analysed(d, entries)
  PROVE  a \in DataDirs
<1>. DEFINE Made(e) == Data!M!motObject(e.transportId, e.content, TRUE)
            R     == Data!Readable(d, entries)
            good  == [i \in 1 .. Len(R) |-> Made(R[i])]
            other == Made([transportId |-> -1, content |-> "other"])
            junk  == IF Data!Missing(d, entries) = {} THEN {<< >>}
                     ELSE {<< >>, <<other>>}
            Fit(seq) == SubSeq(seq, 1, Data!Min({Len(seq), Len(entries)}))
<1>1. PICK j \in junk : a = [d EXCEPT !.motComponents = Fit(@ \o good \o j)]
  BY Zenon DEF Data!Analysed
<1>2. ASSUME NEW e \in Data!Entries PROVE Made(e) \in DataGood
  <2>1. e.transportId \in Nat \cup {-1} /\ e.content \in Data!M!Contents
    BY DEF Data!Entries
  <2>. QED BY <2>1, NewIsGood, TRUE \in BOOLEAN, Zenon
<1>3. other \in DataGood
  <2>. DEFINE e == [transportId |-> -1, content |-> "other"]
  <2>1. e.transportId = -1 /\ e.content = "other"
    OBVIOUS
  <2>. HIDE DEF e
  <2>2. -1 \in Nat \cup {-1} /\ TRUE \in BOOLEAN
    OBVIOUS
  <2>3. "other" \in Data!M!Contents
    BY DEF Data!M!Contents
  <2>4. Made(e) \in DataGood
    BY <2>1, <2>2, <2>3, NewIsGood, Zenon
  <2>. QED BY <2>4, Zenon DEF e
<1>. HIDE DEF other
<1>4. good \in Seq(DataGood)
  <2>1. R \in Seq(Data!Entries)
    BY ReadableIs, Zenon
  <2>. HIDE DEF R
  <2>2. ASSUME NEW i \in 1 .. Len(R) PROVE Made(R[i]) \in DataGood
    BY <1>2, <2>1, ElementOfSeq
  <2>3. Len(R) \in Nat
    BY <2>1, LenProperties
  <2>. HIDE DEF Made
  <2>. QED BY <2>2, <2>3
<1>. HIDE DEF good
<1>5. j \in Seq(DataGood)
  <2>1. << >> \in Seq(DataGood) /\ <<other>> \in Seq(DataGood)
    BY <1>3, EmptySeq
  <2>2. j = << >> \/ j = <<other>>
    OBVIOUS
  <2>. QED BY <2>1, <2>2, Zenon
<1>. DEFINE seq == d.motComponents \o good \o j
            n == Data!Min({Len(seq), Len(entries)})
<1>6. seq \in Seq(DataGood)
  <2>1. d.motComponents \in Seq(DataGood)
    BY DEF DataDirs
  <2>2. d.motComponents \o good \in Seq(DataGood)
    BY <1>4, <2>1, ConcatProperties
  <2>. QED BY <1>5, <2>2, ConcatProperties
<1>7. a = [d EXCEPT !.motComponents = SubSeq(seq, 1, n)]
  BY <1>1, Zenon
<1>. HIDE DEF seq
<1>8. n \in Int /\ n <= Len(seq)
  <2>. DEFINE l == Len(seq)
              m == Len(entries)
  <2>1. l \in Nat /\ m \in Nat
    BY <1>6, LenProperties
  <2>. HIDE DEF l, m
  <2>2. \E x \in {l, m} : \A y \in {l, m} : x =< y
    BY <2>1
  <2>3. n \in {l, m} /\ \A y \in {l, m} : n =< y
    BY <2>2, Zenon DEF Data!Min, l, m
  <2>. HIDE DEF n
  <2>4. n \in Int /\ n <= l
    BY <2>1, <2>3
  <2>. QED BY <2>4, Zenon DEF l
<1>. HIDE DEF n
<1>9. SubSeq(seq, 1, n) \in Seq(DataGood)
  BY <1>6, <1>8, Beginning
<1>. QED BY <1>7, <1>9 DEF DataDirs

\* A further segment of the directory.
LEMMA DirectoryGoesOn ==
  ASSUME DataInv, NEW k \in DOMAIN Carousel, Carousel[k].groupType = 6,
         Data!DirectorySegment(Carousel[k])
  PROVE  DataInv'
<1>. DEFINE g == Carousel[k]
            old == theDirectory[1]
            num == IF g.lastFlag THEN g.segmentNumber + 1 ELSE old.num_dirSegments
            d == [old EXCEPT !.marked = @ \cup {g.segmentNumber},
                             !.num_dirSegments = num]
<1>1. CASE theDirectory = << >>
  <2>1. theDirectory' = theDirectory
    BY <1>1, Zenon DEF Data!DirectorySegment
  <2>2. motTable' = motTable /\ pictures' = pictures
    BY Zenon DEF Data!DirectorySegment
  <2>. QED BY <2>1, <2>2, Zenon DEF DataInv, Data!PicturesWhole
<1>2. CASE theDirectory # << >>
  <2>1. old \in DataDirs
    BY <1>2, EmptySeq, ElementOfSeq DEF DataInv
  <2>. HIDE DEF old
  <2>2. g.segmentNumber \in Nat /\ g.content \in Seq(Data!Entries)
    BY GroupIs, SameNumbers, SegmentNumber, Zenon
  <2>. HIDE DEF g
  <2>3. num \in Nat \cup {-1}
    <3>1. old.num_dirSegments \in Nat \cup {-1}
      BY <2>1 DEF DataDirs
    <3>. QED BY <2>2, <3>1
  <2>. HIDE DEF num
  <2>4. d \in DataDirs
    BY <2>1, <2>2, <2>3 DEF DataDirs
  <2>5. \/ theDirectory' = theDirectory
        \/ theDirectory' = <<d>>
        \/ \E a \in Data!Analysed(d, g.content) : theDirectory' = <<a>>
    BY Zenon DEF Data!DirectorySegment, num, old, g
  <2>. HIDE DEF d
  <2>6. \/ theDirectory' = theDirectory
        \/ \E a \in DataDirs : theDirectory' = <<a>>
    BY <2>2, <2>4, <2>5, AnalysedIs, Zenon
  <2>7. theDirectory' \in Seq(DataDirs) /\ Len(theDirectory') <= 1
    <3>1. CASE theDirectory' = theDirectory
      BY <3>1, Zenon DEF DataInv
    <3>2. ASSUME NEW a \in DataDirs, theDirectory' = <<a>>
          PROVE  theDirectory' \in Seq(DataDirs) /\ Len(theDirectory') <= 1
      BY <3>2
    <3>. QED BY <2>6, <3>1, <3>2, Zenon
  <2>8. motTable' = motTable /\ pictures' = pictures
    BY Zenon DEF Data!DirectorySegment
  <2>. QED BY <2>7, <2>8, Zenon DEF DataInv, Data!PicturesWhole
<1>. QED BY <1>1, <1>2

\* What the objects are in terms of their parts.
LEMMA DataInvIs ==
  ASSUME Data!IInv
  PROVE  DataInv
<1>1. motTable \in Seq(DataGood)
  <2>1. motTable \in Seq(Data!MotObjects)
    BY Zenon DEF Data!IInv, Data!TypeOK
  <2>2. ASSUME NEW i \in 1 .. Len(motTable) PROVE motTable[i] \in DataGood
    <3>1. i \in DOMAIN motTable /\ motTable[i] \in Data!MotObjects
      BY <2>1, LenProperties, ElementOfSeq
    <3>2. Data!Sound(motTable[i])
      BY <3>1, Zenon DEF Data!IInv, Data!AllSound
    <3>. QED BY <3>1, <3>2, Zenon DEF DataGood
  <2>. QED BY <2>1, <2>2
<1>2. theDirectory \in Seq(DataDirs)
  <2>1. theDirectory \in Seq(Data!Directories) /\ Len(theDirectory) <= 1
    BY Zenon DEF Data!IInv, Data!TypeOK
  <2>2. ASSUME NEW i \in 1 .. Len(theDirectory) PROVE theDirectory[i] \in DataDirs
    <3>. DEFINE d == theDirectory[1]
                m == d.motComponents
    <3>1. i = 1 /\ theDirectory # << >>
      BY <2>1, LenProperties
    <3>2. d \in Data!Directories
      BY <2>1, <2>2, <3>1, ElementOfSeq, Zenon
    <3>3. m \in Seq(Data!MotObjects) /\ Data!dirObjects = m
      BY <3>1, <3>2 DEF Data!Directories, Data!dirObjects
    <3>. HIDE DEF m
    <3>4. ASSUME NEW j \in 1 .. Len(m) PROVE m[j] \in DataGood
      <4>1. j \in DOMAIN m /\ m[j] \in Data!MotObjects
        BY <3>3, LenProperties, ElementOfSeq
      <4>2. Data!Sound(m[j])
        BY <3>3, <4>1, Zenon DEF Data!IInv, Data!AllSound
      <4>. QED BY <4>1, <4>2, Zenon DEF DataGood
    <3>5. m \in Seq(DataGood)
      BY <3>3, <3>4
    <3>6. d \in DataDirs
      <4>. HIDE DEF d
      <4>. QED BY <3>2, <3>5 DEF Data!Directories, DataDirs, m
    <3>. QED BY <3>1, <3>6, Zenon
  <2>. QED BY <2>1, <2>2
<1>3. Len(motTable) <= TableSize /\ Len(theDirectory) <= 1 /\ Data!PicturesWhole
  BY Zenon DEF Data!IInv, Data!TypeOK
<1>. QED BY <1>1, <1>2, <1>3, Zenon DEF DataInv

DataPackets ==
  /\ sender.group \in DOMAIN Carousel
  /\ sender.part \in 1 .. Carousel[sender.group].parts
  /\ sender \in [group : Nat, part : Nat, ci : 0 .. 3]
  /\ expectedIndex \in 0 .. 3 /\ packetState \in 0 .. 1 /\ bad \in 0 .. MaxBad
  /\ series \in Seq((DOMAIN Carousel) \X Nat)
  /\ series # << >> => Head(series)[2] = 1
  /\ packetState = 1 => series # << >>

LEMMA DataInvGives ==
  ASSUME DataInv, DataPackets
  PROVE  Data!IInv
<1>1. motTable \in Seq(DataGood) /\ theDirectory \in Seq(DataDirs)
  BY Zenon DEF DataInv
<1>2. DataGood \subseteq Data!MotObjects
  BY Zenon DEF DataGood
<1>3. /\ motTable \in Seq(Data!MotObjects)
      /\ \A i \in DOMAIN motTable : Data!Sound(motTable[i])
  <2>1. \A i \in DOMAIN motTable : motTable[i] \in DataGood
    BY <1>1, LenProperties, ElementOfSeq
  <2>. QED BY <1>1, <1>2, <2>1, SeqMonotonic, Zenon DEF DataGood
<1>4. DataDirs \subseteq Data!Directories
  <2>1. ASSUME NEW d \in DataDirs PROVE d \in Data!Directories
    <3>1. d.motComponents \in Seq(Data!MotObjects)
      BY <1>2, SeqMonotonic DEF DataDirs
    <3>. QED BY <3>1 DEF DataDirs, Data!Directories
  <2>. QED BY <2>1, Zenon
<1>5. theDirectory \in Seq(Data!Directories)
  BY <1>1, <1>4, SeqMonotonic, Zenon
<1>6. \A i \in DOMAIN Data!dirObjects : Data!Sound(Data!dirObjects[i])
  <2>1. CASE theDirectory = << >>
    BY <2>1 DEF Data!dirObjects
  <2>2. CASE theDirectory # << >>
    <3>. DEFINE m == theDirectory[1].motComponents
    <3>1. m \in Seq(DataGood)
      <4>1. 1 \in 1 .. Len(theDirectory)
        BY <1>1, <2>2, EmptySeq
      <4>2. theDirectory[1] \in DataDirs
        BY <1>1, <4>1, ElementOfSeq, Zenon
      <4>. QED BY <4>2 DEF DataDirs
    <3>2. Data!dirObjects = m
      BY <2>2, Zenon DEF Data!dirObjects
    <3>. HIDE DEF m
    <3>3. \A i \in DOMAIN m : m[i] \in DataGood
      BY <3>1, LenProperties, ElementOfSeq
    <3>. QED BY <3>2, <3>3, Zenon DEF DataGood
  <2>. QED BY <2>1, <2>2
<1>7. Data!TypeOK
  BY <1>3, <1>5, Zenon DEF Data!TypeOK, DataInv, DataPackets
<1>8. Data!AllSound
  BY <1>3, <1>6, Zenon DEF Data!AllSound
<1>. QED BY <1>7, <1>8, Zenon DEF Data!IInv, DataInv

\* A data group that comes in, whole or not.
LEMMA GroupStep ==
  ASSUME DataInv, NEW m \in Seq((DOMAIN Carousel) \X Nat), m # << >>,
         Data!add_mscDatagroup(m)
  PROVE  DataInv'
<1>. DEFINE k == Head(m)[1]
<1>1. k \in DOMAIN Carousel
  BY HeadTailProperties
<1>. HIDE DEF k
<1>2. CASE ~Data!Admitted(m)
  <2>1. UNCHANGED Data!objects
    BY <1>2, Zenon DEF Data!add_mscDatagroup
  <2>. QED BY <2>1, Zenon DEF Data!objects, DataInv, Data!PicturesWhole
<1>3. CASE Data!Admitted(m) /\ Carousel[k].groupType = 3
  <2>1. Data!HeaderSegment(Carousel[k])
    BY <1>3 DEF Data!add_mscDatagroup, k
  <2>. QED BY <1>1, <1>3, <2>1, HeaderStep
<1>4. CASE Data!Admitted(m) /\ Carousel[k].groupType = 4
  <2>1. Data!BodySegment(Carousel[k], m)
    BY <1>4 DEF Data!add_mscDatagroup, k
  <2>2. m = Data!Parts(k)
    BY <1>1, <1>4, BodyIs, Zenon DEF Data!Admitted, Data!Whole, k
  <2>. QED BY <1>1, <1>4, <2>1, <2>2, BodyStep
<1>5. CASE Data!Admitted(m) /\ Carousel[k].groupType = 6
  <2>1. CASE Carousel[k].segmentNumber = 0
    <3>1. Data!DirectoryStart(Carousel[k])
      BY <1>5, <2>1 DEF Data!add_mscDatagroup, k
    <3>. QED BY <1>1, <3>1, DirectoryBegins
  <2>2. CASE Carousel[k].segmentNumber # 0
    <3>1. Data!DirectorySegment(Carousel[k])
      BY <1>5, <2>2 DEF Data!add_mscDatagroup, k
    <3>. QED BY <1>1, <1>5, <3>1, DirectoryGoesOn
  <2>. QED BY <2>1, <2>2
<1>. QED
  <2>1. Carousel[k].groupType \in Data!GroupTypes
    BY <1>1, GroupIs, Zenon
  <2>2. Carousel[k].groupType = 3 \/ Carousel[k].groupType = 4 \/ Carousel[k].groupType = 6
    BY <2>1 DEF Data!GroupTypes
  <2>. QED BY <1>2, <1>3, <1>4, <1>5, <2>2, Zenon

\* The other part of the invariant: the packets.
LEMMA PacketsAre ==
  ASSUME Data!IInv
  PROVE  DataPackets
BY Zenon DEF Data!IInv, Data!TypeOK, DataPackets

\* The next packet of the sender.
LEMMA Advances ==
  ASSUME DataPackets, Data!Advance
  PROVE  /\ sender'.group \in DOMAIN Carousel
         /\ sender'.part \in 1 .. Carousel[sender'.group].parts
         /\ sender' \in [group : Nat, part : Nat, ci : 0 .. 3]
<1>. DEFINE g == sender.group
            p == sender.part
            n == Carousel[g].parts
            c == (sender.ci + 1) % 4
            L == Len(Carousel)
<1>1. /\ sender \in [group : Nat, part : Nat, ci : 0 .. 3]
      /\ g \in DOMAIN Carousel /\ p \in 1 .. n
  BY Zenon DEF DataPackets
<1>2. n \in Nat \ {0}
  BY <1>1, GroupIs, Zenon
<1>3. L \in Nat \ {0} /\ DOMAIN Carousel = 1 .. L
  BY DataAssumption, Zenon DEF Data!CarouselAssumption
<1>4. c \in 0 .. 3 /\ g \in Nat /\ p \in Nat
  BY <1>1
<1>5. CASE p < n
  <2>1. sender' = [sender EXCEPT !.part = p + 1, !.ci = c]
    BY <1>5, Zenon DEF Data!Advance
  <2>. HIDE DEF n, c
  <2>2. p + 1 \in 1 .. n /\ p + 1 \in Nat
    BY <1>1, <1>2, <1>5
  <2>3. sender'.group = g /\ sender'.part = p + 1
    BY <1>1, <2>1
  <2>4. sender' \in [group : Nat, part : Nat, ci : 0 .. 3]
    BY <1>1, <1>4, <2>1, <2>2
  <2>. QED BY <1>1, <2>2, <2>3, <2>4, Zenon DEF n
<1>6. CASE ~(p < n)
  <2>. DEFINE h == (g % L) + 1
  <2>1. sender' = [group |-> h, part |-> 1, ci |-> c]
    BY <1>6, Zenon DEF Data!Advance
  <2>2. h \in 1 .. L /\ h \in Nat
    <3>. HIDE DEF L, g
    <3>1. g % L \in 0 .. L - 1
      BY <1>3, <1>4
    <3>. QED BY <1>3, <3>1
  <2>. HIDE DEF h, c
  <2>3. sender'.group = h /\ sender'.part = 1
    BY <2>1
  <2>4. h \in DOMAIN Carousel
    BY <1>3, <2>2, Zenon
  <2>5. 1 \in 1 .. Carousel[h].parts
    <3>1. Carousel[h].parts \in Nat \ {0}
      BY <2>4, GroupIs, Zenon
    <3>. QED BY <3>1
  <2>6. sender' \in [group : Nat, part : Nat, ci : 0 .. 3]
    BY <1>4, <2>1, <2>2
  <2>. QED BY <2>3, <2>4, <2>5, <2>6, Zenon
<1>. QED BY <1>5, <1>6, Zenon

\* A packet that is put into the series or ends it, or is left out of it.
SeriesInv ==
  /\ packetState \in 0 .. 1
  /\ series \in Seq((DOMAIN Carousel) \X Nat)
  /\ series # << >> => Head(series)[2] = 1
  /\ packetState = 1 => series # << >>

\* A packet is added to its series, and may complete a data group.
LEMMA Assembled ==
  ASSUME DataInv, SeriesInv, NEW p, p.data \in (DOMAIN Carousel) \X Nat,
         p.firstLast \in {"first", "single"} => p.data[2] = 1,
         Data!Assemble(p)
  PROVE  DataInv' /\ SeriesInv'
<1>. DEFINE S == (DOMAIN Carousel) \X Nat
            one == <<p.data>>
            more == Append(series, p.data)
<1>1. /\ series \in Seq(S) /\ packetState \in 0 .. 1
      /\ series # << >> => Head(series)[2] = 1
      /\ packetState = 1 => series # << >>
  BY Zenon DEF SeriesInv
<1>. HIDE DEF S
<1>2. one \in Seq(S) /\ one # << >> /\ Head(one) = p.data
  BY DEF S
<1>3. more \in Seq(S) /\ more # << >>
  <2>1. p.data \in S
    BY Zenon DEF S
  <2>. QED BY <1>1, <2>1, AppendProperties
<1>4. series # << >> => Head(more) = Head(series)
  BY <1>1, HeadTailAppend
<1>. HIDE DEF one, more
<1>5. ASSUME Data!Keep(series') PROVE DataInv'
  <2>1. UNCHANGED Data!objects
    BY <1>5, Zenon DEF Data!Keep
  <2>. QED BY <2>1, Zenon DEF Data!objects, DataInv, Data!PicturesWhole
<1>6. ASSUME NEW m \in Seq(S), m # << >>, Data!Deliver(m) PROVE DataInv' /\ series' = m
  BY <1>6, GroupStep, Zenon DEF Data!Deliver, S
<1>7. CASE p.firstLast = "first"
  <2>1. packetState' = 1 /\ Data!Keep(one)
    BY <1>7 DEF Data!Assemble, one
  <2>2. series' = one /\ DataInv'
    BY <1>5, <2>1, Zenon DEF Data!Keep
  <2>3. Head(one)[2] = 1
    BY <1>2, <1>7
  <2>. QED BY <1>2, <2>1, <2>2, <2>3 DEF SeriesInv, S
<1>8. CASE p.firstLast = "single" /\ packetState = 0
  <2>1. packetState' = 0 /\ Data!Deliver(one)
    BY <1>8 DEF Data!Assemble, one
  <2>2. series' = one /\ DataInv'
    BY <1>2, <1>6, <2>1, Zenon
  <2>3. Head(one)[2] = 1
    BY <1>2, <1>8
  <2>. QED BY <1>2, <2>1, <2>2, <2>3 DEF SeriesInv, S
<1>9. CASE p.firstLast = "middle" /\ packetState = 1
  <2>1. packetState' = 1 /\ Data!Keep(more)
    BY <1>9 DEF Data!Assemble, more
  <2>2. series' = more /\ DataInv'
    BY <1>5, <2>1, Zenon DEF Data!Keep
  <2>. QED BY <1>1, <1>3, <1>4, <1>9, <2>1, <2>2 DEF SeriesInv, S
<1>10. CASE p.firstLast = "last" /\ packetState = 1
  <2>1. packetState' = 0 /\ Data!Deliver(more)
    BY <1>10 DEF Data!Assemble, more
  <2>2. series' = more /\ DataInv'
    BY <1>3, <1>6, <2>1, Zenon
  <2>. QED BY <1>1, <1>3, <1>4, <1>10, <2>1, <2>2 DEF SeriesInv, S
<1>11. CASE /\ p.firstLast # "first" /\ ~(p.firstLast = "single" /\ packetState = 0)
            /\ ~(p.firstLast \in {"middle", "last"} /\ packetState = 1)
  <2>1. packetState' = 0 /\ Data!Keep(<< >>)
    BY <1>11 DEF Data!Assemble
  <2>2. series' = << >> /\ DataInv'
    BY <1>5, <2>1, Zenon DEF Data!Keep
  <2>. QED BY <2>1, <2>2, EmptySeq DEF SeriesInv
<1>. QED BY <1>7, <1>8, <1>9, <1>10, <1>11

\* A packet that comes in, of the sender or not.
LEMMA Handled ==
  ASSUME DataInv, DataPackets, NEW p, Data!handlePacket(p),
         \/ p = Data!Sent
         \/ ~(p.crc /\ p.address = packetAddress)
  PROVE  DataInv' /\ SeriesInv' /\ expectedIndex' \in 0 .. 3
<1>1. SeriesInv /\ expectedIndex \in 0 .. 3
  BY Zenon DEF DataPackets, SeriesInv
<1>2. expectedIndex' \in 0 .. 3
  <2>1. expectedIndex' = IF p.ci = expectedIndex THEN (expectedIndex + 1) % 4 ELSE 0
    BY Zenon DEF Data!handlePacket
  <2>2. (expectedIndex + 1) % 4 \in 0 .. 3
    BY <1>1
  <2>. QED BY <2>1, <2>2
<1>3. CASE p.ci = expectedIndex /\ p.crc /\ p.address = packetAddress
  <2>. DEFINE g == sender.group
              i == sender.part
  <2>1. Data!Assemble(p) /\ p = Data!Sent
    BY <1>3, Zenon DEF Data!handlePacket
  <2>2. p.data = <<g, i>> /\ p.firstLast = Data!FirstLast(g, i)
    BY <2>1 DEF Data!Sent
  <2>3. g \in DOMAIN Carousel /\ i \in 1 .. Carousel[g].parts
    BY Zenon DEF DataPackets
  <2>4. Carousel[g].parts \in Nat \ {0}
    BY <2>3, GroupIs, Zenon
  <2>5. p.firstLast \in {"first", "single"} => i = 1
    BY <2>2, <2>3, <2>4 DEF Data!FirstLast
  <2>6. i \in Nat
    BY <2>3, <2>4
  <2>. HIDE DEF g, i
  <2>7. p.data \in (DOMAIN Carousel) \X Nat /\ p.data[2] = i
    BY <2>2, <2>3, <2>6
  <2>8. p.firstLast \in {"first", "single"} => p.data[2] = 1
    BY <2>5, <2>7, Zenon
  <2>. QED BY <1>1, <1>2, <2>1, <2>7, <2>8, Assembled, Zenon
<1>4. CASE ~(p.ci = expectedIndex /\ p.crc /\ p.address = packetAddress)
  <2>1. UNCHANGED <<packetState, series, Data!objects>>
    BY <1>4, Zenon DEF Data!handlePacket
  <2>2. /\ packetState' = packetState /\ series' = series /\ motTable' = motTable
        /\ theDirectory' = theDirectory /\ pictures' = pictures
    BY <2>1 DEF Data!objects
  <2>3. DataInv'
    BY <2>2, Zenon DEF DataInv, Data!PicturesWhole
  <2>4. SeriesInv'
    BY <1>1, <2>2, Zenon DEF SeriesInv
  <2>. QED BY <1>2, <2>3, <2>4
<1>. QED BY <1>3, <1>4, Zenon

\* The invariant of the dataProcessor is inductive.
LEMMA DataStep == Data!IInv /\ Data!Next => Data!IInv'
<1>. SUFFICES ASSUME Data!IInv, Data!Next PROVE Data!IInv'
  OBVIOUS
<1>1. DataInv /\ DataPackets
  BY DataInvIs, PacketsAre, Zenon
<1>2. packetAddress # 0 /\ MaxBad \in Nat
  BY DataAssumption, Zenon DEF Data!BoundAssumption
<1>3. /\ \E p : /\ Data!handlePacket(p)
                /\ p = Data!Sent \/ ~(p.crc /\ p.address = packetAddress)
      /\ Data!Advance \/ sender' = sender
      /\ bad' = bad \/ (bad < MaxBad /\ bad' = bad + 1)
  <2>1. CASE Data!Arrives
    BY <2>1, Zenon DEF Data!Arrives
  <2>2. CASE Data!Damaged
    <3>1. PICK ci \in 0 .. 3 :
            Data!handlePacket([Data!Sent EXCEPT !.crc = FALSE, !.ci = ci])
      BY <2>2, Zenon DEF Data!Damaged
    <3>. DEFINE p == [Data!Sent EXCEPT !.crc = FALSE, !.ci = ci]
    <3>2. p.crc = FALSE
      BY DEF Data!Sent
    <3>. HIDE DEF p
    <3>3. Data!handlePacket(p)
      BY <3>1, Zenon DEF p
    <3>. QED BY <2>2, <3>2, <3>3, Zenon DEF Data!Damaged
  <2>3. CASE Data!Other
    <3>1. PICK ci \in 0 .. 3 :
            Data!handlePacket([Data!Sent EXCEPT !.address = 0, !.ci = ci])
      BY <2>3, Zenon DEF Data!Other
    <3>. DEFINE p == [Data!Sent EXCEPT !.address = 0, !.ci = ci]
    <3>2. p.address = 0
      BY DEF Data!Sent
    <3>. HIDE DEF p
    <3>3. Data!handlePacket(p)
      BY <3>1, Zenon DEF p
    <3>. QED BY <1>2, <2>3, <3>2, <3>3, Zenon DEF Data!Other
  <2>. QED BY <2>1, <2>2, <2>3, Zenon DEF Data!Next
<1>4. DataInv' /\ SeriesInv' /\ expectedIndex' \in 0 .. 3
  BY <1>1, <1>3, Handled, Zenon
<1>5. /\ sender'.group \in DOMAIN Carousel
      /\ sender'.part \in 1 .. Carousel[sender'.group].parts
      /\ sender' \in [group : Nat, part : Nat, ci : 0 .. 3]
  <2>1. CASE Data!Advance
    BY <1>1, <2>1, Advances, Zenon
  <2>2. CASE sender' = sender
    BY <1>1, <2>2, Zenon DEF DataPackets
  <2>. QED BY <1>3, <2>1, <2>2, Zenon
<1>6. bad' \in 0 .. MaxBad
  <2>1. bad \in 0 .. MaxBad
    BY <1>1, Zenon DEF DataPackets
  <2>. QED BY <1>2, <1>3, <2>1
<1>7. DataPackets'
  BY <1>4, <1>5, <1>6, Zenon DEF DataPackets, SeriesInv
<1>. QED BY <1>4, <1>7, DataInvGives, PTL

LEMMA DataBegins == Data!Init => Data!IInv
<1>. SUFFICES ASSUME Data!Init PROVE Data!IInv
  OBVIOUS
<1>1. DataInv
  <2>1. TableSize \in Nat \ {0}
    BY DataAssumption, Zenon DEF Data!BoundAssumption
  <2>. QED BY <2>1, EmptySeq DEF Data!Init, DataInv, Data!PicturesWhole
<1>2. DataPackets
  <2>1. sender = [group |-> 1, part |-> 1, ci |-> 0]
    BY Zenon DEF Data!Init
  <2>2. /\ sender.group = 1 /\ sender.part = 1
        /\ sender \in [group : Nat, part : Nat, ci : 0 .. 3]
    BY <2>1
  <2>3. 1 \in DOMAIN Carousel
    <3>1. Len(Carousel) \in Nat \ {0} /\ DOMAIN Carousel = 1 .. Len(Carousel)
      BY DataAssumption, Zenon DEF Data!CarouselAssumption
    <3>. QED BY <3>1
  <2>4. 1 \in 1 .. Carousel[1].parts
    <3>1. Carousel[1].parts \in Nat \ {0}
      BY <2>3, GroupIs, Zenon
    <3>. QED BY <3>1
  <2>5. /\ expectedIndex \in 0 .. 3 /\ packetState \in 0 .. 1
        /\ packetState # 1 /\ series = << >>
    BY DEF Data!Init
  <2>6. bad \in 0 .. MaxBad
    <3>1. MaxBad \in Nat /\ bad = 0
      BY DataAssumption, Zenon DEF Data!BoundAssumption, Data!Init
    <3>. QED BY <3>1
  <2>. QED BY <2>2, <2>3, <2>4, <2>5, <2>6, EmptySeq, Zenon DEF DataPackets
<1>. QED BY <1>1, <1>2, DataInvGives, Zenon

(***************************************************************************)
(* Programme associated data: labels and slides.                           *)
(***************************************************************************)
\* Slides that are parts of those that are sent, and what may be handed on.
PadGood == {o \in Pad!PadObjects : Pad!M!PartOf(o, Pad!Slide(o.transportId))}
PadSegment(k) == [segmentNumber |-> PadGroups[k].segmentNumber,
                  lastFlag |-> PadGroups[k].lastFlag, body |-> Pad!PadGroup(k)]
SlideGroup(k) == k \in DOMAIN PadGroups /\ PadGroups[k].groupType = 4

\* What the headers of the data groups in X-PADs say.
LEMMA PadGroupIs ==
  ASSUME NEW k \in DOMAIN PadGroups
  PROVE  /\ PadGroups[k].length \in Nat \ {0} /\ PadGroups[k].crcFlag \in BOOLEAN
         /\ PadGroups[k].groupType \in Nat /\ PadGroups[k].transportId \in Nat
         /\ PadGroups[k].segmentNumber \in Pad!M!SegmentNumbers
         /\ PadGroups[k].lastFlag \in BOOLEAN
<1>. DEFINE g == PadGroups[k]
<1>1. /\ g.length \in Nat \ {0} /\ g.crcFlag \in BOOLEAN
      /\ g.groupType \in Nat /\ g.transportId \in Nat
      /\ g.segmentNumber \in Pad!M!SegmentNumbers /\ g.lastFlag \in BOOLEAN
  <2>1. Pad!PadGroupsAssumption
    BY PadAssumption, Zenon
  <2>. QED BY <2>1, Zenon DEF Pad!PadGroupsAssumption
<1>. HIDE DEF g
<1>. QED BY <1>1, Zenon DEF g

LEMMA PadNumbersAre == Pad!Numbers \in SUBSET Nat
<1>1. ASSUME NEW k \in DOMAIN PadGroups PROVE PadGroups[k].segmentNumber \in Nat
  <2>1. PadGroups[k].segmentNumber \in Pad!M!SegmentNumbers
    BY PadGroupIs, Zenon
  <2>. QED BY <2>1, SameNumbers, SegmentNumber, Zenon
<1>. QED BY <1>1, Zenon DEF Pad!Numbers

\* A data group is the segment of its number of the slide it belongs to.
LEMMA SlideIs ==
  ASSUME NEW k, SlideGroup(k)
  PROVE  /\ PadGroups[k].crcFlag
         /\ SegmentOf(PadSegment(k), Pad!Slide(PadGroups[k].transportId))
<1>. DEFINE tid == PadGroups[k].transportId
            n   == PadGroups[k].segmentNumber
<1>0. k \in DOMAIN PadGroups /\ PadGroups[k].groupType = 4
  BY Zenon DEF SlideGroup
<1>1. k \in Pad!SlideGroups(tid) /\ n \in Pad!Segments(tid)
  BY <1>0 DEF Pad!SlideGroups, Pad!Segments
<1>2. /\ PadGroups[k].crcFlag
      /\ PadGroups[k].lastFlag => Pad!Segments(tid) = 0 .. n
      /\ \A l \in Pad!SlideGroups(tid) : PadGroups[l].segmentNumber = n => l = k
  BY <1>0, PadAssumption, Zenon DEF Pad!PadGroupsAssumption
<1>3. Pad!Group(tid, n) = k
  BY <1>1, <1>2, Zenon DEF Pad!Group
<1>4. /\ DOMAIN Pad!Slide(tid) = Pad!Segments(tid)
      /\ Pad!Slide(tid)[n] = Pad!PadGroup(k)
  BY <1>1, <1>3, Zenon DEF Pad!Slide
<1>. HIDE DEF tid, n
<1>5. /\ PadSegment(k).segmentNumber = n /\ PadSegment(k).body = Pad!PadGroup(k)
      /\ PadSegment(k).lastFlag = PadGroups[k].lastFlag
  BY DEF PadSegment, n
<1>6. SegmentOf(PadSegment(k), Pad!Slide(tid))
  BY <1>1, <1>2, <1>4, <1>5, Zenon DEF SegmentOf
<1>. QED BY <1>2, <1>6, Zenon DEF tid, n

\* A new slide.
LEMMA NewSlideIs ==
  ASSUME NEW tid \in Nat
  PROVE  Pad!M!motObject(tid, "slide", FALSE) \in PadGood
<1>. DEFINE o == Pad!M!motObject(tid, "slide", FALSE)
            B == {Pad!PadGroup(k) : k \in DOMAIN PadGroups}
<1>1. << >> \in [{} -> B]
  OBVIOUS
<1>2. {} \in SUBSET Pad!Numbers
  OBVIOUS
<1>3. << >> \in UNION {[N -> B] : N \in SUBSET Pad!Numbers}
  BY <1>1, <1>2, Zenon
<1>. HIDE DEF B
<1>4. o \in Pad!M!Objects(Pad!Numbers, B)
  BY <1>3 DEF Pad!M!Objects, Pad!M!motObject, Pad!M!Contents
<1>5. o.motMap = << >> /\ o.numofSegments = -1
  BY DEF Pad!M!motObject
<1>. HIDE DEF o
<1>6. DOMAIN o.motMap = {}
  <2>1. DOMAIN << >> = {}
    OBVIOUS
  <2>. QED BY <1>5, <2>1, Zenon
<1>7. Pad!M!PartOf(o, Pad!Slide(o.transportId))
  BY <1>5, <1>6 DEF Pad!M!PartOf
<1>. QED BY <1>4, <1>7, Zenon DEF PadGood, Pad!PadObjects, B, o

\* A data group that is a segment of the slide it belongs to.
LEMMA SlideKeeps ==
  ASSUME NEW k, SlideGroup(k),
         NEW o \in PadGood, o.transportId = PadGroups[k].transportId
  PROVE  /\ Pad!M!addBodySegment(o, PadSegment(k)) \in PadGood
         /\ \A x \in Pad!M!handleComplete(o, PadSegment(k)) :
              x.result = Pad!M!InOrder(Pad!Slide(x.transportId))
<1>. DEFINE N == Pad!Numbers
            B == {Pad!PadGroup(l) : l \in DOMAIN PadGroups}
            whole == Pad!Slide(o.transportId)
            s == PadSegment(k)
            a == Mot!addBodySegment(o, s)
<1>0. k \in DOMAIN PadGroups
  BY Zenon DEF SlideGroup
<1>1. s.segmentNumber = PadGroups[k].segmentNumber /\ s.lastFlag = PadGroups[k].lastFlag
      /\ s.body = Pad!PadGroup(k)
  BY DEF PadSegment
<1>. HIDE DEF s
<1>2. SegmentOf(s, whole)
  BY SlideIs, Zenon DEF s
<1>3. s.segmentNumber \in N /\ s.body \in B /\ s.lastFlag \in BOOLEAN
  BY <1>0, <1>1, PadGroupIs, Zenon DEF Pad!Numbers
<1>4. o \in Mot!Objects(N, B) /\ Mot!PartOf(o, whole)
  BY PadMot, Zenon DEF PadGood, Pad!PadObjects
<1>. HIDE DEF N, B, whole
<1>5. N \in SUBSET Nat
  BY PadNumbersAre, Zenon DEF N
<1>6. a \in Mot!Objects(N, B) /\ a.transportId = o.transportId /\ Mot!PartOf(a, whole)
  BY <1>2, <1>3, <1>4, <1>5, SegmentAdded
<1>7. ASSUME NEW x \in Mot!handleComplete(o, s)
      PROVE  x.transportId = o.transportId /\ x.result = Mot!InOrder(whole)
  BY <1>2, <1>3, <1>4, <1>5, HandedOn
<1>8. a \in PadGood
  BY <1>6, PadMot, Zenon DEF PadGood, Pad!PadObjects, N, B, whole
<1>9. \A x \in Pad!M!handleComplete(o, s) :
        x.result = Pad!M!InOrder(Pad!Slide(x.transportId))
  BY <1>7, PadMot, Zenon DEF whole
<1>. QED BY <1>8, <1>9, PadMot, Zenon DEF s

\* The lesser of two numbers, and the first bytes of a field.
LEMMA MinIs ==
  ASSUME NEW a \in Int, NEW b \in Int
  PROVE  Pad!Min({a, b}) = IF a <= b THEN a ELSE b
<1>. DEFINE m == Pad!Min({a, b})
<1>1. \E x \in {a, b} : \A y \in {a, b} : x =< y
  OBVIOUS
<1>2. m \in {a, b} /\ \A y \in {a, b} : m =< y
  BY <1>1, Zenon DEF Pad!Min
<1>. HIDE DEF m
<1>3. m = IF a <= b THEN a ELSE b
  BY <1>2
<1>. QED BY <1>3, Zenon DEF m

\* The first bytes of a field.
LEMMA FirstIs ==
  ASSUME NEW S, NEW seq \in Seq(S), NEW n \in Int
  PROVE  /\ Pad!First(seq, n) \in Seq(S)
         /\ Len(Pad!First(seq, n)) \in Nat
         /\ n >= 0 => Len(Pad!First(seq, n)) <= n
<1>. DEFINE m == Pad!Min({n, Len(seq)})
<1>1. Len(seq) \in Nat
  BY LenProperties
<1>2. m = IF n <= Len(seq) THEN n ELSE Len(seq)
  BY <1>1, MinIs
<1>. HIDE DEF m
<1>3. m \in Int /\ m <= Len(seq) /\ m <= n
  BY <1>1, <1>2
<1>4. SubSeq(seq, 1, m) \in Seq(S) /\ Len(SubSeq(seq, 1, m)) = IF m > 0 THEN m ELSE 0
  BY <1>3, Beginning
<1>5. Pad!First(seq, n) = SubSeq(seq, 1, m)
  BY Zenon DEF Pad!First, m
<1>. QED BY <1>3, <1>4, <1>5

\* Labels.
Texts0 == Seq(Pad!Byte \X Int)
LabelParts == [dynamicLabelText : Texts0, charSet : Int, remainDataLength : Nat,
               isLastSegment : BOOLEAN, moreXPad : BOOLEAN]

LEMMA LabelsAre ==
  Pad!Labels = {l \in LabelParts : l.moreXPad => l.remainDataLength > 0}
BY Zenon DEF Pad!Labels, LabelParts, Texts0

\* What may be written into a label.
LEMMA SetText ==
  ASSUME NEW l \in LabelParts, NEW x \in Texts0
  PROVE  [l EXCEPT !.dynamicLabelText = x] \in LabelParts
BY DEF LabelParts
LEMMA SetCharSet ==
  ASSUME NEW l \in LabelParts, NEW x \in Int
  PROVE  [l EXCEPT !.charSet = x] \in LabelParts
BY DEF LabelParts
LEMMA SetRemain ==
  ASSUME NEW l \in LabelParts, NEW x \in Nat
  PROVE  [l EXCEPT !.remainDataLength = x] \in LabelParts
BY DEF LabelParts
LEMMA SetLast ==
  ASSUME NEW l \in LabelParts, NEW x \in BOOLEAN
  PROVE  [l EXCEPT !.isLastSegment = x] \in LabelParts
BY DEF LabelParts
LEMMA SetMore ==
  ASSUME NEW l \in LabelParts, NEW x \in BOOLEAN
  PROVE  [l EXCEPT !.moreXPad = x] \in LabelParts
BY DEF LabelParts

\* A text that is appended is a text.
LEMMA ConvertedIs ==
  ASSUME NEW bytes \in Seq(Pad!Byte), NEW c \in Int
  PROVE  Pad!Converted(bytes, c) \in Texts0
<1>1. Len(bytes) \in Nat /\ DOMAIN bytes = 1 .. Len(bytes)
  BY LenProperties
<1>2. ASSUME NEW i \in 1 .. Len(bytes) PROVE <<bytes[i], c>> \in Pad!Byte \X Int
  <2>1. bytes[i] \in Pad!Byte
    BY ElementOfSeq
  <2>. QED BY <2>1
<1>3. Pad!Converted(bytes, c) = [i \in 1 .. Len(bytes) |-> <<bytes[i], c>>]
  BY <1>1, Zenon DEF Pad!Converted
<1>. HIDE DEF Pad!Byte
<1>. QED BY <1>1, <1>2, <1>3 DEF Texts0

LEMMA Appended ==
  ASSUME NEW l \in LabelParts, NEW bytes \in Seq(Pad!Byte)
  PROVE  /\ Pad!AppendedText(l, bytes) \in LabelParts
         /\ Pad!AppendedText(l, bytes).moreXPad = l.moreXPad
         /\ Pad!AppendedText(l, bytes).remainDataLength = l.remainDataLength
<1>. DEFINE text == l.dynamicLabelText \o Pad!Converted(bytes, l.charSet)
<1>1. l.dynamicLabelText \in Texts0 /\ l.charSet \in Int
  BY DEF LabelParts
<1>2. Pad!Converted(bytes, l.charSet) \in Texts0
  BY <1>1, ConvertedIs
<1>3. text \in Texts0
  BY <1>1, <1>2, ConcatProperties DEF Texts0
<1>4. Pad!AppendedText(l, bytes) = [l EXCEPT !.dynamicLabelText = text]
  BY Zenon DEF Pad!AppendedText
<1>. HIDE DEF text
<1>. QED BY <1>3, <1>4, SetText DEF LabelParts

LEMMA LabelCleared ==
  ASSUME NEW l \in LabelParts
  PROVE  /\ Pad!Cleared(l) \in LabelParts
         /\ Pad!Cleared(l).moreXPad = l.moreXPad
         /\ Pad!Cleared(l).remainDataLength = l.remainDataLength
<1>1. << >> \in Texts0
  BY EmptySeq DEF Texts0
<1>2. Pad!Cleared(l) = [l EXCEPT !.dynamicLabelText = << >>]
  BY Zenon DEF Pad!Cleared
<1>. QED BY <1>1, <1>2, SetText DEF LabelParts

\* A label with the text or the character set changed, but not what is to come.
LEMMA StaysLabel ==
  ASSUME NEW k \in Pad!Labels, NEW l \in LabelParts, l.moreXPad = k.moreXPad,
         l.remainDataLength = k.remainDataLength
  PROVE  l \in Pad!Labels
BY LabelsAre, Zenon

LEMMA WithCharSet ==
  ASSUME NEW l \in Pad!Labels, NEW c \in Int
  PROVE  [l EXCEPT !.charSet = c] \in Pad!Labels
<1>1. l \in LabelParts
  BY LabelsAre, Zenon
<1>2. [l EXCEPT !.charSet = c] \in LabelParts
  BY <1>1, SetCharSet
<1>3. /\ [l EXCEPT !.charSet = c].moreXPad = l.moreXPad
      /\ [l EXCEPT !.charSet = c].remainDataLength = l.remainDataLength
  BY <1>1 DEF LabelParts
<1>. QED BY <1>2, <1>3, StaysLabel, Zenon

LEMMA LabelAppended ==
  ASSUME NEW l \in Pad!Labels, NEW bytes \in Seq(Pad!Byte)
  PROVE  Pad!AppendedText(l, bytes) \in Pad!Labels
<1>1. l \in LabelParts
  BY LabelsAre, Zenon
<1>. QED BY <1>1, Appended, StaysLabel, Zenon

LEMMA ClearedLabel ==
  ASSUME NEW l \in Pad!Labels
  PROVE  Pad!Cleared(l) \in Pad!Labels
<1>1. l \in LabelParts
  BY LabelsAre, Zenon
<1>. QED BY <1>1, LabelCleared, StaysLabel, Zenon

\* What is shown are texts.
LEMMA Shown ==
  ASSUME NEW l \in Pad!Labels, NEW set \in SUBSET Texts0
  PROVE  Pad!Show(l, set) \in SUBSET Texts0
<1>1. l.dynamicLabelText \in Texts0
  BY LabelsAre DEF LabelParts
<1>. QED BY <1>1, Zenon DEF Pad!Show

\* What may be written into the state of the short X-PADs.
LEMMA SetToGo ==
  ASSUME NEW h \in Pad!Shorts, NEW x \in Nat
  PROVE  [h EXCEPT !.still_to_go = x] \in Pad!Shorts
BY DEF Pad!Shorts
LEMMA SetShortData ==
  ASSUME NEW h \in Pad!Shorts, NEW x \in Seq(Pad!Byte)
  PROVE  [h EXCEPT !.shortpadData = x] \in Pad!Shorts
BY DEF Pad!Shorts

LEMMA ShortSet ==
  ASSUME NEW h \in Pad!Shorts, NEW x \in Nat, NEW y \in Seq(Pad!Byte)
  PROVE  [h EXCEPT !.still_to_go = x, !.shortpadData = y] \in Pad!Shorts
<1>1. [h EXCEPT !.still_to_go = x] \in Pad!Shorts
  BY SetToGo
<1>2. [[h EXCEPT !.still_to_go = x] EXCEPT !.shortpadData = y] \in Pad!Shorts
  BY <1>1, SetShortData
<1>. QED BY <1>2, Zenon

LEMMA FlaggedIs ==
  ASSUME short \in Pad!Shorts, NEW f, f.first \in BOOLEAN, f.last \in BOOLEAN
  PROVE  Pad!Flagged(f) \in Pad!Shorts
BY Zenon DEF Pad!Flagged, Pad!Shorts

\* What is taken of the bytes of a short field, at most m of them.
LEMMA TakenIs ==
  ASSUME short \in Pad!Shorts, NEW bytes \in Seq(Pad!Byte), NEW m \in Nat,
         NEW taken, taken = Pad!First(bytes, Pad!Min({m, short.still_to_go}))
  PROVE  /\ short.shortpadData \o taken \in Seq(Pad!Byte)
         /\ short.still_to_go - Len(taken) \in Nat
<1>1. short.still_to_go \in Nat /\ short.shortpadData \in Seq(Pad!Byte)
  BY DEF Pad!Shorts
<1>. DEFINE n == Pad!Min({m, short.still_to_go})
<1>2. n \in Nat /\ n <= short.still_to_go
  BY <1>1, MinIs
<1>. HIDE DEF n
<1>3. taken \in Seq(Pad!Byte) /\ Len(taken) \in Nat /\ Len(taken) <= n
  BY <1>2, FirstIs DEF n
<1>. QED BY <1>1, <1>2, <1>3, ConcatProperties

\* A short field.
LEMMA FlagsAre ==
  ASSUME NEW f \in Pad!PadFields, f.x_padInd = 1
  PROVE  /\ f.bytes \in Seq(Pad!Byte) /\ f.CI \in BOOLEAN
         /\ f.CI => /\ f.first \in BOOLEAN /\ f.last \in BOOLEAN
                   /\ f.charSet \in Nat /\ f.togo \in Nat
<1>1. f \in Pad!ShortFlags \/ f \in Pad!AllData
  <2>1. ASSUME f \in Pad!NoXPads PROVE FALSE
    <3>1. f.x_padInd \in {0}
      BY <2>1, Zenon DEF Pad!NoXPads
    <3>. QED BY <3>1
  <2>2. ASSUME f \in Pad!Variables PROVE FALSE
    <3>1. f.x_padInd \in {2}
      BY <2>2, Zenon DEF Pad!Variables
    <3>. QED BY <3>1
  <2>. QED BY <2>1, <2>2, Zenon DEF Pad!PadFields
<1>2. CASE f \in Pad!ShortFlags
  <2>1. /\ f.CI \in {TRUE} /\ f.first \in BOOLEAN /\ f.last \in BOOLEAN
        /\ f.charSet \in Nat /\ f.togo \in Nat /\ f.bytes \in Seq(Pad!Byte)
    BY <1>2, Zenon DEF Pad!ShortFlags
  <2>. QED BY <2>1, Zenon
<1>3. CASE f \in Pad!AllData
  <2>1. f.CI \in {FALSE} /\ f.bytes \in Seq(Pad!Byte)
    BY <1>3, Zenon DEF Pad!AllData
  <2>. QED BY <2>1, Zenon
<1>. QED BY <1>1, <1>2, <1>3, Zenon

\* A short field keeps the label and the state of the short X-PADs in type.
LEMMA ShortStep ==
  ASSUME label \in Pad!Labels, short \in Pad!Shorts, shown \in SUBSET Texts0,
         NEW f \in Pad!PadFields, f.x_padInd = 1, Pad!handle_shortPAD(f)
  PROVE  label' \in Pad!Labels /\ short' \in Pad!Shorts /\ shown' \in SUBSET Texts0
<1>1. /\ f.bytes \in Seq(Pad!Byte) /\ f.CI \in BOOLEAN
      /\ f.CI => /\ f.first \in BOOLEAN /\ f.last \in BOOLEAN
                /\ f.charSet \in Nat /\ f.togo \in Nat
  BY FlagsAre, Zenon
<1>2. ASSUME f.CI
      PROVE  /\ Pad!Flagged(f) \in Pad!Shorts
             /\ [label EXCEPT !.charSet = f.charSet] \in Pad!Labels
  <2>1. f.charSet \in Int
    <3>1. f.charSet \in Nat
      BY <1>1, <1>2, Zenon
    <3>. QED BY <3>1
  <2>2. f.first \in BOOLEAN /\ f.last \in BOOLEAN
    BY <1>1, <1>2, Zenon
  <2>3. Pad!Flagged(f) \in Pad!Shorts
    BY <2>2, FlaggedIs
  <2>. QED BY <2>1, <2>3, WithCharSet
<1>. DEFINE l == [label EXCEPT !.charSet = f.charSet]
<1>3. CASE f.CI /\ Pad!ShortStart(f)
  <2>. DEFINE new == f.first /\ ~f.last
  <2>1. l \in Pad!Labels
    BY <1>2, <1>3, Zenon
  <2>2. shown' = Pad!Show(l, shown) \/ shown' = shown
    BY <1>3, Zenon DEF Pad!ShortStart
  <2>3. label' = Pad!Cleared(l) \/ label' = l
    BY <1>3, Zenon DEF Pad!ShortStart
  <2>. HIDE DEF l
  <2>4. short' = [Pad!Flagged(f) EXCEPT !.still_to_go = f.togo, !.shortpadData = f.bytes]
    BY <1>3, Zenon DEF Pad!ShortStart
  <2>5. short' \in Pad!Shorts
    BY <1>1, <1>2, <1>3, <2>4, ShortSet, Zenon
  <2>. QED BY <2>1, <2>2, <2>3, <2>5, Shown, ClearedLabel, Zenon
<1>4. CASE f.CI /\ Pad!ShortContinued(f)
  <2>. DEFINE taken == Pad!First(f.bytes, Pad!Min({3, short.still_to_go}))
              data  == short.shortpadData \o taken
              left  == short.still_to_go - Len(taken)
              ends  == left = 0 /\ Len(data) > 1
              kept  == IF ends THEN << >> ELSE data
  <2>1. l \in Pad!Labels
    BY <1>2, <1>4, Zenon
  <2>2. data \in Seq(Pad!Byte) /\ left \in Nat
    BY <1>1, 3 \in Nat, TakenIs
  <2>3. label' = Pad!AppendedText(l, data) \/ label' = l
    BY <1>4, Zenon DEF Pad!ShortContinued
  <2>4. short' = [Pad!Flagged(f) EXCEPT !.still_to_go = left, !.shortpadData = kept]
    BY <1>4, Zenon DEF Pad!ShortContinued
  <2>5. shown' = shown
    BY <1>4, Zenon DEF Pad!ShortContinued
  <2>. HIDE DEF l, left, data
  <2>6. kept \in Seq(Pad!Byte)
    BY <2>2, EmptySeq
  <2>. HIDE DEF kept
  <2>7. short' \in Pad!Shorts
    BY <1>2, <1>4, <2>2, <2>4, <2>6, ShortSet, Zenon
  <2>. QED BY <2>1, <2>2, <2>3, <2>5, <2>7, LabelAppended, Zenon
<1>5. CASE f.CI /\ /\ short' = Pad!Flagged(f)
                  /\ label' = [label EXCEPT !.charSet = f.charSet]
                  /\ UNCHANGED shown
  BY <1>2, <1>5, Zenon
<1>6. CASE Pad!ShortData(f)
  <2>. DEFINE taken == Pad!First(f.bytes, Pad!Min({4, short.still_to_go}))
              data  == short.shortpadData \o taken
              left  == short.still_to_go - Len(taken)
              ends  == left = 0 /\ Len(data) > 0
              kept  == IF ends THEN << >> ELSE data
              a     == Pad!AppendedText(label, data)
  <2>2. data \in Seq(Pad!Byte) /\ left \in Nat
    BY <1>1, 4 \in Nat, TakenIs
  <2>3. label' = Pad!Cleared(a) \/ label' = a \/ label' = label
    BY <1>6, Zenon DEF Pad!ShortData
  <2>4. short' = [short EXCEPT !.still_to_go = left, !.shortpadData = kept]
    BY <1>6, Zenon DEF Pad!ShortData
  <2>5. shown' = Pad!Show(a, shown) \/ shown' = shown
    BY <1>6, Zenon DEF Pad!ShortData
  <2>. HIDE DEF left, data
  <2>6. kept \in Seq(Pad!Byte)
    BY <2>2, EmptySeq
  <2>. HIDE DEF kept
  <2>7. short' \in Pad!Shorts
    BY <2>2, <2>4, <2>6, ShortSet, Zenon
  <2>8. a \in Pad!Labels
    BY <2>2, LabelAppended, Zenon
  <2>. HIDE DEF a
  <2>. QED BY <2>3, <2>5, <2>7, <2>8, Shown, ClearedLabel, Zenon
<1>7. \/ f.CI /\ Pad!ShortStart(f)
      \/ f.CI /\ Pad!ShortContinued(f)
      \/ f.CI /\ /\ short' = Pad!Flagged(f)
               /\ label' = [label EXCEPT !.charSet = f.charSet]
               /\ UNCHANGED shown
      \/ Pad!ShortData(f)
  <2>1. CASE ~f.CI
    BY <2>1 DEF Pad!handle_shortPAD
  <2>2. CASE f.CI
    BY <2>2 DEF Pad!handle_shortPAD
  <2>. QED BY <1>1, <2>1, <2>2, Zenon
<1>. QED BY <1>3, <1>4, <1>5, <1>6, <1>7, Zenon

\* What the subfields of a variable X-PAD change.
PadSlides == {q \in Seq(PadGood) : Len(q) <= 1}
CompletedBy(k) == UNION {Pad!M!handleComplete(o, PadSegment(k)) : o \in PadGood}
PadPictures ==
  pictures \cup
  {x \in UNION {CompletedBy(k) : k \in DOMAIN PadGroups} :
     x.result = Pad!M!InOrder(Pad!Slide(x.transportId))}
PadStates ==
  [label : Pad!Labels, msc : Pad!Mscs, slide : PadSlides, shown : SUBSET Texts0,
   pictures : SUBSET PadPictures]

\* What may be written into the record that the subfields change.
LEMMA SetLabel ==
  ASSUME NEW st \in PadStates, NEW x \in Pad!Labels
  PROVE  [st EXCEPT !.label = x] \in PadStates
BY DEF PadStates
LEMMA SetShown ==
  ASSUME NEW st \in PadStates, NEW x \in SUBSET Texts0
  PROVE  [st EXCEPT !.shown = x] \in PadStates
BY DEF PadStates
LEMMA SetSlide ==
  ASSUME NEW st \in PadStates, NEW x \in PadSlides
  PROVE  [st EXCEPT !.slide = x] \in PadStates
BY DEF PadStates
LEMMA SetPictures ==
  ASSUME NEW st \in PadStates, NEW x \in SUBSET PadPictures
  PROVE  [st EXCEPT !.pictures = x] \in PadStates
BY DEF PadStates
LEMMA SetMsc ==
  ASSUME NEW st \in PadStates, NEW x \in Pad!Mscs
  PROVE  [st EXCEPT !.msc = x] \in PadStates
BY DEF PadStates

LEMMA StateIs ==
  ASSUME NEW st \in PadStates
  PROVE  /\ st.label \in Pad!Labels /\ st.msc \in Pad!Mscs /\ st.slide \in PadSlides
         /\ st.shown \in SUBSET Texts0 /\ st.pictures \in SUBSET PadPictures
BY Zenon DEF PadStates

\* A subfield changes the label, and may show it.
LEMMA LabelAndShown ==
  ASSUME NEW st \in PadStates, NEW l \in Pad!Labels,
         NEW set, set = Pad!Show(l, st.shown) \/ set = st.shown
  PROVE  [st EXCEPT !.label = l, !.shown = set] \in PadStates
<1>1. set \in SUBSET Texts0
  BY StateIs, Shown, Zenon
<1>2. [st EXCEPT !.label = l] \in PadStates
  BY SetLabel
<1>3. [[st EXCEPT !.label = l] EXCEPT !.shown = set] \in PadStates
  BY <1>1, <1>2, SetShown
<1>. QED BY <1>3, Zenon

\* As long as more is to come, some is left.
LEMMA RemainsWith ==
  ASSUME NEW t \in Pad!Labels, NEW more \in BOOLEAN, NEW r \in Nat, more => r > 0
  PROVE  [t EXCEPT !.moreXPad = more, !.remainDataLength = r] \in Pad!Labels
<1>1. PICK t1 : t1 = [t EXCEPT !.moreXPad = more]
  OBVIOUS
<1>2. PICK t2 : t2 = [t1 EXCEPT !.remainDataLength = r]
  OBVIOUS
<1>3. t \in LabelParts
  BY LabelsAre, Zenon
<1>4. t1 \in LabelParts
  BY <1>1, <1>3, SetMore
<1>5. t1.moreXPad = more
  BY <1>1, <1>3, Zenon DEF LabelParts
<1>6. t2 \in LabelParts
  BY <1>2, <1>4, SetRemain
<1>7. t2.remainDataLength = r
  BY <1>2, <1>4, Zenon DEF LabelParts
<1>8. t2.moreXPad = more
  BY <1>2, <1>4, <1>5, Zenon DEF LabelParts
<1>9. t2 \in Pad!Labels
  BY <1>6, <1>7, <1>8, LabelsAre, Zenon
<1>. QED BY <1>1, <1>2, <1>9, Zenon

LEMMA LastWith ==
  ASSUME NEW t \in Pad!Labels, NEW last \in BOOLEAN
  PROVE  [t EXCEPT !.isLastSegment = last] \in Pad!Labels
<1>1. PICK t1 : t1 = [t EXCEPT !.isLastSegment = last]
  OBVIOUS
<1>2. t \in LabelParts /\ (t.moreXPad => t.remainDataLength > 0)
  BY LabelsAre, Zenon
<1>3. t1 \in LabelParts
  BY <1>1, <1>2, SetLast
<1>4. t1.moreXPad = t.moreXPad /\ t1.remainDataLength = t.remainDataLength
  BY <1>1, <1>2, Zenon DEF LabelParts
<1>5. t1 \in Pad!Labels
  BY <1>2, <1>3, <1>4, LabelsAre, Zenon
<1>. QED BY <1>1, <1>5, Zenon

\* A label segment starts.
LEMMA LabelStarted ==
  ASSUME NEW st \in PadStates, NEW d \in Pad!LabelStarts
  PROVE  Pad!LabelStart(st, d) \in PadStates
<1>. DEFINE fits == Pad!Min({d.length - 2, d.total})
            more == fits < d.total
            over == d.last /\ fits = d.total
            l0   == IF d.first THEN [st.label EXCEPT !.dynamicLabelText = << >>,
                                                     !.charSet = d.charSet]
                    ELSE st.label
            t    == Pad!AppendedText(l0, Pad!First(d.bytes, fits))
            last == IF over THEN t.isLastSegment ELSE d.last
            l    == [t EXCEPT !.moreXPad = more, !.remainDataLength = d.total - fits,
                              !.isLastSegment = last]
<1>1. /\ d.length \in Nat /\ d.bytes \in Seq(Pad!Byte) /\ d.total \in Nat
      /\ d.charSet \in Nat /\ d.first \in BOOLEAN /\ d.last \in BOOLEAN
      /\ d.command \in BOOLEAN
  BY Zenon DEF Pad!LabelStarts
<1>2. /\ fits \in Int /\ d.total - fits \in Nat /\ more \in BOOLEAN
      /\ more => d.total - fits > 0
  <2>1. d.length - 2 \in Int
    BY <1>1
  <2>2. fits = IF d.length - 2 <= d.total THEN d.length - 2 ELSE d.total
    BY <1>1, <2>1, MinIs
  <2>. HIDE DEF fits
  <2>. QED BY <1>1, <2>2
<1>3. st.label \in Pad!Labels
  BY StateIs, Zenon
<1>4. l0 \in Pad!Labels
  <2>1. CASE d.first
    <3>1. Pad!Cleared(st.label) \in Pad!Labels
      BY <1>3, ClearedLabel, Zenon
    <3>2. d.charSet \in Int
      BY <1>1
    <3>3. [Pad!Cleared(st.label) EXCEPT !.charSet = d.charSet] \in Pad!Labels
      BY <3>1, <3>2, WithCharSet, Zenon
    <3>4. l0 = [Pad!Cleared(st.label) EXCEPT !.charSet = d.charSet]
      BY <2>1, Zenon DEF Pad!Cleared
    <3>. QED BY <3>3, <3>4, Zenon
  <2>2. CASE ~d.first
    BY <1>3, <2>2, Zenon
  <2>. QED BY <2>1, <2>2, Zenon
<1>5. Pad!LabelStart(st, d) =
        IF d.command THEN [st EXCEPT !.label = Pad!Cleared(l0)]
        ELSE [st EXCEPT !.label = l,
                        !.shown = IF over THEN Pad!Show(l, st.shown) ELSE st.shown]
  BY Zenon DEF Pad!LabelStart
<1>. HIDE DEF l0, fits
<1>6. t \in Pad!Labels
  <2>1. fits \in Int
    BY <1>2, Zenon
  <2>2. d.bytes \in Seq(Pad!Byte)
    BY <1>1, Zenon
  <2>3. Pad!First(d.bytes, fits) \in Seq(Pad!Byte)
    BY <2>1, <2>2, FirstIs
  <2>. QED BY <1>4, <2>3, LabelAppended, Zenon
<1>. HIDE DEF t, over
<1>7. last \in BOOLEAN
  <2>1. t.isLastSegment \in BOOLEAN
    BY <1>6, LabelsAre, Zenon DEF LabelParts
  <2>. QED BY <1>1, <2>1, Zenon
<1>. DEFINE r == d.total - fits
<1>. HIDE DEF last
<1>8. l \in Pad!Labels
  <2>1. PICK t1 : t1 = [t EXCEPT !.moreXPad = more, !.remainDataLength = r]
    OBVIOUS
  <2>2. more \in BOOLEAN
    BY <1>2, Zenon
  <2>3. r \in Nat
    BY <1>2, Zenon
  <2>4. more => r > 0
    BY <1>2, Zenon
  <2>. HIDE DEF more, r
  <2>5. t1 \in Pad!Labels
    BY <1>6, <2>1, <2>2, <2>3, <2>4, RemainsWith
  <2>6. [t1 EXCEPT !.isLastSegment = last] \in Pad!Labels
    BY <1>7, <2>5, LastWith
  <2>7. l = [t1 EXCEPT !.isLastSegment = last]
    BY <2>1, Zenon DEF r
  <2>. QED BY <2>6, <2>7, Zenon
<1>. HIDE DEF l
<1>9. CASE d.command
  <2>1. Pad!Cleared(l0) \in Pad!Labels
    BY <1>4, ClearedLabel
  <2>2. [st EXCEPT !.label = Pad!Cleared(l0)] \in PadStates
    BY <2>1, SetLabel
  <2>. QED BY <1>5, <1>9, <2>2, Zenon
<1>10. CASE ~d.command
  <2>. DEFINE set == IF over THEN Pad!Show(l, st.shown) ELSE st.shown
  <2>1. set = Pad!Show(l, st.shown) \/ set = st.shown
    BY Zenon
  <2>2. Pad!LabelStart(st, d) = [st EXCEPT !.label = l, !.shown = set]
    BY <1>5, <1>10, Zenon
  <2>. HIDE DEF set
  <2>3. [st EXCEPT !.label = l, !.shown = set] \in PadStates
    BY <1>8, <2>1, LabelAndShown
  <2>. QED BY <2>2, <2>3, Zenon
<1>. QED BY <1>1, <1>9, <1>10, Zenon

\* A label segment goes on.
LEMMA LabelGoesOn ==
  ASSUME NEW st \in PadStates, NEW d \in Pad!Others
  PROVE  Pad!LabelContinued(st, d) \in PadStates
<1>. DEFINE rest == st.label.remainDataLength
            fits == Pad!Min({d.length, rest})
            more == rest > d.length
            r    == IF more THEN rest - d.length ELSE rest
            t    == Pad!AppendedText(st.label, Pad!First(d.bytes, fits))
            l    == [t EXCEPT !.moreXPad = more,
                              !.remainDataLength =
                                IF @ > d.length THEN @ - d.length ELSE @]
            over == ~l.moreXPad /\ l.isLastSegment
            set  == IF over THEN Pad!Show(l, st.shown) ELSE st.shown
<1>1. d.length \in Nat /\ d.bytes \in Seq(Pad!Byte)
  BY Zenon DEF Pad!Others
<1>2. st.label \in Pad!Labels
  BY StateIs, Zenon
<1>3. rest \in Nat
  BY <1>2, LabelsAre, Zenon DEF LabelParts
<1>4. t.remainDataLength = rest
  <2>. st.label \in LabelParts
    BY <1>2, LabelsAre, Zenon
  <2>. QED BY Zenon DEF Pad!AppendedText, LabelParts
<1>5. CASE ~st.label.moreXPad
  BY <1>5, Zenon DEF Pad!LabelContinued
<1>6. CASE st.label.moreXPad
  <2>1. Pad!LabelContinued(st, d) = [st EXCEPT !.label = l, !.shown = set]
    BY <1>6, Zenon DEF Pad!LabelContinued
  <2>2. fits \in Int /\ r \in Nat /\ more \in BOOLEAN
    <3>1. fits = IF d.length <= rest THEN d.length ELSE rest
      BY <1>1, <1>3, MinIs
    <3>. HIDE DEF fits, rest
    <3>. QED BY <1>1, <1>3, <3>1
  <2>3. more => r > 0
    <3>. HIDE DEF rest
    <3>. QED BY <1>1, <1>3
  <2>4. t \in Pad!Labels
    <3>1. fits \in Int
      BY <2>2, Zenon
    <3>2. d.bytes \in Seq(Pad!Byte)
      BY <1>1, Zenon
    <3>. HIDE DEF fits
    <3>3. Pad!First(d.bytes, fits) \in Seq(Pad!Byte)
      BY <3>1, <3>2, FirstIs
    <3>. QED BY <1>2, <3>3, LabelAppended, Zenon
  <2>5. l = [t EXCEPT !.moreXPad = more, !.remainDataLength = r]
    BY <1>4, Zenon
  <2>6. [t EXCEPT !.moreXPad = more, !.remainDataLength = r] \in Pad!Labels
    <3>1. more \in BOOLEAN
      BY <2>2, Zenon
    <3>2. r \in Nat
      BY <2>2, Zenon
    <3>. HIDE DEF more, r, t
    <3>. QED BY <2>3, <2>4, <3>1, <3>2, RemainsWith
  <2>7. l \in Pad!Labels
    BY <2>5, <2>6, Zenon
  <2>8. set = Pad!Show(l, st.shown) \/ set = st.shown
    BY Zenon
  <2>. HIDE DEF l, set
  <2>9. [st EXCEPT !.label = l, !.shown = set] \in PadStates
    BY <2>7, <2>8, LabelAndShown
  <2>. QED BY <2>1, <2>9, Zenon
<1>7. st.label.moreXPad \in BOOLEAN
  BY <1>2, LabelsAre, Zenon DEF LabelParts
<1>. QED BY <1>5, <1>6, <1>7, Zenon

\* There is one slide at most.
LEMMA OneSlide ==
  ASSUME NEW o \in PadGood
  PROVE  <<o>> \in PadSlides
<1>1. <<o>> \in Seq(PadGood) /\ Len(<<o>>) = 1
  OBVIOUS
<1>. QED BY <1>1 DEF PadSlides

LEMMA SlideOf ==
  ASSUME NEW q \in PadSlides, q # << >>
  PROVE  q[1] \in PadGood
<1>1. q \in Seq(PadGood)
  BY Zenon DEF PadSlides
<1>2. 1 \in 1 .. Len(q)
  BY <1>1, LenProperties
<1>. QED BY <1>1, <1>2, ElementOfSeq

\* Pictures that a data group makes complete.
LEMMA MorePictures ==
  ASSUME NEW k, SlideGroup(k), NEW o \in PadGood,
         o.transportId = PadGroups[k].transportId, NEW p \in SUBSET PadPictures
  PROVE  p \cup Pad!M!handleComplete(o, PadSegment(k)) \in SUBSET PadPictures
<1>1. k \in DOMAIN PadGroups
  BY Zenon DEF SlideGroup
<1>2. ASSUME NEW x \in Pad!M!handleComplete(o, PadSegment(k))
      PROVE  x \in PadPictures
  <2>1. x.result = Pad!M!InOrder(Pad!Slide(x.transportId))
    BY <1>2, SlideKeeps, Zenon
  <2>2. x \in CompletedBy(k)
    BY <1>2, Zenon DEF CompletedBy
  <2>. QED BY <1>1, <2>1, <2>2, Zenon DEF PadPictures
<1>. QED BY <1>2, Zenon

\* A data group that is put together: a slide begins, or is given a segment.
LEMMA SegmentBuilt ==
  ASSUME NEW st \in PadStates, NEW whole \in Seq(Pad!Byte)
  PROVE  Pad!build_MSC_segment(st, whole) \in PadStates
<1>. DEFINE data == Pad!First(whole, st.msc.dataGroupLength)
            k    == data[1][1]
            g    == PadGroups[k]
            same == st.slide # << >> /\ st.slide[1].transportId = g.transportId
            s    == [segmentNumber |-> g.segmentNumber, lastFlag |-> g.lastFlag,
                     body |-> data]
            done == Pad!build_MSC_segment(st, whole)
<1>1. done =
        IF ~Pad!CrcRight(k, data) \/ g.transportId = 0 THEN st
        ELSE IF g.groupType = 3 /\ ~same THEN [st EXCEPT !.slide = Pad!NewSlide(g)]
        ELSE IF g.groupType = 4 /\ same
        THEN [st EXCEPT !.slide = <<Pad!M!addBodySegment(st.slide[1], s)>>,
                        !.pictures = st.pictures \cup
                                     Pad!M!handleComplete(st.slide[1], s)]
        ELSE st
  BY Zenon DEF Pad!build_MSC_segment
<1>. HIDE DEF data, k
<1>2. ASSUME k \in DOMAIN PadGroups
      PROVE  [st EXCEPT !.slide = Pad!NewSlide(g)] \in PadStates
  <2>1. g.transportId \in Nat
    BY <1>2, PadGroupIs, Zenon
  <2>2. Pad!M!motObject(g.transportId, "slide", FALSE) \in PadGood
    BY <2>1, NewSlideIs
  <2>3. Pad!NewSlide(g) \in PadSlides
    BY <2>2, OneSlide, Zenon DEF Pad!NewSlide
  <2>. QED BY <2>3, SetSlide
<1>3. ASSUME k \in DOMAIN PadGroups, g.groupType = 4, same,
             g.crcFlag => data = Pad!PadGroup(k)
      PROVE  [st EXCEPT !.slide = <<Pad!M!addBodySegment(st.slide[1], s)>>,
                        !.pictures = st.pictures \cup
                                     Pad!M!handleComplete(st.slide[1], s)] \in PadStates
  <2>1. SlideGroup(k)
    BY <1>3, Zenon DEF SlideGroup
  <2>2. data = Pad!PadGroup(k)
    BY <1>3, <2>1, SlideIs, Zenon
  <2>3. s = PadSegment(k)
    BY <2>2, Zenon DEF PadSegment
  <2>. DEFINE o == st.slide[1]
              q == <<Pad!M!addBodySegment(o, s)>>
              p == st.pictures \cup Pad!M!handleComplete(o, s)
  <2>4. o \in PadGood
    BY <1>3, StateIs, SlideOf, Zenon
  <2>5. o.transportId = PadGroups[k].transportId
    BY <1>3, Zenon
  <2>6. st.pictures \in SUBSET PadPictures
    BY StateIs, Zenon
  <2>. HIDE DEF s, o
  <2>7. p \in SUBSET PadPictures
    <3>1. st.pictures \cup Pad!M!handleComplete(o, PadSegment(k)) \in SUBSET PadPictures
      BY <2>1, <2>4, <2>5, <2>6, MorePictures
    <3>. QED BY <2>3, <3>1, Zenon
  <2>8. q \in PadSlides
    <3>1. Pad!M!addBodySegment(o, PadSegment(k)) \in PadGood
      BY <2>1, <2>4, <2>5, SlideKeeps, Zenon
    <3>. QED BY <2>3, <3>1, OneSlide, Zenon
  <2>. HIDE DEF p, q
  <2>9. [st EXCEPT !.slide = q] \in PadStates
    BY <2>8, SetSlide
  <2>10. [[st EXCEPT !.slide = q] EXCEPT !.pictures = p] \in PadStates
    BY <2>7, <2>9, SetPictures
  <2>11. [st EXCEPT !.slide = q, !.pictures = p] \in PadStates
    BY <2>10, Zenon
  <2>. QED BY <2>11, Zenon DEF p, q, o
<1>4. CASE ~Pad!CrcRight(k, data) \/ g.transportId = 0
  BY <1>1, <1>4, Zenon
<1>5. CASE ~(~Pad!CrcRight(k, data) \/ g.transportId = 0)
  <2>1. k \in DOMAIN PadGroups /\ (g.crcFlag => data = Pad!PadGroup(k))
    BY <1>5, Zenon DEF Pad!CrcRight
  <2>2. CASE g.groupType = 3 /\ ~same
    BY <1>1, <1>2, <1>5, <2>1, <2>2, Zenon
  <2>3. CASE ~(g.groupType = 3 /\ ~same) /\ g.groupType = 4 /\ same
    <3>1. done = [st EXCEPT !.slide = <<Pad!M!addBodySegment(st.slide[1], s)>>,
                            !.pictures = st.pictures \cup
                                         Pad!M!handleComplete(st.slide[1], s)]
      BY <1>1, <1>5, <2>3, Zenon
    <3>. QED BY <1>3, <2>1, <2>3, <3>1, Zenon
  <2>4. CASE ~(g.groupType = 3 /\ ~same) /\ ~(g.groupType = 4 /\ same)
    BY <1>1, <1>5, <2>4, Zenon
  <2>. QED BY <2>2, <2>3, <2>4, Zenon
<1>. QED BY <1>4, <1>5, Zenon

\* The data group that is put together.
LEMMA SetMscBuffer ==
  ASSUME NEW m \in Pad!Mscs, NEW x \in Seq(Pad!Byte)
  PROVE  [m EXCEPT !.msc_dataGroupBuffer = x] \in Pad!Mscs
BY DEF Pad!Mscs
LEMMA SetMscElement ==
  ASSUME NEW m \in Pad!Mscs, NEW x \in BOOLEAN
  PROVE  [m EXCEPT !.mscGroupElement = x] \in Pad!Mscs
BY DEF Pad!Mscs
LEMMA SetMscLength ==
  ASSUME NEW m \in Pad!Mscs, NEW x \in Nat
  PROVE  [m EXCEPT !.dataGroupLength = x] \in Pad!Mscs
BY DEF Pad!Mscs
LEMMA SetXpadLength ==
  ASSUME NEW m \in Pad!Mscs, NEW x \in Int
  PROVE  [m EXCEPT !.xpadLength = x] \in Pad!Mscs
BY DEF Pad!Mscs

\* The same, in the record that the subfields change.
LEMMA BufferSet ==
  ASSUME NEW st \in PadStates, NEW x \in Seq(Pad!Byte)
  PROVE  [st EXCEPT !.msc.msc_dataGroupBuffer = x] \in PadStates
<1>1. st.msc \in Pad!Mscs
  BY StateIs, Zenon
<1>2. [st.msc EXCEPT !.msc_dataGroupBuffer = x] \in Pad!Mscs
  BY <1>1, SetMscBuffer
<1>3. [st EXCEPT !.msc = [st.msc EXCEPT !.msc_dataGroupBuffer = x]] \in PadStates
  BY <1>2, SetMsc
<1>. QED BY <1>3, Zenon

LEMMA ElementSet ==
  ASSUME NEW st \in PadStates, NEW x \in BOOLEAN
  PROVE  [st EXCEPT !.msc.mscGroupElement = x] \in PadStates
<1>1. st.msc \in Pad!Mscs
  BY StateIs, Zenon
<1>2. [st.msc EXCEPT !.mscGroupElement = x] \in Pad!Mscs
  BY <1>1, SetMscElement
<1>3. [st EXCEPT !.msc = [st.msc EXCEPT !.mscGroupElement = x]] \in PadStates
  BY <1>2, SetMsc
<1>. QED BY <1>3, Zenon

LEMMA LengthSet ==
  ASSUME NEW st \in PadStates, NEW x \in Nat
  PROVE  [st EXCEPT !.msc.dataGroupLength = x] \in PadStates
<1>1. st.msc \in Pad!Mscs
  BY StateIs, Zenon
<1>2. [st.msc EXCEPT !.dataGroupLength = x] \in Pad!Mscs
  BY <1>1, SetMscLength
<1>3. [st EXCEPT !.msc = [st.msc EXCEPT !.dataGroupLength = x]] \in PadStates
  BY <1>2, SetMsc
<1>. QED BY <1>3, Zenon

LEMMA XpadLengthSet ==
  ASSUME NEW st \in PadStates, NEW x \in Int
  PROVE  [st EXCEPT !.msc.xpadLength = x] \in PadStates
<1>1. st.msc \in Pad!Mscs
  BY StateIs, Zenon
<1>2. [st.msc EXCEPT !.xpadLength = x] \in Pad!Mscs
  BY <1>1, SetXpadLength
<1>3. [st EXCEPT !.msc = [st.msc EXCEPT !.xpadLength = x]] \in PadStates
  BY <1>2, SetMsc
<1>. QED BY <1>3, Zenon

\* A data group begins in a subfield, and may end there.
LEMMA ElementBegins ==
  ASSUME NEW st \in PadStates, NEW data \in Seq(Pad!Byte)
  PROVE  Pad!new_MSC_element(st, data) \in PadStates
<1>. DEFINE closed == [st EXCEPT !.msc.msc_dataGroupBuffer = << >>,
                                 !.msc.mscGroupElement = FALSE]
            opened == [st EXCEPT !.msc.mscGroupElement = TRUE,
                                 !.msc.msc_dataGroupBuffer = data]
<1>1. closed \in PadStates
  <2>1. PICK s1 : s1 = [st EXCEPT !.msc.msc_dataGroupBuffer = << >>]
    OBVIOUS
  <2>2. s1 \in PadStates
    BY <2>1, BufferSet, EmptySeq, Zenon
  <2>3. [s1 EXCEPT !.msc.mscGroupElement = FALSE] \in PadStates
    BY <2>2, ElementSet, Zenon
  <2>. QED BY <2>1, <2>3, Zenon
<1>2. opened \in PadStates
  <2>1. PICK s1 : s1 = [st EXCEPT !.msc.mscGroupElement = TRUE]
    OBVIOUS
  <2>2. s1 \in PadStates
    BY <2>1, ElementSet, Zenon
  <2>3. [s1 EXCEPT !.msc.msc_dataGroupBuffer = data] \in PadStates
    BY <2>2, BufferSet, Zenon
  <2>. QED BY <2>1, <2>3, Zenon
<1>3. Pad!build_MSC_segment(closed, data) \in PadStates
  <2>. HIDE DEF closed
  <2>. QED BY <1>1, SegmentBuilt
<1>. QED BY <1>2, <1>3, Zenon DEF Pad!new_MSC_element

\* A data group goes on.
LEMMA ElementGoesOn ==
  ASSUME NEW st \in PadStates, NEW data \in Seq(Pad!Byte)
  PROVE  Pad!add_MSC_element(st, data) \in PadStates
<1>. DEFINE all  == st.msc.msc_dataGroupBuffer \o data
            kept == [st EXCEPT !.msc.msc_dataGroupBuffer = all]
            done == [st EXCEPT !.msc.msc_dataGroupBuffer = << >>]
<1>1. all \in Seq(Pad!Byte)
  <2>1. st.msc.msc_dataGroupBuffer \in Seq(Pad!Byte)
    BY StateIs, Zenon DEF Pad!Mscs
  <2>. QED BY <2>1, ConcatProperties
<1>2. kept \in PadStates
  <2>. HIDE DEF all
  <2>. QED BY <1>1, BufferSet
<1>3. Pad!build_MSC_segment(done, all) \in PadStates
  <2>1. done \in PadStates
    BY BufferSet, EmptySeq, Zenon
  <2>. HIDE DEF done, all
  <2>. QED BY <1>1, <2>1, SegmentBuilt
<1>. QED BY <1>2, <1>3, Zenon DEF Pad!add_MSC_element

\* A kind of subfield that is handled.
Kind(a) == a = 1 \/ a = 2 \/ a = 3 \/ a = 12 \/ a = 13

\* A subfield keeps the record in type, and what is handed on whole.
LEMMA SubfieldDone ==
  ASSUME NEW st \in PadStates, NEW d \in Pad!Subfields, Kind(d.appType)
  PROVE  Pad!Subfield(st, d) \in PadStates
<1>1. CASE d \in Pad!Indicators
  <2>1. d.appType \in {1} /\ d.dataGroupLength \in Nat \ {0}
    BY <1>1, Zenon DEF Pad!Indicators
  <2>2. Pad!Subfield(st, d) = [st EXCEPT !.msc.dataGroupLength = d.dataGroupLength]
    BY <2>1 DEF Pad!Subfield
  <2>. QED BY <2>1, <2>2, LengthSet, Zenon
<1>2. CASE d \in Pad!LabelStarts
  <2>1. d.appType \in {2}
    BY <1>2, Zenon DEF Pad!LabelStarts
  <2>2. Pad!Subfield(st, d) = Pad!LabelStart(st, d)
    BY <2>1 DEF Pad!Subfield
  <2>3. Pad!LabelStart(st, d) \in PadStates
    BY <1>2, LabelStarted
  <2>. QED BY <2>2, <2>3, Zenon
<1>3. CASE d \in Pad!Others
  <2>1. d.appType \in Nat \ {1, 2} /\ d.bytes \in Seq(Pad!Byte)
    BY <1>3, Zenon DEF Pad!Others
  <2>2. CASE d.appType = 3
    <3>1. Pad!Subfield(st, d) = Pad!LabelContinued(st, d)
      BY <2>2 DEF Pad!Subfield
    <3>2. Pad!LabelContinued(st, d) \in PadStates
      BY <1>3, LabelGoesOn
    <3>. QED BY <3>1, <3>2, Zenon
  <2>3. CASE d.appType = 12
    <3>1. Pad!Subfield(st, d) = Pad!new_MSC_element(st, d.bytes)
      BY <2>3 DEF Pad!Subfield
    <3>2. Pad!new_MSC_element(st, d.bytes) \in PadStates
      BY <2>1, ElementBegins
    <3>. QED BY <3>1, <3>2, Zenon
  <2>4. CASE d.appType = 13
    <3>1. Pad!Subfield(st, d) = Pad!add_MSC_element(st, d.bytes)
      BY <2>4 DEF Pad!Subfield
    <3>2. Pad!add_MSC_element(st, d.bytes) \in PadStates
      BY <2>1, ElementGoesOn
    <3>. QED BY <3>1, <3>2, Zenon
  <2>5. d.appType = 3 \/ d.appType = 12 \/ d.appType = 13
    BY <2>1 DEF Kind
  <2>. QED BY <2>2, <2>3, <2>4, <2>5, Zenon
<1>. QED BY <1>1, <1>2, <1>3, Zenon DEF Pad!Subfields

\* Min of a set of numbers is its least element.
LEMMA LeastOf ==
  ASSUME NEW S \in SUBSET Nat, S # {}
  PROVE  Pad!Min(S) \in S /\ \A y \in S : Pad!Min(S) <= y
<1>1. PICK m \in S : \A k \in S : m <= k
  BY Least
<1>2. \E x \in S : \A y \in S : x =< y
  BY <1>1, Zenon
<1>. QED BY <1>2, Zenon DEF Pad!Min

\* The subfields that are handled are of a kind that is known.
LEMMA HandledAre ==
  ASSUME NEW subs \in Seq(Pad!Subfields)
  PROVE  /\ Pad!Handled(subs) \in Seq(Pad!Subfields)
         /\ \A i \in 1 .. Len(Pad!Handled(subs)) : Kind(Pad!Handled(subs)[i].appType)
<1>. DEFINE other == {i \in DOMAIN subs : subs[i].appType \notin {1, 2, 3, 12, 13}}
<1>1. DOMAIN subs = 1 .. Len(subs) /\ Len(subs) \in Nat
  BY LenProperties
<1>2. ASSUME NEW i \in 1 .. Len(subs), i \notin other
      PROVE  Kind(subs[i].appType)
  BY <1>1, <1>2, Zenon DEF Kind
<1>3. CASE other = {}
  <2>1. Pad!Handled(subs) = subs
    BY <1>3, Zenon DEF Pad!Handled
  <2>. QED BY <1>2, <1>3, <2>1, Zenon
<1>4. CASE other # {}
  <2>. DEFINE n == Pad!Min(other) - 1
  <2>1. Pad!Handled(subs) = SubSeq(subs, 1, n)
    BY <1>4, Zenon DEF Pad!Handled
  <2>2. other \in SUBSET Nat /\ other \in SUBSET (1 .. Len(subs))
    BY <1>1
  <2>. HIDE DEF other
  <2>3. Pad!Min(other) \in other /\ \A y \in other : Pad!Min(other) <= y
    BY <1>4, <2>2, LeastOf
  <2>. DEFINE m == Pad!Min(other)
  <2>4. m \in 1 .. Len(subs) /\ \A y \in other : m <= y
    BY <2>2, <2>3, Zenon
  <2>. HIDE DEF m
  <2>5. /\ n \in Nat /\ n <= Len(subs)
        /\ \A i \in 1 .. n : i \in 1 .. Len(subs) /\ i \notin other
    <3>1. n = m - 1
      BY Zenon DEF m
    <3>. HIDE DEF n
    <3>2. n \in Nat /\ n <= Len(subs)
      BY <1>1, <2>4, <3>1
    <3>3. ASSUME NEW i \in 1 .. n PROVE i \in 1 .. Len(subs) /\ i \notin other
      <4>1. i \in 1 .. Len(subs) /\ ~(m <= i)
        BY <1>1, <2>4, <3>1
      <4>. QED BY <2>4, <4>1, Zenon
    <3>. QED BY <3>2, <3>3
  <2>. HIDE DEF n
  <2>6. /\ SubSeq(subs, 1, n) \in Seq(Pad!Subfields)
        /\ Len(SubSeq(subs, 1, n)) = IF n > 0 THEN n ELSE 0
    BY <2>5, Beginning
  <2>7. Len(SubSeq(subs, 1, n)) = n
    BY <2>5, <2>6
  <2>8. ASSUME NEW i \in 1 .. n
        PROVE  SubSeq(subs, 1, n)[i] = subs[i]
    BY <2>5, SubSeqProperties
  <2>. QED BY <1>2, <2>1, <2>5, <2>6, <2>7, <2>8, Zenon
<1>. QED BY <1>3, <1>4, Zenon

\* All the subfields of a field, one after the other.
LEMMA SubfieldsDone ==
  ASSUME NEW st \in PadStates, NEW subs \in Seq(Pad!Subfields)
  PROVE  Pad!Along(Pad!Subfield, st, Pad!Handled(subs)) \in PadStates
<1>. DEFINE seq == Pad!Handled(subs)
            n == Len(seq)
            step(b, i) == Pad!Subfield(b, seq[i])
            F == [b \in PadStates |-> [i \in 1 .. n |-> step(b, i)]]
            Is(t) == t = [i \in 0 .. n |-> IF i = 0 THEN st ELSE step(t[i - 1], i)]
            u == CHOOSE t : Is(t)
<1>1. /\ seq \in Seq(Pad!Subfields) /\ n \in Nat
      /\ \A i \in 1 .. n : seq[i] \in Pad!Subfields /\ Kind(seq[i].appType)
  <2>1. seq \in Seq(Pad!Subfields) /\ \A i \in 1 .. n : Kind(seq[i].appType)
    BY HandledAre, Zenon
  <2>2. n \in Nat
    BY <2>1, LenProperties
  <2>. HIDE DEF seq
  <2>3. \A i \in 1 .. n : seq[i] \in Pad!Subfields
    BY <2>1, ElementOfSeq
  <2>. QED BY <2>1, <2>2, <2>3
<1>2. Pad!Along(Pad!Subfield, st, seq) = u[n]
  BY Zenon DEF Pad!Along
<1>. HIDE DEF seq
<1>3. \A b \in PadStates, i \in 1 .. n : step(b, i) \in PadStates
  BY <1>1, SubfieldDone, Zenon
<1>4. \A b \in PadStates, i \in 1 .. n : F[b][i] = step(b, i)
  <2>. HIDE DEF step, n
  <2>. QED OBVIOUS
<1>5. F \in [PadStates -> [1 .. n -> PadStates]]
  <2>. HIDE DEF step, n
  <2>. QED BY <1>3
<1>. HIDE DEF F, step, n
<1>6. PICK t : Goes(t, n, PadStates, st, F)
  BY <1>1, <1>5, Rounds
<1>7. Is(t)
  <2>1. \A i \in 1 .. n : t[i - 1] \in PadStates
    BY <1>1, <1>6 DEF Goes
  <2>2. \A i \in 1 .. n : t[i] = step(t[i - 1], i)
    BY <1>4, <1>6, <2>1 DEF Goes
  <2>. QED BY <1>1, <1>6, <2>2 DEF Goes
<1>8. Is(u)
  <2>. HIDE DEF Is
  <2>. QED BY <1>7, Zenon
<1>. HIDE DEF u
<1>9. u[0] = st /\ \A i \in 1 .. n : u[i] = step(u[i - 1], i)
  BY <1>1, <1>8
<1>10. \A i \in 1 .. n : u[i - 1] \in PadStates => u[i] \in PadStates
  BY <1>3, <1>9
<1>11. u[n] \in PadStates
  BY <1>1, <1>9, <1>10, AfterRounds
<1>. QED BY <1>2, <1>11, Zenon DEF seq

\* The length of a field is a number.
LEMMA SubfieldLength ==
  ASSUME NEW d \in Pad!Subfields
  PROVE  d.length \in Nat
BY Zenon DEF Pad!Subfields, Pad!Indicators, Pad!LabelStarts, Pad!Others

LEMMA TotalIs ==
  ASSUME NEW subs \in Seq(Pad!Subfields)
  PROVE  Pad!TotalLength(subs) \in Nat
<1>. DEFINE n == Len(subs)
            step(b, i) == Pad!Longer(b, subs[i])
            F == [b \in Nat |-> [i \in 1 .. n |-> step(b, i)]]
            Is(t) == t = [i \in 0 .. n |-> IF i = 0 THEN 0 ELSE step(t[i - 1], i)]
            u == CHOOSE t : Is(t)
<1>1. n \in Nat /\ \A i \in 1 .. n : subs[i].length \in Nat
  <2>1. \A i \in 1 .. n : subs[i] \in Pad!Subfields
    BY ElementOfSeq
  <2>. QED BY <2>1, LenProperties, SubfieldLength, Zenon
<1>2. Pad!Along(Pad!Longer, 0, subs) = u[n]
  BY Zenon DEF Pad!Along
<1>3. \A b \in Nat, i \in 1 .. n : step(b, i) \in Nat
  BY <1>1 DEF Pad!Longer
<1>. HIDE DEF step, n
<1>4. \A b \in Nat, i \in 1 .. n : F[b][i] = step(b, i)
  OBVIOUS
<1>5. F \in [Nat -> [1 .. n -> Nat]]
  BY <1>3
<1>. HIDE DEF F
<1>6. PICK t : Goes(t, n, Nat, 0, F)
  BY <1>1, <1>5, Rounds
<1>7. Is(t)
  <2>1. \A i \in 1 .. n : t[i - 1] \in Nat
    BY <1>1, <1>6 DEF Goes
  <2>2. \A i \in 1 .. n : t[i] = step(t[i - 1], i)
    BY <1>4, <1>6, <2>1 DEF Goes
  <2>. QED BY <1>1, <1>6, <2>2 DEF Goes
<1>8. Is(u)
  <2>. HIDE DEF Is
  <2>. QED BY <1>7, Zenon
<1>. HIDE DEF u
<1>9. u[0] = 0 /\ \A i \in 1 .. n : u[i] = step(u[i - 1], i)
  BY <1>1, <1>8
<1>10. \A i \in 1 .. n : u[i - 1] \in Nat => u[i] \in Nat
  BY <1>3, <1>9
<1>11. u[n] \in Nat
  <2>1. u[0] \in Nat
    BY <1>9
  <2>. HIDE DEF step
  <2>2. n \in Nat
    BY <1>1
  <2>. QED BY <1>10, <2>1, <2>2, AfterRounds
<1>12. Pad!Min({4, n + 1}) \in Nat
  <2>1. Pad!Min({4, n + 1}) = IF 4 <= n + 1 THEN 4 ELSE n + 1
    BY <1>1, MinIs
  <2>. QED BY <1>1, <2>1
<1>13. Pad!TotalLength(subs) = u[n] + Pad!Min({4, n + 1})
  BY <1>2, Zenon DEF Pad!TotalLength, n
<1>. QED BY <1>11, <1>12, <1>13

\* A variable field.
LEMMA VariableIs ==
  ASSUME NEW f \in Pad!PadFields, f.x_padInd = 2
  PROVE  /\ f.CI \in BOOLEAN
         /\ f.CI => f.subs \in Seq(Pad!Subfields)
         /\ ~f.CI => f.bytes \in Seq(Pad!Byte)
<1>1. f \in Pad!Variables \/ f \in Pad!AllData
  <2>1. ASSUME f \in Pad!NoXPads PROVE FALSE
    <3>1. f.x_padInd \in {0}
      BY <2>1, Zenon DEF Pad!NoXPads
    <3>. QED BY <3>1
  <2>2. ASSUME f \in Pad!ShortFlags PROVE FALSE
    <3>1. f.x_padInd \in {1}
      BY <2>2, Zenon DEF Pad!ShortFlags
    <3>. QED BY <3>1
  <2>. QED BY <2>1, <2>2, Zenon DEF Pad!PadFields
<1>2. CASE f \in Pad!Variables
  <2>1. f.CI \in {TRUE} /\ f.subs \in Seq(Pad!Subfields)
    BY <1>2, Zenon DEF Pad!Variables
  <2>. QED BY <2>1, Zenon
<1>3. CASE f \in Pad!AllData
  <2>1. f.CI \in {FALSE} /\ f.bytes \in Seq(Pad!Byte)
    BY <1>3, Zenon DEF Pad!AllData
  <2>. QED BY <2>1, Zenon
<1>. QED BY <1>1, <1>2, <1>3, Zenon

\* A field without indicators is of the length it is taken to be.
LEMMA SizedIs ==
  ASSUME NEW bytes \in Seq(Pad!Byte), NEW n \in Int, n > 0
  PROVE  Pad!SizedAs(bytes, n) \in Seq(Pad!Byte)
<1>. DEFINE x(i) == IF i \in DOMAIN bytes THEN bytes[i] ELSE <<0, 0>>
<1>1. ASSUME NEW i \in 1 .. n PROVE x(i) \in Pad!Byte
  <2>1. <<0, 0>> \in Pad!Byte
    BY DEF Pad!Byte
  <2>2. DOMAIN bytes = 1 .. Len(bytes)
    BY LenProperties
  <2>3. CASE i \in DOMAIN bytes
    <3>1. bytes[i] \in Pad!Byte
      BY <2>2, <2>3, ElementOfSeq
    <3>. QED BY <2>3, <3>1, Zenon
  <2>4. CASE i \notin DOMAIN bytes
    BY <2>1, <2>4, Zenon
  <2>. QED BY <2>3, <2>4, Zenon
<1>2. Pad!SizedAs(bytes, n) = [i \in 1 .. n |-> x(i)]
  BY Zenon DEF Pad!SizedAs
<1>3. n \in Nat
  OBVIOUS
<1>. HIDE DEF x
<1>4. [i \in 1 .. n |-> x(i)] \in [1 .. n -> Pad!Byte]
  BY <1>1
<1>5. [i \in 1 .. n |-> x(i)] \in Seq(Pad!Byte)
  BY <1>3, <1>4 
<1>. QED BY <1>2, <1>5, Zenon

\* A variable field keeps what is kept in type, and what is handed on whole.
LEMMA VariableStep ==
  ASSUME label \in Pad!Labels, msc \in Pad!Mscs, currentSlide \in PadSlides,
         shown \in SUBSET Texts0,
         NEW f \in Pad!PadFields, f.x_padInd = 2, Pad!handle_variablePAD(f)
  PROVE  /\ label' \in Pad!Labels /\ short' = short /\ msc' \in Pad!Mscs
         /\ currentSlide' \in PadSlides /\ shown' \in SUBSET Texts0
         /\ pictures' \in SUBSET PadPictures
<1>. DEFINE st0 == [label |-> label, msc |-> msc, slide |-> currentSlide,
                    shown |-> shown, pictures |-> pictures]
            st1 == IF msc.mscGroupElement
                   THEN [st0 EXCEPT !.msc.xpadLength = Pad!TotalLength(f.subs)] ELSE st0
            st  == IF f.CI THEN Pad!Along(Pad!Subfield, st1, Pad!Handled(f.subs))
                   ELSE IF msc.mscGroupElement /\ msc.xpadLength > 0
                   THEN Pad!add_MSC_element(st0, Pad!SizedAs(f.bytes, msc.xpadLength))
                   ELSE st0
<1>1. /\ f.CI \in BOOLEAN
      /\ f.CI => f.subs \in Seq(Pad!Subfields)
      /\ ~f.CI => f.bytes \in Seq(Pad!Byte)
  BY VariableIs, Zenon
<1>2. st0 \in PadStates
  <2>1. pictures \in SUBSET PadPictures
    BY Zenon DEF PadPictures
  <2>. QED BY <2>1, Zenon DEF PadStates
<1>3. /\ label' = st.label /\ msc' = st.msc /\ currentSlide' = st.slide
      /\ shown' = st.shown /\ pictures' = st.pictures /\ short' = short
  BY Zenon DEF Pad!handle_variablePAD
<1>. HIDE DEF st0
<1>4. CASE f.CI
  <2>1. st1 \in PadStates
    <3>1. Pad!TotalLength(f.subs) \in Int
      <4>1. Pad!TotalLength(f.subs) \in Nat
        BY <1>1, <1>4, TotalIs, Zenon
      <4>. QED BY <4>1
    <3>2. [st0 EXCEPT !.msc.xpadLength = Pad!TotalLength(f.subs)] \in PadStates
      BY <1>2, <3>1, XpadLengthSet
    <3>. QED BY <1>2, <3>2, Zenon
  <2>. HIDE DEF st1
  <2>2. Pad!Along(Pad!Subfield, st1, Pad!Handled(f.subs)) \in PadStates
    BY <1>1, <1>4, <2>1, SubfieldsDone
  <2>3. st = Pad!Along(Pad!Subfield, st1, Pad!Handled(f.subs))
    BY <1>4, Zenon
  <2>4. st \in PadStates
    BY <2>2, <2>3, Zenon
  <2>. HIDE DEF st
  <2>. QED BY <1>3, <2>4, StateIs, Zenon
<1>5. CASE ~f.CI
  <2>1. st \in PadStates
    <3>1. CASE msc.mscGroupElement /\ msc.xpadLength > 0
      <4>1. msc.xpadLength \in Int
        BY Zenon DEF Pad!Mscs
      <4>2. f.bytes \in Seq(Pad!Byte)
        BY <1>1, <1>5, Zenon
      <4>3. msc.xpadLength > 0
        BY <3>1, Zenon
      <4>4. Pad!SizedAs(f.bytes, msc.xpadLength) \in Seq(Pad!Byte)
        BY <4>1, <4>2, <4>3, SizedIs
      <4>5. Pad!add_MSC_element(st0, Pad!SizedAs(f.bytes, msc.xpadLength)) \in PadStates
        BY <1>2, <4>4, ElementGoesOn
      <4>. QED BY <1>5, <3>1, <4>5, Zenon
    <3>2. CASE ~(msc.mscGroupElement /\ msc.xpadLength > 0)
      BY <1>2, <1>5, <3>2, Zenon
    <3>. QED BY <3>1, <3>2, Zenon
  <2>. HIDE DEF st
  <2>. QED BY <1>3, <2>1, StateIs, Zenon
<1>. QED BY <1>1, <1>4, <1>5, Zenon

\* What the handlers change, of what a padHandler keeps.
PadInv ==
  /\ label \in Pad!Labels /\ short \in Pad!Shorts /\ msc \in Pad!Mscs
  /\ currentSlide \in PadSlides /\ shown \in SUBSET Texts0 /\ Pad!SlidesWhole
PadChannel ==
  script \in DOMAIN Scripts /\ at \in DOMAIN Scripts[script] /\ lost \in 0 .. MaxLost

\* The two parts of the invariant: what is kept, and the channel.
LEMMA PadInvIs ==
  ASSUME Pad!IInv
  PROVE  PadInv /\ PadChannel
<1>1. currentSlide \in PadSlides
  <2>1. currentSlide \in Seq(Pad!PadObjects) /\ Len(currentSlide) <= 1
    BY Zenon DEF Pad!IInv, Pad!SlideSound, Pad!TypeOK
  <2>2. ASSUME NEW i \in 1 .. Len(currentSlide) PROVE currentSlide[i] \in PadGood
    <3>1. i \in DOMAIN currentSlide /\ currentSlide[i] \in Pad!PadObjects
      BY <2>1, LenProperties, ElementOfSeq
    <3>2. Pad!M!PartOf(currentSlide[i], Pad!Slide(currentSlide[i].transportId))
      BY <3>1, Zenon DEF Pad!IInv, Pad!SlideSound
    <3>. QED BY <3>1, <3>2, Zenon DEF PadGood
  <2>. QED BY <2>1, <2>2 DEF PadSlides
<1>2. shown \in SUBSET Texts0
  BY Zenon DEF Pad!IInv, Pad!TypeOK, Texts0
<1>. QED BY <1>1, <1>2, Zenon DEF Pad!IInv, Pad!TypeOK, PadInv, PadChannel

LEMMA PadInvGives ==
  ASSUME PadInv, PadChannel
  PROVE  Pad!IInv
<1>1. currentSlide \in Seq(PadGood) /\ Len(currentSlide) <= 1
  BY Zenon DEF PadInv, PadSlides
<1>2. \A i \in DOMAIN currentSlide : currentSlide[i] \in PadGood
  BY <1>1, LenProperties, ElementOfSeq
<1>3. currentSlide \in Seq(Pad!PadObjects)
  <2>1. PadGood \subseteq Pad!PadObjects
    BY Zenon DEF PadGood
  <2>. QED BY <1>1, <2>1, SeqMonotonic, Zenon
<1>4. Pad!SlideSound
  BY <1>2, <1>3, Zenon DEF Pad!SlideSound, PadGood
<1>5. shown \subseteq Seq(Pad!Byte \X Int)
  BY Zenon DEF PadInv, Texts0
<1>6. Pad!TypeOK
  BY <1>1, <1>5, Zenon DEF Pad!TypeOK, PadInv, PadChannel
<1>. QED BY <1>4, <1>6, Zenon DEF Pad!IInv, PadInv

\* The next field of a service.
LEMMA FieldIs ==
  ASSUME PadChannel
  PROVE  /\ Pad!Field \in Pad!PadFields
         /\ Pad!AdvanceField => at' \in DOMAIN Scripts[script]
<1>1. Scripts[script] # << >> /\ Scripts[script] \in Seq(Pad!PadFields)
  BY PadAssumption, Zenon DEF Pad!ScriptsAssumption, PadChannel
<1>. DEFINE s == Scripts[script]
            n == Len(s)
<1>2. n \in Nat \ {0} /\ DOMAIN s = 1 .. n
  BY <1>1, LenProperties, EmptySeq
<1>3. at \in 1 .. n
  BY <1>2, Zenon DEF PadChannel
<1>4. s[at] \in Pad!PadFields
  BY <1>1, <1>3, ElementOfSeq
<1>5. ASSUME Pad!AdvanceField PROVE at' \in DOMAIN s
  <2>1. at' = (at % n) + 1
    BY <1>5, Zenon DEF Pad!AdvanceField
  <2>. HIDE DEF n, s
  <2>2. at % n \in 0 .. n - 1
    BY <1>2, <1>3
  <2>3. (at % n) + 1 \in 1 .. n
    BY <1>2, <2>2
  <2>. QED BY <1>2, <2>1, <2>3
<1>. QED BY <1>4, <1>5, Zenon DEF Pad!Field

\* A field, whatever it is, keeps the first part of the invariant.
LEMMA FieldStep ==
  ASSUME PadInv, NEW f \in Pad!PadFields, Pad!processPAD(f)
  PROVE  PadInv'
<1>1. CASE f.x_padInd = 1
  <2>1. Pad!handle_shortPAD(f)
    BY <1>1 DEF Pad!processPAD
  <2>2. label' \in Pad!Labels /\ short' \in Pad!Shorts /\ shown' \in SUBSET Texts0
    BY <1>1, <2>1, ShortStep, Zenon DEF PadInv
  <2>3. UNCHANGED <<msc, currentSlide, pictures>>
    BY <2>1, Zenon DEF Pad!handle_shortPAD
  <2>4. msc' \in Pad!Mscs /\ currentSlide' \in PadSlides /\ Pad!SlidesWhole'
    BY <2>3, Zenon DEF PadInv, Pad!SlidesWhole
  <2>. QED BY <2>2, <2>4, Zenon DEF PadInv
<1>2. CASE f.x_padInd = 2
  <2>1. Pad!handle_variablePAD(f)
    BY <1>2 DEF Pad!processPAD
  <2>2. /\ label' \in Pad!Labels /\ short' = short /\ msc' \in Pad!Mscs
        /\ currentSlide' \in PadSlides /\ shown' \in SUBSET Texts0
        /\ pictures' \in SUBSET PadPictures
    BY <1>2, <2>1, VariableStep, Zenon DEF PadInv
  <2>3. short' \in Pad!Shorts
    BY <2>2, Zenon DEF PadInv
  <2>4. Pad!SlidesWhole'
    <3>1. ASSUME NEW x \in pictures'
          PROVE  x.result = Pad!M!InOrder(Pad!Slide(x.transportId))
      BY <2>2, <3>1, Zenon DEF PadInv, PadPictures, Pad!SlidesWhole
    <3>. QED BY <3>1, Zenon DEF Pad!SlidesWhole
  <2>. QED BY <2>2, <2>3, <2>4, Zenon DEF PadInv
<1>3. CASE f.x_padInd # 1 /\ f.x_padInd # 2
  <2>1. UNCHANGED <<label, short, msc, currentSlide, shown, pictures>>
    BY <1>3 DEF Pad!processPAD
  <2>. QED BY <2>1, Zenon DEF PadInv, Pad!SlidesWhole
<1>. QED BY <1>1, <1>2, <1>3, Zenon

\* What a padHandler begins with.
LEMMA BeginsWith ==
  /\ Pad!Static \in Pad!Labels /\ Pad!NewShort \in Pad!Shorts /\ Pad!NewMsc \in Pad!Mscs
  /\ \A l \in Pad!Labels : Pad!NewLabel(l) \in Pad!Labels
  /\ << >> \in PadSlides
<1>1. Pad!Static \in Pad!Labels
  <2>1. Pad!Static \in LabelParts /\ Pad!Static.moreXPad = FALSE
    BY EmptySeq DEF Pad!Static, LabelParts, Texts0
  <2>. QED BY <2>1, LabelsAre, Zenon
<1>2. Pad!NewShort \in Pad!Shorts
  BY EmptySeq DEF Pad!NewShort, Pad!Shorts
<1>3. Pad!NewMsc \in Pad!Mscs
  BY EmptySeq DEF Pad!NewMsc, Pad!Mscs
<1>4. ASSUME NEW l \in Pad!Labels PROVE Pad!NewLabel(l) \in Pad!Labels
  <2>1. Pad!Cleared(l) \in Pad!Labels
    BY ClearedLabel
  <2>2. [Pad!Cleared(l) EXCEPT !.charSet = -1] \in Pad!Labels
    BY <2>1, WithCharSet
  <2>. QED BY <2>2, Zenon DEF Pad!NewLabel, Pad!Cleared
<1>5. << >> \in PadSlides
  BY EmptySeq DEF PadSlides
<1>. QED BY <1>1, <1>2, <1>3, <1>4, <1>5, Zenon

LEMMA LossCounted ==
  ASSUME lost \in 0 .. MaxLost, lost < MaxLost, lost' = lost + 1
  PROVE  lost' \in 0 .. MaxLost
<1>1. MaxLost \in Nat
  BY PadAssumption, Zenon DEF Pad!LostAssumption
<1>. QED BY <1>1

\* The invariant of the padHandler is inductive.
LEMMA PadStep == Pad!IInv /\ Pad!Next => Pad!IInv'
<1>. SUFFICES ASSUME Pad!IInv, Pad!Next PROVE Pad!IInv'
  OBVIOUS
<1>1. PadInv /\ PadChannel
  BY PadInvIs, Zenon
<1>2. CASE Pad!FieldComes
  <2>1. PadInv'
    <3>1. Pad!Field \in Pad!PadFields
      BY <1>1, FieldIs, Zenon
    <3>2. Pad!processPAD(Pad!Field)
      BY <1>2, Zenon DEF Pad!FieldComes
    <3>. QED BY <1>1, <3>1, <3>2, FieldStep
  <2>2. PadChannel'
    <3>1. at' \in DOMAIN Scripts[script] /\ script' = script /\ lost' = lost
      BY <1>1, <1>2, FieldIs, Zenon DEF Pad!FieldComes
    <3>. QED BY <1>1, <3>1, Zenon DEF PadChannel
  <2>. QED BY <2>1, <2>2, PadInvGives, PTL
<1>3. CASE Pad!FieldLost
  <2>1. PadInv'
    BY <1>1, <1>3, Zenon DEF Pad!FieldLost, PadInv, Pad!SlidesWhole
  <2>2. PadChannel'
    <3>1. at' \in DOMAIN Scripts[script] /\ script' = script
      BY <1>1, <1>3, FieldIs, Zenon DEF Pad!FieldLost
    <3>2. lost' \in 0 .. MaxLost
      BY <1>1, <1>3, LossCounted, Zenon DEF Pad!FieldLost, PadChannel
    <3>. QED BY <1>1, <3>1, <3>2, Zenon DEF PadChannel
  <2>. QED BY <2>1, <2>2, PadInvGives, PTL
<1>4. CASE Pad!NewService
  <2>1. PadInv'
    <3>1. /\ label' = Pad!NewLabel(label) /\ short' = Pad!NewShort /\ msc' = Pad!NewMsc
          /\ currentSlide' = << >> /\ shown' = {} /\ pictures' = {}
      BY <1>4, Zenon DEF Pad!NewService
    <3>2. label' \in Pad!Labels /\ short' \in Pad!Shorts /\ msc' \in Pad!Mscs
          /\ currentSlide' \in PadSlides
      BY <1>1, <3>1, BeginsWith, Zenon DEF PadInv
    <3>. QED BY <3>1, <3>2, Zenon DEF PadInv, Pad!SlidesWhole
  <2>2. PadChannel'
    <3>1. lost' \in 0 .. MaxLost
      BY <1>1, <1>4, LossCounted, Zenon DEF Pad!NewService, PadChannel
    <3>. QED BY <1>4, <3>1, Zenon DEF Pad!NewService, PadChannel
  <2>. QED BY <2>1, <2>2, PadInvGives, PTL
<1>. QED BY <1>2, <1>3, <1>4, Zenon DEF Pad!Next

LEMMA PadBegins == Pad!Init => Pad!IInv
<1>. SUFFICES ASSUME Pad!Init PROVE Pad!IInv
  OBVIOUS
<1>1. PadInv
  BY BeginsWith, Zenon DEF Pad!Init, PadInv, Pad!SlidesWhole
<1>2. PadChannel
  <2>1. script \in DOMAIN Scripts /\ at = 1 /\ lost = 0
    BY Zenon DEF Pad!Init
  <2>2. Scripts[script] # << >> /\ Scripts[script] \in Seq(Pad!PadFields)
    BY <2>1, PadAssumption, Zenon DEF Pad!ScriptsAssumption
  <2>3. 1 \in DOMAIN Scripts[script]
    BY <2>2, LenProperties, EmptySeq
  <2>4. 0 \in 0 .. MaxLost
    <3>1. MaxLost \in Nat
      BY PadAssumption, Zenon DEF Pad!LostAssumption
    <3>. QED BY <3>1
  <2>. QED BY <2>1, <2>3, <2>4, Zenon DEF PadChannel
<1>. QED BY <1>1, <1>2, PadInvGives, Zenon

(***************************************************************************)
(* The processors together.                                                *)
(***************************************************************************)
LEMMA ProcessorsBegin == ProcessorsInit => ProcessorsInv
<1>. SUFFICES ASSUME ProcessorsInit PROVE ProcessorsInv
  OBVIOUS
<1>1. CASE theProcessor = "mp2" /\ Mp2!Init
  BY <1>1, Mp2Begins DEF ProcessorsInv
<1>2. CASE theProcessor = "mp4" /\ Mp4!Init
  BY <1>2, Mp4Begins DEF ProcessorsInv
<1>3. CASE theProcessor = "data" /\ Data!Init
  BY <1>3, DataBegins DEF ProcessorsInv
<1>4. CASE theProcessor = "pad" /\ Pad!Init
  BY <1>4, PadBegins DEF ProcessorsInv
<1>. QED BY <1>1, <1>2, <1>3, <1>4, Zenon DEF ProcessorsInit

\* A processor that is not the one that makes a step is not there.
LEMMA OneProcessor ==
  ASSUME UNCHANGED theProcessor
  PROVE  /\ theProcessor = "mp2" /\ Mp2!IInv' => ProcessorsInv'
         /\ theProcessor = "mp4" /\ Mp4!IInv' => ProcessorsInv'
         /\ theProcessor = "data" /\ Data!IInv' => ProcessorsInv'
         /\ theProcessor = "pad" /\ Pad!IInv' => ProcessorsInv'
BY DEF ProcessorsInv

\* Nothing changes.
LEMMA Mp2Stays == Mp2!IInv /\ UNCHANGED mp2Vars => Mp2!IInv'
<1>. SUFFICES ASSUME Mp2!IInv, UNCHANGED mp2Vars PROVE Mp2!IInv'
  OBVIOUS
<1>. USE DEF mp2Vars
<1>1. Mp2!TypeOK'
  BY DEF Mp2!IInv, Mp2!TypeOK
<1>2. Mp2!Placed'
  BY Zenon DEF Mp2!IInv, Mp2!Placed, Mp2!Position
<1>3. Mp2!Aligned'
  <2>1. rate' = rate
    BY Zenon
  <2>2. Mp2!HeaderBits' = Mp2!HeaderBits
    BY <2>1 DEF Mp2!HeaderBits
  <2>. QED BY <2>2, Zenon DEF Mp2!IInv, Mp2!Aligned
<1>4. Mp2!StaysAligned'
  BY Zenon DEF Mp2!IInv, Mp2!StaysAligned
<1>. QED BY <1>1, <1>2, <1>3, <1>4, Zenon DEF Mp2!IInv
LEMMA Mp4Stays == Mp4!IInv /\ UNCHANGED superVars => Mp4!IInv'
BY DEF superVars, Mp4!IInv, Mp4!TypeOK, Mp4!Counted, Mp4!Current, Mp4!InStep,
   Mp4!NoneSkipped
LEMMA DataStays == Data!IInv /\ UNCHANGED <<packVars, pictures>> => Data!IInv'
BY Zenon DEF packVars, Data!IInv, Data!TypeOK, Data!AllSound, Data!dirObjects,
   Data!PicturesWhole
LEMMA PadStays == Pad!IInv /\ UNCHANGED <<padVars, pictures>> => Pad!IInv'
BY Zenon DEF padVars, Pad!IInv, Pad!TypeOK, Pad!SlideSound, Pad!SlidesWhole

\* The invariants of the processors together are inductive.
LEMMA ProcessorsStep ==
  ProcessorsInv /\ [ProcessorsNext]_processorVars => ProcessorsInv'
<1>. SUFFICES ASSUME ProcessorsInv, [ProcessorsNext]_processorVars
              PROVE  ProcessorsInv'
  OBVIOUS
<1>1. CASE Mp2Frame
  <2>1. /\ theProcessor = "mp2" /\ Mp2!Next /\ UNCHANGED theProcessor
    BY <1>1, Zenon DEF Mp2Frame
  <2>2. Mp2!IInv
    BY <2>1, Zenon DEF ProcessorsInv
  <2>. QED BY <2>1, <2>2, Mp2Step, OneProcessor, Zenon
<1>2. CASE Mp4Frame
  <2>1. /\ theProcessor = "mp4" /\ Mp4!Next /\ UNCHANGED theProcessor
    BY <1>2, Zenon DEF Mp4Frame
  <2>2. Mp4!IInv
    BY <2>1, Zenon DEF ProcessorsInv
  <2>. QED BY <2>1, <2>2, Mp4Step, OneProcessor, Zenon
<1>3. CASE Packet
  <2>1. /\ theProcessor = "data" /\ Data!Next /\ UNCHANGED theProcessor
    BY <1>3, Zenon DEF Packet
  <2>2. Data!IInv
    BY <2>1, Zenon DEF ProcessorsInv
  <2>. QED BY <2>1, <2>2, DataStep, OneProcessor, Zenon
<1>4. CASE PadField
  <2>1. /\ theProcessor = "pad" /\ Pad!Next /\ UNCHANGED theProcessor
    BY <1>4, Zenon DEF PadField
  <2>2. Pad!IInv
    BY <2>1, Zenon DEF ProcessorsInv
  <2>. QED BY <2>1, <2>2, PadStep, OneProcessor, Zenon
<1>5. CASE UNCHANGED processorVars
  <2>1. /\ UNCHANGED theProcessor /\ UNCHANGED mp2Vars /\ UNCHANGED superVars
        /\ UNCHANGED <<packVars, pictures>> /\ UNCHANGED <<padVars, pictures>>
    BY <1>5, Zenon DEF processorVars
  <2>. QED BY <2>1, Mp2Stays, Mp4Stays, DataStays, PadStays, Zenon DEF ProcessorsInv
<1>. QED BY <1>1, <1>2, <1>3, <1>4, <1>5, Zenon DEF ProcessorsNext

\* The processor that is there keeps its invariant, whatever comes in: its
\* state is one the code can be in, and what it collects is in its place.
THEOREM ProcessorsInvHolds == ProcessorsSpec => []ProcessorsInv
<1>. QED BY ProcessorsBegin, ProcessorsStep, PTL DEF ProcessorsSpec

\* Once an MPEG frame was decoded as a whole, each whole frame is and nothing
\* else is, until a DAB frame is damaged (mp2processor.cpp:612-641), and a
\* superframe that came in right, or can be corrected, is processed with its
\* last frame, whatever came before it (mp4processor.cpp:118-134).
THEOREM AudioFramesHold == ProcessorsSpec => []AudioFrames
<1>1. ProcessorsInv => AudioFrames
  BY Zenon DEF ProcessorsInv, AudioFrames, Mp2Aligned, Mp4NoneSkipped, Mp2!IInv,
     Mp4!IInv
<1>. QED BY <1>1, ProcessorsInvHolds, PTL

\* What is handed on as a picture or a file is the whole of one object, from
\* packets (data-processor.cpp:107) or from X-PADs (pad-handler.cpp:407-429),
\* whatever was damaged, lost or out of sequence.
THEOREM ObjectsWholeHold == ProcessorsSpec => []ObjectsWhole
<1>1. ProcessorsInv => ObjectsWhole
  BY Zenon DEF ProcessorsInv, ObjectsWhole, Data!IInv, Pad!IInv
<1>. QED BY <1>1, ProcessorsInvHolds, PTL

(***************************************************************************)
(* The backend: the queue and the de-interleaver of one service.           *)
(***************************************************************************)
USE NrSlotsAssumption, MaxCifsAssumption DEF Slots, Depth, Lanes

\* The slot x places after the first one, for x below two turns.
Turn(x) == IF x < NrSlots THEN x ELSE x - NrSlots

LEMMA TurnIs ==
  ASSUME NEW x \in Nat, x < 2 * NrSlots
  PROVE  x % NrSlots = Turn(x)
<1>1. NrSlots \in Nat \ {0} /\ -NrSlots <= x /\ x < 3 * NrSlots /\ ~(x < 0)
      /\ x \in Int
  OBVIOUS
<1>2. x % NrSlots = IF x < 0 THEN x + NrSlots
                    ELSE IF x < NrSlots THEN x
                    ELSE IF x < 2 * NrSlots THEN x - NrSlots
                    ELSE x - 2 * NrSlots
  BY <1>1, Turns, Zenon
<1>. QED BY <1>1, <1>2, Zenon DEF Turn

\* The map of the code is the reversal of the bits of the lane.
LEMMA MapIsDelay ==
  \A j \in Lanes : interleaveMap[j] = Delay(j) /\ interleaveMap[j] \in Lanes
BY DEF interleaveMap, Delay

----------------------------------------------------------------------------
\* One place further, for either index of the queue.
LEMMA NextPlace ==
  ASSUME NEW x \in Slots
  PROVE  (x + 1) % NrSlots = Turn(x + 1) /\ (x + 1) % NrSlots \in Slots
<1>1. x + 1 \in Nat /\ x + 1 < 2 * NrSlots
  OBVIOUS
<1>2. (x + 1) % NrSlots = Turn(x + 1)
  BY <1>1, TurnIs
<1>. QED BY <1>1, <1>2 DEF Turn

\* Rows of the interleaver.
LEMMA RowIs ==
  ASSUME NEW x \in Lanes, NEW d \in 0 .. Depth
  PROVE  /\ (x + d) % Depth \in Lanes
         /\ (x + d) % Depth = IF x + d < Depth THEN x + d ELSE x + d - Depth
OBVIOUS

\* The credits as numbers: h and b slots are in the hands of the threads.
Held == One(ppc \in {"copy", "release"})
Busy == One(cpc \in {"segment", "free"})

LEMMA Counts ==
  ASSUME TypeOK, SlotCredits
  PROVE  /\ freeSlots \in Nat /\ usedSlots \in Nat
         /\ Held \in 0 .. 1 /\ Busy \in 0 .. 1
         /\ freeSlots + usedSlots + Held + Busy = NrSlots
         /\ ppc \in {"copy", "release"} => Held = 1
         /\ ppc \in {"idle", "acquire"} => Held = 0
         /\ cpc \in {"segment", "free"} => Busy = 1
         /\ cpc \in {"test", "acquire", "output", "done"} => Busy = 0
<1>1. freeSlots \in Nat /\ usedSlots \in Nat
  BY DEF TypeOK
<1>2. Held \in 0 .. 1 /\ Busy \in 0 .. 1
  BY DEF Held, Busy, One
<1>3. freeSlots + usedSlots + Held + Busy = NrSlots
  BY Zenon DEF SlotCredits, Held, Busy
<1>. QED BY <1>1, <1>2, <1>3 DEF Held, Busy, One

LEMMA Parts ==
  ASSUME NEW a \in Nat, NEW b \in Nat, NEW c \in 0 .. 1, NEW d \in 0 .. 1,
         a + b + c + d = NrSlots
  PROVE  a \in 0 .. NrSlots /\ b \in 0 .. NrSlots
OBVIOUS

\* A credit moves: what is left to show of TypeOK and SlotCredits in a step
\* of the queue.
LEMMA CreditMoves ==
  ASSUME freeSlots' \in Nat, usedSlots' \in Nat,
         freeSlots' + usedSlots' + Held' + Busy' = NrSlots
  PROVE  SlotCredits' /\ freeSlots' \in 0 .. NrSlots /\ usedSlots' \in 0 .. NrSlots
<1>1. Held' \in 0 .. 1 /\ Busy' \in 0 .. 1
  BY DEF Held, Busy, One
<1>2. SlotCredits'
  BY Zenon DEF SlotCredits, Held, Busy
<1>3. freeSlots' \in 0 .. NrSlots /\ usedSlots' \in 0 .. NrSlots
  BY <1>1, Parts, Zenon
<1>. QED BY <1>2, <1>3, Zenon

LEMMA TypeStep == TypeOK /\ SlotCredits /\ [Next]_vars => TypeOK' /\ SlotCredits'
<1>. SUFFICES ASSUME TypeOK, SlotCredits, [Next]_vars
              PROVE  TypeOK' /\ SlotCredits'
  OBVIOUS
<1>. USE DEF queueVars, deinterVars, outputVars, streamVars
<1>0. /\ freeSlots \in Nat /\ usedSlots \in Nat
      /\ Held \in 0 .. 1 /\ Busy \in 0 .. 1
      /\ freeSlots + usedSlots + Held + Busy = NrSlots
      /\ ppc \in {"copy", "release"} => Held = 1
      /\ ppc \in {"idle", "acquire"} => Held = 0
      /\ cpc \in {"segment", "free"} => Busy = 1
      /\ cpc \in {"test", "acquire", "output", "done"} => Busy = 0
  BY Counts
<1>1. CASE StartProcess \/ stopRunning
  <2>1. Held' = Held /\ Busy' = Busy
    BY <1>1 DEF StartProcess, stopRunning, Held, Busy, One
  <2>2. freeSlots' = freeSlots /\ usedSlots' = usedSlots
    BY <1>1 DEF StartProcess, stopRunning
  <2>3. SlotCredits'
    BY <1>0, <2>1, <2>2, CreditMoves
  <2>. QED BY <1>1, <2>3 DEF StartProcess, stopRunning, TypeOK
<1>2. CASE AcquireFree
  <2>1. Held' = 1 /\ Held = 0 /\ Busy' = Busy
    BY <1>2 DEF AcquireFree, Held, Busy, One
  <2>2. freeSlots' = freeSlots - 1 /\ usedSlots' = usedSlots /\ freeSlots > 0
    BY <1>2 DEF AcquireFree
  <2>3. SlotCredits' /\ freeSlots' \in 0 .. NrSlots
    BY <1>0, <2>1, <2>2, CreditMoves
  <2>. QED BY <1>2, <2>3 DEF AcquireFree, TypeOK
<1>3. CASE StoreFragment
  <2>1. Held' = Held /\ Busy' = Busy
    BY <1>3 DEF StoreFragment, Held, Busy, One
  <2>2. freeSlots' = freeSlots /\ usedSlots' = usedSlots
    BY <1>3 DEF StoreFragment
  <2>3. SlotCredits'
    BY <1>0, <2>1, <2>2, CreditMoves
  <2>. QED BY <1>3, <2>3 DEF StoreFragment, TypeOK
<1>4. CASE ReleaseUsed
  <2>1. nextIn' \in Slots
    <3>1. nextIn' = (nextIn + 1) % NrSlots /\ nextIn \in Slots
      BY <1>4 DEF ReleaseUsed, TypeOK
    <3>. QED BY <3>1, NextPlace
  <2>2. Held' = 0 /\ Held = 1 /\ Busy' = Busy
    BY <1>4 DEF ReleaseUsed, Held, Busy, One
  <2>3. freeSlots' = freeSlots /\ usedSlots' = usedSlots + 1
    BY <1>4 DEF ReleaseUsed
  <2>4. SlotCredits' /\ usedSlots' \in 0 .. NrSlots
    BY <1>0, <2>2, <2>3, CreditMoves
  <2>. QED BY <1>4, <2>1, <2>4 DEF ReleaseUsed, TypeOK
<1>5. CASE TestRunning \/ GiveUp
  <2>1. cpc' \in {"acquire", "done"} /\ cpc \in {"test", "acquire"}
    BY <1>5 DEF TestRunning, GiveUp
  <2>2. Held' = Held /\ Busy' = 0
    BY <1>5, <2>1 DEF TestRunning, GiveUp, Held, Busy, One
  <2>3. freeSlots' = freeSlots /\ usedSlots' = usedSlots
    BY <1>5 DEF TestRunning, GiveUp
  <2>4. SlotCredits'
    BY <1>0, <2>1, <2>2, <2>3, CreditMoves
  <2>. QED BY <1>5, <2>1, <2>4 DEF TestRunning, GiveUp, TypeOK
<1>6. CASE AcquireUsed
  <2>1. Held' = Held /\ Busy' = 1 /\ Busy = 0
    BY <1>6 DEF AcquireUsed, Held, Busy, One
  <2>2. freeSlots' = freeSlots /\ usedSlots' = usedSlots - 1 /\ usedSlots > 0
    BY <1>6 DEF AcquireUsed
  <2>3. SlotCredits' /\ usedSlots' \in 0 .. NrSlots
    BY <1>0, <2>1, <2>2, CreditMoves
  <2>. QED BY <1>6, <2>3 DEF AcquireUsed, TypeOK
<1>7. CASE Deinterleave
  <2>0. interleaverIndex \in Lanes /\ interleaveData \in [Lanes -> Int]
    BY DEF TypeOK
  <2>1. \A j \in Lanes : (interleaverIndex + interleaveMap[j]) % Depth \in Lanes
    <3>. SUFFICES ASSUME NEW j \in Lanes
                  PROVE  (interleaverIndex + interleaveMap[j]) % Depth \in Lanes
      OBVIOUS
    <3>1. interleaveMap[j] \in 0 .. Depth
      BY MapIsDelay
    <3>. QED BY <2>0, <3>1, RowIs
  <2>2. tempX' \in [Lanes -> Int]
    BY <1>7, <2>0, <2>1 DEF Deinterleave
  <2>3. interleaveData' \in [Lanes -> Int]
    <3>1. theData[nextOut] \in Int
      BY DEF TypeOK
    <3>. QED BY <1>7, <2>0, <3>1 DEF Deinterleave
  <2>4. interleaverIndex' \in Lanes
    BY <1>7, <2>0, RowIs DEF Deinterleave
  <2>5. Held' = Held /\ Busy' = Busy
    BY <1>7 DEF Deinterleave, Held, Busy, One
  <2>6. freeSlots' = freeSlots /\ usedSlots' = usedSlots
    BY <1>7 DEF Deinterleave
  <2>7. SlotCredits'
    BY <1>0, <2>5, <2>6, CreditMoves
  <2>. QED BY <1>7, <2>2, <2>3, <2>4, <2>7 DEF Deinterleave, TypeOK
<1>8. CASE FreeSlot
  <2>1. nextOut' \in Slots
    <3>1. nextOut' = (nextOut + 1) % NrSlots /\ nextOut \in Slots
      BY <1>8 DEF FreeSlot, TypeOK
    <3>. QED BY <3>1, NextPlace
  <2>2. Held' = Held /\ Busy' = 0 /\ Busy = 1
    BY <1>8 DEF FreeSlot, Held, Busy, One
  <2>3. freeSlots' = freeSlots + 1 /\ usedSlots' = usedSlots
    BY <1>8 DEF FreeSlot
  <2>4. SlotCredits' /\ freeSlots' \in 0 .. NrSlots
    BY <1>0, <2>2, <2>3, CreditMoves
  <2>. QED BY <1>8, <2>1, <2>4 DEF FreeSlot, TypeOK
<1>9. CASE Output
  <2>1. /\ countforInterleaver' \in 0 .. Depth /\ frames' \in Nat
        /\ outV' \in [Lanes -> Int]
    <3>0. countforInterleaver \in 0 .. Depth /\ frames \in Nat
          /\ outV \in [Lanes -> Int] /\ tempX \in [Lanes -> Int]
      BY DEF TypeOK
    <3>1. CASE countforInterleaver <= 15
      <4>1. /\ countforInterleaver' = countforInterleaver + 1
            /\ outV' = outV /\ frames' = frames
        BY <1>9, <3>1 DEF Output
      <4>. QED BY <3>0, <3>1, <4>1
    <3>2. CASE ~(countforInterleaver <= 15)
      <4>1. /\ countforInterleaver' = countforInterleaver
            /\ outV' = tempX /\ frames' = frames + 1
        BY <1>9, <3>2 DEF Output
      <4>. QED BY <3>0, <3>2, <4>1
    <3>. QED BY <3>1, <3>2
  <2>2. Held' = Held /\ Busy' = Busy
    BY <1>9 DEF Output, Held, Busy, One
  <2>3. freeSlots' = freeSlots /\ usedSlots' = usedSlots
    BY <1>9 DEF Output
  <2>4. SlotCredits'
    BY <1>0, <2>2, <2>3, CreditMoves
  <2>. QED BY <1>9, <2>1, <2>4 DEF Output, TypeOK
<1>10. CASE UNCHANGED vars
  BY <1>10 DEF vars, TypeOK, SlotCredits
<1>. QED BY <1>1, <1>2, <1>3, <1>4, <1>5, <1>6, <1>7, <1>8, <1>9, <1>10
       DEF Next, process, run, processSegment

----------------------------------------------------------------------------
(***************************************************************************)
(* The queue, with the places written without a remainder.                 *)
(***************************************************************************)
Ready == One(ppc = "release")
Chain ==
  /\ accepted - delivered = Queued
  /\ nextIn = Turn(nextOut + Queued)
  /\ \A i \in Slots : i < Queued + Ready => theData[Turn(nextOut + i)] = delivered + i

LEMMA PlaceIs ==
  ASSUME NEW x \in Slots, NEW k \in 0 .. NrSlots
  PROVE  (x + k) % NrSlots = Turn(x + k) /\ Turn(x + k) \in Slots
<1>1. x + k \in Nat /\ x + k < 2 * NrSlots
  OBVIOUS
<1>2. (x + k) % NrSlots = Turn(x + k)
  BY <1>1, TurnIs
<1>3. Turn(x + k) \in Slots
  BY <1>1 DEF Turn
<1>. QED BY <1>2, <1>3

\* Different places are different slots; a place counted from the next slot.
LEMMA PlacesDiffer ==
  ASSUME NEW x \in Slots, NEW i \in Slots, NEW k \in Slots,
         Turn(x + i) = Turn(x + k)
  PROVE  i = k
BY DEF Turn

LEMMA PlaceAfter ==
  ASSUME NEW x \in Slots, NEW i \in Slots
  PROVE  /\ Turn(Turn(x + 1) + i) = Turn(x + (i + 1))
         /\ Turn(Turn(x + i) + 1) = Turn(x + (i + 1))
BY DEF Turn

LEMMA QueuedIs ==
  ASSUME TypeOK, SlotCredits
  PROVE  /\ Queued = usedSlots + Busy /\ Queued \in Nat
         /\ Ready \in 0 .. 1 /\ Queued + Ready \in 0 .. NrSlots
         /\ Queued + Held + freeSlots = NrSlots
<1>1. Queued = usedSlots + Busy
  BY DEF Queued, Busy
<1>2. Ready \in 0 .. 1 /\ Ready <= Held
  BY DEF Ready, Held, One
<1>3. /\ freeSlots \in Nat /\ usedSlots \in Nat
      /\ Held \in 0 .. 1 /\ Busy \in 0 .. 1
      /\ freeSlots + usedSlots + Held + Busy = NrSlots
  BY Counts
<1>. QED BY <1>1, <1>2, <1>3

LEMMA ChainIsContents ==
  TypeOK /\ SlotCredits => (Chain <=> QueueContents)
<1>. SUFFICES ASSUME TypeOK, SlotCredits PROVE Chain <=> QueueContents
  OBVIOUS
<1>1. Queued \in Nat /\ Ready \in 0 .. 1 /\ Queued + Ready \in 0 .. NrSlots
  BY QueuedIs
<1>2. nextOut \in Slots
  BY DEF TypeOK
<1>3. (nextOut + Queued) % NrSlots = Turn(nextOut + Queued)
  <2>1. Queued \in 0 .. NrSlots
    BY <1>1
  <2>. QED BY <1>2, <2>1, PlaceIs, Zenon
<1>4. \A i \in Slots : (nextOut + i) % NrSlots = Turn(nextOut + i)
  BY <1>2, PlaceIs
<1>5. \A i : i \in 0 .. Queued + Ready - 1 <=> i \in Slots /\ i < Queued + Ready
  BY <1>1
<1>6. QueueContents <=>
        /\ accepted - delivered = Queued
        /\ nextIn = (nextOut + Queued) % NrSlots
        /\ \A i \in 0 .. Queued + Ready - 1 :
             theData[(nextOut + i) % NrSlots] = delivered + i
  BY Zenon DEF QueueContents, Ready
<1>. QED BY <1>3, <1>4, <1>5, <1>6 DEF Chain

LEMMA QueueStep ==
  TypeOK /\ SlotCredits /\ Chain /\ [Next]_vars => Chain'
<1>. SUFFICES ASSUME TypeOK, SlotCredits, Chain, [Next]_vars PROVE Chain'
  OBVIOUS
<1>. USE DEF queueVars, deinterVars, outputVars, streamVars
<1>0. /\ Queued \in Nat /\ Ready \in 0 .. 1 /\ Queued + Ready \in 0 .. NrSlots
      /\ Queued = usedSlots + Busy /\ Queued + Held + freeSlots = NrSlots
      /\ nextIn \in Slots /\ nextOut \in Slots /\ freeSlots \in Nat
      /\ usedSlots \in Nat /\ accepted \in Nat /\ delivered \in Nat
      /\ theData \in [Slots -> Int]
  <2>1. /\ Queued \in Nat /\ Ready \in 0 .. 1 /\ Queued + Ready \in 0 .. NrSlots
        /\ Queued = usedSlots + Busy /\ Queued + Held + freeSlots = NrSlots
    BY QueuedIs, Zenon
  <2>2. /\ nextIn \in Slots /\ nextOut \in Slots /\ freeSlots \in Nat
        /\ usedSlots \in Nat /\ accepted \in Nat /\ delivered \in Nat
        /\ theData \in [Slots -> Int]
    BY DEF TypeOK
  <2>. QED BY <2>1, <2>2, Zenon
<1>a. ASSUME UNCHANGED <<theData, nextIn, nextOut, accepted, delivered>>,
             Queued' = Queued, Ready' = Ready
      PROVE  Chain'
  BY <1>a DEF Chain
<1>1. CASE StartProcess \/ stopRunning \/ AcquireFree
  <2>1. /\ UNCHANGED <<theData, nextIn, nextOut, accepted, delivered>>
        /\ Queued' = Queued /\ Ready' = Ready
    BY <1>1 DEF StartProcess, stopRunning, AcquireFree, Queued, Ready, One
  <2>. QED BY <2>1, <1>a
<1>2. CASE TestRunning \/ GiveUp \/ AcquireUsed
  <2>1. /\ UNCHANGED <<theData, nextIn, nextOut, accepted, delivered>>
        /\ Ready' = Ready
    BY <1>2 DEF TestRunning, GiveUp, AcquireUsed, Ready
  <2>2. Queued' = Queued
    BY <1>0, <1>2 DEF TestRunning, GiveUp, AcquireUsed, Queued, One
  <2>. QED BY <2>1, <2>2, <1>a
<1>3. CASE Deinterleave \/ Output
  <2>1. /\ UNCHANGED <<theData, nextIn, nextOut, accepted, delivered>>
        /\ Queued' = Queued /\ Ready' = Ready
    BY <1>3 DEF Deinterleave, Output, Queued, Ready, One
  <2>. QED BY <2>1, <1>a
<1>4. CASE UNCHANGED vars
  BY <1>4, <1>a DEF vars, Queued, Ready
<1>5. CASE StoreFragment
  <2>1. /\ UNCHANGED <<nextIn, nextOut, accepted, delivered>>
        /\ theData' = [theData EXCEPT ![nextIn] = accepted]
        /\ Queued' = Queued /\ Ready' = 1 /\ Ready = 0 /\ Held = 1
    BY <1>5 DEF StoreFragment, Queued, Ready, Held, One
  <2>2. Queued \in Slots
    BY <1>0, <2>1
  <2>3. nextIn = Turn(nextOut + Queued) /\ accepted = delivered + Queued
    BY <1>0 DEF Chain
  <2>4. ASSUME NEW i \in Slots, i < Queued + 1
        PROVE  theData'[Turn(nextOut + i)] = delivered + i
    <3>1. CASE i = Queued
      <4>1. Turn(nextOut + i) = nextIn /\ nextIn \in DOMAIN theData
        BY <1>0, <2>3, <3>1
      <4>2. theData'[nextIn] = accepted
        BY <2>1, <4>1
      <4>. QED BY <2>3, <3>1, <4>1, <4>2
    <3>2. CASE i # Queued
      <4>1. Turn(nextOut + i) # nextIn /\ Turn(nextOut + i) \in Slots
        <5>1. nextOut \in Slots /\ i \in 0 .. NrSlots
          BY <1>0
        <5>2. Turn(nextOut + i) = Turn(nextOut + Queued) => i = Queued
          BY <2>2, <5>1, PlacesDiffer
        <5>3. Turn(nextOut + i) \in Slots
          BY <5>1, PlaceIs, Zenon
        <5>. QED BY <2>3, <3>2, <5>2, <5>3
      <4>2. i < Queued + Ready
        BY <1>0, <2>1, <2>4, <3>2
      <4>3. theData[Turn(nextOut + i)] = delivered + i
        BY <4>2 DEF Chain
      <4>. QED BY <1>0, <2>1, <4>1, <4>3
    <3>. QED BY <3>1, <3>2
  <2>. QED BY <2>1, <2>3, <2>4 DEF Chain
<1>6. CASE ReleaseUsed
  <2>1. /\ UNCHANGED <<theData, nextOut, delivered>>
        /\ nextIn' = (nextIn + 1) % NrSlots
        /\ accepted' = accepted + 1 /\ Ready' = 0 /\ Ready = 1 /\ Held = 1
    BY <1>6 DEF ReleaseUsed, Ready, Held, One
  <2>2. Queued' = Queued + 1
    BY <1>0, <1>6 DEF ReleaseUsed, Queued, One
  <2>3. Queued \in Slots
    BY <1>0, <2>1
  <2>4. nextIn = Turn(nextOut + Queued) /\ accepted - delivered = Queued
    BY DEF Chain
  <2>5. nextIn' = Turn(nextIn + 1)
    BY <1>0, <2>1, NextPlace
  <2>6. nextIn' = Turn(nextOut + (Queued + 1))
    BY <1>0, <2>3, <2>4, <2>5, PlaceAfter
  <2>7. accepted' - delivered' = Queued'
    BY <1>0, <2>1, <2>2, <2>4
  <2>8. Queued' + Ready' = Queued + Ready
    BY <1>0, <2>1, <2>2
  <2>. QED BY <2>1, <2>2, <2>6, <2>7, <2>8 DEF Chain
<1>7. CASE FreeSlot
  <2>1. /\ UNCHANGED <<theData, nextIn, accepted>>
        /\ nextOut' = (nextOut + 1) % NrSlots
        /\ delivered' = delivered + 1 /\ Ready' = Ready /\ Busy = 1
    BY <1>7 DEF FreeSlot, Ready, Busy, One
  <2>2. Queued' = Queued - 1
    BY <1>0, <1>7 DEF FreeSlot, Queued, One
  <2>3. nextIn = Turn(nextOut + Queued) /\ accepted - delivered = Queued
    BY DEF Chain
  <2>4. nextOut' = Turn(nextOut + 1) /\ Queued - 1 \in Slots
    BY <1>0, <2>1, NextPlace
  <2>5. nextIn' = Turn(nextOut' + Queued')
    <3>1. Turn(Turn(nextOut + 1) + (Queued - 1)) = Turn(nextOut + ((Queued - 1) + 1))
      BY <1>0, <2>4, PlaceAfter
    <3>2. (Queued - 1) + 1 = Queued
      BY <1>0
    <3>. QED BY <2>1, <2>2, <2>3, <2>4, <3>1, <3>2
  <2>6. accepted' - delivered' = Queued'
    BY <1>0, <2>1, <2>2, <2>3
  <2>7. ASSUME NEW i \in Slots, i < Queued - 1 + Ready
        PROVE  theData[Turn(nextOut' + i)] = delivered + 1 + i
    <3>0. Queued \in Int /\ Ready \in Int /\ Queued + Ready <= NrSlots
      BY <1>0
    <3>1. i + 1 \in Slots /\ i + 1 < Queued + Ready
      BY <2>7, <3>0
    <3>2. theData[Turn(nextOut + (i + 1))] = delivered + (i + 1)
      BY <3>1 DEF Chain
    <3>3. Turn(Turn(nextOut + 1) + i) = Turn(nextOut + (i + 1))
      <4>1. nextOut \in Slots
        BY <1>0
      <4>. QED BY <4>1, PlaceAfter
    <3>4. Turn(nextOut' + i) = Turn(nextOut + (i + 1))
      BY <2>4, <3>3
    <3>. QED BY <1>0, <3>2, <3>4
  <2>. QED BY <2>1, <2>2, <2>5, <2>6, <2>7 DEF Chain
<1>. QED BY <1>1, <1>2, <1>3, <1>4, <1>5, <1>6, <1>7
       DEF Next, process, run, processSegment

----------------------------------------------------------------------------
(***************************************************************************)
(* The interleaver.                                                        *)
(***************************************************************************)
Row(d) == IF interleaverIndex + d < Depth THEN interleaverIndex + d
                                          ELSE interleaverIndex + d - Depth
Lines ==
  /\ \A d \in Lanes : interleaveData[Row(d)] = Interleaved - Depth + d
  /\ cpc \in {"free", "output"} =>
       \A j \in Lanes : tempX[j] = Interleaved - 1 - Depth + interleaveMap[j]

LEMMA RowRange ==
  ASSUME TypeOK, NEW d \in Lanes
  PROVE  Row(d) \in Lanes /\ (interleaverIndex + d) % Depth = Row(d)
<1>1. interleaverIndex \in Lanes
  BY DEF TypeOK
<1>. QED BY <1>1, RowIs DEF Row

LEMMA LinesAreRows == TypeOK => (Lines <=> Rows)
<1>. SUFFICES ASSUME TypeOK PROVE Lines <=> Rows
  OBVIOUS
<1>1. \A d \in Lanes : (interleaverIndex + d) % Depth = Row(d)
  BY RowRange
<1>. QED BY <1>1 DEF Lines, Rows

LEMMA InterleaverStep ==
  TypeOK /\ SlotCredits /\ Chain /\ Lines /\ [Next]_vars => Lines'
<1>. SUFFICES ASSUME TypeOK, SlotCredits, Chain, Lines, [Next]_vars
              PROVE  Lines'
  OBVIOUS
<1>. USE DEF queueVars, deinterVars, outputVars, streamVars
<1>1. CASE StartProcess \/ process \/ stopRunning \/ UNCHANGED vars
  <2>1. UNCHANGED <<interleaveData, interleaverIndex, tempX, cpc, delivered>>
    BY <1>1 DEF StartProcess, process, AcquireFree, StoreFragment, ReleaseUsed,
                stopRunning, vars
  <2>. QED BY <2>1 DEF Lines, Row, Interleaved
<1>2. CASE TestRunning \/ AcquireUsed \/ GiveUp
  <2>1. /\ UNCHANGED <<interleaveData, interleaverIndex, tempX, delivered>>
        /\ cpc' \notin {"free", "output"} /\ cpc # "free"
    BY <1>2 DEF TestRunning, AcquireUsed, GiveUp
  <2>2. Interleaved' = Interleaved
    BY <2>1 DEF Interleaved, One
  <2>. QED BY <2>1, <2>2 DEF Lines, Row
<1>3. CASE FreeSlot
  <2>1. /\ UNCHANGED <<interleaveData, interleaverIndex, tempX>>
        /\ cpc = "free" /\ cpc' = "output" /\ delivered' = delivered + 1
    BY <1>3 DEF FreeSlot
  <2>2. Interleaved' = Interleaved
    BY <2>1 DEF Interleaved, One, TypeOK
  <2>. QED BY <2>1, <2>2 DEF Lines, Row
<1>4. CASE Output
  <2>1. /\ UNCHANGED <<interleaveData, interleaverIndex, tempX, delivered>>
        /\ cpc = "output" /\ cpc' = "test"
    BY <1>4 DEF Output
  <2>2. Interleaved' = Interleaved
    BY <2>1 DEF Interleaved, One
  <2>. QED BY <2>1, <2>2 DEF Lines, Row
<1>5. CASE Deinterleave
  <2>. DEFINE X == interleaverIndex
  <2>1. /\ UNCHANGED <<theData, nextOut, delivered>>
        /\ cpc = "segment" /\ cpc' = "free"
        /\ interleaveData' = [interleaveData EXCEPT ![X] = theData[nextOut]]
        /\ X' = (X + 1) % Depth
        /\ tempX' = [j \in Lanes |->
                       interleaveData[(X + interleaveMap[j]) % Depth]]
    BY <1>5 DEF Deinterleave
  <2>2. /\ X \in Lanes /\ delivered \in Nat /\ nextOut \in Slots
        /\ interleaveData \in [Lanes -> Int]
    BY DEF TypeOK
  <2>3. X' = (IF X + 1 < Depth THEN X + 1 ELSE X + 1 - Depth) /\ X' \in Lanes
    BY <2>1, <2>2
  <2>4. Interleaved = delivered /\ Interleaved' = delivered + 1
    BY <2>1, <2>2 DEF Interleaved, One
  <2>5. theData[nextOut] = delivered
    <3>1. Busy = 1 /\ Ready \in 0 .. 1 /\ usedSlots \in Nat
      BY <2>1, QueuedIs DEF TypeOK, Busy, One
    <3>2. Queued + Ready > 0
      <4>1. Queued = usedSlots + Busy
        BY DEF Queued, Busy
      <4>. QED BY <3>1, <4>1
    <3>3. 0 \in Slots
      OBVIOUS
    <3>4. theData[Turn(nextOut + 0)] = delivered + 0
      BY <3>2, <3>3 DEF Chain
    <3>5. Turn(nextOut + 0) = nextOut
      BY <2>2 DEF Turn
    <3>. QED BY <2>2, <3>4, <3>5
  <2>6. ASSUME NEW d \in Lanes
        PROVE  interleaveData'[(Row(d))'] = Interleaved' - Depth + d
    <3>1. (Row(d))' = IF X' + d < Depth THEN X' + d ELSE X' + d - Depth
      BY DEF Row
    <3>2. CASE d = Depth - 1
      <4>1. (Row(d))' = X
        BY <2>2, <2>3, <3>1, <3>2
      <4>2. interleaveData'[X] = delivered
        BY <2>1, <2>2, <2>5
      <4>. QED BY <2>2, <2>4, <3>2, <4>1, <4>2
    <3>3. CASE d # Depth - 1
      <4>1. d + 1 \in Lanes
        BY <3>3
      <4>2. (Row(d))' = Row(d + 1)
        BY <2>2, <2>3, <3>1, <4>1 DEF Row
      <4>3. Row(d + 1) \in Lanes /\ Row(d + 1) # X
        BY <2>2, <4>1 DEF Row
      <4>4. interleaveData[Row(d + 1)] = Interleaved - Depth + (d + 1)
        BY <4>1 DEF Lines
      <4>5. interleaveData'[Row(d + 1)] = interleaveData[Row(d + 1)]
        BY <2>1, <2>2, <4>3
      <4>. QED BY <2>2, <2>4, <4>2, <4>4, <4>5
    <3>. QED BY <3>2, <3>3
  <2>7. ASSUME NEW j \in Lanes
        PROVE  tempX'[j] = Interleaved' - 1 - Depth + interleaveMap[j]
    <3>. DEFINE d == interleaveMap[j]
    <3>1. d \in Lanes
      BY MapIsDelay
    <3>2. tempX'[j] = interleaveData[(X + d) % Depth]
      BY <2>1
    <3>. HIDE DEF d
    <3>3. (X + d) % Depth = Row(d)
      BY <3>1, RowRange
    <3>4. interleaveData[Row(d)] = Interleaved - Depth + d
      BY <3>1 DEF Lines
    <3>5. tempX'[j] = delivered - Depth + d
      BY <2>4, <3>2, <3>3, <3>4
    <3>6. tempX'[j] = Interleaved' - 1 - Depth + d
      BY <2>2, <2>4, <3>1, <3>5
    <3>. QED BY <3>6 DEF d
  <2>. QED BY <2>6, <2>7 DEF Lines
<1>. QED BY <1>1, <1>2, <1>3, <1>4, <1>5 DEF Next, run, processSegment

LEMMA WarmUpStep ==
  TypeOK /\ Lines /\ WarmUp /\ [Next]_vars => WarmUp'
<1>. SUFFICES ASSUME TypeOK, Lines, WarmUp, [Next]_vars PROVE WarmUp'
  OBVIOUS
<1>. USE DEF queueVars, deinterVars, outputVars, streamVars
<1>0. /\ delivered \in Nat /\ countforInterleaver \in 0 .. Depth
      /\ frames \in Nat
  BY DEF TypeOK
<1>1. ASSUME UNCHANGED <<countforInterleaver, outV, frames>>, Passed' = Passed
      PROVE  WarmUp'
  BY <1>1 DEF WarmUp
<1>2. CASE StartProcess \/ process \/ stopRunning \/ UNCHANGED vars
  <2>1. UNCHANGED <<countforInterleaver, outV, frames, cpc, delivered>>
    BY <1>2 DEF StartProcess, process, AcquireFree, StoreFragment, ReleaseUsed,
                stopRunning, vars
  <2>. QED BY <1>1, <2>1 DEF Passed
<1>3. CASE TestRunning \/ AcquireUsed \/ GiveUp \/ Deinterleave
  <2>1. /\ UNCHANGED <<countforInterleaver, outV, frames, delivered>>
        /\ cpc # "output" /\ cpc' # "output"
    BY <1>3 DEF TestRunning, AcquireUsed, GiveUp, Deinterleave
  <2>2. Passed' = Passed
    BY <2>1 DEF Passed, One
  <2>. QED BY <1>1, <2>1, <2>2
<1>4. CASE FreeSlot
  <2>1. /\ UNCHANGED <<countforInterleaver, outV, frames>>
        /\ cpc = "free" /\ cpc' = "output" /\ delivered' = delivered + 1
    BY <1>4 DEF FreeSlot
  <2>2. Passed' = Passed
    BY <1>0, <2>1 DEF Passed, One
  <2>. QED BY <1>1, <2>1, <2>2
<1>5. CASE Output
  <2>1. /\ cpc = "output" /\ cpc' = "test" /\ delivered' = delivered
        /\ Passed = delivered - 1 /\ Passed' = delivered
    BY <1>0, <1>5 DEF Output, Passed, One
  <2>2. \A j \in Lanes : tempX[j] = delivered - 1 - Depth + interleaveMap[j]
    <3>1. Interleaved = delivered
      BY <1>0, <2>1 DEF Interleaved, One
    <3>. QED BY <2>1, <3>1 DEF Lines
  <2>3. CASE countforInterleaver <= 15
    <3>1. /\ countforInterleaver' = countforInterleaver + 1
          /\ outV' = outV /\ frames' = frames
      BY <1>5, <2>3 DEF Output
    <3>2. Passed <= Depth /\ countforInterleaver = Passed /\ frames = 0
      BY <2>3 DEF WarmUp
    <3>. QED BY <1>0, <2>1, <2>3, <3>1, <3>2 DEF WarmUp
  <2>4. CASE ~(countforInterleaver <= 15)
    <3>1. /\ countforInterleaver' = countforInterleaver
          /\ outV' = tempX /\ frames' = frames + 1
      BY <1>5, <2>4 DEF Output
    <3>2. countforInterleaver = Depth /\ frames = Passed - Depth /\ Passed >= Depth
      BY <1>0, <2>1, <2>4 DEF WarmUp
    <3>3. frames' = delivered - Depth /\ delivered > Depth
      BY <1>0, <2>1, <3>1, <3>2
    <3>4. ASSUME NEW j \in Lanes
          PROVE  outV'[j] = frames' - 1 + interleaveMap[j]
      <4>1. interleaveMap[j] \in Lanes
        BY MapIsDelay
      <4>. QED BY <1>0, <2>2, <3>1, <3>3, <4>1
    <3>. QED BY <1>0, <2>1, <3>1, <3>2, <3>3, <3>4 DEF WarmUp
  <2>. QED BY <2>3, <2>4
<1>. QED BY <1>2, <1>3, <1>4, <1>5 DEF Next, run, processSegment

----------------------------------------------------------------------------
(***************************************************************************)
(* The invariant and what follows from it.                                 *)
(***************************************************************************)
Inductive == TypeOK /\ SlotCredits /\ Chain /\ Lines /\ WarmUp

LEMMA InitInductive == Init => Inductive
<1>. SUFFICES ASSUME Init PROVE Inductive
  OBVIOUS
<1>1. TypeOK
  BY DEF Init, TypeOK
<1>2. SlotCredits
  BY DEF Init, SlotCredits, One
<1>3. Chain
  <2>1. Queued = 0 /\ Ready = 0
    BY DEF Init, Queued, Ready, One
  <2>2. nextIn = 0 /\ nextOut = 0 /\ accepted = 0 /\ delivered = 0
    BY DEF Init
  <2>. QED BY <2>1, <2>2 DEF Chain, Turn
<1>4. Lines
  <2>1. Interleaved = 0
    BY DEF Init, Interleaved, One
  <2>. QED BY <2>1 DEF Init, Lines, Row
<1>5. WarmUp
  <2>1. Passed = 0
    BY DEF Init, Passed, One
  <2>. QED BY <2>1 DEF Init, WarmUp
<1>. QED BY <1>1, <1>2, <1>3, <1>4, <1>5 DEF Inductive

\* All facts of IInv hold in every reachable state: types, the accounting of
\* the slots, what the queue and the interleaver hold, the warm-up.
THEOREM InvariantHolds == Spec => []IInv
<1>1. Inductive /\ [Next]_vars => Inductive'
  BY TypeStep, QueueStep, InterleaverStep, WarmUpStep DEF Inductive
<1>2. Inductive => IInv
  BY ChainIsContents, LinesAreRows DEF Inductive, IInv
<1>. QED BY <1>1, <1>2, InitInductive, PTL DEF Spec

LEMMA InductiveHolds == Spec => []Inductive
<1>1. Inductive /\ [Next]_vars => Inductive'
  BY TypeStep, QueueStep, InterleaverStep, WarmUpStep DEF Inductive
<1>. QED BY <1>1, InitInductive, PTL DEF Spec

\* Every slot is free, used or in the hands of one thread, whatever the
\* number of slots.
THEOREM NoSlotLost == Spec => []SlotCredits
<1>1. Inductive => SlotCredits
  BY DEF Inductive
<1>. QED BY <1>1, InductiveHolds, PTL

\* No fragment is overwritten while the backend's thread reads it.
THEOREM SlotsDisjoint == Spec => []NoOverlap
<1>1. Inductive => NoOverlap
  <2>. SUFFICES ASSUME Inductive, ppc = "copy", cpc = "segment", nextIn = nextOut
                PROVE  FALSE
    BY DEF NoOverlap
  <2>. USE DEF Inductive
  <2>1. Held = 1 /\ Busy = 1 /\ freeSlots \in Nat /\ usedSlots \in Nat
    BY Counts
  <2>2. Queued = usedSlots + 1 /\ Queued + 1 + freeSlots = NrSlots
    BY <2>1, QueuedIs
  <2>3. Queued \in Slots /\ Queued > 0 /\ nextOut \in Slots
    BY <2>1, <2>2 DEF TypeOK
  <2>4. nextIn = Turn(nextOut + Queued)
    BY DEF Chain
  <2>. QED BY <2>3, <2>4 DEF Turn
<1>. QED BY <1>1, InductiveHolds, PTL

\* Every logical frame the driver gets is put together from exactly the CIFs
\* its bits were sent in, from frame 0 on and without a gap.
THEOREM DeinterleaverCorrect == Spec => []Deinterleaved
<1>1. Inductive => Deinterleaved
  BY MapIsDelay DEF Inductive, WarmUp, Deinterleaved
<1>. QED BY <1>1, InductiveHolds, PTL

\* The slots implement the bounded stream: every CIF's fragment reaches the
\* deinterleaver, in order, none twice.
THEOREM ImplementsStream == Spec => StreamSpec
<1>1. Init => Stream!Init
  BY DEF Init, Stream!Init, Nothing, Stream!Nothing
<1>2. Inductive /\ [Next]_vars => [Stream!Next]_(Stream!vars)
  <2>. SUFFICES ASSUME Inductive, [Next]_vars
                PROVE  [Stream!Next]_(Stream!vars)
    OBVIOUS
  <2>. USE DEF queueVars, deinterVars, outputVars, streamVars, Inductive
  <2>0. /\ Queued \in Nat /\ Queued + Held + freeSlots = NrSlots
        /\ freeSlots \in Nat /\ accepted - delivered = Queued
        /\ accepted \in Nat /\ delivered \in Nat
    <3>1. Queued \in Nat /\ Queued + Held + freeSlots = NrSlots
      BY QueuedIs, Zenon
    <3>2. freeSlots \in Nat /\ accepted \in Nat /\ delivered \in Nat
      BY DEF TypeOK
    <3>3. accepted - delivered = Queued
      BY DEF Chain
    <3>. QED BY <3>1, <3>2, <3>3, Zenon
  <2>1. CASE ReleaseUsed
    <3>1. Held = 1
      BY <2>1 DEF ReleaseUsed, Held, One
    <3>2. accepted + 1 <= delivered + NrSlots
      BY <2>0, <3>1
    <3>3. Stream!Accept(1)
      BY <2>1, <3>2 DEF ReleaseUsed, Stream!Accept
    <3>. QED BY <3>3 DEF Stream!Next
  <2>2. CASE FreeSlot
    <3>1. Busy = 1 /\ cpc = "free" /\ Queued = usedSlots + Busy /\ usedSlots \in Nat
      BY <2>2, QueuedIs DEF FreeSlot, Busy, One, TypeOK
    <3>2. delivered + 1 <= accepted
      BY <2>0, <3>1
    <3>3. interleaveData[(interleaverIndex + 15) % Depth] = delivered
      <4>1. Interleaved = delivered + 1
        BY <3>1 DEF Interleaved, One
      <4>2. interleaveData[Row(15)] = Interleaved - Depth + 15
        BY DEF Lines
      <4>3. (interleaverIndex + 15) % Depth = Row(15)
        BY RowRange
      <4>. QED BY <2>0, <4>1, <4>2, <4>3
    <3>4. got' = [i \in 0 .. 1 - 1 |-> delivered + i]
      BY <2>0, <2>2, <3>3 DEF FreeSlot
    <3>5. Stream!Deliver(1)
      BY <2>2, <3>2, <3>4 DEF FreeSlot, Stream!Deliver
    <3>. QED BY <3>5 DEF Stream!Next
  <2>3. CASE StartProcess \/ AcquireFree \/ StoreFragment \/ stopRunning
    BY <2>3 DEF StartProcess, AcquireFree, StoreFragment, stopRunning, Stream!vars
  <2>4. CASE TestRunning \/ AcquireUsed \/ GiveUp \/ Deinterleave
    BY <2>4 DEF TestRunning, AcquireUsed, GiveUp, Deinterleave, Stream!vars
  <2>5. CASE Output \/ UNCHANGED vars
    BY <2>5 DEF Output, vars, Stream!vars
  <2>. QED BY <2>1, <2>2, <2>3, <2>4, <2>5
         DEF Next, process, run, processSegment
<1>. QED BY <1>1, <1>2, InductiveHolds, PTL DEF Spec, StreamSpec, Stream!Spec
==============================================================================

--------------------------- MODULE DabSyncProofs ---------------------------
(***************************************************************************)
(* Theorems about DabSync, for every frame, every buffer and every number  *)
(* of stops: the types, that what the dabProcessor thread works on is of   *)
(* the channel that was asked for last, and that it keeps its place in the *)
(* frame as long as it misses no sample.                                   *)
(***************************************************************************)
EXTENDS DabSync, ProofLemmas, SequenceTheorems, TLAPS

(***************************************************************************)
(* The frame.                                                              *)
(***************************************************************************)
\* The numbers of the frame are numbers, and there is a frame.
LEMMA FrameTyped ==
  /\ T_s \in Nat \ {0} /\ T_F \in Nat \ {0}
  /\ Start \in Nat
<1>1. T_s \in Nat \ {0}
  BY FrameAssumption DEF T_s
<1>2. nrBlocks * T_s \in Nat
  BY <1>1, FrameAssumption
<1>. QED BY <1>1, <1>2, FrameAssumption DEF T_F, Start

\* A position moved on is a position.
LEMMA AfterTyped ==
  ASSUME NEW x \in Int, NEW n \in Int
  PROVE  After(x, n) \in Positions
BY FrameTyped DEF After, Positions

\* No position is one of the two other samples.
LEMMA PositionsDiffer ==
  ASSUME NEW x \in Positions
  PROVE  x # Flat /\ x # Zero
BY FrameTyped DEF Positions, Flat, Zero

\* What a device delivers is there.
LEMMA ReceivedTyped ==
  /\ Received \subseteq Samples /\ Zero \notin Received
  /\ Positions \subseteq Received
BY FrameTyped, PositionsDiffer DEF Received, Samples, Flat, Zero

\* What is left of a sequence when m elements have been taken.
LEMMA Rest ==
  ASSUME NEW S, NEW s \in Seq(S), NEW m \in 0 .. Len(s)
  PROVE  /\ SubSeq(s, m + 1, Len(s)) \in Seq(S)
         /\ Len(SubSeq(s, m + 1, Len(s))) = Len(s) - m
         /\ \A i \in 1 .. Len(s) - m : SubSeq(s, m + 1, Len(s))[i] = s[m + i]
<1>1. \A i \in m + 1 .. Len(s) : s[i] \in S
  OBVIOUS
<1>2. SubSeq(s, m + 1, Len(s)) \in Seq(S)
  BY <1>1, SubSeqProperties
<1>3. Len(SubSeq(s, m + 1, Len(s))) = Len(s) - m
  BY SubSeqProperties
<1>4. \A i \in 1 .. Len(s) - m : SubSeq(s, m + 1, Len(s))[i] = s[m + i]
  BY SubSeqProperties
<1>. QED BY <1>2, <1>3, <1>4

(***************************************************************************)
(* The initial state and what sampleReader does.                           *)
(***************************************************************************)
\* All that is in the buffer is of the channel asked for.
AllOwn == \A i \in 1 .. Len(ring) : Own(ring[i])

LEMMA InitOwn == Init => OwnInv
<1>. SUFFICES ASSUME Init PROVE OwnInv
  OBVIOUS
<1>. USE FrameTyped, FrameAssumption, DeviceAssumption, CountsAssumption
<1>1. DeviceTyped
  <2>1. ring \in Seq(Received) /\ Len(ring) = 0
    BY DEF Init
  <2>2. tuned \in Channels /\ air \in Positions /\ lost \in 0 .. MaxLost
    BY DEF Init, Positions, Channels
  <2>. QED BY <2>1, <2>2 DEF DeviceTyped
<1>2. GuiTyped /\ SyncTyped
  BY DEF Init, GuiTyped, SyncTyped, Channels
<1>3. BufferTyped
  BY DEF Init, BufferTyped, Samples
<1>4. FlagsTyped
  BY Zenon DEF Init, FlagsTyped
<1>5. DriverTuned /\ RingOwn /\ IdleOff /\ FlagKept /\ LastOwn /\ BlockLeft
  BY DEF Init, DriverTuned, RingOwn, IdleOff, FlagKept, LastOwn, BlockLeft,
         Loop, SampleReads, BlockReads
<1>. QED BY <1>1, <1>2, <1>3, <1>4, <1>5 DEF OwnInv, TypeOK

\* A sample taken by getSample.
LEMMA SampleTaken ==
  ASSUME OwnInv, NEW x \in Samples, getSample(x)
  PROVE  /\ DeviceTyped' /\ GuiTyped' /\ BufferTyped' /\ bufferContent' \in Nat
         /\ UNCHANGED <<driver, tuned, asked, gui, ofdmSymbolCount>>
         /\ UNCHANGED <<scanMode, running, polling, intact, tracking>>
         /\ running /\ gapped' \in BOOLEAN
         /\ AllOwn => AllOwn' /\ Own(last)'
<1>. USE DEF OwnInv, TypeOK
<1>1. /\ UNCHANGED <<driver, tuned, air, lost, running, polling, intact, tracking>>
      /\ UNCHANGED <<asked, scanMode, gui, stops>>
      /\ UNCHANGED <<ofdmBuffer, ofdmBufferIndex, ofdmSymbolCount>>
  BY DEF guiVars, bufferVars, getSample
<1>2. running /\ last' = x
  BY DEF getSample
<1>3. gapped' \in BOOLEAN
  BY Zenon DEF getSample, FlagsTyped
<1>4. GuiTyped' /\ BufferTyped'
  BY <1>1, <1>2 DEF GuiTyped, BufferTyped
<1>5. bufferContent' \in Nat
  BY DEF SyncTyped, getSample
<1>6. CASE ring # << >> /\ x = Head(ring) /\ ring' = Tail(ring)
  <2>1. /\ ring' \in Seq(Received) /\ Len(ring') = Len(ring) - 1
        /\ \A i \in 1 .. Len(ring') : ring'[i] = ring[i + 1]
    BY <1>6, HeadTailProperties DEF DeviceTyped
  <2>2. Len(ring) \in Nat /\ x = ring[1] /\ Len(ring) > 0
    BY <1>6 DEF DeviceTyped
  <2>3. DeviceTyped'
    BY <1>1, <2>1, <2>2, DeviceAssumption DEF DeviceTyped
  <2>4. AllOwn => AllOwn' /\ Own(last)'
    BY <1>1, <1>2, <2>1, <2>2 DEF AllOwn, Own
  <2>. QED BY <1>1, <1>2, <1>3, <1>4, <1>5, <2>3, <2>4
<1>7. CASE ring = << >> /\ x = Zero /\ UNCHANGED ring
  <2>1. DeviceTyped'
    BY <1>1, <1>7 DEF DeviceTyped
  <2>2. AllOwn => AllOwn' /\ Own(last)'
    BY <1>1, <1>2, <1>7 DEF AllOwn, Own
  <2>. QED BY <1>1, <1>2, <1>3, <1>4, <1>5, <2>1, <2>2
<1>. QED BY <1>6, <1>7 DEF getSample

\* What getSamples is asked for, and where it puts it.
LEMMA WantedTyped ==
  ASSUME OwnInv
  PROVE  Wanted \in Nat /\ Place \in Nat
BY FrameAssumption, FrameTyped DEF OwnInv, TypeOK, BufferTyped, Wanted, Place

\* Samples taken by getSamples.
LEMMA SamplesTaken ==
  ASSUME OwnInv, getSamples
  PROVE  /\ DeviceTyped' /\ GuiTyped' /\ bufferContent' \in Nat
         /\ ofdmBuffer' \in [Index -> Samples] /\ last' \in Samples
         /\ UNCHANGED <<driver, tuned, asked, gui>>
         /\ UNCHANGED <<scanMode, running, polling>>
         /\ running /\ intact' \in BOOLEAN /\ gapped' \in BOOLEAN
         /\ AllOwn /\ Own(last) => AllOwn' /\ Own(last)'
<1>. USE DEF OwnInv, TypeOK
<1>. DEFINE n == Lesser(Wanted, Len(ring))
<1>1. /\ UNCHANGED <<driver, tuned, air, lost, running, polling>>
      /\ UNCHANGED <<asked, scanMode, gui, stops>>
      /\ running
  BY DEF getSamples, guiVars
<1>2. n \in 0 .. Len(ring) /\ n <= Wanted /\ Len(ring) \in Nat
  BY WantedTyped DEF DeviceTyped, Lesser
<1>3. /\ ring' = SubSeq(ring, n + 1, Len(ring))
      /\ bufferContent' = bufferContent - n /\ Wanted <= bufferContent
      /\ last' = IF n > 0 THEN ring[n] ELSE last
      /\ ofdmBuffer' = [i \in Index |-> IF Place <= i /\ i < Place + n
                                        THEN ring[i - Place + 1] ELSE ofdmBuffer[i]]
  BY DEF getSamples
<1>4. intact' \in BOOLEAN /\ gapped' \in BOOLEAN
  BY Zenon DEF getSamples, FlagsTyped
<1>. HIDE DEF n
<1>5. /\ ring' \in Seq(Received) /\ Len(ring') = Len(ring) - n
      /\ \A i \in 1 .. Len(ring) - n : ring'[i] = ring[n + i]
  BY <1>2, <1>3, Rest DEF DeviceTyped
<1>6. DeviceTyped'
  BY <1>1, <1>2, <1>5, DeviceAssumption DEF DeviceTyped
<1>7. GuiTyped'
  BY <1>1 DEF GuiTyped
<1>8. bufferContent' \in Nat
  BY <1>2, <1>3, WantedTyped DEF SyncTyped
<1>9. last' \in Samples
  BY <1>2, <1>3, ReceivedTyped DEF DeviceTyped, BufferTyped
<1>10. ofdmBuffer' \in [Index -> Samples]
  <2>1. ASSUME NEW i \in Index
        PROVE  (IF Place <= i /\ i < Place + n
                THEN ring[i - Place + 1] ELSE ofdmBuffer[i]) \in Samples
    <3>1. i \in Int
      BY <2>1, FrameTyped DEF Index
    <3>2. CASE Place <= i /\ i < Place + n
      <4>1. i - Place + 1 \in 1 .. Len(ring)
        BY <3>1, <3>2, <1>2, WantedTyped
      <4>. QED BY <3>2, <4>1, ReceivedTyped DEF DeviceTyped
    <3>3. CASE ~(Place <= i /\ i < Place + n)
      BY <2>1, <3>3 DEF BufferTyped
    <3>. QED BY <3>2, <3>3
  <2>. QED BY <1>3, <2>1
<1>11. AllOwn /\ Own(last) => AllOwn' /\ Own(last)'
  BY <1>1, <1>2, <1>3, <1>5 DEF AllOwn, Own
<1>. QED BY <1>1, <1>4, <1>6, <1>7, <1>8, <1>9, <1>10, <1>11

(***************************************************************************)
(* The steps of the loop.  Three lemmas say what a step has to do to       *)
(* preserve the invariant: one that takes a sample, one that takes many,   *)
(* and one that takes none.                                                *)
(***************************************************************************)
LEMMA StepWithSample ==
  ASSUME OwnInv, NEW x \in Samples, getSample(x),
         pc \in SampleReads, pc' \in SampleReads,
         counter' \in Nat, attempts' \in 0 .. 4, startFailures' \in 0 .. 4,
         low' \in BOOLEAN, reported' \in BOOLEAN
  PROVE  OwnInv'
<1>. USE DEF OwnInv, TypeOK
<1>1. AllOwn
  BY DEF RingOwn, AllOwn, Loop
<1>2. DeviceTyped' /\ GuiTyped' /\ BufferTyped' /\ AllOwn' /\ Own(last)'
  BY <1>1, SampleTaken
<1>3. SyncTyped'
  BY SampleTaken DEF SyncTyped
<1>4. UNCHANGED <<scanMode, running, polling, intact, tracking, driver>>
  BY SampleTaken
<1>5. gapped' \in BOOLEAN
  BY SampleTaken
<1>6. FlagsTyped'
  BY <1>4, <1>5 DEF FlagsTyped
<1>7. DriverTuned' /\ FlagKept'
  BY SampleTaken, <1>4 DEF DriverTuned, FlagKept
<1>8. RingOwn' /\ LastOwn'
  BY <1>2 DEF RingOwn, LastOwn, AllOwn
<1>9. IdleOff' /\ BlockLeft'
  BY DEF IdleOff, BlockLeft, SampleReads
<1>. QED BY <1>2, <1>3, <1>6, <1>7, <1>8, <1>9

LEMMA StepWithBlock ==
  ASSUME OwnInv, getSamples,
         pc \in BlockReads, pc' \in BlockReads \cup {"find"},
         UNCHANGED <<syncVars, reported>>, tracking' \in BOOLEAN,
         ofdmBufferIndex' \in 0 .. T_u, ofdmSymbolCount' \in 0 .. nrBlocks,
         BlockLeft'
  PROVE  OwnInv'
<1>. USE DEF OwnInv, TypeOK
<1>1. AllOwn /\ Own(last)
  BY DEF RingOwn, LastOwn, AllOwn, Loop
<1>2. DeviceTyped' /\ GuiTyped' /\ AllOwn' /\ Own(last)'
  BY <1>1, SamplesTaken
<1>3. BufferTyped'
  BY SamplesTaken DEF BufferTyped
<1>4. UNCHANGED <<counter, attempts, startFailures, low, reported>>
  BY DEF syncVars
<1>5. SyncTyped'
  BY <1>4, SamplesTaken DEF SyncTyped
<1>6. UNCHANGED <<scanMode, running, polling, driver>>
  BY SamplesTaken
<1>7. intact' \in BOOLEAN /\ gapped' \in BOOLEAN
  BY SamplesTaken
<1>8. FlagsTyped'
  BY <1>4, <1>6, <1>7 DEF FlagsTyped
<1>9. DriverTuned' /\ FlagKept'
  BY SamplesTaken, <1>6 DEF DriverTuned, FlagKept
<1>10. RingOwn' /\ LastOwn'
  BY <1>2 DEF RingOwn, LastOwn, AllOwn
<1>11. IdleOff'
  BY DEF IdleOff, BlockReads
<1>. QED BY <1>2, <1>3, <1>5, <1>8, <1>9, <1>10, <1>11

LEMMA StepWithout ==
  ASSUME OwnInv, UNCHANGED <<deviceVars, guiVars, running, ofdmSymbolCount, last>>,
         pc \in Loop, pc' \in Loop, pc' = "data" => pc = "data",
         bufferContent' \in Nat, counter' \in Nat,
         attempts' \in 0 .. 4, startFailures' \in 0 .. 4,
         ofdmBuffer' \in [Index -> Samples], ofdmBufferIndex' \in 0 .. T_u,
         polling' \in BOOLEAN, low' \in BOOLEAN, intact' \in BOOLEAN,
         tracking' \in BOOLEAN, gapped' \in BOOLEAN, reported' \in BOOLEAN
  PROVE  OwnInv'
<1>. USE DEF OwnInv, TypeOK
<1>1. /\ UNCHANGED <<driver, tuned, ring, air, lost>>
      /\ UNCHANGED <<asked, scanMode, gui, stops>>
  BY DEF deviceVars, guiVars
<1>2. DeviceTyped' /\ GuiTyped'
  BY <1>1 DEF DeviceTyped, GuiTyped
<1>3. SyncTyped'
  BY DEF SyncTyped, Loop
<1>4. BufferTyped'
  BY DEF BufferTyped
<1>5. FlagsTyped'
  BY <1>1 DEF FlagsTyped
<1>6. DriverTuned' /\ RingOwn' /\ LastOwn'
  BY <1>1 DEF DriverTuned, RingOwn, LastOwn, Own
<1>7. IdleOff' /\ FlagKept' /\ BlockLeft'
  BY <1>1 DEF IdleOff, FlagKept, BlockLeft, Loop, SampleReads, BlockReads
<1>. QED BY <1>2, <1>3, <1>4, <1>5, <1>6, <1>7

LEMMA ReadFirstOwn == OwnInv /\ ReadFirst => OwnInv'
<1>. SUFFICES ASSUME OwnInv, ReadFirst PROVE OwnInv'
  OBVIOUS
<1>1. SyncTyped /\ BufferTyped /\ FlagsTyped /\ pc = "warm"
  BY DEF OwnInv, TypeOK, ReadFirst
<1>2. UNCHANGED <<attempts, startFailures, reported>>
  BY DEF ReadFirst
<1>3. CASE /\ Sampling
           /\ \E x \in Samples : getSample(x)
           /\ counter' = counter + 1
           /\ UNCHANGED <<pc, low>>
  <2>1. PICK x \in Samples : getSample(x)
    BY <1>3
  <2>2. low' \in BOOLEAN /\ reported' \in BOOLEAN
    BY <1>1, <1>2, <1>3 DEF FlagsTyped
  <2>3. counter' \in Nat /\ attempts' \in 0 .. 4 /\ startFailures' \in 0 .. 4
    BY <1>1, <1>2, <1>3 DEF SyncTyped
  <2>. QED BY <1>1, <1>3, <2>1, <2>2, <2>3, StepWithSample DEF SampleReads
<1>4. CASE ~Sampling /\ Resync /\ UNCHANGED dataVars
  <2>1. UNCHANGED <<deviceVars, guiVars, running, ofdmSymbolCount, last>>
    BY <1>4 DEF dataVars, readerVars, bufferVars
  <2>2. low' \in BOOLEAN /\ reported' \in BOOLEAN /\ polling' \in BOOLEAN
        /\ intact' \in BOOLEAN /\ tracking' \in BOOLEAN /\ gapped' \in BOOLEAN
    BY <1>1, <1>2, <1>4 DEF FlagsTyped, Resync, dataVars, readerVars
  <2>3. /\ counter' \in Nat /\ attempts' \in 0 .. 4 /\ startFailures' \in 0 .. 4
        /\ bufferContent' \in Nat
    BY <1>1, <1>2, <1>4 DEF SyncTyped, Resync, dataVars, readerVars
  <2>4. ofdmBuffer' \in [Index -> Samples] /\ ofdmBufferIndex' \in 0 .. T_u
    BY <1>1, <1>4 DEF BufferTyped, dataVars, bufferVars
  <2>5. pc' = "level"
    BY <1>4 DEF Resync
  <2>. QED BY <1>1, <2>1, <2>2, <2>3, <2>4, <2>5, StepWithout
           DEF Loop, SampleReads
<1>. QED BY <1>3, <1>4 DEF ReadFirst

LEMMA ReadLevelOwn == OwnInv /\ ReadLevel => OwnInv'
<1>. SUFFICES ASSUME OwnInv, ReadLevel PROVE OwnInv'
  OBVIOUS
<1>1. SyncTyped /\ FlagsTyped
  BY DEF OwnInv, TypeOK
<1>2. PICK x \in Samples : getSample(x) /\ low' = Low(x)
  BY DEF ReadLevel
<1>3. low' \in BOOLEAN /\ reported' \in BOOLEAN
  BY <1>1, <1>2, Zenon DEF ReadLevel, Low, FlagsTyped
<1>4. counter' \in Nat /\ attempts' \in 0 .. 4 /\ startFailures' \in 0 .. 4
  BY <1>1 DEF ReadLevel, SyncTyped
<1>5. pc = "level" /\ pc' = "null"
  BY DEF ReadLevel
<1>. QED BY <1>2, <1>3, <1>4, <1>5, StepWithSample DEF SampleReads

\* NO_DIP_FOUND leaves the count below the number that is reported.
LEMMA NoDipTyped ==
  ASSUME attempts \in 0 .. 4, low \in BOOLEAN, reported \in BOOLEAN, NoDip
  PROVE  /\ attempts' \in 0 .. 4 /\ counter' \in Nat /\ pc' = "level"
         /\ low' \in BOOLEAN /\ reported' \in BOOLEAN
<1>1. attempts' \in 0 .. 4 /\ counter' \in Nat /\ pc' = "level"
  BY DEF NoDip, Resync
<1>2. low' \in BOOLEAN /\ reported' \in BOOLEAN
  BY Zenon DEF NoDip, Resync
<1>. QED BY <1>1, <1>2

LEMMA SeekDipOwn == OwnInv /\ SeekDip => OwnInv'
<1>. SUFFICES ASSUME OwnInv, SeekDip PROVE OwnInv'
  OBVIOUS
<1>1. SyncTyped /\ BufferTyped /\ FlagsTyped /\ pc = "null"
  BY DEF OwnInv, TypeOK, SeekDip
<1>2. startFailures' \in 0 .. 4
  BY <1>1 DEF SeekDip, SyncTyped
<1>3. CASE low /\ pc' = "endNull" /\ counter' = 0
             /\ UNCHANGED <<dataVars, low, attempts, reported>>
  <2>1. UNCHANGED <<deviceVars, guiVars, running, ofdmSymbolCount, last>>
    BY <1>3 DEF dataVars, readerVars, bufferVars
  <2>2. /\ low' \in BOOLEAN /\ reported' \in BOOLEAN /\ polling' \in BOOLEAN
        /\ intact' \in BOOLEAN /\ tracking' \in BOOLEAN /\ gapped' \in BOOLEAN
    BY <1>1, <1>3 DEF FlagsTyped, dataVars, readerVars
  <2>3. counter' \in Nat /\ attempts' \in 0 .. 4 /\ bufferContent' \in Nat
    BY <1>1, <1>3 DEF SyncTyped, dataVars, readerVars
  <2>4. ofdmBuffer' \in [Index -> Samples] /\ ofdmBufferIndex' \in 0 .. T_u
    BY <1>1, <1>3 DEF BufferTyped, dataVars, bufferVars
  <2>. QED BY <1>1, <1>2, <1>3, <2>1, <2>2, <2>3, <2>4, StepWithout
           DEF Loop, SampleReads
<1>4. ASSUME NEW x \in Samples, getSample(x), counter >= T_F, NoDip
      PROVE  OwnInv'
  BY <1>1, <1>2, <1>4, NoDipTyped, StepWithSample
     DEF SampleReads, SyncTyped, FlagsTyped
<1>5. ASSUME NEW x \in Samples, getSample(x), low' = Low(x),
             counter' = counter + 1, UNCHANGED <<pc, attempts, reported>>
      PROVE  OwnInv'
  <2>1. low' \in BOOLEAN /\ reported' \in BOOLEAN
    BY <1>1, <1>5, Zenon DEF Low, FlagsTyped
  <2>2. counter' \in Nat /\ attempts' \in 0 .. 4
    BY <1>1, <1>5 DEF SyncTyped
  <2>. QED BY <1>1, <1>2, <1>5, <2>1, <2>2, StepWithSample DEF SampleReads
<1>. QED BY <1>3, <1>4, <1>5, Zenon DEF SeekDip

LEMMA SeekEndOwn == OwnInv /\ SeekEnd => OwnInv'
<1>. SUFFICES ASSUME OwnInv, SeekEnd PROVE OwnInv'
  OBVIOUS
<1>1. SyncTyped /\ BufferTyped /\ FlagsTyped /\ pc = "endNull"
  BY DEF OwnInv, TypeOK, SeekEnd
<1>2. attempts' \in 0 .. 4 /\ startFailures' \in 0 .. 4
  BY <1>1 DEF SeekEnd, SyncTyped
<1>3. reported' \in BOOLEAN
  BY <1>1 DEF SeekEnd, FlagsTyped
<1>4. CASE /\ ~low /\ pc' = "phase" /\ tracking' = FALSE
           /\ UNCHANGED <<deviceVars, guiVars, readerVars, bufferVars, last,
                          intact, gapped, low, counter>>
  <2>1. UNCHANGED <<deviceVars, guiVars, running, ofdmSymbolCount, last>>
    BY <1>4 DEF readerVars, bufferVars
  <2>2. /\ low' \in BOOLEAN /\ polling' \in BOOLEAN
        /\ intact' \in BOOLEAN /\ gapped' \in BOOLEAN
    BY <1>1, <1>4 DEF FlagsTyped, readerVars
  <2>3. tracking' \in BOOLEAN
    BY <1>4
  <2>4. counter' \in Nat /\ bufferContent' \in Nat
    BY <1>1, <1>4 DEF SyncTyped, readerVars
  <2>5. ofdmBuffer' \in [Index -> Samples] /\ ofdmBufferIndex' \in 0 .. T_u
    BY <1>1, <1>4 DEF BufferTyped, bufferVars
  <2>. QED BY <1>1, <1>2, <1>3, <1>4, <2>1, <2>2, <2>3, <2>4, <2>5, StepWithout
           DEF Loop, SampleReads, BlockReads
<1>5. ASSUME NEW x \in Samples, getSample(x), Resync
      PROVE  OwnInv'
  <2>1. low' \in BOOLEAN
    BY <1>1, <1>5 DEF Resync, FlagsTyped
  <2>. QED BY <1>1, <1>2, <1>3, <1>5, <2>1, StepWithSample DEF Resync, SampleReads
<1>6. ASSUME NEW x \in Samples, getSample(x), low' = Low(x),
             counter' = counter + 1, UNCHANGED pc
      PROVE  OwnInv'
  <2>1. low' \in BOOLEAN
    BY <1>6, Zenon DEF Low
  <2>2. counter' \in Nat
    BY <1>1, <1>6 DEF SyncTyped
  <2>. QED BY <1>1, <1>2, <1>3, <1>6, <2>1, <2>2, StepWithSample DEF SampleReads
<1>. QED BY <1>4, <1>5, <1>6, Zenon DEF SeekEnd

LEMMA BlocksOwn == OwnInv /\ (ReadPhase \/ ReadBlock0 \/ ReadData \/ ReadNull) => OwnInv'
<1>. SUFFICES ASSUME OwnInv, ReadPhase \/ ReadBlock0 \/ ReadData \/ ReadNull
              PROVE  OwnInv'
  OBVIOUS
<1>1. BufferTyped /\ FlagsTyped /\ BlockLeft
  BY DEF OwnInv, TypeOK
<1>2. intact' \in BOOLEAN /\ getSamples
  BY SamplesTaken DEF ReadPhase, ReadBlock0, ReadData, ReadNull
<1>3. CASE ReadPhase
  <2>1. tracking' \in BOOLEAN
    BY <1>1, <1>3 DEF ReadPhase, FlagsTyped
  <2>2. /\ ofdmBufferIndex' \in 0 .. T_u /\ ofdmSymbolCount' \in 0 .. nrBlocks
        /\ BlockLeft'
    BY <1>1, <1>3 DEF ReadPhase, BufferTyped, BlockLeft
  <2>. QED BY <1>3, <2>1, <2>2, StepWithBlock DEF ReadPhase, BlockReads
<1>4. CASE ReadBlock0
  <2>1. tracking' \in BOOLEAN
    BY <1>1, <1>4 DEF ReadBlock0, FlagsTyped
  <2>2. /\ ofdmBufferIndex' \in 0 .. T_u /\ ofdmSymbolCount' \in 0 .. nrBlocks
        /\ BlockLeft'
    BY <1>1, <1>4, FrameAssumption DEF ReadBlock0, BufferTyped, BlockLeft
  <2>. QED BY <1>4, <2>1, <2>2, StepWithBlock DEF ReadBlock0, BlockReads
<1>5. CASE ReadData
  <2>1. tracking' \in BOOLEAN
    BY <1>1, <1>5 DEF ReadData, FlagsTyped
  <2>2. /\ ofdmBufferIndex' \in 0 .. T_u /\ ofdmSymbolCount' \in 0 .. nrBlocks
        /\ BlockLeft'
    BY <1>1, <1>5, FrameAssumption DEF ReadData, BufferTyped, BlockLeft
  <2>. QED BY <1>5, <2>1, <2>2, StepWithBlock DEF ReadData, BlockReads
<1>6. CASE ReadNull
  <2>1. tracking' \in BOOLEAN
    BY <1>2, <1>6 DEF ReadNull
  <2>2. /\ ofdmBufferIndex' \in 0 .. T_u /\ ofdmSymbolCount' \in 0 .. nrBlocks
        /\ BlockLeft'
    BY <1>1, <1>6 DEF ReadNull, BufferTyped, BlockLeft
  <2>. QED BY <1>6, <2>1, <2>2, StepWithBlock DEF ReadNull, BlockReads
<1>. QED BY <1>3, <1>4, <1>5, <1>6

LEMMA PhaseFoundOwn == OwnInv /\ PhaseFound => OwnInv'
<1>. SUFFICES ASSUME OwnInv, PhaseFound PROVE OwnInv'
  OBVIOUS
<1>1. SyncTyped /\ BufferTyped /\ FlagsTyped
  BY DEF OwnInv, TypeOK
<1>2. PICK i \in 0 .. T_u - 1 :
        /\ MoveToFront(i)
        /\ intact' = (/\ \A j \in i .. T_u - 1 : ofdmBuffer[j] = After(Start, j - i)
                      /\ last = ofdmBuffer[T_u - 1])
  BY DEF PhaseFound
<1>3. intact' \in BOOLEAN
  BY <1>2, Zenon
<1>4. /\ UNCHANGED <<deviceVars, guiVars, running, ofdmSymbolCount, last>>
      /\ UNCHANGED <<bufferContent, polling, counter, low, attempts>>
      /\ UNCHANGED <<tracking, gapped, reported>>
      /\ pc = "find" /\ pc' = "block0" /\ startFailures' = 0
  BY DEF PhaseFound, readerVars
<1>5. ofdmBufferIndex' \in 0 .. T_u
  BY <1>2, FrameAssumption DEF MoveToFront
<1>6. ofdmBuffer' \in [Index -> Samples]
  <2>1. ASSUME NEW j \in Index
        PROVE  (IF j < T_u - i THEN ofdmBuffer[i + j] ELSE ofdmBuffer[j]) \in Samples
    <3>1. j < T_u - i => i + j \in Index
      BY <2>1, FrameAssumption DEF Index, T_s
    <3>. QED BY <1>1, <2>1, <3>1 DEF BufferTyped
  <2>. QED BY <1>2, <2>1 DEF MoveToFront
<1>7. /\ polling' \in BOOLEAN /\ low' \in BOOLEAN /\ tracking' \in BOOLEAN
      /\ gapped' \in BOOLEAN /\ reported' \in BOOLEAN
  BY <1>1, <1>4 DEF FlagsTyped
<1>8. /\ bufferContent' \in Nat /\ counter' \in Nat
      /\ attempts' \in 0 .. 4 /\ startFailures' \in 0 .. 4
  BY <1>1, <1>4 DEF SyncTyped
<1>. QED BY <1>3, <1>4, <1>5, <1>6, <1>7, <1>8, StepWithout DEF Loop, BlockReads

LEMMA PhaseNotFoundOwn == OwnInv /\ PhaseNotFound => OwnInv'
<1>. SUFFICES ASSUME OwnInv, PhaseNotFound PROVE OwnInv'
  OBVIOUS
<1>1. SyncTyped /\ BufferTyped /\ FlagsTyped
  BY DEF OwnInv, TypeOK
<1>2. /\ UNCHANGED <<deviceVars, guiVars, running, bufferContent, polling>>
      /\ UNCHANGED <<ofdmBuffer, ofdmBufferIndex, ofdmSymbolCount, last>>
      /\ UNCHANGED <<intact, tracking, gapped, low, attempts>>
      /\ pc = "find" /\ pc' = "level" /\ counter' = 0
  BY DEF PhaseNotFound, Resync, dataVars, readerVars, bufferVars
<1>3. startFailures' \in 0 .. 4
  BY <1>1 DEF PhaseNotFound, SyncTyped, Lesser
<1>4. reported' \in BOOLEAN
  BY <1>1, Zenon DEF PhaseNotFound, FlagsTyped
<1>5. /\ polling' \in BOOLEAN /\ low' \in BOOLEAN /\ tracking' \in BOOLEAN
      /\ gapped' \in BOOLEAN /\ intact' \in BOOLEAN
  BY <1>1, <1>2 DEF FlagsTyped
<1>6. /\ bufferContent' \in Nat /\ counter' \in Nat /\ attempts' \in 0 .. 4
      /\ ofdmBuffer' \in [Index -> Samples] /\ ofdmBufferIndex' \in 0 .. T_u
  BY <1>1, <1>2 DEF SyncTyped, BufferTyped
<1>. QED BY <1>2, <1>3, <1>4, <1>5, <1>6, StepWithout DEF Loop, SampleReads

LEMMA PollOwn == OwnInv /\ Poll => OwnInv'
<1>. SUFFICES ASSUME OwnInv, Poll PROVE OwnInv'
  OBVIOUS
<1>1. DeviceTyped /\ SyncTyped /\ BufferTyped /\ FlagsTyped
  BY DEF OwnInv, TypeOK
<1>2. /\ UNCHANGED <<deviceVars, guiVars, running, pc>>
      /\ UNCHANGED <<ofdmBuffer, ofdmBufferIndex, ofdmSymbolCount>>
      /\ UNCHANGED <<counter, low, attempts, startFailures>>
      /\ UNCHANGED <<last, intact, tracking, gapped, reported>>
  BY DEF Poll, syncVars, bufferVars, history
<1>3. bufferContent' \in Nat
  BY <1>1 DEF Poll, DeviceTyped
<1>4. polling' \in BOOLEAN
  BY Zenon DEF Poll
<1>5. pc \in Loop
  BY DEF Poll, Sampling, Loop, SampleReads
<1>6. /\ low' \in BOOLEAN /\ tracking' \in BOOLEAN /\ reported' \in BOOLEAN
      /\ gapped' \in BOOLEAN /\ intact' \in BOOLEAN
  BY <1>1, <1>2 DEF FlagsTyped
<1>7. /\ counter' \in Nat /\ attempts' \in 0 .. 4 /\ startFailures' \in 0 .. 4
      /\ ofdmBuffer' \in [Index -> Samples] /\ ofdmBufferIndex' \in 0 .. T_u
  BY <1>1, <1>2 DEF SyncTyped, BufferTyped
<1>. QED BY <1>2, <1>3, <1>4, <1>5, <1>6, <1>7, StepWithout

\* The loop ends: that is while the GUI thread waits, and what is left in the
\* buffer is of the same channel.
LEMMA ThrowOwn == OwnInv /\ Throw => OwnInv'
<1>. SUFFICES ASSUME OwnInv, Throw PROVE OwnInv'
  OBVIOUS
<1>. USE DEF OwnInv, TypeOK
<1>1. /\ UNCHANGED <<driver, tuned, air, lost, running, bufferContent>>
      /\ UNCHANGED <<asked, scanMode, gui, stops>>
      /\ UNCHANGED <<counter, low, attempts, startFailures>>
      /\ UNCHANGED <<ofdmBuffer, ofdmBufferIndex, ofdmSymbolCount>>
      /\ UNCHANGED <<last, intact, tracking, gapped, reported>>
      /\ pc' = "off" /\ polling' = FALSE /\ ~running
  BY DEF Throw, guiVars, syncVars, bufferVars, history
<1>2. pc \in Loop
  BY DEF Throw, Sampling, Loop, SampleReads
<1>3. AllOwn
  BY <1>2 DEF RingOwn, AllOwn
<1>4. PICK m \in 0 .. Len(ring) : ring' = SubSeq(ring, m + 1, Len(ring))
  <2>1. CASE UNCHANGED ring
    <3>1. ring' = SubSeq(ring, 0 + 1, Len(ring)) /\ 0 \in 0 .. Len(ring)
      BY <2>1 DEF DeviceTyped
    <3>. QED BY <3>1
  <2>2. CASE ring' = SubSeq(ring, Lesser(Wanted, Len(ring)) + 1, Len(ring))
    <3>1. Lesser(Wanted, Len(ring)) \in 0 .. Len(ring)
      BY WantedTyped DEF Lesser, DeviceTyped
    <3>. QED BY <2>2, <3>1
  <2>. QED BY <2>1, <2>2 DEF Throw
<1>5. /\ ring' \in Seq(Received) /\ Len(ring') = Len(ring) - m
      /\ \A i \in 1 .. Len(ring) - m : ring'[i] = ring[m + i]
  BY <1>4, Rest DEF DeviceTyped
<1>6. Len(ring) \in Nat
  BY DEF DeviceTyped
<1>7. DeviceTyped'
  BY <1>1, <1>4, <1>5, <1>6, DeviceAssumption DEF DeviceTyped
<1>8. AllOwn'
  BY <1>1, <1>3, <1>4, <1>5, <1>6 DEF AllOwn, Own
<1>9. GuiTyped' /\ SyncTyped' /\ BufferTyped'
  BY <1>1 DEF GuiTyped, SyncTyped, BufferTyped
<1>10. FlagsTyped'
  BY <1>1, Zenon DEF FlagsTyped
<1>11. DriverTuned' /\ RingOwn' /\ BlockLeft'
  BY <1>1, <1>8 DEF DriverTuned, RingOwn, AllOwn, BlockLeft
<1>12. FlagKept' /\ LastOwn'
  BY <1>1 DEF FlagKept, LastOwn, Loop, SampleReads, BlockReads
<1>13. IdleOff'
  BY <1>1, <1>2 DEF IdleOff, FlagKept
<1>. QED BY <1>7, <1>9, <1>10, <1>11, <1>12, <1>13

(***************************************************************************)
(* The start of the thread.                                                *)
(***************************************************************************)
\* A flush leaves nothing, or what the driver thread of this channel put.
LEMMA resetBufferOwn == OwnInv /\ resetBuffer => OwnInv'
<1>. SUFFICES ASSUME OwnInv, resetBuffer PROVE OwnInv'
  OBVIOUS
<1>. USE DEF OwnInv, TypeOK
<1>1. /\ UNCHANGED <<driver, tuned, air, lost, running, bufferContent, polling>>
      /\ UNCHANGED <<asked, scanMode, gui, stops>>
      /\ UNCHANGED <<counter, low, startFailures>>
      /\ UNCHANGED <<ofdmBuffer, ofdmBufferIndex, ofdmSymbolCount>>
      /\ UNCHANGED <<last, intact, tracking, gapped, reported>>
      /\ pc' = "restart" /\ attempts' = 0
  BY DEF resetBuffer, guiVars, readerVars, bufferVars, history
<1>2. /\ ring' \in Seq(Received) /\ Len(ring') <= 1
      /\ driver => \A i \in 1 .. Len(ring') : Own(ring'[i])
  <2>1. CASE ring' = << >>
    BY <2>1
  <2>2. ASSUME NEW x \in Received, driver,
               x = Flat <=> tuned = "empty", ring' = <<x>>
        PROVE  /\ ring' \in Seq(Received) /\ Len(ring') <= 1
               /\ driver => \A i \in 1 .. Len(ring') : Own(ring'[i])
    <3>1. ring' \in Seq(Received) /\ Len(ring') = 1 /\ ring'[1] = x
      BY <2>2 DEF Samples
    <3>2. Own(x)
      BY <2>2 DEF Own, DriverTuned
    <3>. QED BY <3>1, <3>2
  <2>. QED BY <2>1, <2>2 DEF resetBuffer
<1>3. DeviceTyped'
  BY <1>1, <1>2, DeviceAssumption DEF DeviceTyped
<1>4. GuiTyped' /\ SyncTyped' /\ BufferTyped'
  BY <1>1 DEF GuiTyped, SyncTyped, BufferTyped
<1>5. FlagsTyped'
  BY <1>1 DEF FlagsTyped
<1>6. DriverTuned' /\ BlockLeft' /\ IdleOff'
  BY <1>1 DEF DriverTuned, BlockLeft, IdleOff
<1>7. RingOwn' /\ FlagKept' /\ LastOwn'
  BY <1>1, <1>2 DEF RingOwn, FlagKept, LastOwn, Own, Loop, SampleReads, BlockReads
<1>. QED BY <1>3, <1>4, <1>5, <1>6, <1>7

\* From here on the buffer and the device are of the channel asked for.
LEMMA restartReaderOwn == OwnInv /\ restartReader => OwnInv'
<1>. SUFFICES ASSUME OwnInv, restartReader PROVE OwnInv'
  OBVIOUS
<1>. USE DEF OwnInv, TypeOK
<1>1. /\ UNCHANGED <<lost, running, bufferContent, polling>>
      /\ UNCHANGED <<asked, scanMode, gui, stops>>
      /\ UNCHANGED <<counter, low, attempts, startFailures>>
      /\ UNCHANGED <<ofdmBuffer, ofdmBufferIndex, ofdmSymbolCount>>
      /\ UNCHANGED <<last, intact, tracking, gapped, reported>>
      /\ pc' = "run"
  BY DEF restartReader, guiVars, readerVars, syncVars, bufferVars, history
<1>2. GuiTyped' /\ SyncTyped' /\ BufferTyped'
  BY <1>1 DEF GuiTyped, SyncTyped, BufferTyped
<1>3. BlockLeft' /\ IdleOff' /\ FlagKept' /\ LastOwn'
  BY <1>1 DEF BlockLeft, IdleOff, FlagKept, LastOwn, Loop, SampleReads, BlockReads
<1>4. DeviceTyped' /\ FlagsTyped' /\ DriverTuned' /\ RingOwn'
  <2>1. CASE driver /\ UNCHANGED <<driver, tuned, ring, air>>
    <3>1. DeviceTyped' /\ FlagsTyped'
      BY <1>1, <2>1 DEF DeviceTyped, FlagsTyped
    <3>2. DriverTuned' /\ RingOwn'
      BY <1>1, <2>1 DEF DriverTuned, RingOwn, Own
    <3>. QED BY <3>1, <3>2
  <2>2. CASE ~driver /\ ring' = << >> /\ UNCHANGED <<driver, tuned, air>>
    <3>1. DeviceTyped'
      BY <1>1, <2>2, DeviceAssumption DEF DeviceTyped
    <3>2. FlagsTyped'
      BY <1>1, <2>2 DEF FlagsTyped
    <3>3. DriverTuned' /\ RingOwn'
      BY <2>2 DEF DriverTuned, RingOwn
    <3>. QED BY <3>1, <3>2, <3>3
  <2>3. CASE /\ ring' = << >> /\ driver' = TRUE /\ tuned' = asked
             /\ air' \in IF asked = "dab" THEN Positions ELSE {0}
    <3>1. tuned' \in Channels /\ air' \in Positions
      BY <2>3, FrameTyped DEF GuiTyped, Positions
    <3>2. DeviceTyped'
      BY <1>1, <2>3, <3>1, DeviceAssumption DEF DeviceTyped
    <3>3. FlagsTyped'
      BY <1>1, <2>3, Zenon DEF FlagsTyped
    <3>4. DriverTuned' /\ RingOwn'
      BY <1>1, <2>3 DEF DriverTuned, RingOwn
    <3>. QED BY <3>2, <3>3, <3>4
  <2>. QED BY <2>1, <2>2, <2>3 DEF restartReader
<1>. QED BY <1>2, <1>3, <1>4

LEMMA setRunningOwn == OwnInv /\ setRunning => OwnInv'
<1>. SUFFICES ASSUME OwnInv, setRunning PROVE OwnInv'
  OBVIOUS
<1>. USE DEF OwnInv, TypeOK
<1>1. /\ UNCHANGED <<driver, tuned, ring, air, lost, bufferContent, polling>>
      /\ UNCHANGED <<asked, scanMode, gui, stops>>
      /\ UNCHANGED <<low, attempts, startFailures>>
      /\ UNCHANGED <<ofdmBuffer, ofdmBufferIndex, ofdmSymbolCount>>
      /\ pc = "run" /\ pc' = "warm" /\ counter' = 0 /\ last' = Zero
      /\ running' = TRUE /\ intact' = FALSE /\ tracking' = FALSE
      /\ gapped' = FALSE /\ reported' = FALSE
  BY DEF setRunning, deviceVars, guiVars, bufferVars
<1>2. DeviceTyped' /\ GuiTyped'
  BY <1>1 DEF DeviceTyped, GuiTyped
<1>3. SyncTyped' /\ BufferTyped'
  BY <1>1 DEF SyncTyped, BufferTyped, SampleReads, Samples
<1>4. FlagsTyped'
  BY <1>1, Zenon DEF FlagsTyped
<1>5. DriverTuned' /\ RingOwn' /\ BlockLeft' /\ IdleOff'
  BY <1>1 DEF DriverTuned, RingOwn, Own, BlockLeft, IdleOff
<1>6. FlagKept' /\ LastOwn'
  BY <1>1 DEF FlagKept, LastOwn, Own
<1>. QED BY <1>2, <1>3, <1>4, <1>5, <1>6

(***************************************************************************)
(* The device and the GUI thread.                                          *)
(***************************************************************************)
LEMMA ReceiveOwn == OwnInv /\ Receive => OwnInv'
<1>. SUFFICES ASSUME OwnInv, Receive PROVE OwnInv'
  OBVIOUS
<1>. USE DEF OwnInv, TypeOK
<1>. DEFINE n == Lesser(Chunk, Capacity - Len(ring))
            new == [i \in 1 .. n |-> IF tuned = "dab" THEN After(air, i - 1) ELSE Flat]
<1>1. /\ UNCHANGED <<driver, tuned, running, bufferContent, polling, pc>>
      /\ UNCHANGED <<asked, scanMode, gui, stops>>
      /\ UNCHANGED <<counter, low, attempts, startFailures>>
      /\ UNCHANGED <<ofdmBuffer, ofdmBufferIndex, ofdmSymbolCount>>
      /\ UNCHANGED <<last, intact, tracking, gapped, reported>>
  BY DEF Receive, guiVars, readerVars, syncVars, bufferVars, history
<1>2. /\ driver /\ ring' = ring \o new /\ air' = After(air, Chunk)
      /\ lost' = lost + Chunk - n /\ lost + Chunk - n <= MaxLost
  BY DEF Receive
<1>3. Len(ring) \in Nat /\ n \in Nat /\ n <= Chunk /\ Len(ring) + n <= Capacity
  BY DeviceAssumption DEF DeviceTyped, Lesser
<1>4. air \in Int /\ Chunk \in Int
  BY FrameTyped, DeviceAssumption DEF DeviceTyped, Positions
<1>. HIDE DEF n
<1>5. ASSUME NEW i \in 1 .. n PROVE new[i] \in Received /\ Own(new[i])
  <2>1. CASE tuned = "dab"
    <3>1. After(air, i - 1) \in Positions
      BY <1>3, <1>4, <1>5, AfterTyped
    <3>. QED BY <1>2, <2>1, <3>1, PositionsDiffer DEF Received, Own, DriverTuned
  <2>2. CASE tuned = "empty"
    BY <1>2, <2>2 DEF Received, Own, DriverTuned
  <2>. QED BY <2>1, <2>2 DEF DeviceTyped, Channels
<1>6. new \in Seq(Received) /\ Len(new) = n
  BY <1>3, <1>5
<1>. HIDE DEF new
<1>7. /\ ring' \in Seq(Received) /\ Len(ring') = Len(ring) + n
      /\ \A i \in 1 .. Len(ring) + n :
           ring'[i] = IF i <= Len(ring) THEN ring[i] ELSE new[i - Len(ring)]
  BY <1>2, <1>6, ConcatProperties DEF DeviceTyped
<1>8. air' \in Positions
  BY <1>2, <1>4, AfterTyped
<1>9. lost' \in 0 .. MaxLost
  BY <1>2, <1>3, CountsAssumption, DeviceAssumption DEF DeviceTyped
<1>10. DeviceTyped'
  BY <1>1, <1>3, <1>7, <1>8, <1>9 DEF DeviceTyped
<1>11. GuiTyped' /\ SyncTyped' /\ BufferTyped'
  BY <1>1 DEF GuiTyped, SyncTyped, BufferTyped
<1>12. FlagsTyped'
  BY <1>1 DEF FlagsTyped
<1>13. RingOwn'
  <2>1. ASSUME NEW i \in 1 .. Len(ring') PROVE Own(ring'[i])
    <3>1. CASE i <= Len(ring)
      BY <1>2, <1>3, <1>7, <2>1, <3>1 DEF RingOwn
    <3>2. CASE i > Len(ring)
      <4>1. i - Len(ring) \in 1 .. n
        BY <1>3, <1>7, <2>1, <3>2
      <4>. QED BY <1>3, <1>5, <1>7, <2>1, <3>2, <4>1
    <3>. QED BY <1>3, <1>7, <2>1, <3>1, <3>2
  <2>. QED BY <1>1, <2>1 DEF RingOwn, Own
<1>14. DriverTuned' /\ IdleOff' /\ FlagKept' /\ LastOwn' /\ BlockLeft'
  BY <1>1 DEF DriverTuned, IdleOff, FlagKept, LastOwn, Own, BlockLeft
<1>. QED BY <1>10, <1>11, <1>12, <1>13, <1>14

\* Another channel may be asked for: there is no driver thread then.
LEMMA startOwn == OwnInv /\ start => OwnInv'
<1>. SUFFICES ASSUME OwnInv, start PROVE OwnInv'
  OBVIOUS
<1>. USE DEF OwnInv, TypeOK
<1>1. /\ UNCHANGED <<driver, tuned, ring, air, lost, running, bufferContent, polling>>
      /\ UNCHANGED <<gui, stops, counter, low, attempts>>
      /\ UNCHANGED <<ofdmBuffer, ofdmBufferIndex, ofdmSymbolCount>>
      /\ UNCHANGED <<last, intact, tracking, gapped, reported>>
      /\ pc = "off" /\ gui = "idle" /\ pc' = "flush" /\ startFailures' = 0
      /\ asked' \in Channels
  BY DEF start, deviceVars, readerVars, bufferVars, history
<1>2. scanMode' \in BOOLEAN
  BY DEF start
<1>3. ~driver
  BY <1>1 DEF IdleOff
<1>4. DeviceTyped' /\ GuiTyped' /\ SyncTyped' /\ BufferTyped'
  BY <1>1 DEF DeviceTyped, GuiTyped, SyncTyped, BufferTyped
<1>5. FlagsTyped'
  BY <1>1, <1>2 DEF FlagsTyped
<1>6. /\ DriverTuned' /\ RingOwn' /\ IdleOff' /\ FlagKept' /\ LastOwn'
      /\ BlockLeft'
  BY <1>1, <1>3 DEF DriverTuned, RingOwn, IdleOff, FlagKept, LastOwn, BlockLeft,
                    Loop, SampleReads, BlockReads
<1>. QED BY <1>4, <1>5, <1>6

LEMMA StopOwn == OwnInv /\ Stop => OwnInv'
<1>. SUFFICES ASSUME OwnInv, Stop PROVE OwnInv'
  OBVIOUS
<1>. USE DEF OwnInv, TypeOK
<1>1. /\ UNCHANGED <<driver, tuned, ring, air, lost, bufferContent, polling, pc>>
      /\ UNCHANGED <<asked, scanMode, counter, low, attempts, startFailures>>
      /\ UNCHANGED <<ofdmBuffer, ofdmBufferIndex, ofdmSymbolCount>>
      /\ UNCHANGED <<last, intact, tracking, gapped, reported>>
      /\ stops < MaxStops /\ stops' = stops + 1
      /\ running' = FALSE /\ gui' \in {"stop", "reset"}
  BY DEF Stop, deviceVars, syncVars, bufferVars, history
<1>2. DeviceTyped' /\ SyncTyped' /\ BufferTyped'
  BY <1>1 DEF DeviceTyped, SyncTyped, BufferTyped
<1>3. GuiTyped'
  BY <1>1, CountsAssumption DEF GuiTyped
<1>4. FlagsTyped'
  BY <1>1, Zenon DEF FlagsTyped
<1>5. /\ DriverTuned' /\ RingOwn' /\ IdleOff' /\ FlagKept' /\ LastOwn'
      /\ BlockLeft'
  BY <1>1 DEF DriverTuned, RingOwn, IdleOff, FlagKept, LastOwn, Own, BlockLeft
<1>. QED BY <1>2, <1>3, <1>4, <1>5

LEMMA guiThreadOwn == OwnInv /\ guiThread => OwnInv'
<1>. SUFFICES ASSUME OwnInv, guiThread PROVE OwnInv'
  OBVIOUS
<1>. USE DEF OwnInv, TypeOK
<1>1. /\ UNCHANGED <<tuned, ring, air, lost, running, bufferContent, polling>>
      /\ UNCHANGED <<asked, scanMode, stops, counter, low, attempts, startFailures>>
      /\ UNCHANGED <<ofdmBuffer, ofdmBufferIndex, ofdmSymbolCount>>
      /\ UNCHANGED <<last, intact, tracking, gapped, reported>>
      /\ pc = "off" /\ gui' = "idle"
      /\ \/ driver' = FALSE /\ pc' = "off"
         \/ driver' = driver /\ pc' = "flush"
  BY DEF guiThread, StopDone, ResetDone, deviceVars, readerVars, syncVars,
         bufferVars, history
<1>2. DeviceTyped' /\ GuiTyped' /\ SyncTyped' /\ BufferTyped'
  BY <1>1 DEF DeviceTyped, GuiTyped, SyncTyped, BufferTyped
<1>3. FlagsTyped'
  BY <1>1, Zenon DEF FlagsTyped
<1>4. /\ DriverTuned' /\ RingOwn' /\ IdleOff' /\ FlagKept' /\ LastOwn'
      /\ BlockLeft'
  BY <1>1 DEF DriverTuned, RingOwn, IdleOff, FlagKept, LastOwn, Own, BlockLeft,
              Loop, SampleReads, BlockReads
<1>. QED BY <1>2, <1>3, <1>4

(***************************************************************************)
(* The theorems.                                                           *)
(***************************************************************************)
\* Every step of dabProcessor::run, the device and the GUI thread preserves
\* the invariant.
LEMMA NextOwn == OwnInv /\ [Next]_vars => OwnInv'
<1>. SUFFICES ASSUME OwnInv, [Next]_vars PROVE OwnInv'
  OBVIOUS
<1>1. CASE UNCHANGED vars
  BY <1>1 DEF vars, deviceVars, guiVars, readerVars, syncVars, bufferVars, history,
     OwnInv, TypeOK, DeviceTyped, GuiTyped, SyncTyped, BufferTyped, FlagsTyped,
     DriverTuned, RingOwn, IdleOff, FlagKept, LastOwn, Own, BlockLeft
<1>2. CASE Receive
  BY <1>2, ReceiveOwn
<1>3. CASE start
  BY <1>3, startOwn
<1>4. CASE Stop
  BY <1>4, StopOwn
<1>5. CASE guiThread
  BY <1>5, guiThreadOwn
<1>6. CASE run
  <2>1. CASE resetBuffer
    BY <2>1, resetBufferOwn
  <2>2. CASE restartReader
    BY <2>2, restartReaderOwn
  <2>3. CASE setRunning
    BY <2>3, setRunningOwn
  <2>4. CASE Poll
    BY <2>4, PollOwn
  <2>5. CASE Throw
    BY <2>5, ThrowOwn
  <2>6. CASE reading
    BY <2>6, ReadFirstOwn, ReadLevelOwn, SeekDipOwn, SeekEndOwn, BlocksOwn
       DEF reading
  <2>7. CASE PhaseFound
    BY <2>7, PhaseFoundOwn
  <2>8. CASE PhaseNotFound
    BY <2>8, PhaseNotFoundOwn
  <2>. QED BY <1>6, <2>1, <2>2, <2>3, <2>4, <2>5, <2>6, <2>7, <2>8 DEF run
<1>. QED BY <1>1, <1>2, <1>3, <1>4, <1>5, <1>6 DEF Next

(***************************************************************************)
(* The place in the frame.                                                 *)
(***************************************************************************)
\* A position moved on within the frame, and over its end.
LEMMA AfterIs ==
  ASSUME NEW x \in Int, NEW n \in Int, 0 <= x + n, x + n < 2 * T_F
  PROVE  After(x, n) = IF x + n < T_F THEN x + n ELSE x + n - T_F
<1>1. T_F \in Nat \ {0} /\ x + n \in Int /\ -T_F <= x + n
  BY FrameTyped
<1>2. ASSUME NEW y \in Int, -T_F <= y, 0 <= y, y < 2 * T_F
      PROVE  y % T_F = IF y < T_F THEN y ELSE y - T_F
  <2>1. T_F \in Nat \ {0} /\ -T_F <= y /\ y < 3 * T_F
    BY <1>1, <1>2
  <2>2. y % T_F = IF y < 0 THEN y + T_F
                  ELSE IF y < T_F THEN y
                  ELSE IF y < 2 * T_F THEN y - T_F ELSE y - 2 * T_F
    BY <2>1, Turns, Zenon
  <2>. QED BY <1>1, <1>2, <2>2
<1>. QED BY <1>1, <1>2 DEF After

\* Where the blocks lie.
LEMMA Blocks ==
  ASSUME NEW k \in 0 .. nrBlocks
  PROVE  /\ BlockFrom(k) \in Nat /\ BlockFrom(k + 1) = BlockFrom(k) + T_s
         /\ BlockFrom(nrBlocks) = T_F /\ BlockFrom(1) = Start + T_u
         /\ BlockFrom(k) >= T_null
         /\ k < nrBlocks => BlockFrom(k) + T_s <= T_F
<1>1. T_s \in Nat /\ nrBlocks \in Nat /\ k \in Nat
  BY FrameTyped, FrameAssumption
<1>2. k * T_s \in Nat /\ (k + 1) * T_s = k * T_s + T_s
  BY <1>1
<1>3. k < nrBlocks => (k + 1) * T_s <= nrBlocks * T_s
  BY <1>1
<1>4. 1 * T_s = T_s
  BY <1>1
<1>5. BlockFrom(nrBlocks) = T_F
  BY DEF BlockFrom, T_F
<1>6. BlockFrom(1) = Start + T_u
  BY <1>4, FrameAssumption DEF BlockFrom, Start, T_s
<1>. HIDE DEF T_s
<1>7. nrBlocks * T_s \in Nat
  BY <1>1
<1>. QED BY <1>1, <1>2, <1>3, <1>5, <1>6, <1>7, FrameAssumption DEF BlockFrom, T_F

\* There is room for block 0 and the samples before it.
LEMMA Room ==
  /\ T_null + 2 * T_s <= T_F /\ Start + T_u = T_null + T_s
  /\ T_null \in Nat \ {0} /\ T_g \in Nat \ {0} /\ T_u \in Nat \ {0}
  /\ T_g < T_u /\ T_s = T_g + T_u /\ Start = T_null + T_g
<1>1. 2 * T_s <= nrBlocks * T_s
  BY FrameTyped, FrameAssumption
<1>. QED BY <1>1, FrameTyped, FrameAssumption DEF T_F, T_s, Start

\* The sample that getSample gives, if nothing was missed.
LEMMA NextSample ==
  ASSUME OwnInv, NEW x \in Samples, getSample(x)
  PROVE  /\ last' = x
         /\ gapped => gapped'
         /\ ~gapped' => /\ x \in Received
                        /\ last = Zero \/ (last \in Positions /\ x = After(last, 1))
<1>1. last' = x /\ (gapped => gapped')
  BY Zenon DEF getSample
<1>2. CASE ring = << >>
  BY <1>1, <1>2 DEF getSample
<1>3. CASE ring # << >> /\ x = Head(ring)
           /\ gapped' = (gapped \/ ~(last = Zero \/ Follows(last, x, 1)))
  <2>1. x \in Received
    BY <1>3 DEF OwnInv, TypeOK, DeviceTyped
  <2>. QED BY <1>1, <1>3, <2>1 DEF Follows
<1>. QED BY <1>1, <1>2, <1>3 DEF getSample

\* What getSamples does if nothing was missed: it goes on where the last
\* sample was.
ReadOn ==
  /\ \A j \in Index : ofdmBuffer'[j] = IF Place <= j /\ j < Place + Wanted
                                       THEN After(last, j - Place + 1)
                                       ELSE ofdmBuffer[j]
  /\ IF Wanted > 0 THEN last \in Positions /\ last' = After(last, Wanted)
                   ELSE last' = last

LEMMA NextSamples ==
  ASSUME OwnInv, getSamples
  PROVE  /\ intact' => intact /\ ReadOn
         /\ gapped => gapped'
         /\ ~gapped' => ReadOn /\ intact' = intact
<1>. DEFINE n     == Lesser(Wanted, Len(ring))
            whole == n = Wanted /\ \A i \in 1 .. n : Follows(last, ring[i], i)
<1>1. intact' = (intact /\ whole) /\ gapped' = (gapped \/ ~whole)
  BY DEF getSamples
<1>2. ASSUME whole PROVE ReadOn
  <2>1. n = Wanted /\ Wanted \in Nat /\ Place \in Nat
    BY <1>2, WantedTyped
  <2>2. \A i \in 1 .. Wanted : last \in Positions /\ ring[i] = After(last, i)
    BY <1>2, <2>1 DEF Follows
  <2>3. last' = IF Wanted > 0 THEN ring[Wanted] ELSE last
    BY <2>1 DEF getSamples
  <2>4. IF Wanted > 0 THEN last \in Positions /\ last' = After(last, Wanted)
                      ELSE last' = last
    BY <2>1, <2>2, <2>3
  <2>5. ASSUME NEW j \in Index
        PROVE  ofdmBuffer'[j] = IF Place <= j /\ j < Place + Wanted
                                THEN After(last, j - Place + 1) ELSE ofdmBuffer[j]
    <3>1. ofdmBuffer'[j] = IF Place <= j /\ j < Place + Wanted
                           THEN ring[j - Place + 1] ELSE ofdmBuffer[j]
      BY <2>1 DEF getSamples
    <3>2. j \in Int
      BY FrameTyped DEF Index
    <3>3. Place <= j /\ j < Place + Wanted => j - Place + 1 \in 1 .. Wanted
      BY <2>1, <3>2
    <3>. QED BY <2>2, <3>1, <3>3
  <2>. QED BY <2>4, <2>5 DEF ReadOn
<1>. HIDE DEF whole
<1>3. intact \in BOOLEAN
  BY DEF OwnInv, TypeOK, FlagsTyped
<1>. QED BY <1>1, <1>2, <1>3, Zenon

\* The place in the frame depends on no more than this.
LEMMA PlaceKept ==
  ASSUME FrameWhole, NothingMissed,
         UNCHANGED <<pc, counter, low, ofdmBuffer, ofdmBufferIndex>>,
         UNCHANGED <<ofdmSymbolCount, last, intact, tracking, gapped, reported>>
  PROVE  FrameWhole' /\ NothingMissed'
<1>1. FrameWhole'
  BY DEF FrameWhole, Holds, BlockFrom
<1>2. NothingMissed'
  BY DEF NothingMissed, Holds
<1>. QED BY <1>1, <1>2

\* Where no frame is being read and no dip is looked for.
LEMMA PlaceOpen ==
  ASSUME pc' \in {"off", "flush", "restart", "run", "warm", "level"},
         reported' => gapped'
  PROVE  FrameWhole' /\ NothingMissed'
BY DEF FrameWhole, NothingMissed

\* Read from position p - 1, the samples from position p on come in.
LEMMA ReadFrom ==
  ASSUME OwnInv, ReadOn, Wanted > 0, NEW p \in Nat, last + 1 = p,
         p + Wanted <= T_F
  PROVE  /\ last' = p + Wanted - 1
         /\ \A j \in Index : Place <= j /\ j < Place + Wanted =>
              ofdmBuffer'[j] = p + (j - Place)
<1>1. last \in Int /\ last = p - 1 /\ Wanted \in Nat /\ Place \in Nat
  BY WantedTyped, FrameTyped DEF ReadOn, Positions
<1>2. ASSUME NEW k \in 1 .. Wanted PROVE After(last, k) = p - 1 + k
  BY <1>1, <1>2, AfterIs, FrameTyped
<1>3. last' = p + Wanted - 1
  BY <1>1, <1>2 DEF ReadOn
<1>4. ASSUME NEW j \in Index, Place <= j, j < Place + Wanted
      PROVE  ofdmBuffer'[j] = p + (j - Place)
  <2>1. j \in Int
    BY FrameTyped DEF Index
  <2>2. j - Place + 1 \in 1 .. Wanted
    BY <1>1, <1>4, <2>1
  <2>3. ofdmBuffer'[j] = After(last, j - Place + 1)
    BY <1>4 DEF ReadOn
  <2>4. After(last, j - Place + 1) = p - 1 + (j - Place + 1)
    BY <1>2, <2>2
  <2>. QED BY <1>1, <2>1, <2>3, <2>4
<1>. QED BY <1>3, <1>4

\* SyncOnPhase, from the end of the null period or one sample behind it.
LEMMA ReadPhasePlace ==
  OwnInv /\ FrameWhole /\ NothingMissed /\ ReadPhase => FrameWhole' /\ NothingMissed'
<1>. SUFFICES ASSUME OwnInv, FrameWhole, NothingMissed, ReadPhase
              PROVE  FrameWhole' /\ NothingMissed'
  OBVIOUS
<1>1. /\ pc = "phase" /\ pc' = "find" /\ getSamples
      /\ UNCHANGED <<counter, low, ofdmBufferIndex, ofdmSymbolCount>>
      /\ UNCHANGED <<tracking, reported>>
  BY DEF ReadPhase, syncVars
<1>2. Wanted = T_u /\ Place = 0
  BY <1>1 DEF Wanted, Place
<1>3. ASSUME ReadOn, NEW p \in {T_null, T_null + 1}, last + 1 = p
      PROVE  Holds(p, T_u)' /\ last' = p + T_u - 1
  <2>1. p \in Nat /\ p + T_u <= T_F /\ T_u > 0
    BY Room, FrameTyped
  <2>2. /\ last' = p + T_u - 1
        /\ \A j \in Index : 0 <= j /\ j < 0 + T_u => ofdmBuffer'[j] = p + (j - 0)
    BY <1>2, <1>3, <2>1, ReadFrom
  <2>3. 0 .. T_u - 1 \subseteq Index
    BY Room DEF Index
  <2>. QED BY <2>1, <2>2, <2>3, Room DEF Holds
<1>4. FrameWhole'
  <2>1. ASSUME tracking', intact' PROVE Holds(T_null, T_u)'
    <3>1. ReadOn /\ last = T_null - 1
      BY <1>1, <2>1, NextSamples DEF FrameWhole
    <3>2. last + 1 = T_null
      BY <3>1, Room
    <3>. QED BY <1>3, <3>1, <3>2
  <2>. QED BY <1>1, <2>1 DEF FrameWhole
<1>5. NothingMissed'
  <2>1. reported' => gapped'
    BY <1>1, NextSamples DEF NothingMissed
  <2>2. ASSUME ~gapped'
        PROVE  \E p \in {T_null, T_null + 1} : Holds(p, T_u)' /\ last' = p + T_u - 1
    <3>1. ReadOn /\ ~gapped
      BY <1>1, <2>2, NextSamples
    <3>2. last + 1 \in {T_null, T_null + 1}
      BY <1>1, <3>1 DEF NothingMissed
    <3>. QED BY <1>3, <3>1, <3>2
  <2>. QED BY <1>1, <2>1, <2>2 DEF NothingMissed, Holds
<1>. QED BY <1>4, <1>5

\* The rest of block 0 comes in behind the samples moved to the front.
LEMMA ReadBlock0Place ==
  OwnInv /\ FrameWhole /\ NothingMissed /\ ReadBlock0 => FrameWhole' /\ NothingMissed'
<1>. SUFFICES ASSUME OwnInv, FrameWhole, NothingMissed, ReadBlock0
              PROVE  FrameWhole' /\ NothingMissed'
  OBVIOUS
<1>1. /\ pc = "block0" /\ pc' = "data" /\ getSamples /\ ofdmSymbolCount' = 1
      /\ reported' = reported
  BY DEF ReadBlock0
<1>2. Wanted = T_u - ofdmBufferIndex /\ Place = ofdmBufferIndex
  BY <1>1 DEF Wanted, Place
<1>3. ofdmBufferIndex \in 0 .. T_u
  BY DEF OwnInv, TypeOK, BufferTyped
<1>4. ASSUME intact'
      PROVE  Holds(Start, T_u)' /\ last' = BlockFrom(1) - 1
  <2>1. ReadOn /\ intact
    BY <1>1, <1>4, NextSamples
  <2>2. /\ ofdmBufferIndex > 0 /\ Holds(Start, ofdmBufferIndex)
        /\ last = Start + ofdmBufferIndex - 1
    BY <1>1, <2>1 DEF FrameWhole
  <2>3. BlockFrom(1) = Start + T_u
    BY Blocks, FrameAssumption
  <2>4. 0 .. T_u - 1 \subseteq Index
    BY Room DEF Index
  <2>5. ASSUME NEW j \in 0 .. ofdmBufferIndex - 1 PROVE ofdmBuffer'[j] = Start + j
    <3>1. j \in Index /\ ~(Place <= j)
      BY <1>2, <1>3, <2>4, <2>5, Room
    <3>2. ofdmBuffer'[j] = ofdmBuffer[j]
      BY <2>1, <3>1 DEF ReadOn
    <3>. QED BY <2>2, <2>5, <3>2 DEF Holds
  <2>6. CASE ofdmBufferIndex = T_u
    <3>1. ~(Wanted > 0)
      BY <1>2, <2>6, Room
    <3>. QED BY <2>1, <2>2, <2>3, <2>5, <2>6, <3>1, Room DEF ReadOn, Holds
  <2>7. CASE ofdmBufferIndex # T_u
    <3>1. Wanted > 0 /\ Wanted \in Nat
      BY <1>2, <1>3, <2>7, Room
    <3>. DEFINE p == Start + ofdmBufferIndex
    <3>2. p \in Nat /\ last + 1 = p /\ p + Wanted = Start + T_u /\ p + Wanted <= T_F
      BY <1>2, <1>3, <2>2, Room, FrameTyped
    <3>3. /\ last' = p + Wanted - 1
          /\ \A j \in Index : Place <= j /\ j < Place + Wanted =>
               ofdmBuffer'[j] = p + (j - Place)
      BY <2>1, <3>1, <3>2, ReadFrom
    <3>4. ASSUME NEW j \in 0 .. T_u - 1 PROVE ofdmBuffer'[j] = Start + j
      <4>1. CASE j < ofdmBufferIndex
        BY <1>3, <2>5, <3>4, <4>1
      <4>2. CASE ~(j < ofdmBufferIndex)
        <5>1. j \in Index /\ Place <= j /\ j < Place + Wanted
          BY <1>2, <1>3, <2>4, <3>4, <4>2, Room
        <5>2. ofdmBuffer'[j] = p + (j - Place)
          BY <3>3, <5>1
        <5>. QED BY <1>2, <1>3, <3>4, <5>2, Room
      <4>. QED BY <4>1, <4>2
    <3>5. Holds(Start, T_u)'
      BY <3>4, Room DEF Holds, Start
    <3>6. last' = BlockFrom(1) - 1
      BY <1>3, <2>3, <3>1, <3>2, <3>3, FrameTyped, Room
    <3>. QED BY <3>5, <3>6
  <2>. QED BY <2>6, <2>7
<1>5. FrameWhole'
  BY <1>1, <1>4 DEF FrameWhole, Holds, BlockFrom
<1>6. NothingMissed'
  <2>1. ~gapped' => intact'
    BY <1>1, NextSamples DEF NothingMissed
  <2>. QED BY <1>1, <2>1, NextSamples DEF NothingMissed
<1>. QED BY <1>5, <1>6

\* A block comes in whole, from the first sample of its prefix.
LEMMA ReadDataPlace ==
  OwnInv /\ FrameWhole /\ NothingMissed /\ ReadData => FrameWhole' /\ NothingMissed'
<1>. SUFFICES ASSUME OwnInv, FrameWhole, NothingMissed, ReadData
              PROVE  FrameWhole' /\ NothingMissed'
  OBVIOUS
<1>. DEFINE c == ofdmSymbolCount
<1>1. /\ pc = "data" /\ getSamples /\ c' = c + 1
      /\ pc' = IF c + 1 < nrBlocks THEN "data" ELSE "skip"
      /\ reported' = reported
  BY DEF ReadData
<1>2. Wanted = T_s /\ Place = 0
  BY <1>1 DEF Wanted, Place
<1>3. c \in 1 .. nrBlocks - 1 /\ nrBlocks \in Nat
  BY <1>1, FrameAssumption DEF OwnInv, TypeOK, BufferTyped, BlockLeft, FrameWhole
<1>4. pc' = "skip" => c' = nrBlocks
  BY <1>1, <1>3
<1>5. ASSUME intact'
      PROVE  /\ \A j \in 0 .. T_s - 1 : ofdmBuffer'[j] = BlockFrom(c) + j
             /\ last' = BlockFrom(c + 1) - 1
  <2>1. ReadOn /\ intact
    BY <1>1, <1>5, NextSamples
  <2>2. last = BlockFrom(c) - 1
    BY <1>1, <2>1 DEF FrameWhole
  <2>3. /\ BlockFrom(c) \in Nat /\ BlockFrom(c + 1) = BlockFrom(c) + T_s
        /\ BlockFrom(c) + T_s <= T_F
    BY <1>3, Blocks
  <2>4. T_s \in Nat /\ T_s > 0
    BY FrameTyped
  <2>5. last + 1 = BlockFrom(c)
    BY <2>2, <2>3
  <2>6. /\ last' = BlockFrom(c) + T_s - 1
        /\ \A j \in Index : 0 <= j /\ j < 0 + T_s =>
             ofdmBuffer'[j] = BlockFrom(c) + (j - 0)
    BY <1>2, <2>1, <2>3, <2>4, <2>5, ReadFrom
  <2>7. \A j \in 0 .. T_s - 1 : ofdmBuffer'[j] = BlockFrom(c) + j
    BY <2>3, <2>4, <2>6 DEF Index
  <2>. QED BY <2>3, <2>4, <2>6, <2>7
<1>6. FrameWhole'
  <2>1. c' > 0 /\ c' # 1 /\ c' - 1 = c /\ pc' \in {"data", "skip"}
    BY <1>1, <1>3
  <2>2. intact' => /\ last' = BlockFrom(c') - 1
                    /\ \A j \in 0 .. T_s - 1 : ofdmBuffer'[j] = BlockFrom(c' - 1) + j
    BY <1>1, <1>5, <2>1
  <2>3. pc' # "block0" /\ pc' # "phase" /\ pc' # "find"
    BY <2>1
  <2>4. ofdmSymbolCount' > 0 /\ ofdmSymbolCount' # 1
    BY <2>1
  <2>. HIDE DEF c
  <2>. QED BY <1>4, <2>2, <2>3, <2>4 DEF FrameWhole, Holds, c
<1>7. NothingMissed'
  <2>1. ~gapped' => intact'
    BY <1>1, NextSamples DEF NothingMissed
  <2>. QED BY <1>1, <2>1, NextSamples DEF NothingMissed
<1>. QED BY <1>6, <1>7

\* The null period of the next frame is read over.
LEMMA ReadNullPlace ==
  OwnInv /\ FrameWhole /\ NothingMissed /\ ReadNull => FrameWhole' /\ NothingMissed'
<1>. SUFFICES ASSUME OwnInv, FrameWhole, NothingMissed, ReadNull
              PROVE  FrameWhole' /\ NothingMissed'
  OBVIOUS
<1>1. /\ pc = "skip" /\ pc' = "phase" /\ getSamples /\ reported' = reported
  BY DEF ReadNull
<1>2. Wanted = T_null
  BY <1>1 DEF Wanted
<1>3. ASSUME intact' PROVE last' = T_null - 1
  <2>1. ReadOn /\ intact
    BY <1>1, <1>3, NextSamples
  <2>2. last = T_F - 1
    BY <1>1, <2>1, Blocks, FrameAssumption DEF FrameWhole
  <2>3. T_null \in Nat /\ T_null > 0 /\ T_F \in Nat /\ T_null < T_F
    BY Room, FrameTyped
  <2>4. last' = After(T_F - 1, T_null)
    BY <1>2, <2>1, <2>2, <2>3 DEF ReadOn
  <2>. QED BY <2>3, <2>4, AfterIs
<1>4. FrameWhole'
  BY <1>1, <1>3 DEF FrameWhole
<1>5. NothingMissed'
  <2>1. ~gapped' => intact'
    BY <1>1, NextSamples DEF NothingMissed
  <2>2. ~gapped' => last' + 1 \in {T_null, T_null + 1}
    BY <1>3, <2>1, Room
  <2>. QED BY <1>1, <2>1, <2>2, NextSamples DEF NothingMissed
<1>. QED BY <1>4, <1>5

\* findIndex finds the start of block 0; what follows it is moved to the front.
LEMMA PhaseFoundPlace ==
  OwnInv /\ FrameWhole /\ NothingMissed /\ PhaseFound => FrameWhole' /\ NothingMissed'
<1>. SUFFICES ASSUME OwnInv, FrameWhole, NothingMissed, PhaseFound
              PROVE  FrameWhole' /\ NothingMissed'
  OBVIOUS
<1>1. /\ pc = "find" /\ pc' = "block0" /\ last' = last
      /\ gapped' = gapped /\ reported' = reported
  BY DEF PhaseFound
<1>2. PICK i \in 0 .. T_u - 1 :
        /\ ofdmBuffer[i] = Start
        /\ MoveToFront(i)
        /\ intact' = (/\ \A j \in i .. T_u - 1 : ofdmBuffer[j] = After(Start, j - i)
                      /\ last = ofdmBuffer[T_u - 1])
  BY DEF PhaseFound
<1>3. ofdmBufferIndex' = T_u - i
  BY <1>2 DEF MoveToFront
<1>4. ASSUME NEW j \in 0 .. T_u - 1 - i PROVE After(Start, j) = Start + j
  BY <1>2, <1>4, AfterIs, Room, FrameTyped
<1>5. ASSUME intact'
      PROVE  /\ ofdmBufferIndex' > 0 /\ Holds(Start, ofdmBufferIndex)'
             /\ last' = Start + ofdmBufferIndex' - 1
  <2>1. ASSUME NEW j \in 0 .. T_u - i - 1 PROVE ofdmBuffer'[j] = Start + j
    <3>1. j \in Index /\ j < T_u - i /\ i + j \in i .. T_u - 1
      BY <1>2, <2>1, Room DEF Index
    <3>2. ofdmBuffer'[j] = ofdmBuffer[i + j]
      BY <1>2, <3>1 DEF MoveToFront
    <3>3. ofdmBuffer[i + j] = After(Start, (i + j) - i)
      BY <1>2, <1>5, <3>1
    <3>4. (i + j) - i = j /\ j \in 0 .. T_u - 1 - i
      BY <1>2, <2>1, Room
    <3>5. After(Start, j) = Start + j
      BY <1>4, <3>4
    <3>. QED BY <3>2, <3>3, <3>4, <3>5
  <2>2. T_u - 1 \in i .. T_u - 1 /\ T_u - 1 - i \in 0 .. T_u - 1 - i
    BY <1>2, Room
  <2>3. last = After(Start, T_u - 1 - i)
    BY <1>2, <1>5, <2>2
  <2>4. last = Start + (T_u - 1 - i)
    BY <1>4, <2>2, <2>3
  <2>5. last' = Start + ofdmBufferIndex' - 1 /\ ofdmBufferIndex' > 0
    BY <1>1, <1>2, <1>3, <2>4, Room, FrameTyped
  <2>. QED BY <1>3, <2>1, <2>5 DEF Holds, Start
<1>6. ASSUME ~gapped' PROVE intact'
  <2>1. PICK p \in {T_null, T_null + 1} : Holds(p, T_u) /\ last = p + T_u - 1
    BY <1>1, <1>6 DEF NothingMissed
  <2>2. ofdmBuffer[i] = p + i /\ p + i = Start /\ p \in Nat
    BY <1>2, <2>1, Room DEF Holds
  <2>3. ASSUME NEW j \in i .. T_u - 1 PROVE ofdmBuffer[j] = After(Start, j - i)
    <3>1. ofdmBuffer[j] = p + j
      BY <1>2, <2>1, <2>3 DEF Holds
    <3>2. j - i \in 0 .. T_u - 1 - i
      BY <1>2, <2>3, Room
    <3>3. After(Start, j - i) = Start + (j - i)
      BY <1>4, <3>2
    <3>. QED BY <1>2, <2>2, <2>3, <3>1, <3>3, Room
  <2>4. ofdmBuffer[T_u - 1] = p + (T_u - 1)
    BY <2>1, Room DEF Holds
  <2>5. last = ofdmBuffer[T_u - 1]
    BY <2>1, <2>2, <2>4, Room
  <2>. QED BY <1>2, <2>3, <2>5
<1>7. FrameWhole'
  BY <1>1, <1>5 DEF FrameWhole
<1>8. NothingMissed'
  BY <1>1, <1>6 DEF NothingMissed
<1>. QED BY <1>7, <1>8

\* It does not find it, which is reported after some times: something was
\* missed.
LEMMA PhaseNotFoundPlace ==
  OwnInv /\ FrameWhole /\ NothingMissed /\ PhaseNotFound
    => FrameWhole' /\ NothingMissed'
<1>. SUFFICES ASSUME OwnInv, FrameWhole, NothingMissed, PhaseNotFound
              PROVE  FrameWhole' /\ NothingMissed'
  OBVIOUS
<1>1. /\ pc = "find" /\ pc' = "level" /\ gapped' = gapped
      /\ \A i \in 0 .. T_u - 1 : ofdmBuffer[i] # Start
  BY DEF PhaseNotFound, Resync, dataVars
<1>2. SUFFICES ASSUME ~gapped PROVE FALSE
  BY <1>1, PlaceOpen
<1>3. PICK p \in {T_null, T_null + 1} : Holds(p, T_u)
  BY <1>1, <1>2 DEF NothingMissed
<1>4. Start - p \in 0 .. T_u - 1 /\ p + (Start - p) = Start
  BY Room
<1>. QED BY <1>1, <1>3, <1>4 DEF Holds

\* What is low is in the null period, unless it was never received.
LEMMA LowIs ==
  ASSUME NEW x \in Received
  PROVE  /\ Low(x) <=> x \in 0 .. T_null - 1
         /\ x \in 0 .. T_null - 1 \/ x \in T_null .. T_F - 1 \/ x = Flat
BY Room, FrameTyped, ReceivedTyped DEF Low, Received, Positions, Flat

\* The level to begin with.
LEMMA ReadLevelPlace ==
  OwnInv /\ FrameWhole /\ NothingMissed /\ ReadLevel => FrameWhole' /\ NothingMissed'
<1>. SUFFICES ASSUME OwnInv, FrameWhole, NothingMissed, ReadLevel
              PROVE  FrameWhole' /\ NothingMissed'
  OBVIOUS
<1>1. PICK x \in Samples : getSample(x) /\ low' = Low(x)
  BY DEF ReadLevel
<1>2. /\ pc' = "null" /\ counter' = 0 /\ last' = x /\ reported' = reported
      /\ (gapped => gapped') /\ (~gapped' => x \in Received)
  BY <1>1, NextSample DEF ReadLevel
<1>3. ASSUME ~gapped'
      PROVE  IF low' THEN x \in 0 .. T_null - 1
                     ELSE x \in T_null + 0 .. T_F - 1 \/ x = Flat
  BY <1>1, <1>2, <1>3, LowIs, Room
<1>. QED BY <1>2, <1>3 DEF FrameWhole, NothingMissed

\* The dip is found, or there is none in a whole frame: then something was
\* missed.
LEMMA SeekDipPlace ==
  OwnInv /\ FrameWhole /\ NothingMissed /\ SeekDip => FrameWhole' /\ NothingMissed'
<1>. SUFFICES ASSUME OwnInv, FrameWhole, NothingMissed, SeekDip
              PROVE  FrameWhole' /\ NothingMissed'
  OBVIOUS
<1>1. pc = "null" /\ counter \in Nat
  BY DEF SeekDip, OwnInv, TypeOK, SyncTyped
<1>2. CASE low /\ pc' = "endNull" /\ counter' = 0
           /\ UNCHANGED <<dataVars, low, attempts, reported>>
  <2>1. last' = last /\ gapped' = gapped /\ reported' = reported /\ low'
    BY <1>2 DEF dataVars
  <2>2. NothingMissed'
    BY <1>1, <1>2, <2>1 DEF NothingMissed
  <2>3. FrameWhole'
    BY <1>2 DEF FrameWhole
  <2>. QED BY <2>2, <2>3
<1>3. ASSUME ~low, NEW x \in Samples, getSample(x), ~gapped'
      PROVE  /\ counter < T_F
             /\ IF Low(x) THEN x \in 0 .. T_null - 1
                ELSE x \in T_null + (counter + 1) .. T_F - 1
  <2>1. /\ ~gapped /\ x \in Received
        /\ last = Zero \/ (last \in Positions /\ x = After(last, 1))
    BY <1>3, NextSample
  <2>2. last \in T_null + counter .. T_F - 1 \/ (last = Flat /\ counter = 0)
    BY <1>1, <1>3, <2>1 DEF NothingMissed
  <2>3. Zero \notin T_null + counter .. T_F - 1 /\ Flat # Zero /\ Flat \notin Positions
    BY <1>1, Room, FrameTyped DEF Zero, Flat, Positions
  <2>4. last \in T_null + counter .. T_F - 1 /\ x = After(last, 1)
    BY <2>1, <2>2, <2>3
  <2>5. x = IF last + 1 < T_F THEN last + 1 ELSE last + 1 - T_F
    BY <1>1, <2>4, AfterIs, Room, FrameTyped
  <2>6. counter < T_F
    BY <1>1, <2>4, Room, FrameTyped
  <2>7. Low(x) <=> x \in 0 .. T_null - 1
    BY <2>1, LowIs
  <2>. QED BY <1>1, <2>4, <2>5, <2>6, <2>7, Room, FrameTyped
<1>4. ASSUME ~low, NEW x \in Samples, getSample(x), counter >= T_F, NoDip
      PROVE  FrameWhole' /\ NothingMissed'
  <2>1. gapped'
    BY <1>1, <1>3, <1>4, FrameTyped
  <2>. QED BY <1>4, <2>1, PlaceOpen DEF NoDip, Resync
<1>5. ASSUME ~low, NEW x \in Samples, getSample(x), low' = Low(x),
             counter' = counter + 1, UNCHANGED <<pc, attempts, reported>>
      PROVE  FrameWhole' /\ NothingMissed'
  <2>1. last' = x /\ (gapped => gapped')
    BY <1>5, NextSample
  <2>2. NothingMissed'
    BY <1>1, <1>3, <1>5, <2>1 DEF NothingMissed
  <2>3. FrameWhole'
    BY <1>1, <1>5 DEF FrameWhole
  <2>. QED BY <2>2, <2>3
<1>. QED BY <1>2, <1>4, <1>5, Zenon DEF SeekDip

\* The end of the dip, which is right behind the null period.
LEMMA SeekEndPlace ==
  OwnInv /\ FrameWhole /\ NothingMissed /\ SeekEnd => FrameWhole' /\ NothingMissed'
<1>. SUFFICES ASSUME OwnInv, FrameWhole, NothingMissed, SeekEnd
              PROVE  FrameWhole' /\ NothingMissed'
  OBVIOUS
<1>1. pc = "endNull" /\ reported' = reported
  BY DEF SeekEnd
<1>2. CASE /\ ~low /\ pc' = "phase" /\ tracking' = FALSE
           /\ UNCHANGED <<last, gapped>>
  <2>1. FrameWhole'
    BY <1>2 DEF FrameWhole
  <2>2. ~gapped => last + 1 \in {T_null, T_null + 1}
    BY <1>1, <1>2 DEF NothingMissed
  <2>3. NothingMissed'
    BY <1>1, <1>2, <2>2 DEF NothingMissed
  <2>. QED BY <2>1, <2>3
<1>3. ASSUME NEW x \in Samples, getSample(x), Resync
      PROVE  FrameWhole' /\ NothingMissed'
  <2>1. reported' => gapped'
    BY <1>1, <1>3, NextSample DEF NothingMissed
  <2>. QED BY <1>3, <2>1, PlaceOpen DEF Resync
<1>4. ASSUME low, NEW x \in Samples, getSample(x), low' = Low(x), UNCHANGED pc
      PROVE  FrameWhole' /\ NothingMissed'
  <2>1. last' = x /\ (gapped => gapped')
    BY <1>4, NextSample
  <2>2. ASSUME ~gapped'
        PROVE  IF low' THEN x \in 0 .. T_null - 1 ELSE x = T_null
    <3>1. /\ ~gapped /\ x \in Received
          /\ last = Zero \/ (last \in Positions /\ x = After(last, 1))
      BY <1>4, <2>2, NextSample
    <3>2. last \in 0 .. T_null - 1
      BY <1>1, <1>4, <3>1 DEF NothingMissed
    <3>3. last # Zero
      BY <3>2, Room, FrameTyped DEF Zero
    <3>4. x = last + 1
      BY <3>1, <3>2, <3>3, AfterIs, Room, FrameTyped
    <3>5. Low(x) <=> x \in 0 .. T_null - 1
      BY <3>1, LowIs
    <3>. QED BY <1>4, <3>2, <3>4, <3>5, Room
  <2>3. NothingMissed'
    BY <1>1, <1>4, <2>1, <2>2 DEF NothingMissed
  <2>4. FrameWhole'
    BY <1>1, <1>4 DEF FrameWhole
  <2>. QED BY <2>3, <2>4
<1>. QED BY <1>2, <1>3, <1>4, Zenon DEF SeekEnd

\* The samples that are read to begin with.
LEMMA ReadFirstPlace ==
  OwnInv /\ FrameWhole /\ NothingMissed /\ ReadFirst => FrameWhole' /\ NothingMissed'
<1>. SUFFICES ASSUME OwnInv, FrameWhole, NothingMissed, ReadFirst
              PROVE  FrameWhole' /\ NothingMissed'
  OBVIOUS
<1>1. pc = "warm" /\ reported' = reported
  BY DEF ReadFirst
<1>2. ASSUME NEW x \in Samples, getSample(x), UNCHANGED pc
      PROVE  FrameWhole' /\ NothingMissed'
  BY <1>1, <1>2, NextSample, PlaceOpen DEF NothingMissed
<1>3. CASE Resync /\ UNCHANGED dataVars
  BY <1>1, <1>3, PlaceOpen DEF NothingMissed, Resync, dataVars
<1>. QED BY <1>2, <1>3 DEF ReadFirst

\* Every step keeps the place in the frame.
LEMMA NextPlace ==
  OwnInv /\ FrameWhole /\ NothingMissed /\ [Next]_vars => FrameWhole' /\ NothingMissed'
<1>. SUFFICES ASSUME OwnInv, FrameWhole, NothingMissed, [Next]_vars
              PROVE  FrameWhole' /\ NothingMissed'
  OBVIOUS
<1>1. CASE UNCHANGED vars
  BY <1>1, PlaceKept DEF vars, syncVars, bufferVars, history
<1>2. CASE Receive
  BY <1>2, PlaceKept DEF Receive, syncVars, bufferVars, history
<1>3. CASE start
  BY <1>3, PlaceOpen DEF start, history, NothingMissed
<1>4. CASE Stop
  BY <1>4, PlaceKept DEF Stop, syncVars, bufferVars, history
<1>5. CASE guiThread
  BY <1>5, PlaceOpen DEF guiThread, StopDone, ResetDone, history, NothingMissed
<1>6. CASE run
  <2>1. CASE resetBuffer
    BY <2>1, PlaceOpen DEF resetBuffer, history, NothingMissed
  <2>2. CASE restartReader
    BY <2>2, PlaceOpen DEF restartReader, history, NothingMissed
  <2>3. CASE setRunning
    BY <2>3, PlaceOpen DEF setRunning
  <2>4. CASE Poll
    BY <2>4, PlaceKept DEF Poll, syncVars, bufferVars, history
  <2>5. CASE Throw
    BY <2>5, PlaceOpen DEF Throw, history, NothingMissed
  <2>6. CASE reading
    BY <2>6, ReadFirstPlace, ReadLevelPlace, SeekDipPlace, SeekEndPlace,
       ReadPhasePlace, ReadBlock0Place, ReadDataPlace, ReadNullPlace DEF reading
  <2>7. CASE PhaseFound
    BY <2>7, PhaseFoundPlace
  <2>8. CASE PhaseNotFound
    BY <2>8, PhaseNotFoundPlace
  <2>. QED BY <1>6, <2>1, <2>2, <2>3, <2>4, <2>5, <2>6, <2>7, <2>8 DEF run
<1>. QED BY <1>1, <1>2, <1>3, <1>4, <1>5, <1>6 DEF Next

LEMMA InitPlace == Init => FrameWhole /\ NothingMissed
BY DEF Init, FrameWhole, NothingMissed
\* The types hold, the counts of failures and the indices into ofdmBuffer stay
\* in their ranges, a driver thread is always on the channel asked for, and the
\* place in the frame is known from the start of block 0 on, or from the start
\* of the thread if nothing was missed.
THEOREM InvariantHolds == Spec => []IInv
<1>1. Init => IInv
  BY InitOwn, InitPlace DEF IInv
<1>2. IInv /\ [Next]_vars => IInv'
  BY NextOwn, NextPlace DEF IInv
<1>. QED BY <1>1, <1>2, PTL DEF Spec

\* No sample of an earlier channel is ever taken for one of the channel the
\* GUI thread asked for (dabProcessor::start, stop and reset).
THEOREM NeverStale == Spec => []OnlyAsked
<1>1. IInv => OnlyAsked
  BY DEF IInv, OwnInv, LastOwn, Own, OnlyAsked, Loop, SampleReads
<1>. QED BY <1>1, InvariantHolds, PTL

\* Every block that dabProcessor::run hands to the FIC or MSC handler is the
\* block of its number, whole and from its first sample, whatever the callback
\* of the device and the GUI thread do, unless the device lost samples since
\* the start of block 0 was found.
THEOREM AlignedAlways == Spec => []BlocksAligned
<1>1. ASSUME IInv PROVE BlocksAligned
  <2>1. CASE pc = "data" /\ ofdmSymbolCount = 1 /\ intact
    BY <1>1, <2>1, FrameTyped DEF IInv, FrameWhole, Holds, BlocksAligned
  <2>2. CASE pc \in {"data", "skip"} /\ ofdmSymbolCount > 1 /\ intact
    <3>1. Holds(BlockFrom(ofdmSymbolCount - 1), T_s) /\ ofdmSymbolCount # 1
      BY <1>1, <2>2 DEF IInv, FrameWhole
    <3>. QED BY <2>2, <3>1 DEF Holds, BlockFrom, BlocksAligned
  <2>. QED BY <2>1, <2>2 DEF BlocksAligned
<1>. QED BY <1>1, InvariantHolds, PTL

\* A frame that was read whole leads to the next one without a search for the
\* dip: the samples read over at its end are all of its null period.
THEOREM LockKept == Spec => []StaysLocked
<1>1. ASSUME IInv PROVE StaysLocked
  <2>1. T_g \in 0 .. T_u - 1 /\ T_null + T_g = Start
    BY Room
  <2>. QED BY <1>1, <2>1 DEF IInv, FrameWhole, Holds, StaysLocked
<1>. QED BY <1>1, InvariantHolds, PTL

\* No_Signal_Found is emitted in a scan only after something was missed: no
\* channel with a signal that arrives whole is passed over.
THEOREM ReportsAreTrue == Spec => []NoFalseAlarm
<1>1. IInv => NoFalseAlarm
  BY DEF IInv, NothingMissed, NoFalseAlarm
<1>. QED BY <1>1, InvariantHolds, PTL
============================================================================

------------------------- MODULE PeripheralsProofs -------------------------
(***************************************************************************)
(* The device and the sink keep to their invariants, for every rate and    *)
(* length of block of the airspy and of the rate converter and any number  *)
(* of devices.  For each of the two, what does not depend on the samples   *)
(* (Control, Output) is proved apart from what does (Flow, Frames): first  *)
(* one lemma per step, then all steps together, and at the end the         *)
(* theorems.                                                               *)
(***************************************************************************)
EXTENDS Peripherals, ProofLemmas, SequenceTheorems, FiniteSetTheorems, TLAPS

\* What does not depend on the samples: the handler that was made, the thread
\* of its library and what the GUI thread and the dabProcessor wait for.
Control == /\ Device!MadeTyped /\ Device!ThreadsTyped /\ Device!FlowTyped
           /\ Device!FlagsTyped /\ Device!DeviceOpen
           /\ gui = "setup" => /\ theDevice = "none" /\ dab = "off" /\ ~running
                               /\ ~streaming
           /\ Device!FlowRuns /\ Device!Reads /\ Device!Ends /\ Device!Quiet
           /\ Device!StreamTuned /\ Device!HaltedByThen

\* The rates and bounds as numbers.
LEMMA BoundsFact ==
  /\ In \in Nat \ {0} /\ Out \in Nat \ {0} /\ In >= Out
  /\ Wrap \in Nat \ {0} /\ Wrap > 2 * In
  /\ MaxRing \in Nat
BY DeviceAssumption DEF Device!RatesAssumption, Device!BoundsAssumption

\* A constructor that throws.
LEMMA ControlThrown ==
  ASSUME Device!IInv, NEW left \in SUBSET {"airspy", "hackrf"},
         gui = "setup", tries <= 4, Device!Thrown(left)
  PROVE  Control'
<1>. USE DEF Device!Thrown, Device!threads, Device!flow, Device!IInv, Device!TypeOK
<1>1. Device!MadeTyped' /\ Device!DeviceOpen'
  <2>1. tries' \in 1 .. 5
    BY DEF Device!MadeTyped
  <2>2. theDevice' \in Compiled \cup {"none"}
    BY DEF Device!MadeTyped
  <2>3. openDevs' \subseteq {theDevice', "airspy", "hackrf"} \ {"none"}
    BY Zenon DEF Device!MadeTyped
  <2>4. gui' = "setup"
    OBVIOUS
  <2>. QED BY <2>1, <2>2, <2>3, <2>4 DEF Device!MadeTyped, Device!DeviceOpen
<1>2. UNCHANGED <<theDevice, gui, dab, next, reading, starts, missed, running,
                  worker, streaming, stream, position, unhalted, uneven>>
  BY DEF Device!samples
<1>. QED BY <1>1, <1>2
  DEF Control, Device!SetUp, Device!ThreadsTyped, Device!FlowTyped, Device!FlagsTyped,
      Device!FlowRuns, Device!Reads, Device!Ends, Device!Quiet, Device!StreamTuned,
      Device!HaltedByThen

\* A constructor that returns.
LEMMA ControlMade ==
  ASSUME Device!IInv, NEW k \in Compiled, NEW flags \in SUBSET BOOLEAN,
         k # "none", gui = "setup", k = "rtlsdr" => flags = {FALSE}, Device!Made(k, flags)
  PROVE  Control'
<1>. USE DEF Device!Made, Device!flow, Device!IInv, Device!TypeOK, Device!SetUp
<1>1. Device!MadeTyped' /\ Device!DeviceOpen'
  <2>1. tries' \in 1 .. 5
    BY DEF Device!MadeTyped
  <2>2. theDevice' \in Compiled \cup {"none"}
    BY DEF Device!MadeTyped
  <2>3. openDevs' = openDevs \cup {k} /\ theDevice' = k /\ gui' = "idle"
    OBVIOUS
  <2>4. openDevs' \subseteq {theDevice', "airspy", "hackrf"} \ {"none"}
        /\ theDevice' \in openDevs'
    <3>1. openDevs \subseteq {"airspy", "hackrf"}
      BY DEF Device!MadeTyped
    <3>. QED BY <2>3, <3>1, k # "none", Zenon
  <2>. QED BY <2>1, <2>2, <2>3, <2>4, Zenon DEF Device!MadeTyped, Device!DeviceOpen
<1>2. UNCHANGED <<dab, next, reading, starts, missed,
                  worker, streaming, stream, position, unhalted, uneven>>
  BY DEF Device!samples
<1>3. worker = "none" /\ running' \in BOOLEAN /\ (theDevice' = "rtlsdr" => ~running')
  BY DEF Device!FlowRuns
<1>. QED BY <1>1, <1>2, <1>3
  DEF Control, Device!ThreadsTyped, Device!FlowTyped, Device!FlagsTyped,
      Device!FlowRuns, Device!Reads, Device!Ends, Device!Quiet, Device!StreamTuned,
      Device!HaltedByThen

\* Each of the constructors, in the order setDevice tries them.
LEMMA ControlOpened ==
  ASSUME Device!IInv, Device!setDevice
  PROVE  Control'
<1>1. CASE Device!airspyHandler
  BY <1>1, ControlThrown, ControlMade DEF Device!airspyHandler, Device!Trying
<1>2. CASE Device!sdrplayHandler
  BY <1>2, ControlThrown, ControlMade DEF Device!sdrplayHandler, Device!Trying
<1>3. CASE Device!rtlsdrHandler
  BY <1>3, ControlThrown, ControlMade DEF Device!rtlsdrHandler, Device!Trying
<1>4. CASE Device!hackrfHandler
  BY <1>4, ControlThrown, ControlMade DEF Device!hackrfHandler, Device!Trying
<1>5. CASE Device!airspyCrash \/ Device!NoDevice
  <2>. USE <1>5 DEF Device!airspyCrash, Device!NoDevice, Device!IInv, Device!TypeOK,
        Device!Trying,
        Device!made, Device!flow
  <2>1. gui = "setup" /\ gui' \in {"crashed", "ended"}
    OBVIOUS
  <2>2. UNCHANGED <<tries, theDevice, openDevs, dab, next, reading, starts, missed, running,
                    worker, streaming, stream, position, unhalted, uneven>>
    BY DEF Device!samples
  <2>. QED BY <2>1, <2>2
    DEF Control, Device!MadeTyped, Device!DeviceOpen, Device!SetUp,
        Device!ThreadsTyped, Device!FlowTyped, Device!FlagsTyped, Device!FlowRuns,
        Device!Reads, Device!Ends, Device!Quiet, Device!StreamTuned,
        Device!HaltedByThen
<1>. QED BY <1>1, <1>2, <1>3, <1>4, <1>5 DEF Device!setDevice

\* stopReader, wherever the GUI thread calls it.
LEMMA ControlStopped ==
  ASSUME Device!IInv, NEW from, NEW to, Device!stopReader(from, to),
         from \in {"stopReader", "terminate", "lastStop", "delete"},
         to \in {"idle", "lastWait", "delete", "close"},
         from = "stopReader" <=> to = "idle",
         from = "lastStop" <=> to = "delete",
         from = "delete" <=> to = "close"
  PROVE  Control'
<1>. USE DEF Device!made, Device!threads, Device!flow, Device!samples, Device!IInv,
             Device!TypeOK, Device!stopReader, Device!Return
<1>1. Device!MadeTyped' /\ Device!DeviceOpen'
  BY DEF Device!MadeTyped, Device!DeviceOpen
<1>2. Device!ThreadsTyped'
  BY DEF Device!ThreadsTyped
<1>3. Device!FlowTyped'
  BY DEF Device!FlowTyped
<1>4. Device!FlagsTyped'
  BY DEF Device!FlagsTyped
<1>5. Device!FlowRuns'
  BY DEF Device!FlowRuns, Device!FlagsTyped
<1>6. Device!Reads' /\ Device!Ends'
  BY DEF Device!Reads, Device!Ends
<1>7. Device!Quiet'
  BY DEF Device!Quiet, Device!FlowRuns, Device!Ends
<1>8. Device!StreamTuned'
  BY DEF Device!StreamTuned, Device!FlowRuns
<1>9. Device!HaltedByThen'
  BY DEF Device!HaltedByThen, Device!FlowRuns, Device!Ends
<1>. QED BY <1>1, <1>2, <1>3, <1>4, <1>5, <1>6, <1>7, <1>8, <1>9 DEF Control

\* The other steps of the GUI thread.
LEMMA ControlGui ==
  ASSUME Device!IInv,
         \/ Device!guiThread \/ Device!start \/ Device!stop
         \/ Device!reset \/ Device!TerminateProcess
  PROVE  Control'
<1>1. CASE Device!setDevice
  BY <1>1, ControlOpened
<1>2. CASE \/ Device!stopReader("stopReader", "idle")
           \/ Device!stopReader("terminate", "lastWait")
           \/ Device!stopReader("lastStop", "delete")
           \/ Device!stopReader("delete", "close")
  BY <1>2, ControlStopped
<1>3. CASE Device!Close
  <2>1. /\ gui = "close" /\ gui' = "ended" /\ openDevs' = openDevs \ {theDevice}
        /\ UNCHANGED <<tries, theDevice, dab, next, reading, starts, missed, running,
                       worker, streaming, stream, position, unhalted, uneven>>
    BY <1>3 DEF Device!Close, Device!flow, Device!samples
  <2>. QED BY <2>1
    DEF Device!IInv, Device!TypeOK, Control, Device!MadeTyped, Device!ThreadsTyped,
        Device!FlowTyped, Device!FlagsTyped, Device!DeviceOpen, Device!FlowRuns,
        Device!Reads, Device!Ends, Device!Quiet, Device!StreamTuned,
        Device!HaltedByThen
<1>4. CASE \/ Device!Waited \/ Device!LastWaited \/ Device!start \/ Device!stop
           \/ Device!reset \/ Device!TerminateProcess
  <2>. USE DEF Device!IInv, Device!TypeOK
  <2>1. UNCHANGED <<tries, theDevice, openDevs, running, worker, streaming, stream,
                    position, unhalted, missed, uneven>>
    BY <1>4 DEF Device!Waited, Device!LastWaited, Device!start, Device!stop,
       Device!reset, Device!TerminateProcess, Device!Ask, Device!made, Device!flow,
       Device!threads, Device!samples
  <2>2. \/ /\ gui = "wait" /\ dab = "off" /\ next = "restart"
           /\ dab' = "flush" /\ gui' = "idle" /\ UNCHANGED <<next, reading, starts>>
        \/ /\ gui = "wait" /\ dab = "off" /\ next # "restart"
           /\ gui' = next /\ UNCHANGED <<dab, next, reading, starts>>
        \/ /\ gui \in {"idle", "lastWait"} /\ gui' = "wait" /\ reading' = FALSE
           /\ next' \in {"stopReader", "restart", "lastStop"}
           /\ UNCHANGED <<dab, starts>>
        \/ /\ gui = "idle" /\ dab = "off" /\ dab' = "flush" /\ starts' = starts + 1
           /\ UNCHANGED <<gui, next, reading>>
        \/ /\ gui = "idle" /\ gui' = "terminate"
           /\ UNCHANGED <<dab, next, reading, starts>>
    BY <1>4 DEF Device!Waited, Device!LastWaited, Device!start, Device!stop,
       Device!reset, Device!TerminateProcess, Device!Ask, Device!made, Device!flow,
       Device!threads, Device!samples
  <2>3. Device!MadeTyped' /\ Device!FlowTyped'
    BY <2>1 DEF Device!MadeTyped, Device!FlowTyped
  <2>4. Device!ThreadsTyped'
    BY <2>2 DEF Device!ThreadsTyped
  <2>5. Device!FlagsTyped'
    BY <2>1, <2>2 DEF Device!FlagsTyped
  <2>6. Device!DeviceOpen'
    BY <2>1, <2>2 DEF Device!DeviceOpen
  <2>7. Device!FlowRuns'
    BY <2>1 DEF Device!FlowRuns
  <2>8. Device!Reads' /\ Device!Ends'
    BY <2>2 DEF Device!Reads, Device!Ends, Device!ThreadsTyped
  <2>9. Device!Quiet' /\ Device!StreamTuned'
    <3>1. ~(gui' = "idle" /\ dab' = "off")
      BY <2>2 DEF Device!ThreadsTyped
    <3>2. starts' = starts \/ (~streaming /\ worker = "none") \/ unhalted
      BY <2>2 DEF Device!Quiet
    <3>. QED BY <2>1, <3>1, <3>2 DEF Device!Quiet, Device!StreamTuned
  <2>10. Device!HaltedByThen' /\ gui' # "setup"
    BY <2>1, <2>2 DEF Device!HaltedByThen, Device!ThreadsTyped
  <2>. QED BY <2>3, <2>4, <2>5, <2>6, <2>7, <2>8, <2>9, <2>10 DEF Control
<1>. QED BY <1>1, <1>2, <1>3, <1>4 DEF Device!guiThread

\* The steps of the dabProcessor thread, of the library and its callback.
LEMMA ControlRun ==
  ASSUME Device!IInv, Device!run \/ Device!getSamples \/ Device!library \/ Device!Callback
  PROVE  Control'
<1>. USE DEF Device!made, Device!threads, Device!flow, Device!IInv, Device!TypeOK
<1>1. CASE Device!resetBuffer \/ Device!setRunning \/ Device!Throw
  <2>. USE <1>1 DEF Device!resetBuffer, Device!setRunning, Device!Throw
  <2>1. UNCHANGED <<tries, theDevice, openDevs, gui, next, starts, running,
                    worker, streaming, stream, position, unhalted, uneven>>
    BY DEF Device!samples
  <2>2. \/ dab = "flush" /\ dab' = "restart" /\ reading' = reading /\ missed' = missed
        \/ dab = "set" /\ dab' = "run" /\ reading' = TRUE /\ missed' = (missed \/ gui = "wait")
        \/ dab = "run" /\ ~reading /\ dab' = "off" /\ reading' = reading /\ missed' = missed
    OBVIOUS
  <2>. HIDE <1>1
  <2>3. CASE dab = "flush" /\ dab' = "restart" /\ reading' = reading /\ missed' = missed
   BY <2>1, <2>3
      DEF Control, Device!MadeTyped, Device!DeviceOpen, Device!SetUp,
          Device!ThreadsTyped, Device!FlowTyped, Device!FlagsTyped, Device!FlowRuns,
          Device!Reads, Device!Ends, Device!Quiet, Device!StreamTuned,
          Device!HaltedByThen
  <2>4. CASE dab = "set" /\ dab' = "run" /\ reading' = TRUE /\ missed' = (missed \/ gui = "wait")
   <3>1. missed' \in BOOLEAN
     BY <2>4 DEF Device!FlagsTyped
   <3>. QED BY <2>1, <2>4, <3>1
     DEF Control, Device!MadeTyped, Device!DeviceOpen, Device!SetUp,
         Device!ThreadsTyped, Device!FlowTyped, Device!FlagsTyped, Device!FlowRuns,
         Device!Reads, Device!Ends, Device!Quiet, Device!StreamTuned,
         Device!HaltedByThen
  <2>5. CASE dab = "run" /\ ~reading /\ dab' = "off" /\ reading' = reading /\ missed' = missed
   <3>1. gui # "idle"
     BY <2>5 DEF Device!Reads
   <3>. QED BY <2>1, <2>5, <3>1
     DEF Control, Device!MadeTyped, Device!DeviceOpen, Device!SetUp,
         Device!ThreadsTyped, Device!FlowTyped, Device!FlagsTyped, Device!FlowRuns,
         Device!Reads, Device!Ends, Device!Quiet, Device!StreamTuned,
         Device!HaltedByThen
  <2>. QED BY <2>2, <2>3, <2>4, <2>5
<1>2. CASE Device!restartReader
  <2>. USE <1>2 DEF Device!restartReader, Device!Begin, Device!Failed
  <2>1. Device!MadeTyped' /\ Device!DeviceOpen'
    BY DEF Device!MadeTyped, Device!DeviceOpen
  <2>2. Device!ThreadsTyped'
    BY DEF Device!ThreadsTyped
  <2>3. Device!FlowTyped'
    BY BoundsFact DEF Device!FlowTyped, Device!ThreadsTyped
  <2>4. Device!FlagsTyped'
    BY DEF Device!FlagsTyped
  <2>5. Device!FlowRuns'
    BY DEF Device!FlowRuns
  <2>6. Device!Reads' /\ Device!Ends'
    BY DEF Device!Reads, Device!Ends
  <2>7. Device!Quiet'
    BY DEF Device!Quiet, Device!FlowRuns
  <2>8. Device!StreamTuned'
    BY DEF Device!StreamTuned
  <2>9. Device!HaltedByThen'
    BY DEF Device!HaltedByThen, Device!Ends
  <2>. QED BY <2>1, <2>2, <2>3, <2>4, <2>5, <2>6, <2>7, <2>8, <2>9
    DEF Control, Device!SetUp
<1>3. CASE Device!getSamples
  BY <1>3
     DEF Device!getSamples, Control, Device!MadeTyped, Device!DeviceOpen,
         Device!SetUp, Device!ThreadsTyped, Device!FlowTyped, Device!FlagsTyped,
         Device!FlowRuns, Device!Reads, Device!Ends, Device!Quiet, Device!StreamTuned,
         Device!HaltedByThen
<1>4. CASE Device!library
  <2>1. /\ UNCHANGED <<tries, theDevice, openDevs, gui, dab, next, reading, starts, missed,
                       running, stream, position, unhalted, uneven>>
        /\ \/ worker = "created" /\ worker' = "reading" /\ streaming' = TRUE
           \/ worker = "cancelled" /\ worker' = "finished" /\ streaming' = FALSE
    BY <1>4 DEF Device!library, Device!ReadAsync, Device!Finish, Device!samples
  <2>2. /\ theDevice = "rtlsdr" /\ running
        /\ \/ unhalted
           \/ /\ ~(gui \in {"delete", "close"} \/ (gui = "ended" /\ theDevice # "none"))
              /\ ~(gui = "idle" /\ dab = "off")
    BY <2>1 DEF Device!FlowRuns, Device!HaltedByThen, Device!Quiet
  <2>3. Device!MadeTyped' /\ Device!DeviceOpen' /\ Device!ThreadsTyped'
    BY <2>1 DEF Device!MadeTyped, Device!DeviceOpen, Device!ThreadsTyped
  <2>4. Device!FlowTyped' /\ Device!FlagsTyped'
    BY <2>1 DEF Device!FlowTyped, Device!FlagsTyped
  <2>5. Device!FlowRuns'
    BY <2>1, <2>2 DEF Device!FlowRuns
  <2>6. Device!Reads' /\ Device!Ends'
    BY <2>1 DEF Device!Reads, Device!Ends
  <2>7. Device!Quiet' /\ Device!HaltedByThen'
    BY <2>1, <2>2 DEF Device!Quiet, Device!HaltedByThen
  <2>8. Device!StreamTuned'
    BY <2>1 DEF Device!StreamTuned
  <2>9. gui' # "setup"
    BY <2>1, <2>2 DEF Device!SetUp
  <2>. QED BY <2>3, <2>4, <2>5, <2>6, <2>7, <2>8, <2>9 DEF Control
<1>5. CASE Device!Callback
  <2>1. position' \in 0 .. Wrap - 1
    BY <1>5, BoundsFact DEF Device!Callback, Device!FlowTyped
  <2>2. uneven' \in BOOLEAN
    BY <1>5
       DEF Device!Callback, Device!data_available, Device!myStreamCallback,
           Device!FlagsTyped
  <2>. QED BY <1>5, <2>1, <2>2
    DEF Device!Callback, Control, Device!MadeTyped, Device!DeviceOpen, Device!SetUp,
        Device!ThreadsTyped, Device!FlowTyped, Device!FlagsTyped, Device!FlowRuns,
        Device!Reads, Device!Ends, Device!Quiet, Device!StreamTuned,
        Device!HaltedByThen
<1>. QED BY <1>1, <1>2, <1>3, <1>4, <1>5 DEF Device!run

\* The length of the cycle in which the place of a sample is counted.
Length == Wrap * Out

\* It is long enough for two places In apart to differ.
LEMMA LengthFact == Length \in Nat \ {0} /\ In < Length
<1>1. Wrap * Out \in Int /\ Wrap * 1 = Wrap /\ Wrap * Out >= Wrap * 1
  BY BoundsFact
<1>2. Wrap * Out > In /\ Wrap * Out > 0
  BY <1>1, BoundsFact
<1>3. Wrap * Out \in Nat \ {0}
  BY <1>1, <1>2
<1>. QED BY <1>2, <1>3 DEF Length

\* The place of the next sample is in the cycle.
LEMMA PlaceFact ==
  ASSUME NEW p \in 0 .. Wrap - 1
  PROVE  /\ p * Out \in 0 .. Length - 1
         /\ (p * Out + Out) % Length = ((p + 1) % Wrap) * Out
<1>1. Wrap * Out = (Wrap - 1) * Out + Out
  BY BoundsFact
<1>2. (Wrap - 1) * Out >= p * Out /\ p * Out >= 0
  BY BoundsFact
<1>3. p * Out \in Int /\ (p + 1) * Out = p * Out + Out
  BY BoundsFact
<1>4. p * Out \in 0 .. Length - 1
  BY <1>1, <1>2, <1>3, BoundsFact DEF Length
<1>5. CASE p = Wrap - 1
  <2>0. Length * 1 = Length
    BY LengthFact
  <2>1. p * Out + Out = 0 + Length * 1
    BY <1>1, <1>5, <2>0, BoundsFact DEF Length
  <2>2. (p * Out + Out) % Length = 0 % Length
    BY <2>1, <1>3, BoundsFact, LengthFact, Congruent
  <2>3. 0 % Length = 0
    BY LengthFact
  <2>4. (p + 1) % Wrap = 0
    BY <1>5, BoundsFact, CyclicStep
  <2>. QED BY <1>4, <2>2, <2>3, <2>4, BoundsFact
<1>6. CASE p # Wrap - 1
  <2>1. (Wrap - 1) * Out >= (p + 1) * Out
    BY <1>6, BoundsFact
  <2>2. p * Out + Out \in 0 .. Length - 1 /\ Length \in Int
    BY LengthFact, <1>1, <1>3, <1>4, <2>1, BoundsFact DEF Length
  <2>3. (p * Out + Out) % Length = p * Out + Out
    BY <2>2, Small
  <2>4. (p + 1) % Wrap = p + 1
    BY <1>6, BoundsFact, CyclicStep
  <2>. QED BY <1>3, <1>4, <2>3, <2>4
<1>. QED BY <1>5, <1>6

\* The two tables of the airspy are quotient and remainder.
LEMMA MapTable ==
  ASSUME NEW j \in 0 .. Out - 1
  PROVE  /\ Device!mapTable_int(j) \in 0 .. In - 1
         /\ Device!mapTable_float(j) \in 0 .. Out - 1
         /\ j * In = Out * Device!mapTable_int(j) + Device!mapTable_float(j)
<1>. DEFINE q == Device!mapTable_int(j)
            f == Device!mapTable_float(j)
<1>1. j * In \in Int /\ j * In >= 0 /\ Out \in Nat \ {0} /\ In \in Nat
  BY BoundsFact
<1>2. q \in Int /\ f \in 0 .. Out - 1 /\ j * In = Out * q + f
  BY <1>1 DEF Device!mapTable_int, Device!mapTable_float
<1>3. (Out - 1) * In >= j * In /\ Out * In = (Out - 1) * In + In
  BY BoundsFact
<1>. HIDE DEF q, f
<1>4. q < In
  <2>1. SUFFICES ASSUME q >= In PROVE FALSE
    BY <1>2, BoundsFact
  <2>2. Out * q >= Out * In
    BY <1>2, <2>1, BoundsFact
  <2>. QED BY <1>1, <1>2, <1>3, <2>2, BoundsFact
<1>5. q >= 0
  <2>1. SUFFICES ASSUME q <= -1 PROVE FALSE
    BY <1>2
  <2>2. Out * q <= -Out
    BY <1>2, <2>1, BoundsFact
  <2>. QED BY <1>1, <1>2, <2>2
<1>. QED BY <1>1, <1>2, <1>4, <1>5 DEF q, f

Stale == Device!Stale
FreshFrom(k) == \A i \in k + 1 .. Len(buffer) : Device!Fresh(buffer[i])

\* The empty sequence.
LEMMA Emptiness == /\ Len(<< >>) = 0
                   /\ << >> \in Seq(Device!SampleSet)
<1>1. \A S : << >> \in Seq(S) /\ Len(<< >>) = 0
  BY EmptySeq
<1>. QED BY <1>1

\* The buffers as sequences of samples.
LEMMA SamplesFact ==
  ASSUME Device!IInv
  PROVE  /\ buffer \in Seq(Device!SampleSet) /\ Len(buffer) \in Nat
         /\ Len(buffer) <= MaxRing
         /\ \A i \in 1 .. Len(buffer) :
              /\ buffer[i] \in Device!SampleSet /\ buffer[i].stream.number \in Nat
              /\ buffer[i].at \in 0 .. Length - 1
         /\ convBuffer \in Seq(Device!SampleSet) /\ Len(convBuffer) \in 0 .. In
         /\ \A i \in 1 .. Len(convBuffer) :
              /\ convBuffer[i] \in Device!SampleSet /\ convBuffer[i].stream.number \in Nat
              /\ convBuffer[i].at \in 0 .. Length - 1
         /\ stale \in Nat /\ Stale \in Nat
         /\ stream.number \in Nat /\ stream \in [start : Nat, number : Nat]
         /\ position \in 0 .. Wrap - 1
<1>1. /\ buffer \in Seq(Device!SampleSet) /\ Len(buffer) <= MaxRing
      /\ convBuffer \in Seq(Device!SampleSet) /\ Len(convBuffer) <= In
      /\ stale \in Nat
      /\ stream \in [start : Nat, number : Nat] /\ position \in 0 .. Wrap - 1
  BY DEF Device!IInv, Device!TypeOK, Device!SamplesTyped, Device!FlowTyped
<1>2. \A x \in Device!SampleSet : x.stream.number \in Nat /\ x.at \in 0 .. Length - 1
  BY DEF Device!SampleSet, Length
<1>3. Len(buffer) \in Nat /\ Len(convBuffer) \in Nat
  BY <1>1, LenProperties
<1>4. /\ \A i \in 1 .. Len(buffer) : buffer[i] \in Device!SampleSet
      /\ \A i \in 1 .. Len(convBuffer) : convBuffer[i] \in Device!SampleSet
  BY <1>1, ElementOfSeq
<1>5. Stale \in Nat
  BY BoundsFact DEF Stale, Device!Stale
<1>. QED BY <1>1, <1>2, <1>3, <1>4, <1>5, BoundsFact

\* What depends on the samples.
Flow == /\ Device!SamplesTyped /\ (gui = "setup" => buffer = << >>)
        /\ Device!FewStale /\ Device!Begun /\ Device!Spaced

\* A step that leaves the samples alone.
LEMMA SamplesLeft ==
  ASSUME Device!IInv, UNCHANGED <<Device!samples, stream, position>>,
         unhalted => unhalted', theDevice' = theDevice \/ (gui = "setup" /\ dab' = "off"),
         gui' = "setup" => gui = "setup",
         dab' \in {"restart", "set", "run"} =>
           dab \in {"restart", "set", "run"} /\ starts' = starts
  PROVE  Flow'
<1>1. UNCHANGED <<buffer, convBuffer, stale, uneven>>
  BY DEF Device!samples
<1>2. gui = "setup" => theDevice = "none" /\ buffer = << >> /\ convBuffer = << >> /\ stale = 0
  BY BoundsFact
     DEF Device!IInv, Device!SetUp, Device!FewStale, Device!Stale, Device!TypeOK,
         Device!SamplesTyped
<1>3. Device!SamplesTyped' /\ (gui' = "setup" => buffer' = << >>)
  BY <1>1, <1>2 DEF Device!IInv, Device!TypeOK, Device!SamplesTyped, Device!SampleSet
<1>4. Device!Begun'
  BY <1>1 DEF Device!IInv, Device!Begun
<1>5. CASE theDevice' = theDevice
  <2>1. Device!FewStale'
    BY <1>1, <1>5 DEF Device!IInv, Device!FewStale, Device!Stale, Device!Fresh
  <2>2. Device!Spaced'
    BY <1>1, <1>5
       DEF Device!IInv, Device!Spaced, Device!Own, Device!EvenlySpaced, Device!Apart
  <2>. QED BY <1>3, <1>4, <2>1, <2>2 DEF Flow
<1>6. CASE gui = "setup" /\ dab' = "off"
  <2>1. Device!FewStale'
    BY <1>1, <1>2, <1>6, BoundsFact DEF Device!IInv, Device!FewStale, Device!Stale
  <2>2. Device!Spaced'
    BY <1>1, <1>2, <1>6
       DEF Device!IInv, Device!Spaced, Device!Own, Device!EvenlySpaced, Device!Apart
  <2>. QED BY <1>3, <1>4, <2>1, <2>2 DEF Flow
<1>. QED BY <1>5, <1>6

\* resetBuffer: what is left of the channel before is in convBuffer at most.
LEMMA FlowReset ==
  ASSUME Device!IInv, Device!resetBuffer
  PROVE  Flow'
<1>. USE DEF Device!IInv, Device!resetBuffer
<1>1. UNCHANGED <<theDevice, gui, stream, position, starts, convBuffer, uneven>>
      /\ buffer' = << >> /\ stale' = 0 /\ gui # "setup"
  BY DEF Device!made, Device!flow, Device!SetUp
<1>2. Device!SamplesTyped'
  BY <1>1, BoundsFact, EmptySeq
     DEF Device!TypeOK, Device!SamplesTyped, Device!SampleSet
<1>3. Device!FewStale'
  <2>1. 0 \in 0 .. Stale' - stale' /\ Len(buffer') = 0
    BY <1>1, BoundsFact, Emptiness DEF Stale, Device!Stale
  <2>2. FreshFrom(0)'
    BY <2>1 DEF FreshFrom
  <2>3. \E k \in 0 .. Stale' - stale' : FreshFrom(k)'
    BY <2>1, <2>2, Zenon
  <2>. QED BY <1>1, <2>1, <2>3, BoundsFact
    DEF Device!FewStale, Stale, Device!Stale, FreshFrom
<1>4. Device!Begun'
  BY <1>1, EmptySeq DEF Device!Begun
<1>5. Device!Spaced'
  BY <1>1, EmptySeq DEF Device!Spaced, Device!Own, Device!EvenlySpaced, Device!Apart
<1>. QED BY <1>1, <1>2, <1>3, <1>4, <1>5 DEF Flow

\* restartReader: a new stream, of which there is no sample yet.
LEMMA FlowRestarted ==
  ASSUME Device!IInv, Device!restartReader
  PROVE  Flow'
<1>. USE DEF Device!IInv, Device!restartReader, Device!TypeOK
<1>1. /\ UNCHANGED <<theDevice, gui, starts, unhalted, convBuffer, stale, uneven>>
      /\ gui # "setup" /\ dab = "restart"
  BY DEF Device!made, Device!SetUp, Device!Begin, Device!Failed, Device!flow
<1>2. \/ UNCHANGED <<stream, position>>
         /\ (buffer' = buffer \/ buffer' = << >>)
      \/ /\ stream' = [start |-> starts, number |-> stream.number + 1]
         /\ buffer' = << >> \/ (buffer' = buffer /\ theDevice # "airspy")
  BY DEF Device!Begin, Device!Failed, Device!flow
<1>3. buffer' = buffer \/ buffer' = << >>
  BY <1>2
<1>4. Device!SamplesTyped'
  <2>1. buffer' \in Seq(Device!SampleSet) /\ Len(buffer') <= MaxRing
    <3>1. << >> \in Seq(Device!SampleSet) /\ Len(<< >>) <= MaxRing
      BY EmptySeq, Emptiness, BoundsFact
    <3>. QED BY <1>3, <3>1, SamplesFact
  <2>. QED BY <1>1, <2>1 DEF Device!SamplesTyped, Device!SampleSet
<1>5. Device!FewStale'
  <2>1. ASSUME ~unhalted PROVE \E n \in 0 .. Stale' - stale' : FreshFrom(n)'
    <3>1. PICK k \in 0 .. Stale - stale : FreshFrom(k)
      BY <1>1, <2>1 DEF Device!FewStale, FreshFrom, Stale
    <3>2. FreshFrom(k)'
      BY <1>1, <1>3, <3>1, EmptySeq DEF FreshFrom, Device!Fresh
    <3>. QED BY <1>1, <3>1, <3>2 DEF Stale, Device!Stale
  <2>. QED BY <1>1, <1>3, <2>1
    DEF Device!FewStale, Device!Stale, Stale, FreshFrom, Device!Fresh
<1>6. stream.number \in Nat /\ stream'.number \in {stream.number, stream.number + 1}
  BY <1>2 DEF Device!FlowTyped
<1>7. /\ \A i \in 1 .. Len(buffer') : buffer'[i] = buffer[i] /\ i \in 1 .. Len(buffer)
      /\ \A i \in 1 .. Len(buffer) : buffer[i].stream.number \in Nat
      /\ \A i \in 1 .. Len(convBuffer) : convBuffer[i].stream.number \in Nat
  BY <1>3, Emptiness, SamplesFact
<1>8. Device!Begun'
  BY <1>1, <1>6, <1>7 DEF Device!Begun
<1>9. Device!Spaced'
  <2>1. CASE UNCHANGED <<stream, position>> /\ buffer' = buffer
    BY <1>1, <2>1 DEF Device!Spaced, Device!Own, Device!EvenlySpaced, Device!Apart
  <2>2. CASE UNCHANGED <<stream, position>> /\ buffer' = << >>
    BY <1>1, <2>2, EmptySeq
       DEF Device!Spaced, Device!Own, Device!EvenlySpaced, Device!Apart
  <2>3. CASE theDevice # "airspy"
    BY <1>1, <2>3 DEF Device!Spaced
  <2>4. CASE stream'.number = stream.number + 1 /\ buffer' = << >>
    <3>1. \A i \in 1 .. Len(convBuffer) : convBuffer[i].stream # stream'
      BY <1>6, <1>7, <2>4 DEF Device!Begun
    <3>. QED BY <1>1, <2>4, <3>1, EmptySeq
      DEF Device!Spaced, Device!Own, Device!EvenlySpaced, Device!Apart
  <2>. QED BY <1>2, <2>1, <2>2, <2>3, <2>4
<1>. QED BY <1>1, <1>4, <1>5, <1>8, <1>9 DEF Flow

\* getSamples: the samples at the front go.
LEMMA FlowRead ==
  ASSUME Device!IInv, Device!getSamples
  PROVE  Flow'
<1>. USE DEF Device!IInv, Device!getSamples, Device!TypeOK
<1>1. /\ UNCHANGED <<theDevice, gui, dab, starts, stream, position, unhalted,
                      convBuffer, uneven>>
      /\ dab = "run" /\ buffer # << >> /\ buffer' = Tail(buffer)
      /\ stale' = stale + (IF ~unhalted /\ ~Device!Fresh(Head(buffer)) THEN 1 ELSE 0)
  BY DEF Device!made, Device!threads, Device!flow, Device!Fresh
<1>2. /\ buffer \in Seq(Device!SampleSet) /\ Len(buffer) \in Nat \ {0} /\ Len(buffer) <= MaxRing
      /\ buffer' \in Seq(Device!SampleSet) /\ Len(buffer') = Len(buffer) - 1
      /\ Head(buffer) = buffer[1]
      /\ \A i \in 1 .. Len(buffer') : buffer'[i] = buffer[i + 1]
  BY <1>1, HeadTailProperties, EmptySeq DEF Device!SamplesTyped
<1>3. stale \in Nat /\ stale' \in Nat /\ Stale \in Nat /\ Stale' = Stale
  BY <1>1, BoundsFact DEF Device!SamplesTyped, Stale, Device!Stale
<1>4. Device!SamplesTyped' /\ buffer' \in Seq(Device!SampleSet')
  BY <1>1, <1>2, <1>3, BoundsFact DEF Device!SamplesTyped, Device!SampleSet
<1>5. Device!FewStale'
  <2>1. theDevice' # "airspy" => convBuffer' = << >>
    BY <1>1 DEF Device!FewStale
  <2>2. CASE unhalted
    BY <1>1, <1>3, <2>1, <2>2 DEF Device!FewStale, Stale
  <2>3. CASE ~unhalted
    <3>1. PICK k \in 0 .. Stale - stale : FreshFrom(k)
      BY <1>1, <2>3 DEF Device!FewStale, FreshFrom, Stale
    <3>2. \E n \in 0 .. Stale - stale' : FreshFrom(n)'
      <4>1. CASE Device!Fresh(Head(buffer))
        <5>1. FreshFrom(k)'
          BY <1>1, <1>2, <3>1 DEF FreshFrom, Device!Fresh
        <5>. QED BY <1>1, <1>3, <3>1, <4>1, <5>1
      <4>2. CASE ~Device!Fresh(Head(buffer))
        <5>1. k # 0
          BY <1>2, <3>1, <4>2 DEF FreshFrom
        <5>2. FreshFrom(k - 1)'
          BY <1>1, <1>2, <3>1, <5>1 DEF FreshFrom, Device!Fresh
        <5>3. k - 1 \in 0 .. Stale - stale'
          BY <1>1, <1>3, <2>3, <3>1, <4>2, <5>1
        <5>. QED BY <5>2, <5>3
      <4>. QED BY <4>1, <4>2
    <3>3. stale' <= Stale'
      BY <1>3, <3>2
    <3>4. \A i \in 1 .. Len(convBuffer) : Device!Fresh(convBuffer[i])'
      BY <1>1, <2>3 DEF Device!FewStale, Device!Fresh
    <3>. QED BY <1>1, <1>3, <2>1, <3>2, <3>3, <3>4 DEF Device!FewStale, Stale, FreshFrom
  <2>. QED BY <2>2, <2>3
<1>6. Device!Begun'
  BY <1>1, <1>2 DEF Device!Begun
<1>7. Device!Spaced'
  <2>1. CASE theDevice # "airspy"
    BY <1>1, <2>1 DEF Device!Spaced
  <2>2. CASE theDevice = "airspy"
    <3>1. Device!EvenlySpaced(buffer, In)'
      BY <1>1, <1>2, <2>2
         DEF Device!Spaced, Device!EvenlySpaced, Device!Apart, Device!Own
    <3>2. Len(buffer') > 0 => buffer'[Len(buffer')] = buffer[Len(buffer)]
      BY <1>2
    <3>. QED BY <1>1, <1>2, <2>2, <3>1, <3>2 DEF Device!Spaced, Device!Own
  <2>. QED BY <2>1, <2>2
<1>8. gui # "setup"
  BY <1>1 DEF Device!SetUp
<1>. QED BY <1>1, <1>4, <1>5, <1>6, <1>7, <1>8 DEF Flow

\* Each sample made of a block has the stream of the one it is made from.
LEMMA ResampledFact ==
  ASSUME NEW c \in Seq(Device!SampleSet), Len(c) = In + 1
  PROVE  /\ Device!Resampled(c) \in Seq(Device!SampleSet)
         /\ Len(Device!Resampled(c)) = Out
         /\ \A j \in 1 .. Out :
              LET q == Device!mapTable_int(j - 1)
                  f == Device!mapTable_float(j - 1)
                  x == Device!Resampled(c)[j]
              IN /\ q + 1 \in 1 .. In
                 /\ x.stream = c[q + 1].stream
                 /\ x.at = (c[q + 1].at + f) % Length
<1>1. ASSUME NEW j \in 1 .. Out
      PROVE  /\ Device!mapTable_int(j - 1) + 1 \in 1 .. In
             /\ Device!mapTable_float(j - 1) \in Nat
             /\ c[Device!mapTable_int(j - 1) + 1] \in Device!SampleSet
             /\ Device!Interpolated(c, j - 1) \in Device!SampleSet
  <2>1. /\ Device!mapTable_int(j - 1) \in 0 .. In - 1
        /\ Device!mapTable_float(j - 1) \in 0 .. Out - 1
    BY BoundsFact, MapTable
  <2>. DEFINE i == Device!mapTable_int(j - 1) + 1
              y == c[i].at + Device!mapTable_float(j - 1)
  <2>2. i \in 1 .. In /\ Device!mapTable_float(j - 1) \in Nat
    BY <2>1, BoundsFact
  <2>3. c[i] \in Device!SampleSet
    BY <2>2, ElementOfSeq, BoundsFact
  <2>4. y \in Int
    BY <2>2, <2>3 DEF Device!SampleSet
  <2>5. y % Length \in 0 .. Length - 1
    BY <2>4, LengthFact
  <2>6. Device!Interpolated(c, j - 1) = [stream |-> c[i].stream, at |-> y % Length]
    BY DEF Device!Interpolated, Length
  <2>7. Device!Interpolated(c, j - 1) \in Device!SampleSet
    BY <2>3, <2>5, <2>6 DEF Device!SampleSet, Length
  <2>. QED BY <2>2, <2>3, <2>7
<1>. DEFINE R == Device!Resampled(c)
<1>2. R \in [1 .. Out -> Device!SampleSet]
  BY <1>1 DEF Device!Resampled
<1>3. R \in Seq(Device!SampleSet) /\ Len(R) = Out
  BY <1>2, BoundsFact
<1>4. \A j \in 1 .. Out : R[j] = Device!Interpolated(c, j - 1)
  BY DEF Device!Resampled
<1>. QED BY <1>1, <1>3, <1>4 DEF Device!Interpolated, Length

\* A sample of the device is of the stream that is running, which began with the
\* last start.
LEMMA SampleFact ==
  ASSUME Device!IInv, streaming
  PROVE  /\ Device!Sample \in Device!SampleSet
         /\ ~unhalted => Device!Fresh(Device!Sample)
         /\ Device!Own(Device!Sample)
         /\ Device!Sample.at = position * Out
<1>1. ~unhalted => stream.start = starts
  BY DEF Device!IInv, Device!StreamTuned
<1>2. position * Out \in 0 .. Length - 1
  BY SamplesFact, PlaceFact
<1>. QED BY <1>1, <1>2, SamplesFact
  DEF Device!Sample, Device!SampleSet, Device!Fresh, Device!Own, Length

\* The callback of the devices that do not resample.
LEMMA FlowOther ==
  ASSUME Device!IInv, Device!Callback, theDevice # "airspy"
  PROVE  Flow'
<1>1. /\ UNCHANGED <<theDevice, gui, dab, starts, stream, unhalted, stale, convBuffer,
                      uneven>>
      /\ streaming
      /\ \/ buffer' = buffer
         \/ /\ Len(buffer) + Len(<<Device!Sample>>) <= MaxRing
            /\ buffer' = buffer \o <<Device!Sample>>
  BY DEF Device!Callback, Device!data_available, Device!myStreamCallback, Device!Put,
     Device!made, Device!threads
<1>2. gui # "setup" /\ convBuffer = << >>
  BY <1>1 DEF Device!IInv, Device!SetUp, Device!FewStale
<1>3. /\ buffer' \in Seq(Device!SampleSet) /\ Len(buffer') <= MaxRing
      /\ \/ Len(buffer') = Len(buffer)
         \/ Len(buffer') = Len(buffer) + 1 /\ buffer'[Len(buffer')] = Device!Sample
      /\ \A i \in 1 .. Len(buffer) : buffer'[i] = buffer[i]
  <2>1. CASE buffer' = buffer
    BY <2>1, SamplesFact
  <2>2. CASE /\ Len(buffer) + Len(<<Device!Sample>>) <= MaxRing
             /\ buffer' = buffer \o <<Device!Sample>>
    <3>1. buffer' = Append(buffer, Device!Sample) /\ Len(<<Device!Sample>>) = 1
      BY <1>1, <2>2, SamplesFact, SampleFact, AppendIsConcat
    <3>. QED BY <1>1, <2>2, <3>1, SamplesFact, SampleFact, AppendProperties
  <2>. QED BY <1>1, <2>1, <2>2
<1>4. Device!SamplesTyped'
  BY <1>1, <1>3, SamplesFact DEF Device!SamplesTyped, Device!SampleSet
<1>5. Device!FewStale'
  <2>1. dab \in {"restart", "set", "run"} /\ ~unhalted =>
          \E k \in 0 .. Stale' - stale' : FreshFrom(k)'
    <3>1. SUFFICES ASSUME dab \in {"restart", "set", "run"}, ~unhalted
                   PROVE  \E k \in 0 .. Stale' - stale' : FreshFrom(k)'
      OBVIOUS
    <3>2. PICK k \in 0 .. Stale - stale : FreshFrom(k)
      BY <3>1 DEF Device!IInv, Device!FewStale, FreshFrom, Stale
    <3>3. FreshFrom(k)'
      BY <1>1, <1>3, <3>1, <3>2, SampleFact, SamplesFact DEF FreshFrom, Device!Fresh
    <3>. QED BY <1>1, <3>2, <3>3 DEF Stale, Device!Stale
  <2>2. stale' <= Stale'
    BY <1>1 DEF Device!IInv, Device!FewStale, Stale, Device!Stale
  <2>3. convBuffer' = << >> /\ \A i \in 1 .. Len(convBuffer') : Device!Fresh(convBuffer[i])'
    BY <1>1, <1>2, Emptiness
  <2>. QED BY <1>1, <2>1, <2>2, <2>3 DEF Device!FewStale, Stale, FreshFrom
<1>6. Device!Begun'
  BY <1>1, <1>3, SampleFact, SamplesFact DEF Device!IInv, Device!Begun, Device!Own
<1>7. Device!Spaced'
  BY <1>1 DEF Device!IInv, Device!Spaced
<1>. QED BY <1>1, <1>2, <1>4, <1>5, <1>6, <1>7 DEF Flow

\* The callback of the airspy when its block is not yet full.
LEMMA FlowKept ==
  ASSUME Device!IInv, Device!Callback, theDevice = "airspy", Len(convBuffer) < In
  PROVE  Flow'
<1>1. /\ UNCHANGED <<theDevice, gui, dab, starts, stream, unhalted, stale, buffer, uneven>>
      /\ streaming /\ convBuffer' = Append(convBuffer, Device!Sample)
      /\ position' = (position + 1) % Wrap
  BY DEF Device!Callback, Device!data_available, Device!myStreamCallback, Device!made,
     Device!threads
<1>2. gui # "setup"
  BY <1>1 DEF Device!IInv, Device!SetUp
<1>3. /\ convBuffer' \in Seq(Device!SampleSet) /\ Len(convBuffer') = Len(convBuffer) + 1
      /\ \A i \in 1 .. Len(convBuffer) : convBuffer'[i] = convBuffer[i]
      /\ convBuffer'[Len(convBuffer')] = Device!Sample
  BY <1>1, SamplesFact, SampleFact, AppendProperties
<1>4. Device!SamplesTyped'
  BY <1>1, <1>3, SamplesFact, BoundsFact DEF Device!SamplesTyped, Device!SampleSet
<1>5. Device!FewStale'
  <2>1. \/ \A i \in 1 .. Len(convBuffer) : Device!Fresh(convBuffer[i])
        \/ buffer = << >> /\ stale = 0
        \/ dab \notin {"restart", "set", "run"} \/ unhalted
    BY DEF Device!IInv, Device!FewStale
  <2>2. \/ \A i \in 1 .. Len(convBuffer') : Device!Fresh(convBuffer[i])'
        \/ buffer' = << >> /\ stale' = 0
        \/ dab' \notin {"restart", "set", "run"} \/ unhalted'
    <3>1. SUFFICES ASSUME ~unhalted, \A i \in 1 .. Len(convBuffer) : Device!Fresh(convBuffer[i]),
                          NEW i \in 1 .. Len(convBuffer')
                   PROVE  Device!Fresh(convBuffer'[i])
      BY <1>1, <2>1 DEF Device!Fresh
    <3>2. i \in 1 .. Len(convBuffer) \/ i = Len(convBuffer')
      BY <1>3, SamplesFact
    <3>. QED BY <1>1, <1>3, <3>1, <3>2, SampleFact
  <2>3. \/ \E k \in 0 .. Stale' - stale' : FreshFrom(k)'
        \/ dab' \notin {"restart", "set", "run"} \/ unhalted'
    BY <1>1
       DEF Device!IInv, Device!FewStale, FreshFrom, Stale, Device!Stale, Device!Fresh
  <2>. QED BY <1>1, <2>2, <2>3
    DEF Device!IInv, Device!FewStale, Stale, FreshFrom, Device!Stale
<1>6. Device!Begun'
  BY <1>1, <1>3, SampleFact, SamplesFact DEF Device!IInv, Device!Begun, Device!Own
<1>7. ASSUME NEW i \in 1 .. Len(convBuffer'), Device!Own(convBuffer'[i])
      PROVE  (convBuffer'[i].at + (Len(convBuffer') + 1 - i) * Out) % Length = position' * Out
  <2>1. position' * Out = (position * Out + Out) % Length
    BY <1>1, SamplesFact, PlaceFact
  <2>2. CASE i = Len(convBuffer')
    <3>1. convBuffer'[i].at = position * Out
      BY <1>1, <1>3, <2>2, SampleFact
    <3>2. (Len(convBuffer') + 1 - i) * Out = Out
      BY <1>3, <2>2, SamplesFact, BoundsFact
    <3>. QED BY <2>1, <3>1, <3>2
  <2>3. CASE i # Len(convBuffer')
    <3>1. i \in 1 .. Len(convBuffer) /\ convBuffer'[i] = convBuffer[i]
      BY <1>3, <2>3, SamplesFact
    <3>. DEFINE n == Len(convBuffer) + 1 - i
                x == convBuffer[i].at + n * Out
    <3>2. n \in Int /\ x \in Int /\ Out \in Int /\ convBuffer[i].at \in Int
      <4>1. n \in Int /\ Out \in Int /\ convBuffer[i].at \in Int
        BY <3>1, SamplesFact, BoundsFact, LengthFact
      <4>. HIDE DEF n
      <4>. QED BY <4>1
    <3>3. x % Length = position * Out
      BY <1>7, <3>1 DEF Device!IInv, Device!Spaced, Length
    <3>4. Len(convBuffer') + 1 - i = n + 1
      BY <1>3, <3>1, SamplesFact
    <3>. HIDE DEF n
    <3>5. (n + 1) * Out = n * Out + Out
      BY <3>2
    <3>6. convBuffer'[i].at + (Len(convBuffer') + 1 - i) * Out = x + Out
      <4>1. (Len(convBuffer') + 1 - i) * Out = n * Out + Out
        BY <3>4, <3>5
      <4>2. n * Out \in Int
        BY <3>2
      <4>. QED BY <3>1, <3>2, <4>1, <4>2
    <3>. HIDE DEF x
    <3>7. (x + Out) % Length = ((x % Length) + Out) % Length
      BY <3>2, LengthFact, AddRemainder
    <3>. QED BY <2>1, <3>3, <3>6, <3>7
  <2>. QED BY <2>2, <2>3
<1>8. Len(buffer) > 0 /\ Device!Own(buffer[Len(buffer)]) =>
        convBuffer'[1] = convBuffer[1] /\ Len(convBuffer') > 0
  BY <1>3, SamplesFact DEF Device!IInv, Device!Spaced
<1>9. Device!Spaced'
  BY <1>1, <1>7, <1>8
     DEF Device!IInv, Device!Spaced, Device!Own, Length, Device!EvenlySpaced,
         Device!Apart
<1>. QED BY <1>1, <1>2, <1>4, <1>5, <1>6, <1>9 DEF Flow

\* Where the samples of a block lie that the airspy makes of c: In apart, and
\* the last one In before the sample c ends with.
Place(j) == position * Out - In * Out + (j - 1) * In

LEMMA BlockPlaces ==
  ASSUME NEW c \in Seq(Device!SampleSet), Len(c) = In + 1,
         position \in 0 .. Wrap - 1,
         \A i \in 1 .. In : Device!Own(c[i]) =>
           (c[i].at + (In + 1 - i) * Out) % Length = position * Out,
         NEW j \in 1 .. Out, Device!Own(Device!Resampled(c)[j])
  PROVE  /\ Place(j) \in Int
         /\ Device!Resampled(c)[j].at = Place(j) % Length
<1>. DEFINE q == Device!mapTable_int(j - 1)
            f == Device!mapTable_float(j - 1)
            P == position * Out
            e == c[q + 1].at
<1>1. /\ q \in 0 .. In - 1 /\ f \in 0 .. Out - 1 /\ (j - 1) * In = Out * q + f
      /\ Out \in Int /\ In \in Int
  BY MapTable, BoundsFact
<1>2. Device!Own(c[q + 1]) /\ Device!Resampled(c)[j].at = (e + f) % Length
  BY ResampledFact DEF Device!Own
<1>3. e \in Int
  <2>1. q + 1 \in 1 .. Len(c)
    BY <1>1, BoundsFact
  <2>2. c[q + 1] \in Device!SampleSet
    BY <2>1, ElementOfSeq
  <2>. QED BY <2>2, LengthFact DEF Device!SampleSet, Length
<1>4. P \in 0 .. Length - 1
  BY PlaceFact
<1>5. (e + (In - q) * Out) % Length = P
  <2>1. q + 1 \in 1 .. In /\ In + 1 - (q + 1) = In - q
    BY <1>1, BoundsFact
  <2>. QED BY <1>2, <2>1
<1>. HIDE DEF q, f, P, e
<1>6. (In - q) * Out = In * Out - q * Out /\ q * Out = Out * q
      /\ In * Out \in Int /\ Out * q \in Int
  BY <1>1
<1>7. PICK k \in Int : e + (In - q) * Out = P + Length * k
  <2>1. (e + (In - q) * Out) % Length = P % Length
    BY <1>4, <1>5, Small, LengthFact
  <2>2. e + (In - q) * Out \in Int
    BY <1>3, <1>6
  <2>3. P \in Int
    BY <1>4
  <2>. HIDE DEF P
  <2>. QED BY <2>1, <2>2, <2>3, LengthFact, Differ
<1>8. Place(j) = P - In * Out + Out * q + f
  BY <1>1, <1>4, <1>6 DEF Place, P
<1>9. e + f = Place(j) + Length * k /\ Place(j) \in Int /\ e + f \in Int
  <2>1. Length * k \in Int
    BY LengthFact
  <2>. QED BY <1>1, <1>3, <1>4, <1>6, <1>7, <1>8, <2>1
<1>10. (e + f) % Length = Place(j) % Length
  BY <1>9, LengthFact, Congruent
<1>. QED BY <1>2, <1>9, <1>10

\* The samples of a block are In apart, from the first to the last.
LEMMA BlockSpaced ==
  ASSUME NEW c \in Seq(Device!SampleSet), Len(c) = In + 1,
         position \in 0 .. Wrap - 1,
         \A i \in 1 .. In : Device!Own(c[i]) =>
           (c[i].at + (In + 1 - i) * Out) % Length = position * Out,
         NEW R, R = Device!Resampled(c)
  PROVE  /\ \A j \in 1 .. Out - 1 : Device!Apart(R[j], R[j + 1], In)
         /\ Device!Own(R[Out]) => (R[Out].at + In) % Length = position * Out
         /\ Device!Own(R[1]) => Device!Own(c[1])
         /\ R[1].at = c[1].at
<1>1. ASSUME NEW j \in 1 .. Out - 1, Device!Own(R[j]), Device!Own(R[j + 1])
      PROVE  (R[j + 1].at - R[j].at) % Length = In
  <2>1. j \in 1 .. Out /\ j + 1 \in 1 .. Out
    BY BoundsFact
  <2>2. Place(j) \in Int /\ R[j].at = Place(j) % Length
    BY <1>1, <2>1, BlockPlaces
  <2>3. R[j + 1].at = Place(j + 1) % Length
    BY <1>1, <2>1, BlockPlaces
  <2>4. (j + 1 - 1) * In = (j - 1) * In + In
    BY BoundsFact
  <2>5. Place(j + 1) = Place(j) + In
    <3>1. position * Out \in Int /\ In * Out \in Int /\ (j - 1) * In \in Int /\ In \in Int
      BY BoundsFact
    <3>. QED BY <2>4, <3>1 DEF Place
  <2>6. In \in 0 .. Length - 1
    BY BoundsFact, LengthFact
  <2>. QED BY <2>2, <2>3, <2>5, <2>6, LengthFact, StepApart
<1>2. ASSUME Device!Own(R[Out])
      PROVE  (R[Out].at + In) % Length = position * Out
  <2>1. Out \in 1 .. Out
    BY BoundsFact
  <2>2. Place(Out) \in Int /\ R[Out].at = Place(Out) % Length
    BY <1>2, <2>1, BlockPlaces
  <2>3. Place(Out) + In = position * Out
    <3>1. In * Out = (Out - 1) * In + In
      BY BoundsFact
    <3>2. position * Out \in Int /\ (Out - 1) * In \in Int /\ In \in Int
      BY BoundsFact
    <3>. QED BY <3>1, <3>2 DEF Place
  <2>4. (R[Out].at + In) % Length = (Place(Out) + In) % Length
    <3>1. ((Place(Out) % Length) + In) % Length = (Place(Out) + In) % Length
      <4>1. Place(Out) \in Int /\ In \in Int /\ Length \in Nat \ {0}
        BY <2>2, LengthFact, BoundsFact
      <4>. QED BY <4>1, AddRemainder, Zenon
    <3>. QED BY <2>2, <3>1, Zenon
  <2>5. position * Out \in 0 .. Length - 1 /\ Length \in Int
    BY PlaceFact, LengthFact
  <2>6. (position * Out) % Length = position * Out
    BY <2>5, Small
  <2>. QED BY <2>3, <2>4, <2>6
<1>3. (Device!Own(R[1]) => Device!Own(c[1])) /\ R[1].at = c[1].at
  <2>. DEFINE q == Device!mapTable_int(0)
              f == Device!mapTable_float(0)
  <2>1. q \in 0 .. In - 1 /\ f \in 0 .. Out - 1 /\ 0 * In = Out * q + f
    BY MapTable, BoundsFact
  <2>2. R[1].stream = c[q + 1].stream /\ R[1].at = (c[q + 1].at + f) % Length
    <3>1. 1 \in 1 .. Out /\ 1 - 1 = 0
      BY BoundsFact
    <3>2. /\ R[1].stream = c[Device!mapTable_int(1 - 1) + 1].stream
          /\ R[1].at = (c[Device!mapTable_int(1 - 1) + 1].at + Device!mapTable_float(1 - 1)) % Length
      BY <3>1, ResampledFact
    <3>. QED BY <3>1, <3>2
  <2>. HIDE DEF q, f
  <2>3. q = 0 /\ f = 0
    <3>1. Out * q \in Int /\ Out * q >= 0 /\ 0 * In = 0
      BY <2>1, BoundsFact
    <3>2. Out * q = 0 /\ f = 0
      BY <2>1, <3>1, BoundsFact
    <3>3. q < 1
      BY <2>1, <3>2, BoundsFact
    <3>. QED BY <2>1, <3>2, <3>3, BoundsFact
  <2>4. c[1] \in Device!SampleSet
    BY ElementOfSeq, BoundsFact
  <2>5. c[1].at \in 0 .. Length - 1 /\ Length \in Int
    BY <2>4, LengthFact DEF Device!SampleSet, Length
  <2>6. (c[1].at + 0) % Length = c[1].at
    BY <2>5, Small
  <2>. QED BY <2>2, <2>3, <2>6 DEF Device!Own
<1>. QED BY <1>1, <1>2, <1>3 DEF Device!Apart, Length

\* The callback that makes the block full: Out samples are made of it, and the
\* last one is kept.
LEMMA FlowBlock ==
  ASSUME Device!IInv, Device!Callback, theDevice = "airspy", Len(convBuffer) = In
  PROVE  Flow'
<1>. DEFINE c == Append(convBuffer, Device!Sample)
            R == Device!Resampled(c)
<1>1. /\ UNCHANGED <<theDevice, gui, dab, starts, stream, unhalted, stale>>
      /\ streaming
      /\ position' = (position + 1) % Wrap
      /\ Len(buffer) + Len(R) <= MaxRing /\ buffer' = buffer \o R
      /\ uneven' = (uneven \/ ~Device!EvenlySpaced(buffer', In))
      /\ convBuffer' = <<c[In + 1]>>
  <2>1. UNCHANGED <<theDevice, gui, dab, starts, stream, unhalted, stale>>
    BY DEF Device!Callback, Device!made, Device!threads
  <2>2. streaming /\ position' = (position + 1) % Wrap
    BY DEF Device!Callback
  <2>3. Device!data_available
    BY DEF Device!Callback, Device!myStreamCallback
  <2>4. ~(Len(convBuffer) < In)
    BY BoundsFact
  <2>. QED BY <2>1, <2>2, <2>3, <2>4
    DEF Device!data_available, Device!Put, Device!Kept
<1>2. gui # "setup"
  BY <1>1 DEF Device!IInv, Device!SetUp
<1>3. /\ c \in Seq(Device!SampleSet) /\ Len(c) = In + 1
      /\ \A i \in 1 .. In : c[i] = convBuffer[i]
      /\ c[In + 1] = Device!Sample
  <2>1. Device!Sample \in Device!SampleSet
    BY <1>1, SampleFact
  <2>2. convBuffer \in Seq(Device!SampleSet)
    BY SamplesFact
  <2>. QED BY <2>1, <2>2, AppendProperties
<1>4. /\ R \in Seq(Device!SampleSet) /\ Len(R) = Out
      /\ \A j \in 1 .. Out : \E i \in 1 .. In : R[j].stream = convBuffer[i].stream
  <2>. HIDE DEF c
  <2>1. R \in Seq(Device!SampleSet) /\ Len(R) = Out
    BY <1>3, ResampledFact
  <2>2. ASSUME NEW j \in 1 .. Out
        PROVE  \E i \in 1 .. In : R[j].stream = convBuffer[i].stream
    <3>. DEFINE q == Device!mapTable_int(j - 1)
    <3>1. q + 1 \in 1 .. In /\ R[j].stream = c[q + 1].stream
      BY <1>3, ResampledFact
    <3>. HIDE DEF q
    <3>. QED BY <1>3, <3>1
  <2>. QED BY <2>1, <2>2
<1>5. /\ convBuffer' = <<Device!Sample>> /\ Len(convBuffer') = 1
      /\ convBuffer'[1] = Device!Sample
      /\ convBuffer' \in Seq(Device!SampleSet)
  BY <1>1, <1>3, SampleFact
<1>. HIDE DEF R, c
<1>6. /\ buffer' \in Seq(Device!SampleSet) /\ Len(buffer') = Len(buffer) + Out
      /\ Len(buffer') <= MaxRing
      /\ \A i \in 1 .. Len(buffer) : buffer'[i] = buffer[i]
      /\ \A i \in Len(buffer) + 1 .. Len(buffer) + Out :
           buffer'[i] = R[i - Len(buffer)] /\ i - Len(buffer) \in 1 .. Out
  <2>1. buffer \in Seq(Device!SampleSet) /\ Len(buffer) \in Nat
    BY SamplesFact
  <2>2. /\ buffer' \in Seq(Device!SampleSet) /\ Len(buffer') = Len(buffer) + Len(R)
        /\ \A i \in 1 .. Len(buffer) + Len(R) :
             buffer'[i] = IF i <= Len(buffer) THEN buffer[i] ELSE R[i - Len(buffer)]
    BY <1>1, <1>4, <2>1, ConcatProperties
  <2>3. Len(R) = Out /\ Out \in Nat \ {0} /\ Len(buffer) + Out <= MaxRing
    BY <1>1, <1>4, BoundsFact
  <2>. HIDE DEF Device!SampleSet
  <2>. QED BY <2>1, <2>2, <2>3
<1>7. /\ \A i \in 1 .. In : Device!Own(c[i]) =>
           (c[i].at + (In + 1 - i) * Out) % Length = position * Out
      /\ Device!EvenlySpaced(buffer, In)
      /\ Len(buffer) > 0 /\ Device!Own(buffer[Len(buffer)]) =>
           (buffer[Len(buffer)].at + In) % Length = c[1].at
      /\ ~uneven
  BY <1>3, BoundsFact DEF Device!IInv, Device!Spaced, Length
<1>8. /\ \A j \in 1 .. Out - 1 : Device!Apart(R[j], R[j + 1], In)
      /\ Device!Own(R[Out]) => (R[Out].at + In) % Length = position * Out
      /\ R[1].at = c[1].at
  BY <1>3, <1>7, SamplesFact, BlockSpaced DEF R
<1>9. Device!SamplesTyped'
  BY <1>1, <1>5, <1>6, SamplesFact, BoundsFact
     DEF Device!SamplesTyped, Device!SampleSet
<1>10. Device!FewStale'
  <2>1. dab \in {"restart", "set", "run"} /\ ~unhalted =>
          \E k \in 0 .. Stale' - stale' : FreshFrom(k)'
    <3>1. SUFFICES ASSUME dab \in {"restart", "set", "run"}, ~unhalted
                   PROVE  \E k \in 0 .. Stale' - stale' : FreshFrom(k)'
      OBVIOUS
    <3>2. PICK k \in 0 .. Stale - stale : FreshFrom(k)
      BY <3>1 DEF Device!IInv, Device!FewStale, FreshFrom, Stale
    <3>3. CASE \A i \in 1 .. Len(convBuffer) : Device!Fresh(convBuffer[i])
      <4>1. \A j \in 1 .. Out : R[j].stream.start = starts
        BY <1>4, <3>3 DEF Device!Fresh
      <4>2. FreshFrom(k)'
        BY <1>1, <1>6, <3>2, <4>1, SamplesFact, SMTT(30) DEF FreshFrom, Device!Fresh
      <4>. QED BY <1>1, <3>2, <4>2 DEF Stale, Device!Stale
    <3>4. CASE buffer = << >> /\ stale = 0
      <4>1. Len(buffer') = Out
        BY <1>6, <3>4, Emptiness, BoundsFact
      <4>2. FreshFrom(Out)'
        BY <4>1, BoundsFact DEF FreshFrom
      <4>3. Out \in 0 .. Stale' - stale'
        BY <1>1, <3>4, BoundsFact DEF Stale, Device!Stale
      <4>. QED BY <4>2, <4>3
    <3>. QED BY <3>1, <3>3, <3>4 DEF Device!IInv, Device!FewStale
  <2>2. stale' <= Stale'
    BY <1>1 DEF Device!IInv, Device!FewStale, Stale, Device!Stale
  <2>3. ~unhalted => \A i \in 1 .. Len(convBuffer') : Device!Fresh(convBuffer[i])'
    BY <1>1, <1>5, SampleFact DEF Device!Fresh
  <2>. QED BY <1>1, <2>1, <2>2, <2>3 DEF Device!FewStale, Stale, FreshFrom
<1>11. Device!Begun'
  <2>1. \A j \in 1 .. Out : R[j].stream.number <= stream.number
    BY <1>4, SamplesFact DEF Device!IInv, Device!Begun
  <2>2. \A i \in 1 .. Len(buffer) : buffer[i].stream.number <= stream.number
    BY DEF Device!IInv, Device!Begun
  <2>3. ASSUME NEW i \in 1 .. Len(buffer')
        PROVE  buffer'[i].stream.number <= stream.number
    <3>1. i \in 1 .. Len(buffer) \/ i \in Len(buffer) + 1 .. Len(buffer) + Out
      BY <1>6, SamplesFact, BoundsFact
    <3>. QED BY <1>6, <2>1, <2>2, <3>1
  <2>4. \A i \in 1 .. Len(convBuffer') : convBuffer'[i].stream.number <= stream.number
    BY <1>1, <1>5, SampleFact, SamplesFact DEF Device!Own
  <2>. QED BY <1>1, <2>3, <2>4 DEF Device!Begun
<1>12. Device!EvenlySpaced(buffer', In)
  <2>1. SUFFICES ASSUME NEW i \in 1 .. Len(buffer') - 1
                 PROVE  Device!Apart(buffer'[i], buffer'[i + 1], In)
    BY DEF Device!EvenlySpaced
  <2>2. CASE i < Len(buffer)
    <3>1. i \in 1 .. Len(buffer) - 1 /\ i \in 1 .. Len(buffer) /\ i + 1 \in 1 .. Len(buffer)
      BY <2>2, SamplesFact
    <3>. QED BY <1>6, <1>7, <3>1 DEF Device!EvenlySpaced
  <2>3. CASE i > Len(buffer)
    <3>1. /\ i \in Len(buffer) + 1 .. Len(buffer) + Out
          /\ i + 1 \in Len(buffer) + 1 .. Len(buffer) + Out
          /\ i - Len(buffer) \in 1 .. Out - 1
          /\ i + 1 - Len(buffer) = i - Len(buffer) + 1
      BY <1>6, <2>3, SamplesFact, BoundsFact
    <3>. QED BY <1>6, <1>8, <3>1
  <2>4. CASE i = Len(buffer)
    <3>1. /\ Len(buffer) > 0 /\ i \in 1 .. Len(buffer)
          /\ i + 1 \in Len(buffer) + 1 .. Len(buffer) + Out /\ i + 1 - Len(buffer) = 1
      BY <2>4, SamplesFact, BoundsFact
    <3>. DEFINE x == buffer[Len(buffer)].at
    <3>2. buffer'[i] = buffer[Len(buffer)] /\ buffer'[i + 1] = R[1]
      BY <1>6, <2>4, <3>1
    <3>3. SUFFICES ASSUME Device!Own(buffer[Len(buffer)])
                   PROVE  (R[1].at - x) % Length = In
      BY <3>2 DEF Device!Apart, Length
    <3>4. R[1].at = (x + In) % Length
      BY <1>7, <1>8, <3>1, <3>3
    <3>5. x \in 0 .. Length - 1 /\ x \in Int /\ Length \in Nat \ {0} /\ In \in 0 .. Length - 1
      BY <3>1, SamplesFact, LengthFact, BoundsFact
    <3>. HIDE DEF x
    <3>6. x % Length = x
      BY <3>5, Small
    <3>7. (((x + In) % Length) - (x % Length)) % Length = In
      BY <3>5, StepApart, Zenon
    <3>. QED BY <3>4, <3>6, <3>7, Zenon
  <2>. QED BY <2>2, <2>3, <2>4, SamplesFact
<1>13. Device!Spaced'
  <2>1. ~uneven'
    BY <1>1, <1>7, <1>12
  <2>2. Device!EvenlySpaced(buffer, In)'
    BY <1>1, <1>12 DEF Device!EvenlySpaced, Device!Apart, Device!Own
  <2>3. position' * Out = (position * Out + Out) % Length
    BY <1>1, SamplesFact, PlaceFact
  <2>4. ASSUME NEW i \in 1 .. Len(convBuffer')
        PROVE  (convBuffer'[i].at + (Len(convBuffer') + 1 - i) * Out) % Length
                 = position' * Out
    <3>1. i = 1 /\ (Len(convBuffer') + 1 - i) * Out = Out /\ convBuffer'[i].at = position * Out
      BY <1>1, <1>5, SampleFact, BoundsFact
    <3>. QED BY <2>3, <3>1
  <2>5. buffer'[Len(buffer')] = R[Out]
    <3>1. /\ Len(buffer') \in Len(buffer) + 1 .. Len(buffer) + Out
          /\ Len(buffer') - Len(buffer) = Out
      BY <1>6, SamplesFact, BoundsFact
    <3>. QED BY <1>6, <3>1
  <2>6. /\ Len(convBuffer') > 0 /\ Device!Own(convBuffer'[1])
        /\ convBuffer'[1].at = position * Out
    BY <1>1, <1>5, SampleFact
  <2>. QED BY <1>1, <1>8, <2>1, <2>2, <2>4, <2>5, <2>6
    DEF Device!Spaced, Device!Own, Length
<1>. QED BY <1>1, <1>2, <1>9, <1>10, <1>11, <1>13 DEF Flow

\* All steps.
LEMMA FlowHolds ==
  ASSUME Device!IInv, Device!Next
  PROVE  Flow'
<1>. USE DEF Device!made, Device!threads, Device!flow
<1>1. CASE Device!setDevice
  <2>1. gui = "setup" /\ dab = "off"
    BY <1>1
       DEF Device!setDevice, Device!airspyHandler, Device!airspyCrash,
           Device!sdrplayHandler, Device!rtlsdrHandler, Device!hackrfHandler,
           Device!NoDevice, Device!Trying, Device!IInv, Device!SetUp
  <2>2. UNCHANGED <<Device!samples, stream, position, unhalted, dab>>
    BY <1>1
       DEF Device!setDevice, Device!airspyHandler, Device!airspyCrash,
           Device!sdrplayHandler, Device!rtlsdrHandler, Device!hackrfHandler,
           Device!NoDevice, Device!Thrown, Device!Made
  <2>. QED BY <2>1, <2>2, SamplesLeft
<1>2. CASE \/ Device!Waited \/ Device!LastWaited \/ Device!Close
           \/ Device!start \/ Device!stop \/ Device!reset \/ Device!TerminateProcess
  <2>1. /\ UNCHANGED <<Device!samples, stream, position, unhalted, theDevice>>
        /\ gui' # "setup"
        /\ \/ dab' = dab /\ starts' = starts
           \/ dab' = "flush"
    BY <1>2
       DEF Device!Waited, Device!LastWaited, Device!Close, Device!start, Device!stop,
           Device!reset, Device!TerminateProcess, Device!Ask, Device!IInv,
           Device!TypeOK, Device!ThreadsTyped
  <2>. QED BY <2>1, SamplesLeft
<1>3. CASE \/ Device!stopReader("stopReader", "idle")
           \/ Device!stopReader("terminate", "lastWait")
           \/ Device!stopReader("lastStop", "delete")
           \/ Device!stopReader("delete", "close")
  <2>1. /\ UNCHANGED <<Device!samples, stream, position, theDevice, dab, starts>>
        /\ unhalted => unhalted'
        /\ gui' # "setup"
    BY <1>3 DEF Device!stopReader, Device!Return
  <2>. QED BY <2>1, SamplesLeft
<1>4. CASE Device!resetBuffer
  BY <1>4, FlowReset
<1>5. CASE Device!restartReader
  BY <1>5, FlowRestarted
<1>6. CASE Device!setRunning \/ Device!Throw
  <2>1. /\ UNCHANGED <<Device!samples, stream, position, unhalted, theDevice, gui, starts>>
        /\ dab \in {"set", "run"}
    BY <1>6 DEF Device!setRunning, Device!Throw
  <2>. QED BY <2>1, SamplesLeft
<1>7. CASE Device!getSamples
  BY <1>7, FlowRead
<1>8. CASE Device!library
  <2>1. UNCHANGED <<Device!samples, stream, position, unhalted, theDevice, gui, dab, starts>>
    BY <1>8 DEF Device!library, Device!ReadAsync, Device!Finish
  <2>. QED BY <2>1, SamplesLeft
<1>9. CASE Device!Callback
  <2>1. CASE theDevice # "airspy"
    BY <1>9, <2>1, FlowOther
  <2>2. CASE theDevice = "airspy" /\ Len(convBuffer) < In
    BY <1>9, <2>2, FlowKept
  <2>3. CASE theDevice = "airspy" /\ Len(convBuffer) = In
    BY <1>9, <2>3, FlowBlock
  <2>. QED BY <2>1, <2>2, <2>3, SamplesFact, BoundsFact
<1>. QED BY <1>1, <1>2, <1>3, <1>4, <1>5, <1>6, <1>7, <1>8, <1>9
  DEF Device!Next, Device!guiThread, Device!run

\* The handler before it is made, and every step of the device.
LEMMA DeviceStarts == Device!Init => Device!IInv
<1>. SUFFICES ASSUME Device!Init PROVE Device!IInv
  OBVIOUS
<1>. USE DEF Device!Init
<1>1. Control
  <2>1. Device!MadeTyped
    BY DEF Device!MadeTyped
  <2>2. Device!ThreadsTyped /\ Device!FlagsTyped
    BY DEF Device!ThreadsTyped, Device!FlagsTyped
  <2>3. Device!FlowTyped
    BY BoundsFact DEF Device!FlowTyped
  <2>. QED BY <2>1, <2>2, <2>3
    DEF Control, Device!DeviceOpen, Device!FlowRuns, Device!Reads, Device!Ends,
        Device!Quiet, Device!StreamTuned, Device!HaltedByThen
<1>2. Flow
  <2>2. Device!SamplesTyped
    BY BoundsFact, Emptiness DEF Device!SamplesTyped
  <2>3. Device!FewStale
    BY BoundsFact DEF Device!FewStale, Device!Stale
  <2>4. Device!Begun
    BY Emptiness DEF Device!Begun
  <2>5. Device!Spaced
    BY DEF Device!Spaced
  <2>. QED BY <2>2, <2>3, <2>4, <2>5 DEF Flow
<1>. QED BY <1>1, <1>2 DEF Control, Flow, Device!IInv, Device!TypeOK, Device!SetUp

LEMMA DeviceKeeps ==
  ASSUME Device!IInv, Device!Next
  PROVE  Device!IInv'
<1>1. Control'
  BY ControlGui, ControlRun DEF Device!Next
<1>2. Flow'
  BY FlowHolds
<1>. QED BY <1>1, <1>2 DEF Control, Flow, Device!IInv, Device!TypeOK, Device!SetUp

\* What does not depend on the frames: the stream and the calls of PortAudio.
Output == Sink!StreamTyped /\ Sink!ValidAsked /\ Sink!CallbackActive

\* The constants of the sink.
LEMMA SinkFact ==
  /\ numofDevices \in Nat \ {0} /\ Supported \subseteq 0 .. numofDevices - 1
  /\ Limit \in Nat \ {0} /\ MaxRing \in Nat /\ MaxRing >= Limit
BY SinkAssumption, BoundsFact DEF Sink!DevicesAssumption, Sink!LimitAssumption

\* Cardinality in the sink is that of FiniteSets.
LEMMA SameCardinality ==
  ASSUME NEW S
  PROVE  /\ Sink!Cardinality(S) = Cardinality(S)
         /\ Sink!IsFiniteSet(S) <=> IsFiniteSet(S)
<1>1. Sink!IsFiniteSet(S) <=> IsFiniteSet(S)
  BY DEF Sink!IsFiniteSet, IsFiniteSet
<1>2. Sink!Cardinality(S) = Cardinality(S)
  BY DEF Sink!Cardinality, Cardinality
<1>. QED BY <1>1, <1>2

\* An index that selectDevice goes on with stands for a device.
LEMMA ValidIndex ==
  ASSUME NEW i \in {0, Default} \cup Sink!setupChannels, i # 0,
         Sink!isValidDevice(Sink!outTable[i])
  PROVE  i \in 1 .. numofDevices /\ Sink!outTable[i] \in Supported
<1>1. Cardinality(Supported) <= numofDevices /\ Cardinality(Supported) \in Nat
  <2>1. IsFiniteSet(0 .. numofDevices - 1) /\ Cardinality(0 .. numofDevices - 1) = numofDevices
    BY SinkFact, FS_Interval
  <2>2. IsFiniteSet(Supported) /\ Cardinality(Supported) <= numofDevices
    BY <2>1, SinkFact, FS_Subset
  <2>. QED BY <2>2, FS_CardinalityType
<1>2. i \in 1 .. numofDevices
  <2>. DEFINE n == Cardinality(Supported)
  <2>1. i \in {0, Default} \cup 1 .. n
    BY SameCardinality DEF Sink!setupChannels
  <2>2. Default \in 0 .. numofDevices - 1 /\ numofDevices \in Nat
    BY SinkAssumption DEF Sink!DevicesAssumption
  <2>. HIDE DEF n
  <2>. QED BY <1>1, <2>1, <2>2 DEF n
<1>3. CASE \E d \in Supported : Sink!Entry(d) = i
  BY <1>2, <1>3, SinkFact DEF Sink!outTable
<1>4. CASE ~\E d \in Supported : Sink!Entry(d) = i
  <2>1. Sink!outTable[i] = -1
    BY <1>2, <1>4, SinkFact DEF Sink!outTable
  <2>. QED BY <2>1 DEF Sink!isValidDevice
<1>. QED BY <1>2, <1>3, <1>4

\* selectDevice up to Pa_AbortStream ...
LEMMA OutputCalls ==
  ASSUME Sink!IInv, NEW from, NEW choices \in SUBSET ({0, Default} \cup Sink!setupChannels),
         NEW waiting \in {"select saved", "select"}, NEW failing \in {"default", "idle"},
         Sink!Calls(from, choices, waiting, failing)
  PROVE  Output'
<1>. USE DEF Sink!IInv, Sink!TypeOK
<1>1. \/ gui' = failing
      \/ /\ gui' = waiting
         /\ idx' \in 1 .. numofDevices /\ Sink!outTable[idx'] \in Supported
  <2>1. idx' \in {0, Default} \cup Sink!setupChannels
    BY DEF Sink!Calls
  <2>2. \/ gui' = failing
        \/ gui' = waiting /\ idx' # 0 /\ Sink!isValidDevice(Sink!outTable[idx'])
    BY DEF Sink!Calls
  <2>. QED BY <2>1, <2>2, ValidIndex
<1>2. UNCHANGED <<ostream, device, active, spoilt, taking>>
  BY DEF Sink!Calls, Sink!stream, Sink!played
<1>. QED BY <1>1, <1>2
  DEF Output, Sink!StreamTyped, Sink!ValidAsked, Sink!CallbackActive

\* ... and the rest of it.
LEMMA OutputSelects ==
  ASSUME Sink!IInv, NEW from \in {"select saved", "select"}, NEW failing \in {"default", "idle"},
         Sink!selectDevice(from, failing)
  PROVE  Output'
<1>. USE DEF Sink!IInv, Sink!TypeOK
<1>1. Sink!outTable[idx] \in Supported
  BY DEF Sink!selectDevice, Sink!ValidAsked
<1>2. /\ gui' \in {"default", "idle"}
      /\ spoilt' = spoilt /\ taking = Sink!Idle /\ taking' = taking
      /\ active' \in BOOLEAN
      /\ \/ ostream' = "open" /\ device' = Sink!outTable[idx]
         \/ /\ ~active' /\ device' = device
            /\ ostream' = IF ostream = "null" THEN "null" ELSE "dangling"
  BY DEF Sink!selectDevice, Sink!played
<1>. QED BY <1>1, <1>2
  DEF Output, Sink!StreamTyped, Sink!ValidAsked, Sink!CallbackActive

\* All steps that empty nothing under the callback.
LEMMA OutputHolds ==
  ASSUME Sink!IInv, Sink!Next, spoilt' = spoilt
  PROVE  Output'
<1>. USE DEF Sink!IInv, Sink!TypeOK, Sink!stream, Sink!played
<1>1. CASE Sink!selectSaved
  BY <1>1, OutputCalls DEF Sink!selectSaved
<1>2. CASE Sink!selectDefaultDevice
  BY <1>2, OutputCalls DEF Sink!selectDefaultDevice
<1>3. CASE Sink!set_streamSelector
  BY <1>3, OutputCalls DEF Sink!set_streamSelector
<1>4. CASE Sink!selectDevice("select saved", "default") \/ Sink!selectDevice("select", "idle")
  BY <1>4, OutputSelects
<1>5. CASE Sink!NoneSaved \/ Sink!Crash \/ Sink!stop \/ Sink!Delete
  <2>1. UNCHANGED <<idx, ostream, device, active, taking>>
        /\ gui' \in {"default", "crashed", "stop", "deleted"}
    BY <1>5 DEF Sink!NoneSaved, Sink!Crash, Sink!stop, Sink!Stops, Sink!Delete
  <2>. QED BY <2>1 DEF Output, Sink!StreamTyped, Sink!ValidAsked, Sink!CallbackActive
<1>6. CASE Sink!restart
  BY <1>6
     DEF Sink!restart, Sink!Restarted, Output, Sink!StreamTyped, Sink!ValidAsked,
         Sink!CallbackActive
<1>7. CASE Sink!Stopped
  BY <1>7
     DEF Sink!Stopped, Output, Sink!StreamTyped, Sink!ValidAsked, Sink!CallbackActive
<1>8. CASE Sink!Decoded \/ Sink!newAudio
  <2>1. UNCHANGED <<gui, idx, ostream, device, active, taking>>
    BY <1>8 DEF Sink!Decoded, Sink!newAudio
  <2>. QED BY <2>1 DEF Output, Sink!StreamTyped, Sink!ValidAsked, Sink!CallbackActive
<1>9. CASE Sink!CallbackBegins \/ Sink!CallbackEnds
  <2>1. UNCHANGED <<gui, idx, ostream, device, active>> /\ (taking' = Sink!Idle \/ active)
    BY <1>9 DEF Sink!CallbackBegins, Sink!CallbackEnds
  <2>. QED BY <2>1 DEF Output, Sink!StreamTyped, Sink!ValidAsked, Sink!CallbackActive
<1>. QED BY <1>1, <1>2, <1>3, <1>4, <1>5, <1>6, <1>7, <1>8, <1>9 DEF Sink!Next

\* What depends on the frames.
Frames == /\ Sink!FramesTyped /\ Sink!FrameLeft /\ Sink!LastMade
          /\ Sink!InOrder /\ Sink!FewLate

\* The buffers as sequences, the history as sets of numbers.
LEMMA FramesFact ==
  ASSUME Sink!IInv
  PROVE  /\ made \in Nat /\ flushed \in Nat /\ Sink!Past \in Nat /\ flushed <= Sink!Past
         /\ audioBuffer \in Seq(Nat) /\ Len(audioBuffer) \in Nat
         /\ signals \in Seq(Sink!rates)
         /\ inBuffer \in Seq(Nat) /\ Len(inBuffer) \in Nat /\ Len(inBuffer) < Limit
         /\ \A i \in 1 .. Len(inBuffer) : inBuffer[i] \in Nat
         /\ _O_Buffer \in Seq(Sink!rates \X Nat) /\ Len(_O_Buffer) \in Nat
         /\ Len(_O_Buffer) <= MaxRing
         /\ \A i \in 1 .. Len(_O_Buffer) :
              /\ _O_Buffer[i] \in Sink!rates \X Nat
              /\ Sink!Rate(i) \in Sink!rates /\ Sink!Number(i) \in Nat
         /\ heard \in [Sink!rates -> SUBSET Nat] /\ late \in SUBSET Nat
         /\ 24000 \in Sink!rates /\ 48000 \in Sink!rates
<1>. USE DEF Sink!IInv, Sink!TypeOK, Sink!FramesTyped
<1>1. Len(audioBuffer) \in Nat /\ Len(inBuffer) \in Nat /\ Len(_O_Buffer) \in Nat
  BY LenProperties
<1>2. Sink!Past \in Nat /\ flushed <= Sink!Past
  BY <1>1 DEF Sink!LastMade, Sink!Past
<1>3. \A i \in 1 .. Len(inBuffer) : inBuffer[i] \in Nat
  BY ElementOfSeq
<1>4. \A i \in 1 .. Len(_O_Buffer) : _O_Buffer[i] \in Sink!rates \X Nat
  BY ElementOfSeq
<1>5. \A i \in 1 .. Len(_O_Buffer) : Sink!Rate(i) \in Sink!rates /\ Sink!Number(i) \in Nat
  BY <1>4 DEF Sink!Rate, Sink!Number
<1>6. 24000 \in Sink!rates /\ 48000 \in Sink!rates
  BY DEF Sink!rates
<1>. QED BY <1>1, <1>2, <1>3, <1>4, <1>5, <1>6

\* A step that leaves the frames alone.
LEMMA FramesLeft ==
  ASSUME Sink!IInv, taking' \in Nat \cup {Sink!Idle},
         UNCHANGED <<made, flushed, audioBuffer, signals, inBuffer, _O_Buffer, heard, late>>
  PROVE  Frames'
BY DEF Sink!IInv, Sink!TypeOK, Frames, Sink!FramesTyped, Sink!FrameLeft,
   Sink!LastMade, Sink!Past, Sink!InOrder, Sink!FewLate, Sink!Left, Sink!Number,
   Sink!Rate

\* What may be heard late only becomes less, but for a flush.
LEMMA LessLate ==
  ASSUME Sink!FewLate, Sink!Left' \in SUBSET Sink!Left
  PROVE  Sink!FewLate'
<1>1. /\ IsFiniteSet(Sink!Left) /\ Cardinality(Sink!Left) < Limit
      /\ Cardinality(Sink!Left) \in Nat
  BY SameCardinality, FS_CardinalityType DEF Sink!FewLate
<1>2. /\ IsFiniteSet(Sink!Left') /\ Cardinality(Sink!Left') <= Cardinality(Sink!Left)
      /\ Cardinality(Sink!Left') \in Nat
  BY <1>1, FS_Subset, FS_CardinalityType
<1>3. IsFiniteSet(Sink!Left') /\ Cardinality(Sink!Left') < Limit
  BY <1>1, <1>2, SinkFact
<1>. QED BY <1>3, SameCardinality DEF Sink!FewLate

\* A decoder makes a frame.
LEMMA FramesDecoded ==
  ASSUME Sink!IInv, Sink!Decoded
  PROVE  Frames'
<1>1. /\ made' = made + 1 /\ audioBuffer' = Append(audioBuffer, made + 1)
      /\ UNCHANGED <<flushed, inBuffer, _O_Buffer, heard, late, taking>>
      /\ \E r \in Sink!rates : signals' = Append(signals, r)
  BY DEF Sink!Decoded, Sink!played
<1>2. /\ audioBuffer' \in Seq(Nat) /\ Len(audioBuffer') = Len(audioBuffer) + 1
      /\ \A i \in 1 .. Len(audioBuffer) : audioBuffer'[i] = audioBuffer[i]
      /\ audioBuffer'[Len(audioBuffer) + 1] = made + 1
      /\ audioBuffer' # << >>
  <2>1. made + 1 \in Nat /\ audioBuffer \in Seq(Nat)
    BY FramesFact
  <2>. DEFINE new == Append(audioBuffer, made + 1)
  <2>2. /\ new \in Seq(Nat) /\ Len(new) = Len(audioBuffer) + 1 /\ new # << >>
        /\ \A i \in 1 .. Len(audioBuffer) : new[i] = audioBuffer[i]
        /\ new[Len(audioBuffer) + 1] = made + 1
    BY <2>1, AppendProperties
  <2>. HIDE DEF new
  <2>3. audioBuffer' = new
    BY <1>1 DEF new
  <2>. QED BY <2>2, <2>3
<1>3. signals' \in Seq(Sink!rates) /\ Len(signals') = Len(signals) + 1 /\ Len(signals) \in Nat
  BY <1>1, FramesFact, AppendProperties, LenProperties
<1>4. Sink!Past' = Sink!Past
  BY <1>1, <1>2, FramesFact DEF Sink!Past
<1>5. Sink!FramesTyped'
  BY <1>1, <1>2, <1>3, FramesFact DEF Sink!IInv, Sink!TypeOK, Sink!FramesTyped
<1>6. Sink!FrameLeft'
  BY <1>2 DEF Sink!FrameLeft
<1>7. Sink!LastMade'
  <2>1. ASSUME NEW i \in 1 .. Len(audioBuffer') PROVE audioBuffer'[i] = Sink!Past + i
    <3>1. CASE i = Len(audioBuffer')
      BY <1>2, <3>1, FramesFact DEF Sink!Past
    <3>2. CASE i # Len(audioBuffer')
      <4>1. i \in 1 .. Len(audioBuffer)
        BY <1>2, <3>2, FramesFact
      <4>. QED BY <1>2, <4>1 DEF Sink!IInv, Sink!LastMade
    <3>. QED BY <3>1, <3>2
  <2>. QED BY <1>1, <1>4, <2>1 DEF Sink!IInv, Sink!LastMade
<1>8. Sink!InOrder'
  BY <1>1, <1>4 DEF Sink!IInv, Sink!InOrder, Sink!Number, Sink!Rate
<1>9. Sink!FewLate'
  BY <1>1 DEF Sink!IInv, Sink!FewLate, Sink!Left, Sink!Number
<1>. QED BY <1>5, <1>6, <1>7, <1>8, <1>9 DEF Frames

\* restart empties _O_Buffer: what is left from before is in inBuffer, less
\* than a block.
LEMMA FramesFlushed ==
  ASSUME Sink!IInv, Sink!restart
  PROVE  Frames' /\ ~spoilt'
<1>1. /\ _O_Buffer' = << >> /\ flushed' = Sink!Past /\ late' = {}
      /\ UNCHANGED <<made, audioBuffer, signals, inBuffer, heard, taking>>
      /\ spoilt' = (spoilt \/ taking # Sink!Idle) /\ ~active
  BY DEF Sink!restart, Sink!Restarted, Sink!Flush, Sink!decoding, Sink!Past
<1>2. ~spoilt'
  BY <1>1 DEF Sink!IInv, Sink!CallbackActive
<1>3. Len(_O_Buffer') = 0 /\ _O_Buffer' \in Seq(Sink!rates \X Nat)
  BY <1>1, EmptySeq, Emptiness
<1>4. Sink!FramesTyped'
  <2>1. Len(_O_Buffer') <= MaxRing /\ late' \in SUBSET Nat /\ flushed' \in Nat
    BY <1>1, <1>3, FramesFact, SinkFact
  <2>. QED BY <1>1, <1>3, <2>1 DEF Sink!IInv, Sink!TypeOK, Sink!FramesTyped
<1>5. Sink!FrameLeft' /\ Sink!LastMade'
  <2>1. Sink!Past' = Sink!Past
    BY <1>1 DEF Sink!Past
  <2>. QED BY <1>1, <2>1, FramesFact DEF Sink!IInv, Sink!FrameLeft, Sink!LastMade
<1>6. Sink!InOrder'
  BY <1>1, <1>3 DEF Sink!IInv, Sink!InOrder, Sink!Past
<1>7. Sink!FewLate'
  <2>. DEFINE T == {inBuffer[i] : i \in 1 .. Len(inBuffer)}
              f == [i \in 1 .. Len(inBuffer) |-> inBuffer[i]]
  <2>1. IsFiniteSet(1 .. Len(inBuffer)) /\ Cardinality(1 .. Len(inBuffer)) = Len(inBuffer)
    <3>1. Len(inBuffer) \in Nat
      BY FramesFact
    <3>. HIDE DEF T, f
    <3>2. /\ IsFiniteSet(1 .. Len(inBuffer))
          /\ Cardinality(1 .. Len(inBuffer))
               = IF 1 > Len(inBuffer) THEN 0 ELSE Len(inBuffer) - 1 + 1
      BY <3>1, FS_Interval
    <3>. QED BY <3>1, <3>2
  <2>2. f \in Surjection(1 .. Len(inBuffer), T)
    BY DEF Surjection
  <2>3. IsFiniteSet(T) /\ Cardinality(T) <= Len(inBuffer)
    BY <2>1, <2>2, FS_Surjection
  <2>4. Sink!Left' \in SUBSET T
    BY <1>1, <1>3 DEF Sink!Left
  <2>5. /\ IsFiniteSet(Sink!Left') /\ Cardinality(Sink!Left') <= Cardinality(T)
        /\ Cardinality(Sink!Left') \in Nat /\ Cardinality(T) \in Nat
    BY <2>3, <2>4, FS_Subset, FS_CardinalityType
  <2>6. IsFiniteSet(Sink!Left') /\ Cardinality(Sink!Left') < Limit
    BY <2>3, <2>5, FramesFact, SinkFact
  <2>. QED BY <2>6, SameCardinality DEF Sink!FewLate
<1>. QED BY <1>2, <1>4, <1>5, <1>6, <1>7 DEF Frames

\* What audioOutput leaves in the buffer.
LEMMA PutOut ==
  ASSUME Sink!IInv, NEW r \in Sink!rates, NEW F \in Seq(Nat), Sink!audioOutput(F, r)
  PROVE  /\ _O_Buffer' \in Seq(Sink!rates \X Nat) /\ Len(_O_Buffer') <= MaxRing
         /\ Len(_O_Buffer') \in Nat
         /\ \A i \in 1 .. Len(_O_Buffer') :
              \/ i \in 1 .. Len(_O_Buffer) /\ _O_Buffer'[i] = _O_Buffer[i]
              \/ /\ i > Len(_O_Buffer) /\ i - Len(_O_Buffer) \in 1 .. Len(F)
                 /\ _O_Buffer'[i] = <<r, F[i - Len(_O_Buffer)]>>
<1>. DEFINE T   == [i \in DOMAIN F |-> <<r, F[i]>>]
            all == _O_Buffer \o T
            top == IF Len(all) < MaxRing THEN Len(all) ELSE MaxRing
<1>1. /\ Len(F) \in Nat /\ DOMAIN F = 1 .. Len(F)
      /\ \A i \in 1 .. Len(F) : F[i] \in Nat
  BY LenProperties, ElementOfSeq
<1>2. T \in Seq(Sink!rates \X Nat) /\ Len(T) = Len(F)
      /\ \A i \in 1 .. Len(F) : T[i] = <<r, F[i]>>
  BY <1>1
<1>3. _O_Buffer \in Seq(Sink!rates \X Nat) /\ Len(_O_Buffer) \in Nat
      /\ MaxRing \in Nat
  BY FramesFact, SinkFact
<1>. HIDE DEF T
<1>4. /\ all \in Seq(Sink!rates \X Nat) /\ Len(all) = Len(_O_Buffer) + Len(F)
      /\ \A i \in 1 .. Len(_O_Buffer) + Len(F) :
           all[i] = IF i <= Len(_O_Buffer) THEN _O_Buffer[i] ELSE T[i - Len(_O_Buffer)]
  <2>. DEFINE S == Sink!rates \X Nat
  <2>. HIDE DEF S
  <2>1. _O_Buffer \in Seq(S) /\ T \in Seq(S)
    BY <1>2, <1>3 DEF S
  <2>2. /\ all \in Seq(S) /\ Len(all) = Len(_O_Buffer) + Len(T)
        /\ \A i \in 1 .. Len(_O_Buffer) + Len(T) :
             all[i] = IF i <= Len(_O_Buffer) THEN _O_Buffer[i] ELSE T[i - Len(_O_Buffer)]
    BY <2>1, ConcatProperties
  <2>. HIDE DEF all
  <2>. QED BY <1>2, <2>2 DEF S
<1>5. _O_Buffer' = SubSeq(all, 1, top)
  BY DEF Sink!audioOutput, T
<1>. HIDE DEF all
<1>6. /\ top \in Nat /\ top <= Len(all) /\ top <= MaxRing /\ Len(all) \in Nat
  BY <1>1, <1>3, <1>4
<1>7. \A i \in 1 .. Len(all) : all[i] \in Sink!rates \X Nat
  BY <1>4, ElementOfSeq
<1>. HIDE DEF top
<1>8. /\ _O_Buffer' \in Seq(Sink!rates \X Nat) /\ Len(_O_Buffer') = top
      /\ \A i \in 1 .. top : _O_Buffer'[i] = all[i]
  <2>1. \A i \in 1 .. top : all[i] \in Sink!rates \X Nat
    BY <1>6, <1>7
  <2>2. /\ SubSeq(all, 1, top) \in Seq(Sink!rates \X Nat)
        /\ Len(SubSeq(all, 1, top)) = IF 1 <= top THEN top - 1 + 1 ELSE 0
        /\ \A i \in 1 .. top - 1 + 1 : SubSeq(all, 1, top)[i] = all[1 + i - 1]
    BY <1>6, <2>1, SubSeqProperties
  <2>. QED BY <1>5, <1>6, <2>2
<1>9. ASSUME NEW i \in 1 .. Len(_O_Buffer')
      PROVE  \/ i \in 1 .. Len(_O_Buffer) /\ _O_Buffer'[i] = _O_Buffer[i]
             \/ /\ i > Len(_O_Buffer) /\ i - Len(_O_Buffer) \in 1 .. Len(F)
                /\ _O_Buffer'[i] = <<r, F[i - Len(_O_Buffer)]>>
  <2>1. i \in 1 .. top /\ i \in 1 .. Len(_O_Buffer) + Len(F)
    BY <1>1, <1>3, <1>4, <1>6, <1>8
  <2>2. _O_Buffer'[i] = all[i]
    BY <1>8, <2>1
  <2>3. CASE i <= Len(_O_Buffer)
    BY <1>3, <1>4, <2>1, <2>2, <2>3
  <2>4. CASE i > Len(_O_Buffer)
    <3>1. i - Len(_O_Buffer) \in 1 .. Len(F)
      BY <1>1, <1>3, <2>1, <2>4
    <3>2. all[i] = T[i - Len(_O_Buffer)]
      BY <1>3, <1>4, <2>1, <2>4
    <3>. QED BY <1>2, <2>2, <2>4, <3>1, <3>2
  <2>. QED BY <1>3, <2>3, <2>4
<1>. QED BY <1>6, <1>8, <1>9

\* The order of the frames, one part at a time.
LEMMA OrderFact ==
  ASSUME Sink!IInv
  PROVE  /\ \A i \in 1 .. Len(inBuffer) : inBuffer[i] <= Sink!Past
         /\ \A i, j \in 1 .. Len(inBuffer) : i < j => inBuffer[i] < inBuffer[j]
         /\ \A i \in 1 .. Len(_O_Buffer) :
              /\ Sink!Number(i) <= Sink!Past
              /\ \A n \in heard[Sink!Rate(i)] : n < Sink!Number(i)
              /\ \A j \in 1 .. i - 1 :
                   Sink!Rate(j) = Sink!Rate(i) => Sink!Number(j) < Sink!Number(i)
              /\ Sink!Rate(i) = 24000 =>
                   \A j \in 1 .. Len(inBuffer) : Sink!Number(i) < inBuffer[j]
         /\ \A q \in Sink!rates : \A m \in heard[q] : m <= Sink!Past /\ m \in Nat
         /\ \A n \in heard[24000] : \A j \in 1 .. Len(inBuffer) : n < inBuffer[j]
<1>1. Sink!InOrder
  BY DEF Sink!IInv
<1>2. \A q \in Sink!rates : \A m \in heard[q] : m \in Nat
  BY FramesFact
<1>3. \A q \in Sink!rates : \A m \in heard[q] : m <= Sink!Past
  BY <1>1 DEF Sink!InOrder
<1>4. /\ \A i \in 1 .. Len(inBuffer) : inBuffer[i] <= Sink!Past
      /\ \A i, j \in 1 .. Len(inBuffer) : i < j => inBuffer[i] < inBuffer[j]
      /\ \A n \in heard[24000] : \A j \in 1 .. Len(inBuffer) : n < inBuffer[j]
  BY <1>1 DEF Sink!InOrder
<1>5. \A i \in 1 .. Len(_O_Buffer) :
        /\ Sink!Number(i) <= Sink!Past
        /\ \A n \in heard[Sink!Rate(i)] : n < Sink!Number(i)
        /\ \A j \in 1 .. i - 1 :
             Sink!Rate(j) = Sink!Rate(i) => Sink!Number(j) < Sink!Number(i)
        /\ Sink!Rate(i) = 24000 =>
             \A j \in 1 .. Len(inBuffer) : Sink!Number(i) < inBuffer[j]
  BY <1>1 DEF Sink!InOrder
<1>. QED BY <1>2, <1>3, <1>4, <1>5

\* The same of one frame of _O_Buffer.
LEMMA OrderAt ==
  ASSUME Sink!IInv, NEW i \in 1 .. Len(_O_Buffer)
  PROVE  /\ Sink!Number(i) <= Sink!Past /\ Sink!Number(i) \in Nat
         /\ \A m \in heard[Sink!Rate(i)] : m < Sink!Number(i)
         /\ \A j \in 1 .. i - 1 : Sink!Rate(j) = Sink!Rate(i) => Sink!Number(j) < Sink!Number(i)
<1>1. Sink!Number(i) \in Nat
  BY FramesFact
<1>2. /\ Sink!Number(i) <= Sink!Past
      /\ \A m \in heard[Sink!Rate(i)] : m < Sink!Number(i)
      /\ \A j \in 1 .. i - 1 : Sink!Rate(j) = Sink!Rate(i) => Sink!Number(j) < Sink!Number(i)
  BY OrderFact
<1>. QED BY <1>1, <1>2

\* The frames that are put out, F, and those the converter keeps are in the
\* order of their making.
LEMMA PutEach ==
  ASSUME Sink!IInv, NEW r \in Sink!rates, NEW F \in Seq(Nat), Sink!audioOutput(F, r),
         NEW i \in 1 .. Len(_O_Buffer')
  PROVE  \/ /\ i \in 1 .. Len(_O_Buffer)
            /\ Sink!Rate(i)' = Sink!Rate(i) /\ Sink!Number(i)' = Sink!Number(i)
         \/ /\ i > Len(_O_Buffer) /\ i - Len(_O_Buffer) \in 1 .. Len(F)
            /\ Sink!Rate(i)' = r /\ Sink!Number(i)' = F[i - Len(_O_Buffer)]
<1>1. \/ i \in 1 .. Len(_O_Buffer) /\ _O_Buffer'[i] = _O_Buffer[i]
      \/ /\ i > Len(_O_Buffer) /\ i - Len(_O_Buffer) \in 1 .. Len(F)
         /\ _O_Buffer'[i] = <<r, F[i - Len(_O_Buffer)]>>
  BY PutOut
<1>2. Sink!Rate(i)' = _O_Buffer'[i][1] /\ Sink!Number(i)' = _O_Buffer'[i][2]
  BY DEF Sink!Rate, Sink!Number
<1>. QED BY <1>1, <1>2 DEF Sink!Rate, Sink!Number

OutOrdered(F, r) ==
  /\ \A i \in 1 .. Len(F) : F[i] <= Sink!Past'
  /\ \A i, j \in 1 .. Len(F) : i < j => F[i] < F[j]
  /\ \A i \in 1 .. Len(F) : \A n \in heard[r] : n < F[i]
  /\ \A i \in 1 .. Len(F) : \A k \in 1 .. Len(_O_Buffer) :
       Sink!Rate(k) = r => Sink!Number(k) < F[i]
  /\ r = 24000 => \A i \in 1 .. Len(F), j \in 1 .. Len(inBuffer') :
                    F[i] < inBuffer'[j]
KeptOrdered ==
  /\ inBuffer' \in Seq(Nat)
  /\ \A i \in 1 .. Len(inBuffer') : inBuffer'[i] <= Sink!Past'
  /\ \A i, j \in 1 .. Len(inBuffer') : i < j => inBuffer'[i] < inBuffer'[j]
  /\ \A k \in 1 .. Len(_O_Buffer), j \in 1 .. Len(inBuffer') :
       Sink!Rate(k) = 24000 => Sink!Number(k) < inBuffer'[j]
  /\ \A n \in heard[24000], j \in 1 .. Len(inBuffer') : n < inBuffer'[j]

LEMMA PutInOrder ==
  ASSUME Sink!IInv, NEW r \in Sink!rates, NEW F \in Seq(Nat),
         Sink!audioOutput(F, r), heard' = heard,
         Sink!Past' \in Nat, Sink!Past <= Sink!Past', OutOrdered(F, r), KeptOrdered
  PROVE  Sink!InOrder'
<1>. USE DEF OutOrdered, KeptOrdered
<1>. DEFINE n == Len(_O_Buffer)
<1>1. ASSUME NEW i \in 1 .. Len(_O_Buffer')
      PROVE  \/ /\ i \in 1 .. n
                /\ Sink!Rate(i)' = Sink!Rate(i) /\ Sink!Number(i)' = Sink!Number(i)
             \/ /\ i > n /\ i - n \in 1 .. Len(F)
                /\ Sink!Rate(i)' = r /\ Sink!Number(i)' = F[i - n]
  BY PutEach
<1>2. Len(_O_Buffer') \in Nat /\ n \in Nat /\ Len(F) \in Nat /\ Len(inBuffer') \in Nat
  BY PutOut, FramesFact, LenProperties
<1>3. ASSUME NEW i \in 1 .. Len(_O_Buffer')
      PROVE  /\ Sink!Number(i)' <= Sink!Past'
             /\ \A m \in heard[Sink!Rate(i)'] : m < Sink!Number(i)'
             /\ \A j \in 1 .. i - 1 : Sink!Rate(j)' = Sink!Rate(i)' => Sink!Number(j)' < Sink!Number(i)'
             /\ Sink!Rate(i)' = 24000 => \A j \in 1 .. Len(inBuffer') : Sink!Number(i)' < inBuffer'[j]
  <2>0. \A j \in 1 .. i - 1 : j \in 1 .. Len(_O_Buffer') /\ j < i
    BY <1>2
  <2>1. CASE /\ i \in 1 .. n
             /\ Sink!Rate(i)' = Sink!Rate(i) /\ Sink!Number(i)' = Sink!Number(i)
    <3>1. /\ Sink!Number(i) <= Sink!Past /\ Sink!Number(i) \in Nat
          /\ \A m \in heard[Sink!Rate(i)] : m < Sink!Number(i)
          /\ \A j \in 1 .. i - 1 : Sink!Rate(j) = Sink!Rate(i) => Sink!Number(j) < Sink!Number(i)
      <4>. HIDE DEF OutOrdered, KeptOrdered
      <4>1. i \in 1 .. Len(_O_Buffer)
        BY <2>1
      <4>. QED BY <4>1, OrderAt
    <3>2. ASSUME NEW j \in 1 .. i - 1
          PROVE  Sink!Rate(j)' = Sink!Rate(j) /\ Sink!Number(j)' = Sink!Number(j)
      <4>1. j \in 1 .. Len(_O_Buffer') /\ ~(j > n)
        BY <1>2, <2>0, <2>1
      <4>. QED BY <1>1, <4>1
    <3>3. Sink!Number(i) <= Sink!Past'
      BY <3>1, FramesFact
    <3>4. Sink!Rate(i) = 24000 => \A j \in 1 .. Len(inBuffer') : Sink!Number(i) < inBuffer'[j]
      BY <2>1
    <3>. QED BY <2>1, <3>1, <3>2, <3>3, <3>4
  <2>2. CASE /\ i > n /\ i - n \in 1 .. Len(F)
             /\ Sink!Rate(i)' = r /\ Sink!Number(i)' = F[i - n]
    <3>1. ASSUME NEW j \in 1 .. i - 1, Sink!Rate(j)' = r
          PROVE  Sink!Number(j)' < F[i - n]
      <4>1. CASE j \in 1 .. n /\ Sink!Rate(j)' = Sink!Rate(j) /\ Sink!Number(j)' = Sink!Number(j)
        <5>1. \A k \in 1 .. n : Sink!Rate(k) = r => Sink!Number(k) < F[i - n]
          BY <2>2
        <5>. HIDE DEF n
        <5>. QED BY <3>1, <4>1, <5>1
      <4>2. CASE j > n /\ j - n \in 1 .. Len(F) /\ Sink!Number(j)' = F[j - n]
        <5>. DEFINE a == j - n
                    b == i - n
        <5>1. a \in 1 .. Len(F) /\ b \in 1 .. Len(F) /\ a < b /\ Sink!Number(j)' = F[a]
          BY <1>2, <2>2, <4>2
        <5>. HIDE DEF a, b
        <5>2. F[a] < F[b]
          BY <5>1
        <5>. QED BY <5>1, <5>2 DEF b
      <4>. QED BY <1>1, <2>0, <4>1, <4>2
    <3>. QED BY <2>2, <3>1
  <2>. QED BY <1>1, <2>1, <2>2
<1>4. \A q \in Sink!rates : \A m \in heard[q] : m <= Sink!Past'
  <2>1. \A q \in Sink!rates : \A m \in heard[q] : m <= Sink!Past /\ m \in Nat
    BY OrderFact
  <2>. QED BY <2>1, FramesFact
<1>. QED BY <1>3, <1>4 DEF Sink!InOrder

\* None of them is late that was not before.
LEMMA PutLate ==
  ASSUME Sink!IInv, NEW r \in Sink!rates, NEW F \in Seq(Nat),
         Sink!audioOutput(F, r), inBuffer' \in Seq(Nat), UNCHANGED <<late, flushed>>,
         \A i \in 1 .. Len(F) : F[i] <= flushed =>
           \E k \in 1 .. Len(inBuffer) : F[i] = inBuffer[k],
         \A i \in 1 .. Len(inBuffer') : inBuffer'[i] <= flushed =>
           \E k \in 1 .. Len(inBuffer) : inBuffer'[i] = inBuffer[k]
  PROVE  Sink!FewLate'
<1>1. SUFFICES ASSUME NEW x \in Sink!Left' PROVE x \in Sink!Left
  BY LessLate DEF Sink!IInv
<1>2. CASE x \in late
  BY <1>2 DEF Sink!Left
<1>3. CASE \E i \in 1 .. Len(inBuffer') : x = inBuffer'[i] /\ inBuffer'[i] <= flushed
  <2>1. PICK k \in 1 .. Len(inBuffer) : x = inBuffer[k] /\ inBuffer[k] <= flushed
    BY <1>3, Zenon
  <2>. QED BY <2>1 DEF Sink!Left
<1>4. CASE \E i \in 1 .. Len(_O_Buffer') : x = Sink!Number(i)' /\ Sink!Number(i)' <= flushed
  <2>1. PICK i \in 1 .. Len(_O_Buffer') : x = Sink!Number(i)' /\ Sink!Number(i)' <= flushed
    BY <1>4
  <2>2. CASE i \in 1 .. Len(_O_Buffer) /\ Sink!Number(i)' = Sink!Number(i)
    BY <2>1, <2>2 DEF Sink!Left
  <2>3. CASE i - Len(_O_Buffer) \in 1 .. Len(F) /\ Sink!Number(i)' = F[i - Len(_O_Buffer)]
    <3>1. PICK k \in 1 .. Len(inBuffer) : x = inBuffer[k] /\ inBuffer[k] <= flushed
      BY <2>1, <2>3, Zenon
    <3>. QED BY <3>1 DEF Sink!Left
  <2>. QED BY <2>2, <2>3, PutEach
<1>. QED BY <1>1, <1>2, <1>3, <1>4 DEF Sink!Left

\* How much of a sequence is whole blocks.
LEMMA BlocksFact ==
  ASSUME NEW seq, Len(seq) \in Nat
  PROVE  /\ Sink!Blocks(seq) \in Nat /\ Sink!Blocks(seq) <= Len(seq)
         /\ Len(seq) - Sink!Blocks(seq) < Limit
<1>. DEFINE q == Len(seq) \div Limit
            m == Len(seq) % Limit
<1>1. q \in Nat /\ m \in 0 .. Limit - 1 /\ Len(seq) = Limit * q + m /\ Limit \in Nat
  BY SinkFact
<1>2. Sink!Blocks(seq) = q * Limit
  BY DEF Sink!Blocks
<1>. HIDE DEF q, m
<1>3. q * Limit = Limit * q /\ q * Limit \in Nat
  BY <1>1
<1>. QED BY <1>1, <1>2, <1>3

\* What newAudio takes out of audioBuffer.
LEMMA TakenFact ==
  ASSUME Sink!IInv, Sink!newAudio
  PROVE  LET fr == Sink!Front(audioBuffer)
         IN /\ Head(signals) \in Sink!rates
            /\ signals' \in Seq(Sink!rates) /\ Len(signals') \in Nat
            /\ fr \in Seq(Nat) /\ Len(fr) = Len(audioBuffer) - 1
            /\ \A i \in 1 .. Len(fr) : fr[i] = Sink!Past + i
            /\ audioBuffer' = <<made>>
            /\ Sink!Past' = Sink!Past + Len(fr) /\ Sink!Past' = made - 1
            /\ Len(fr) \in Nat
<1>1. signals # << >> /\ audioBuffer # << >> /\ signals' = Tail(signals)
  BY DEF Sink!newAudio, Sink!IInv, Sink!FrameLeft
<1>2. /\ Head(signals) \in Sink!rates
      /\ signals' \in Seq(Sink!rates) /\ Len(signals') \in Nat
  BY <1>1, FramesFact, HeadTailProperties, LenProperties
<1>. DEFINE n == Len(audioBuffer)
            fr == Sink!Front(audioBuffer)
<1>3. n \in Nat \ {0} /\ audioBuffer \in Seq(Nat)
  BY <1>1, FramesFact, EmptySeq
<1>4. \A i \in 1 .. n : audioBuffer[i] = Sink!Past + i /\ audioBuffer[i] \in Nat
  BY <1>3, ElementOfSeq DEF Sink!IInv, Sink!LastMade
<1>5. Sink!Past = made - n /\ made \in Nat
  BY FramesFact DEF Sink!Past
<1>6. audioBuffer' = <<audioBuffer[n]>> /\ made' = made
  BY DEF Sink!newAudio, Sink!Last
<1>. HIDE DEF n
<1>7. audioBuffer[n] = made
  BY <1>3, <1>4, <1>5
<1>8. /\ fr \in Seq(Nat) /\ Len(fr) = n - 1
      /\ \A i \in 1 .. n - 1 : fr[i] = audioBuffer[i]
  <2>1. /\ SubSeq(audioBuffer, 1, n - 1) \in Seq(Nat)
        /\ Len(SubSeq(audioBuffer, 1, n - 1)) = IF 1 <= n - 1 THEN (n - 1) - 1 + 1 ELSE 0
        /\ \A i \in 1 .. (n - 1) - 1 + 1 : SubSeq(audioBuffer, 1, n - 1)[i] = audioBuffer[1 + i - 1]
    <3>1. \A i \in 1 .. n - 1 : audioBuffer[i] \in Nat
      BY <1>3, <1>4
    <3>2. n - 1 \in Int
      BY <1>3
    <3>. QED BY <3>1, <3>2, SubSeqProperties
  <2>2. fr = SubSeq(audioBuffer, 1, n - 1)
    BY DEF Sink!Front, n
  <2>. HIDE DEF fr
  <2>. QED BY <1>3, <2>1, <2>2
<1>. HIDE DEF fr
<1>9. audioBuffer' = <<made>> /\ Len(audioBuffer') = 1
  BY <1>6, <1>7
<1>10. Sink!Past' = made - 1
  BY <1>6, <1>9 DEF Sink!Past
<1>. QED BY <1>2, <1>3, <1>4, <1>5, <1>8, <1>9, <1>10 DEF fr, n

\* newAudio.
LEMMA FramesPut ==
  ASSUME Sink!IInv, Sink!newAudio
  PROVE  Frames'
<1>. DEFINE fr == Sink!Front(audioBuffer)
            r  == Head(signals)
<1>1. /\ UNCHANGED <<made, flushed, heard, late, taking>>
      /\ Sink!audioOut(fr, r)
  BY DEF Sink!newAudio, Sink!played
<1>2. /\ r \in Sink!rates
      /\ signals' \in Seq(Sink!rates) /\ Len(signals') \in Nat
      /\ fr \in Seq(Nat) /\ Len(fr) \in Nat
      /\ \A i \in 1 .. Len(fr) : fr[i] = Sink!Past + i
      /\ audioBuffer' = <<made>>
      /\ Sink!Past' = Sink!Past + Len(fr) /\ Sink!Past' = made - 1
  BY TakenFact
<1>. HIDE DEF fr, r
<1>3. /\ Sink!Past \in Nat /\ Sink!Past' \in Nat /\ Sink!Past <= Sink!Past'
      /\ flushed <= Sink!Past /\ flushed \in Nat
  BY <1>2, FramesFact
<1>. DEFINE Placed ==
       /\ Sink!InOrder' /\ Sink!FewLate'
       /\ _O_Buffer' \in Seq(Sink!rates \X Nat) /\ Len(_O_Buffer') <= MaxRing
       /\ inBuffer' \in Seq(Nat) /\ Len(inBuffer') < Limit
<1>4. ASSUME r = 48000 PROVE Placed
  <2>1. Sink!audioOutput(fr, r) /\ inBuffer' = inBuffer
    BY <1>1, <1>4 DEF Sink!audioOut
  <2>2. Sink!InOrder'
    <3>1. OutOrdered(fr, r)
      <4>1. \A i \in 1 .. Len(fr) : fr[i] <= Sink!Past' /\ fr[i] > Sink!Past /\ fr[i] \in Nat
        BY <1>2, <1>3
      <4>2. \A i, j \in 1 .. Len(fr) : i < j => fr[i] < fr[j]
        BY <1>2, <1>3
      <4>3. \A i \in 1 .. Len(fr) : \A n \in heard[r] : n < fr[i]
        BY <1>2, <1>3, <4>1, OrderFact
      <4>4. \A i \in 1 .. Len(fr) : \A k \in 1 .. Len(_O_Buffer) :
              Sink!Number(k) < fr[i]
        <5>1. \A k \in 1 .. Len(_O_Buffer) :
                Sink!Number(k) <= Sink!Past /\ Sink!Number(k) \in Nat
          BY OrderFact, FramesFact
        <5>. QED BY <1>3, <4>1, <5>1
      <4>. QED BY <1>4, <4>1, <4>2, <4>3, <4>4 DEF OutOrdered
    <3>2. KeptOrdered
      <4>1. \A i \in 1 .. Len(inBuffer) : inBuffer[i] <= Sink!Past'
        BY <1>3, OrderFact, FramesFact
      <4>. QED BY <2>1, <4>1, OrderFact, FramesFact DEF KeptOrdered
    <3>. QED BY <1>1, <1>2, <1>3, <2>1, <3>1, <3>2, PutInOrder
  <2>3. Sink!FewLate'
    <3>1. \A i \in 1 .. Len(fr) : ~(fr[i] <= flushed)
      BY <1>2, <1>3
    <3>2. /\ inBuffer' \in Seq(Nat)
          /\ \A i \in 1 .. Len(inBuffer') : inBuffer'[i] <= flushed =>
               \E k \in 1 .. Len(inBuffer) : inBuffer'[i] = inBuffer[k]
      BY <2>1, FramesFact
    <3>. QED BY <1>1, <1>2, <2>1, <3>1, <3>2, PutLate
  <2>4. /\ _O_Buffer' \in Seq(Sink!rates \X Nat) /\ Len(_O_Buffer') <= MaxRing
    BY <1>2, <2>1, PutOut
  <2>5. inBuffer' \in Seq(Nat) /\ Len(inBuffer') < Limit
    BY <2>1, FramesFact
  <2>. QED BY <2>2, <2>3, <2>4, <2>5
<1>5. ASSUME r = 24000 PROVE Placed
  <2>. DEFINE inp == inBuffer \o fr
              B == Sink!Blocks(inp)
              n == Len(inBuffer)
              F == SubSeq(inp, 1, B)
              K == SubSeq(inp, B + 1, Len(inp))
  <2>1. Sink!audioOutput(F, r) /\ inBuffer' = K
    <3>1. r # 48000
      BY <1>5
    <3>2. /\ Sink!audioOutput(SubSeq(inBuffer \o fr, 1, Sink!Blocks(inBuffer \o fr)), r)
          /\ inBuffer' = Sink!Rest(inBuffer \o fr)
      <4>. HIDE DEF inp, B, F, K
      <4>. QED BY <1>1, <3>1, SMT DEF Sink!audioOut
    <3>3. inBuffer' = K
      BY <3>2 DEF Sink!Rest
    <3>. QED BY <3>2, <3>3
  <2>2. n \in Nat /\ inBuffer \in Seq(Nat)
    BY FramesFact
  <2>3. /\ inp \in Seq(Nat) /\ Len(inp) = n + Len(fr)
        /\ \A i \in 1 .. n + Len(fr) :
             inp[i] = IF i <= n THEN inBuffer[i] ELSE fr[i - n]
    BY <1>2, <2>2, ConcatProperties
  <2>. HIDE DEF inp, n
  <2>4. B \in Nat /\ B <= Len(inp) /\ Len(inp) - B < Limit /\ Len(inp) \in Nat
    BY <1>2, <2>2, <2>3, BlocksFact
  <2>. HIDE DEF B
  <2>5. ASSUME NEW i \in 1 .. Len(inp)
        PROVE  \/ i \in 1 .. n /\ inp[i] = inBuffer[i]
               \/ i > n /\ i - n \in 1 .. Len(fr) /\ inp[i] = Sink!Past + (i - n)
    <3>1. CASE i <= n
      BY <2>2, <2>3, <3>1
    <3>2. CASE i > n
      <4>1. i - n \in 1 .. Len(fr) /\ inp[i] = fr[i - n]
        BY <1>2, <2>2, <2>3, <3>2
      <4>. QED BY <1>2, <3>2, <4>1
    <3>. QED BY <2>2, <2>3, <3>1, <3>2
  <2>6. \A i \in 1 .. Len(inp) : inp[i] \in Nat
    BY <2>3, ElementOfSeq
  <2>7. ASSUME NEW i \in 1 .. Len(inp)
        PROVE  /\ inp[i] <= Sink!Past'
               /\ \A m \in heard[24000] : m < inp[i]
               /\ \A k \in 1 .. Len(_O_Buffer) : Sink!Rate(k) = 24000 => Sink!Number(k) < inp[i]
               /\ inp[i] <= flushed => \E k \in 1 .. Len(inBuffer) : inp[i] = inBuffer[k]
    <3>1. CASE i \in 1 .. n /\ inp[i] = inBuffer[i]
      <4>1. inBuffer[i] <= Sink!Past
        BY <3>1, OrderFact DEF n
      <4>2. inp[i] <= Sink!Past'
        BY <1>3, <2>6, <3>1, <4>1
      <4>. QED BY <3>1, <4>2, OrderFact DEF n
    <3>2. CASE i > n /\ i - n \in 1 .. Len(fr) /\ inp[i] = Sink!Past + (i - n)
      <4>1. inp[i] > Sink!Past /\ inp[i] <= Sink!Past' /\ inp[i] \in Nat
        BY <1>2, <1>3, <2>6, <3>2
      <4>2. \A k \in 1 .. Len(_O_Buffer) :
              Sink!Number(k) <= Sink!Past /\ Sink!Number(k) \in Nat
        BY OrderFact, FramesFact
      <4>3. \A m \in heard[24000] : m <= Sink!Past /\ m \in Nat
        BY OrderFact, FramesFact
      <4>. QED BY <1>3, <4>1, <4>2, <4>3
    <3>. QED BY <2>5, <3>1, <3>2
  <2>8. ASSUME NEW i \in 1 .. Len(inp), NEW j \in 1 .. Len(inp), i < j
        PROVE  inp[i] < inp[j]
    <3>1. CASE j \in 1 .. n
      <4>1. i \in 1 .. n /\ inp[i] = inBuffer[i] /\ inp[j] = inBuffer[j]
        BY <2>2, <2>3, <2>8, <3>1
      <4>. QED BY <2>8, <3>1, <4>1, OrderFact DEF n
    <3>2. CASE i \in 1 .. n /\ j \notin 1 .. n
      <4>1. inp[i] <= Sink!Past
        BY <2>5, <3>2, OrderFact DEF n
      <4>2. inp[j] > Sink!Past
        BY <1>3, <2>5, <3>2
      <4>. QED BY <1>3, <2>6, <4>1, <4>2
    <3>3. CASE i \notin 1 .. n /\ j \notin 1 .. n
      <4>1. inp[i] = Sink!Past + (i - n) /\ inp[j] = Sink!Past + (j - n)
        BY <2>5, <3>3
      <4>. QED BY <1>3, <2>2, <2>8, <4>1
    <3>. QED BY <2>2, <2>8, <3>1, <3>2, <3>3
  <2>9. /\ F \in Seq(Nat) /\ Len(F) = B
        /\ \A i \in 1 .. B : F[i] = inp[i]
    <3>1. \A i \in 1 .. B : inp[i] \in Nat
      BY <2>4, <2>6
    <3>2. /\ F \in Seq(Nat) /\ Len(F) = IF 1 <= B THEN B - 1 + 1 ELSE 0
          /\ \A i \in 1 .. B - 1 + 1 : F[i] = inp[1 + i - 1]
      BY <2>4, <3>1, SubSeqProperties
    <3>. HIDE DEF F
    <3>. QED BY <2>4, <3>2
  <2>10. /\ K \in Seq(Nat) /\ Len(K) = Len(inp) - B
         /\ \A i \in 1 .. Len(inp) - B : K[i] = inp[B + i]
    <3>1. \A i \in B + 1 .. Len(inp) : inp[i] \in Nat
      BY <2>4, <2>6
    <3>2. B + 1 \in Int /\ Len(inp) \in Int
      BY <2>4
    <3>3. /\ K \in Seq(Nat)
          /\ Len(K) = IF B + 1 <= Len(inp) THEN Len(inp) - (B + 1) + 1 ELSE 0
          /\ \A i \in 1 .. Len(inp) - (B + 1) + 1 : K[i] = inp[(B + 1) + i - 1]
      BY <3>1, <3>2, SubSeqProperties
    <3>. HIDE DEF K
    <3>. QED BY <2>4, <3>3
  <2>. HIDE DEF F, K
  <2>11. /\ \A i \in 1 .. Len(F) : i \in 1 .. Len(inp) /\ F[i] = inp[i]
         /\ \A i \in 1 .. Len(K) : B + i \in 1 .. Len(inp) /\ K[i] = inp[B + i]
    BY <2>4, <2>9, <2>10
  <2>12. OutOrdered(F, r)
    <3>1. \A i, j \in 1 .. Len(F) : i < j => F[i] < F[j]
      BY <2>8, <2>11
    <3>2. \A i \in 1 .. Len(F), j \in 1 .. Len(K) : i < B + j
      BY <2>4, <2>9, <2>10
    <3>3. \A i \in 1 .. Len(F), j \in 1 .. Len(K) : F[i] < K[j]
      BY <2>8, <2>11, <3>2
    <3>4. \A i \in 1 .. Len(F) :
            /\ F[i] <= Sink!Past'
            /\ \A m \in heard[r] : m < F[i]
            /\ \A k \in 1 .. Len(_O_Buffer) : Sink!Rate(k) = r => Sink!Number(k) < F[i]
      BY <1>5, <2>7, <2>11
    <3>. QED BY <2>1, <3>1, <3>3, <3>4 DEF OutOrdered
  <2>13. KeptOrdered
    <3>1. ASSUME NEW i \in 1 .. Len(K), NEW j \in 1 .. Len(K), i < j
          PROVE  K[i] < K[j]
      <4>1. B + i \in 1 .. Len(inp) /\ B + j \in 1 .. Len(inp) /\ B + i < B + j
        BY <2>4, <2>11, <3>1
      <4>. QED BY <2>8, <2>11, <4>1
    <3>2. ASSUME NEW j \in 1 .. Len(K)
          PROVE  /\ K[j] <= Sink!Past'
                 /\ \A m \in heard[24000] : m < K[j]
                 /\ \A k \in 1 .. Len(_O_Buffer) :
                      Sink!Rate(k) = 24000 => Sink!Number(k) < K[j]
      BY <2>7, <2>11
    <3>3. K \in Seq(Nat)
      BY <2>10
    <3>. QED BY <2>1, <3>1, <3>2, <3>3 DEF KeptOrdered
  <2>14. Sink!InOrder'
    BY <1>1, <1>2, <1>3, <2>1, <2>9, <2>12, <2>13, PutInOrder
  <2>15. Sink!FewLate'
    <3>1. \A i \in 1 .. Len(F) : F[i] <= flushed =>
            \E k \in 1 .. Len(inBuffer) : F[i] = inBuffer[k]
      BY <2>7, <2>11
    <3>2. \A i \in 1 .. Len(K) : K[i] <= flushed =>
            \E k \in 1 .. Len(inBuffer) : K[i] = inBuffer[k]
      BY <2>7, <2>11
    <3>. QED BY <1>1, <1>2, <2>1, <2>9, <2>10, <3>1, <3>2, PutLate
  <2>16. /\ _O_Buffer' \in Seq(Sink!rates \X Nat) /\ Len(_O_Buffer') <= MaxRing
    BY <1>2, <2>1, <2>9, PutOut
  <2>. QED BY <2>1, <2>4, <2>10, <2>14, <2>15, <2>16
<1>6. Placed
  BY <1>2, <1>4, <1>5 DEF Sink!rates
<1>7. /\ audioBuffer' \in Seq(Nat) /\ Len(audioBuffer') = 1 /\ audioBuffer' # << >>
      /\ audioBuffer'[1] = made /\ made \in Nat
  BY <1>2, FramesFact
<1>8. Sink!FramesTyped'
  BY <1>1, <1>2, <1>6, <1>7, FramesFact DEF Sink!IInv, Sink!TypeOK, Sink!FramesTyped
<1>9. Sink!LastMade'
  <2>1. ASSUME NEW i \in 1 .. Len(audioBuffer') PROVE audioBuffer'[i] = Sink!Past' + i
    <3>1. i = 1
      BY <1>7
    <3>2. Sink!Past' + 1 = made
      BY <1>2, <1>7
    <3>. QED BY <1>7, <3>1, <3>2
  <2>2. Sink!Past' >= 0 /\ flushed' <= Sink!Past'
    BY <1>1, <1>3
  <2>. QED BY <2>1, <2>2 DEF Sink!LastMade
<1>10. Sink!FrameLeft'
  BY <1>7 DEF Sink!FrameLeft
<1>. QED BY <1>6, <1>8, <1>9, <1>10 DEF Frames

\* What the callback has taken is heard.
LEMMA CallbackFact ==
  ASSUME Sink!IInv, Sink!CallbackEnds
  PROVE  /\ taking \in 0 .. Len(_O_Buffer) /\ taking' = Sink!Idle
         /\ _O_Buffer' = SubSeq(_O_Buffer, taking + 1, Len(_O_Buffer))
         /\ heard' = [r \in Sink!rates |->
                        heard[r] \cup {Sink!Number(i) :
                          i \in {k \in 1 .. taking : Sink!Rate(k) = r}}]
         /\ late' = late \cup {n \in {Sink!Number(i) : i \in 1 .. taking} : n <= flushed}
         /\ spoilt' = (spoilt \/ \E r \in Sink!rates :
                         \E i \in {k \in 1 .. taking : Sink!Rate(k) = r} :
                           ~(/\ \A n \in heard[r] : n < Sink!Number(i)
                             /\ \A j \in {k \in 1 .. taking : Sink!Rate(k) = r} :
                                  j < i => Sink!Number(j) < Sink!Number(i)))
         /\ UNCHANGED <<made, flushed, audioBuffer, signals, inBuffer>>
<1>1. taking \in Nat
  BY DEF Sink!CallbackEnds, Sink!IInv, Sink!TypeOK, Sink!FramesTyped
<1>2. taking \in 0 .. Len(_O_Buffer)
  BY <1>1, FramesFact DEF Sink!CallbackEnds
<1>. QED BY <1>2 DEF Sink!CallbackEnds, Sink!decoding, Sink!Number, Sink!Rate

\* The callback returns: what it took is heard, in its order.
LEMMA FramesTaken ==
  ASSUME Sink!IInv, Sink!CallbackEnds
  PROVE  Frames' /\ ~spoilt'
<1>. DEFINE n == Len(_O_Buffer)
<1>1. /\ taking \in Nat /\ taking <= n /\ n \in Nat /\ taking' = Sink!Idle
      /\ UNCHANGED <<made, flushed, audioBuffer, signals, inBuffer>>
  BY CallbackFact, FramesFact
<1>2. ~spoilt'
  <2>1. ~spoilt
    BY DEF Sink!IInv
  <2>2. ASSUME NEW r \in Sink!rates, NEW i \in {k \in 1 .. taking : Sink!Rate(k) = r}
        PROVE  /\ \A m \in heard[r] : m < Sink!Number(i)
               /\ \A j \in {k \in 1 .. taking : Sink!Rate(k) = r} :
                    j < i => Sink!Number(j) < Sink!Number(i)
    <3>1. i \in 1 .. n /\ Sink!Rate(i) = r
      BY <1>1
    <3>2. \A j \in 1 .. taking : j < i => j \in 1 .. i - 1
      BY <1>1, <3>1
    <3>. QED BY <3>1, <3>2, OrderFact
  <2>. QED BY <2>1, <2>2, CallbackFact
<1>3. /\ _O_Buffer' \in Seq(Sink!rates \X Nat) /\ Len(_O_Buffer') = n - taking
      /\ \A i \in 1 .. n - taking : _O_Buffer'[i] = _O_Buffer[taking + i]
  <2>. DEFINE O == SubSeq(_O_Buffer, taking + 1, n)
  <2>1. \A i \in taking + 1 .. n : _O_Buffer[i] \in Sink!rates \X Nat
    BY <1>1, FramesFact
  <2>2. taking + 1 \in Int /\ n \in Int
    BY <1>1
  <2>3. /\ O \in Seq(Sink!rates \X Nat)
        /\ Len(O) = IF taking + 1 <= n THEN n - (taking + 1) + 1 ELSE 0
        /\ \A i \in 1 .. n - (taking + 1) + 1 : O[i] = _O_Buffer[(taking + 1) + i - 1]
    BY <2>1, <2>2, SubSeqProperties
  <2>4. _O_Buffer' = O
    BY CallbackFact
  <2>. HIDE DEF O, n
  <2>. QED BY <1>1, <2>3, <2>4
<1>4. ASSUME NEW i \in 1 .. Len(_O_Buffer')
      PROVE  /\ taking + i \in 1 .. n
             /\ Sink!Number(i)' = Sink!Number(taking + i)
             /\ Sink!Rate(i)' = Sink!Rate(taking + i)
  <2>. HIDE DEF n
  <2>1. taking + i \in 1 .. n /\ _O_Buffer'[i] = _O_Buffer[taking + i]
    BY <1>1, <1>3
  <2>. QED BY <2>1 DEF Sink!Number, Sink!Rate
<1>5. ASSUME NEW r \in Sink!rates, NEW m \in heard'[r]
      PROVE  m \in heard[r] \/ \E k \in 1 .. taking : Sink!Rate(k) = r /\ m = Sink!Number(k)
  BY CallbackFact
<1>6. Sink!FramesTyped'
  <2>1. heard' \in [Sink!rates -> SUBSET Nat]
    <3>1. ASSUME NEW r \in Sink!rates
          PROVE  heard[r] \cup {Sink!Number(i) : i \in {k \in 1 .. taking : Sink!Rate(k) = r}}
                   \in SUBSET Nat
      BY <1>1, FramesFact
    <3>. QED BY <3>1, CallbackFact
  <2>2. late' \in SUBSET Nat
    BY <1>1, FramesFact, CallbackFact
  <2>3. Len(_O_Buffer') <= MaxRing
    BY <1>1, <1>3, FramesFact, SinkFact
  <2>. QED BY <1>1, <1>3, <2>1, <2>2, <2>3
    DEF Sink!IInv, Sink!TypeOK, Sink!FramesTyped
<1>7. Sink!FrameLeft' /\ Sink!LastMade' /\ Sink!Past' = Sink!Past
  BY <1>1 DEF Sink!IInv, Sink!FrameLeft, Sink!LastMade, Sink!Past
<1>8. Sink!InOrder'
  <2>1. ASSUME NEW i \in 1 .. Len(_O_Buffer')
        PROVE  /\ Sink!Number(i)' <= Sink!Past'
               /\ \A m \in heard'[Sink!Rate(i)'] : m < Sink!Number(i)'
               /\ \A j \in 1 .. i - 1 :
                    Sink!Rate(j)' = Sink!Rate(i)' => Sink!Number(j)' < Sink!Number(i)'
               /\ Sink!Rate(i)' = 24000 =>
                    \A j \in 1 .. Len(inBuffer') : Sink!Number(i)' < inBuffer'[j]
    <3>. DEFINE a == taking + i
    <3>1. a \in 1 .. n /\ Sink!Number(i)' = Sink!Number(a) /\ Sink!Rate(i)' = Sink!Rate(a)
      BY <1>4
    <3>2. Sink!Rate(a) \in Sink!rates
      BY <3>1, FramesFact
    <3>3. \A k \in 1 .. taking : k \in 1 .. a - 1
      BY <1>1
    <3>4. ASSUME NEW j \in 1 .. i - 1
          PROVE  /\ taking + j \in 1 .. a - 1 /\ Sink!Number(j)' = Sink!Number(taking + j)
                 /\ Sink!Rate(j)' = Sink!Rate(taking + j)
      <4>1. j \in 1 .. Len(_O_Buffer')
        BY <1>1, <1>3
      <4>. QED BY <1>1, <1>4, <4>1
    <3>. HIDE DEF a, n
    <3>5. /\ Sink!Number(a) <= Sink!Past
          /\ \A m \in heard[Sink!Rate(a)] : m < Sink!Number(a)
          /\ \A j \in 1 .. a - 1 : Sink!Rate(j) = Sink!Rate(a) => Sink!Number(j) < Sink!Number(a)
          /\ Sink!Rate(a) = 24000 => \A j \in 1 .. Len(inBuffer) : Sink!Number(a) < inBuffer[j]
      BY <3>1, OrderFact DEF n
    <3>6. ASSUME NEW m \in heard'[Sink!Rate(i)'] PROVE m < Sink!Number(a)
      <4>1. \/ m \in heard[Sink!Rate(a)]
            \/ \E k \in 1 .. taking : Sink!Rate(k) = Sink!Rate(a) /\ m = Sink!Number(k)
        BY <1>5, <3>1, <3>2, <3>6
      <4>. QED BY <3>3, <3>5, <4>1
    <3>7. ASSUME NEW j \in 1 .. i - 1, Sink!Rate(j)' = Sink!Rate(i)'
          PROVE  Sink!Number(j)' < Sink!Number(i)'
      BY <3>1, <3>4, <3>5, <3>7
    <3>. QED BY <1>1, <1>7, <3>1, <3>5, <3>6, <3>7
  <2>2. ASSUME NEW r \in Sink!rates, NEW m \in heard'[r] PROVE m <= Sink!Past
    <3>1. \A k \in 1 .. taking : k \in 1 .. n
      BY <1>1
    <3>. HIDE DEF n
    <3>. QED BY <1>5, <2>2, <3>1, OrderFact DEF n
  <2>3. ASSUME NEW m \in heard'[24000], NEW j \in 1 .. Len(inBuffer) PROVE m < inBuffer[j]
    <3>1. \A k \in 1 .. taking : k \in 1 .. n
      BY <1>1
    <3>2. m \in heard[24000] \/ \E k \in 1 .. taking : Sink!Rate(k) = 24000 /\ m = Sink!Number(k)
      BY <1>5, <2>3, FramesFact
    <3>. HIDE DEF n
    <3>. QED BY <3>1, <3>2, OrderFact DEF n
  <2>4. \A i \in 1 .. Len(inBuffer') : inBuffer'[i] <= Sink!Past'
    BY <1>1, <1>7, OrderFact
  <2>5. \A i, j \in 1 .. Len(inBuffer') : i < j => inBuffer'[i] < inBuffer'[j]
    BY <1>1, OrderFact
  <2>. QED BY <1>1, <1>7, <2>1, <2>2, <2>3, <2>4, <2>5 DEF Sink!InOrder
<1>9. Sink!FewLate'
  <2>1. ASSUME NEW x \in Sink!Left' PROVE x \in Sink!Left
    <3>1. CASE x \in late'
      <4>1. x \in late \/ \E k \in 1 .. taking : x = Sink!Number(k) /\ x <= flushed
        BY <3>1, CallbackFact
      <4>2. \A k \in 1 .. taking : k \in 1 .. n
        BY <1>1
      <4>. QED BY <4>1, <4>2 DEF Sink!Left
    <3>2. CASE \E i \in 1 .. Len(inBuffer') : x = inBuffer'[i] /\ inBuffer'[i] <= flushed'
      BY <1>1, <3>2 DEF Sink!Left
    <3>3. CASE \E i \in 1 .. Len(_O_Buffer') : x = Sink!Number(i)' /\ Sink!Number(i)' <= flushed'
      <4>1. PICK i \in 1 .. Len(_O_Buffer') : x = Sink!Number(i)' /\ Sink!Number(i)' <= flushed'
        BY <3>3
      <4>2. /\ taking + i \in 1 .. n /\ x = Sink!Number(taking + i)
            /\ Sink!Number(taking + i) <= flushed
        BY <1>1, <1>4, <4>1
      <4>. QED BY <4>2 DEF Sink!Left
    <3>. QED BY <2>1, <3>1, <3>2, <3>3 DEF Sink!Left
  <2>. QED BY <2>1, LessLate DEF Sink!IInv
<1>. QED BY <1>2, <1>6, <1>7, <1>8, <1>9 DEF Frames

\* The stream ends, is begun again or deleted: no callback is in the middle.
LEMMA FramesHold ==
  ASSUME Sink!IInv, Sink!Next
  PROVE  Frames' /\ ~spoilt'
<1>. DEFINE Same == UNCHANGED <<made, flushed, audioBuffer, signals, inBuffer, _O_Buffer,
                                heard, late>>
<1>1. taking \in Nat \cup {Sink!Idle} /\ Len(_O_Buffer) \in Nat /\ ~spoilt
      /\ (taking # Sink!Idle => active)
  BY FramesFact DEF Sink!IInv, Sink!TypeOK, Sink!FramesTyped, Sink!CallbackActive
<1>2. ASSUME Same, taking' \in Nat \cup {Sink!Idle}, ~spoilt'
      PROVE  Frames' /\ ~spoilt'
  BY <1>2, FramesLeft
<1>3. CASE \/ Sink!selectSaved \/ Sink!NoneSaved \/ Sink!selectDefaultDevice
           \/ Sink!set_streamSelector \/ Sink!selectDevice("select saved", "default")
           \/ Sink!selectDevice("select", "idle") \/ Sink!Crash \/ Sink!stop \/ Sink!Stopped
  <2>1. Same /\ UNCHANGED <<taking, spoilt>>
    BY <1>3
       DEF Sink!selectSaved, Sink!NoneSaved, Sink!selectDefaultDevice,
           Sink!set_streamSelector, Sink!selectDevice, Sink!Crash, Sink!stop,
           Sink!Stops, Sink!Stopped, Sink!Calls, Sink!decoding, Sink!played
  <2>. QED BY <1>1, <1>2, <2>1
<1>4. CASE Sink!Delete
  <2>1. Same /\ UNCHANGED <<taking>>
    BY <1>4 DEF Sink!Delete, Sink!decoding
  <2>2. ~spoilt'
    BY <1>1, <1>4 DEF Sink!Delete
  <2>. QED BY <1>1, <1>2, <2>1, <2>2
<1>5. CASE Sink!CallbackBegins
  <2>1. Same /\ taking' = Len(_O_Buffer) /\ spoilt' = spoilt
    BY <1>5 DEF Sink!CallbackBegins, Sink!decoding, Sink!played
  <2>. QED BY <1>1, <1>2, <2>1
<1>6. CASE Sink!restart
  BY <1>6, FramesFlushed
<1>7. CASE Sink!Decoded
  BY <1>1, <1>7, FramesDecoded DEF Sink!Decoded, Sink!played
<1>8. CASE Sink!newAudio
  BY <1>1, <1>8, FramesPut DEF Sink!newAudio, Sink!played
<1>9. CASE Sink!CallbackEnds
  BY <1>9, FramesTaken
<1>. QED BY <1>3, <1>4, <1>5, <1>6, <1>7, <1>8, <1>9 DEF Sink!Next

\* The sink before the start, every step of it, and those of the device.
LEMMA SinkStarts == Sink!Init => Sink!IInv
<1>. SUFFICES ASSUME Sink!Init PROVE Sink!IInv
  OBVIOUS
<1>. USE DEF Sink!Init
<1>1. /\ Len(audioBuffer) = 0 /\ Len(signals) = 0 /\ Len(inBuffer) = 0 /\ Len(_O_Buffer) = 0
      /\ audioBuffer \in Seq(Nat) /\ signals \in Seq(Sink!rates) /\ inBuffer \in Seq(Nat)
      /\ _O_Buffer \in Seq(Sink!rates \X Nat)
  BY Emptiness, EmptySeq
<1>2. heard \in [Sink!rates -> SUBSET Nat] /\ \A r \in Sink!rates : heard[r] = {}
  OBVIOUS
<1>3. 24000 \in Sink!rates
  BY DEF Sink!rates
<1>4. Sink!StreamTyped /\ Sink!ValidAsked /\ Sink!CallbackActive /\ ~spoilt
  BY DEF Sink!StreamTyped, Sink!ValidAsked, Sink!CallbackActive
<1>5. Sink!FramesTyped /\ Sink!FrameLeft
  BY <1>1, <1>2, SinkFact DEF Sink!FramesTyped, Sink!FrameLeft
<1>6. Sink!LastMade
  BY <1>1 DEF Sink!LastMade, Sink!Past
<1>7. Sink!InOrder
  BY <1>1, <1>2, <1>3 DEF Sink!InOrder
<1>8. Sink!FewLate
  <2>1. Sink!Left = {}
    BY <1>1 DEF Sink!Left
  <2>. QED BY <2>1, FS_EmptySet, SameCardinality, SinkFact DEF Sink!FewLate
<1>. QED BY <1>4, <1>5, <1>6, <1>7, <1>8 DEF Sink!IInv, Sink!TypeOK

\* While one part moves the other stays.
LEMMA DeviceStays ==
  ASSUME Device!IInv, UNCHANGED <<gui, ownDevice>>
  PROVE  Device!IInv'
BY DEF ownDevice, Device!IInv, Device!TypeOK, Device!MadeTyped, Device!ThreadsTyped,
   Device!FlowTyped, Device!FlagsTyped, Device!SamplesTyped, Device!DeviceOpen,
   Device!SetUp, Device!FlowRuns, Device!Reads, Device!Ends, Device!Quiet,
   Device!StreamTuned, Device!Fresh, Device!Stale, Device!FewStale, Device!Begun,
   Device!Spaced, Device!Own, Device!EvenlySpaced, Device!Apart, Device!HaltedByThen

LEMMA SinkStays ==
  ASSUME Sink!IInv, UNCHANGED <<gui, ownSink>>
  PROVE  Sink!IInv'
<1>. UNCHANGED <<gui, idx, ostream, device, active, paCallbackReturn, taking, audioBuffer,
                 signals, inBuffer, _O_Buffer, made, flushed, heard, late, spoilt>>
  BY DEF ownSink
<1>1. Frames'
  <2>1. taking \in Nat \cup {Sink!Idle}
    BY DEF Sink!IInv, Sink!TypeOK, Sink!FramesTyped
  <2>. QED BY <2>1, FramesLeft
<1>2. Sink!StreamTyped' /\ Sink!ValidAsked' /\ Sink!CallbackActive'
  BY DEF Sink!IInv, Sink!TypeOK, Sink!StreamTyped, Sink!ValidAsked,
     Sink!CallbackActive
<1>3. ~spoilt'
  BY DEF Sink!IInv
<1>. QED BY <1>1, <1>2, <1>3 DEF Frames, Sink!IInv, Sink!TypeOK

LEMMA SinkKeeps ==
  ASSUME Sink!IInv, Sink!Next
  PROVE  Sink!IInv'
<1>1. Frames' /\ ~spoilt'
  BY FramesHold
<1>2. spoilt' \in BOOLEAN /\ spoilt \in BOOLEAN /\ ~spoilt
  <2>1. spoilt \in BOOLEAN /\ ~spoilt
    BY DEF Sink!IInv, Sink!TypeOK, Sink!StreamTyped
  <2>2. spoilt' = spoilt \/ \E P : spoilt' = (spoilt \/ P)
    BY Zenon
       DEF Sink!Next, Sink!selectSaved, Sink!NoneSaved, Sink!selectDefaultDevice,
           Sink!set_streamSelector, Sink!selectDevice, Sink!Crash, Sink!stop,
           Sink!Stops, Sink!Stopped, Sink!Calls, Sink!Delete, Sink!restart,
           Sink!Restarted, Sink!Flush, Sink!Decoded, Sink!newAudio,
           Sink!CallbackBegins, Sink!CallbackEnds, Sink!played
  <2>. QED BY <2>1, <2>2, Zenon
<1>3. spoilt' = spoilt
  BY <1>1, <1>2
<1>4. Output'
  BY <1>3, OutputHolds
<1>. QED BY <1>1, <1>4 DEF Frames, Output, Sink!IInv, Sink!TypeOK
-----------------------------------------------------------------------------
\* The device and the sink keep to their invariants: the types of what they
\* have, that the thread that runs for the device is the one that is said to,
\* that the samples of an earlier channel come before all others in the buffer
\* and are at most one block, and that the frames between a decoder and the
\* loudspeaker are in the order of their making (device-handlers, audiosink.cpp,
\* newconverter.cpp).
THEOREM InvariantHolds == Spec => []IInv
<1>1. Init => IInv
  BY DeviceStarts, SinkStarts DEF Init, IInv
<1>2. IInv /\ [Next]_vars => IInv'
  <2>. SUFFICES ASSUME IInv, [Next]_vars PROVE IInv'
    OBVIOUS
  <2>1. CASE DeviceStep
    BY <2>1, DeviceKeeps DEF DeviceStep, InDevice, IInv
  <2>2. CASE SinkStep
    BY <2>2, SinkKeeps DEF SinkStep, IInv
  <2>3. CASE UNCHANGED vars
    <3>1. part' = part
      BY <2>3 DEF vars
    <3>. QED BY <2>3, <3>1, DeviceStays, SinkStays DEF IInv, vars
  <2>. QED BY <2>1, <2>2, <2>3 DEF Next
<1>. QED BY <1>1, <1>2, PTL DEF Spec

\* What is read after a start is of the channel that was asked for, however the
\* threads are interleaved: an airspy alone may still deliver the Out samples
\* that lay in its convBuffer, and no more (dab-processor.cpp:121,
\* airspy-handler.cpp:327), as long as the libraries stop when asked to.
THEOREM OnlyTunedAlways == Spec => []OnlyTuned
<1>1. IInv => OnlyTuned
  BY DEF IInv, OnlyTuned, Device!IInv, Device!FewStale, Device!OnlyTuned
<1>. QED BY <1>1, InvariantHolds, PTL

\* The samples that the airspy's data_available makes are evenly spaced, within a
\* block and from one block to the next, for all rates (airspy-handler.cpp:311-330).
THEOREM EvenlyResampledAlways == Spec => []EvenlyResampled
<1>1. IInv => EvenlyResampled
  BY DEF IInv, EvenlyResampled, Device!IInv, Device!Spaced, Device!EvenlyResampled
<1>. QED BY <1>1, InvariantHolds, PTL

\* "Everything should be halted by now": when the handler is deleted nothing of
\* it runs, if the libraries stopped when asked to, nor does the dabProcessor
\* (radio.cpp:540).
THEOREM HaltedAlways == Spec => []HaltedByThen
<1>1. IInv => HaltedByThen
  BY DEF IInv, HaltedByThen, Device!IInv, Device!HaltedByThen
<1>. QED BY <1>1, InvariantHolds, PTL

\* Each frame is heard at most once and those of a rate in the order of their
\* making, the buffer is never emptied or deleted under the callback, and after
\* a restart less than a block of the rate converter is heard of what was made
\* before (audiosink.cpp:147-150, newconverter.cpp:60-64).
THEOREM HeardRightAlways == Spec => []HeardRight
<1>1. ASSUME Sink!IInv PROVE Sink!HeardRight
  <2>1. /\ IsFiniteSet(Sink!Left) /\ Cardinality(Sink!Left) < Limit
        /\ Cardinality(Sink!Left) \in Nat /\ Limit \in Nat
    BY <1>1, SameCardinality, FS_CardinalityType, SinkFact DEF Sink!IInv, Sink!FewLate
  <2>2. late \in SUBSET Sink!Left
    BY DEF Sink!Left
  <2>3. Cardinality(late) <= Cardinality(Sink!Left) /\ Cardinality(late) \in Nat
    BY <2>1, <2>2, FS_Subset, FS_CardinalityType
  <2>. QED BY <1>1, <2>1, <2>3, SameCardinality DEF Sink!IInv, Sink!HeardRight
<1>2. IInv => HeardRight
  BY <1>1 DEF IInv, HeardRight
<1>. QED BY <1>2, InvariantHolds, PTL
=============================================================================

------------------------------ MODULE Devices ------------------------------
(***************************************************************************)
(* The device handlers: main takes the first one that can be made; the     *)
(* thread of the dabProcessor starts its stream and reads the samples that *)
(* the callback of its library puts into the buffer; the GUI thread stops  *)
(* it, for another channel and at the end.                                 *)
(*                                                                         *)
(* The buffer keeps the order of the samples (RingBuffer).  A sample says  *)
(* with which start its stream began and where it lies in the stream, in   *)
(* units of 1 / Out of the distance of two samples of the device.          *)
(***************************************************************************)
EXTENDS Integers, Sequences, FiniteSets

CONSTANTS
  Compiled,   \* the handlers the program was built with
  In, Out,    \* airspy: In samples of the device make Out samples of 2048000
  Wrap,       \* bound: positions are counted modulo Wrap
  MaxStarts,  \* bound: starts of the thread
  MaxRing     \* bound: samples in the buffer

Order == <<"airspy", "sdrplay", "rtlsdr", "hackrf">>
\* Assumed of the constants by Peripherals.
CompiledAssumption == Compiled \subseteq {Order[i] : i \in DOMAIN Order}
RatesAssumption    == In \in Nat /\ Out \in Nat \ {0} /\ In >= Out
BoundsAssumption   == /\ Wrap \in Nat /\ Wrap > 2 * In
                      /\ MaxStarts \in Nat /\ MaxRing \in Nat /\ MaxRing >= Out

VARIABLES
  tries,      \* setDevice: which handler is tried next
  theDevice,  \* the one that was made
  openDevs,   \* hardware that was opened and not closed
  gui, dab,   \* what the GUI thread and the thread of the dabProcessor are at
  next,       \* what the GUI thread does once the other has ended
  reading,    \* myReader.running
  running,    \* of the handler; of rtlsdr: workerHandle
  worker,     \* rtlsdr: the thread that runs rtlsdr_read_async
  streaming,  \* whether the library calls back, with
  stream,     \* the start its stream began with and which stream it is,
  position,   \* and the place in it of the next sample
  unhalted,   \* history: a library did not stop its stream when asked to
  buffer, convBuffer,
  starts,     \* how often a channel was asked for
  stale,      \* history: samples read of an earlier start, since this one,
              \* as long as the libraries stop when asked to
  uneven,     \* history: samples were not evenly spaced
  missed      \* history: a stop was overtaken by the start of what it stops

made    == <<tries, theDevice, openDevs>>
threads == <<gui, dab, next, reading, starts, missed>>
flow    == <<worker, streaming, stream, position, unhalted>>
samples == <<buffer, convBuffer, stale, uneven>>
devVars == <<made, threads, running, flow, samples>>

Init ==
  /\ tries = 1 /\ theDevice = "none" /\ openDevs = {}
  /\ gui = "setup" /\ dab = "off" /\ next = "none" /\ reading = FALSE
  /\ running = FALSE /\ worker = "none" /\ streaming = FALSE
  /\ stream = [start |-> 0, number |-> 0] /\ position = 0 /\ unhalted = FALSE
  /\ buffer = << >> /\ convBuffer = << >>
  /\ starts = 0 /\ stale = 0 /\ uneven = FALSE /\ missed = FALSE

(***************************************************************************)
(* setDevice and the constructors.  After a constructor throws, the next   *)
(* handler is tried.                                                       *)
(***************************************************************************)
Trying(k) == gui = "setup" /\ tries <= 4 /\ Order[tries] = k
Thrown(left) ==
  /\ tries' = tries + 1 /\ openDevs' = openDevs \cup left
  /\ UNCHANGED <<theDevice, running, threads, flow, samples>>
Made(k, flags) ==
  /\ theDevice' = k /\ openDevs' = openDevs \cup {k} /\ gui' = "idle"
  /\ running' \in flags
  /\ UNCHANGED <<tries, dab, next, reading, starts, missed, flow, samples>>

\* dlopen and dlsym of each function of the library.
load_airspyFunctions == {"library", "function missing"}
loadFunctions        == {"library", "function missing"}
load_rtlFunctions    == {"library", "function missing"}
load_hackrfFunctions == {"library", "function missing"}

\* With a function missing, the library is closed and called all the same:
\* the program ends, or the call fails.  A sample rate that does not fit
\* leaves the device open.  running is not initialized.
airspyHandler ==
  /\ Trying("airspy")
  /\ \/ "airspy" \notin Compiled /\ Thrown({})
     \/ /\ "airspy" \in Compiled
        /\ \/ \E f \in load_airspyFunctions \cup {"init", "open"} : Thrown({})
           \/ \E f \in {"no rate", "set_samplerate"} : Thrown({"airspy"})
           \/ Made("airspy", BOOLEAN)
airspyCrash ==
  /\ Trying("airspy") /\ "airspy" \in Compiled
  /\ gui' = "crashed"
  /\ UNCHANGED <<made, dab, next, reading, starts, missed, running, flow, samples>>

sdrplayHandler ==
  /\ Trying("sdrplay")
  /\ \/ "sdrplay" \notin Compiled /\ Thrown({})
     \/ /\ "sdrplay" \in Compiled
        /\ \/ \E f \in loadFunctions \cup {"version", "no device", "index"} : Thrown({})
           \/ Made("sdrplay", {FALSE})

\* Of the handlers only this one closes what it opened.
rtlsdrHandler ==
  /\ Trying("rtlsdr")
  /\ \/ "rtlsdr" \notin Compiled /\ Thrown({})
     \/ /\ "rtlsdr" \in Compiled
        /\ \/ \E f \in load_rtlFunctions \cup {"no device", "open", "rate"} : Thrown({})
           \/ Made("rtlsdr", {FALSE})

hackrfHandler ==
  /\ Trying("hackrf")
  /\ \/ "hackrf" \notin Compiled /\ Thrown({})
     \/ /\ "hackrf" \in Compiled
        /\ \/ \E f \in load_hackrfFunctions \cup {"init", "open"} : Thrown({})
           \/ \E f \in {"rate", "bandwidth", "frequency"} : Thrown({"hackrf"})
           \/ Made("hackrf", {FALSE})

\* No device: the program ends.
NoDevice ==
  /\ gui = "setup" /\ tries = 5
  /\ gui' = "ended"
  /\ UNCHANGED <<made, dab, next, reading, starts, missed, running, flow, samples>>

setDevice == airspyHandler \/ airspyCrash \/ sdrplayHandler \/ rtlsdrHandler
               \/ hackrfHandler \/ NoDevice

(***************************************************************************)
(* The libraries and their callbacks.                                      *)
(***************************************************************************)
\* rtlsdr_read_async, in the thread of the dll_driver.
ReadAsync ==
  /\ worker = "created"
  /\ worker' = "reading" /\ streaming' = TRUE
  /\ UNCHANGED <<made, threads, running, stream, position, unhalted, samples>>

Finish ==
  /\ worker = "cancelled"
  /\ worker' = "finished" /\ streaming' = FALSE
  /\ UNCHANGED <<made, threads, running, stream, position, unhalted, samples>>

Own(s) == s.stream = stream
Sample == [stream |-> stream, at |-> position * Out]

\* Two samples of a stream are as far apart as they should be.
Apart(a, b, d) == Own(a) /\ Own(b) => (b.at - a.at) % (Wrap * Out) = d
EvenlySpaced(seq, d) == \A i \in 1 .. Len(seq) - 1 : Apart(seq[i], seq[i + 1], d)

\* airspy's data_available: with In + 1 samples there, Out samples are made of
\* them.  The last one is kept: it is the first one of the next time.
mapTable_int(j)   == (j * In) \div Out
mapTable_float(j) == (j * In) % Out
Interpolated(c, j) ==
  LET a == c[mapTable_int(j) + 1]
  IN [stream |-> a.stream, at |-> (a.at + mapTable_float(j)) % (Wrap * Out)]
KeptNone(c) == << >>
Kept(c) == <<c[In + 1]>>
Resampled(c) == [j \in 1 .. Out |-> Interpolated(c, j - 1)]

Put(new) ==
  /\ Len(buffer) + Len(new) <= MaxRing
  /\ buffer' = buffer \o new

data_available ==
  /\ theDevice = "airspy"
  /\ IF Len(convBuffer) < In
     THEN convBuffer' = Append(convBuffer, Sample) /\ UNCHANGED <<buffer, uneven>>
     ELSE LET c == Append(convBuffer, Sample)
          IN /\ Put(Resampled(c))
             /\ uneven' = (uneven \/ ~EvenlySpaced(buffer', In))
             /\ convBuffer' = Kept(c)

\* A short block of rtlsdr, or one of sdrplay after a reset, is left out.
myStreamCallback ==
  /\ theDevice # "airspy"
  /\ Put(<<Sample>>) \/ (theDevice # "hackrf" /\ UNCHANGED buffer)
  /\ UNCHANGED <<convBuffer, uneven>>

Callback ==
  /\ streaming
  /\ data_available \/ myStreamCallback
  /\ position' = IF theDevice = "airspy" THEN (position + 1) % Wrap ELSE 0
  /\ UNCHANGED <<made, threads, running, worker, streaming, stream, unhalted, stale>>

(***************************************************************************)
(* The thread of the dabProcessor.                                         *)
(***************************************************************************)
resetBufferNot ==
  /\ dab = "flush" /\ dab' = "restart"
  /\ stale' = 0
  /\ UNCHANGED <<made, gui, next, reading, starts, missed, running, flow,
                 buffer, convBuffer, uneven>>
resetBuffer ==
  /\ dab = "flush" /\ dab' = "restart"
  /\ buffer' = << >> /\ stale' = 0
  /\ UNCHANGED <<made, gui, next, reading, starts, missed, running, flow,
                 convBuffer, uneven>>

\* A library begins a stream, unless there is an error; it does not begin a
\* second one.
Begin ==
  /\ ~streaming /\ running' = TRUE /\ UNCHANGED unhalted
  /\ stream' = [start |-> starts, number |-> stream.number + 1] /\ position' = 0
  /\ IF theDevice = "rtlsdr" THEN worker' = "created" /\ UNCHANGED streaming
     ELSE streaming' = TRUE /\ UNCHANGED worker
Failed == UNCHANGED <<running, flow>>

restartReader ==
  /\ dab = "restart" /\ dab' = "set"
  /\ IF running /\ theDevice # "hackrf"
     THEN Failed /\ UNCHANGED buffer
     ELSE /\ Begin \/ Failed
          /\ buffer' = IF theDevice \in {"rtlsdr", "airspy"} THEN << >> ELSE buffer
  /\ UNCHANGED <<made, gui, next, reading, starts, missed, convBuffer, stale, uneven>>

\* Whoever had asked it to stop before this is not heard.
setRunning ==
  /\ dab = "set" /\ dab' = "run"
  /\ reading' = TRUE
  /\ missed' = (missed \/ gui = "wait")
  /\ UNCHANGED <<made, gui, next, starts, running, flow, samples>>

Fresh(x) == x.stream.start = starts
getSamples ==
  /\ dab = "run" /\ reading /\ buffer # << >>
  /\ stale' = stale + (IF ~unhalted /\ ~Fresh(Head(buffer)) THEN 1 ELSE 0)
  /\ buffer' = Tail(buffer)
  /\ UNCHANGED <<made, threads, running, flow, convBuffer, uneven>>

ThrowOnSample ==
  /\ dab = "run" /\ ~reading /\ buffer # << >>
  /\ dab' = "off"
  /\ UNCHANGED <<made, gui, next, reading, starts, missed, running, flow, samples>>
Throw ==
  /\ dab = "run" /\ ~reading
  /\ dab' = "off"
  /\ UNCHANGED <<made, gui, next, reading, starts, missed, running, flow, samples>>

run == resetBuffer \/ restartReader \/ setRunning \/ Throw

(***************************************************************************)
(* The GUI thread.                                                         *)
(***************************************************************************)
start ==
  /\ gui = "idle" /\ dab = "off" /\ starts < MaxStarts
  /\ dab' = "flush" /\ starts' = starts + 1
  /\ UNCHANGED <<made, gui, next, reading, missed, running, flow, samples>>

\* stop and reset begin with setRunning (false), and wait for the thread.
Ask(what) ==
  /\ reading' = FALSE /\ gui' = "wait" /\ next' = what
  /\ UNCHANGED <<made, dab, starts, missed, running, flow, samples>>
stop  == gui = "idle" /\ dab # "off" /\ Ask("stopReader")
reset == gui = "idle" /\ dab # "off" /\ Ask("restart")

\* Of a reset, the thread begins again; its device goes on.
Waited ==
  /\ gui = "wait" /\ dab = "off"
  /\ IF next = "restart"
     THEN dab' = "flush" /\ gui' = "idle" /\ UNCHANGED starts
     ELSE gui' = next /\ UNCHANGED <<dab, starts>>
  /\ UNCHANGED <<made, next, reading, missed, running, flow, samples>>

\* stopReader.  When its library fails to stop the stream, hackrf is taken to be
\* running still, the others are not.  rtlsdr_cancel_async has an effect on a read
\* that has begun; the thread is waited for in any case.  The destructor of
\* airspy calls the library without asking whether it is running.
Return(to) == gui' = to /\ UNCHANGED <<made, dab, next, reading, starts>>
stopReader(from, to) ==
  /\ gui = from
  /\ IF ~running /\ ~(from = "delete" /\ theDevice = "airspy")
     THEN Return(to) /\ UNCHANGED <<missed, running, flow>>
     ELSE IF theDevice # "rtlsdr"
     THEN /\ Return(to) /\ UNCHANGED <<missed, worker, stream, position>>
          /\ \/ running' = FALSE /\ streaming' = FALSE /\ UNCHANGED unhalted
             \/ /\ streaming /\ UNCHANGED streaming /\ unhalted' = TRUE
                /\ running' = (theDevice = "hackrf")
     ELSE \/ /\ worker = "finished"
             /\ Return(to) /\ running' = FALSE /\ worker' = "none"
             /\ UNCHANGED <<missed, streaming, stream, position, unhalted>>
          \/ /\ worker = "reading" /\ worker' = "cancelled"
             /\ Return(from) /\ ~missed
             /\ UNCHANGED <<missed, running, streaming, stream, position, unhalted>>
          \/ /\ worker = "created" /\ missed' = TRUE
             /\ Return(from) /\ UNCHANGED <<running, flow>>
  /\ UNCHANGED samples

\* TerminateProcess: stopReader, dabProcessor::stop with another stopReader,
\* and the destructor of the handler, which calls it once more.
TerminateProcess ==
  /\ gui = "idle" /\ gui' = "terminate"
  /\ UNCHANGED <<made, dab, next, reading, starts, missed, running, flow, samples>>
LastWaitedOnly == gui = "lastWait" /\ Ask("delete")
LastWaited == gui = "lastWait" /\ Ask("lastStop")
Close ==
  /\ gui = "close" /\ gui' = "ended"
  /\ openDevs' = openDevs \ {theDevice}
  /\ UNCHANGED <<tries, theDevice, dab, next, reading, starts, missed, running,
                 flow, samples>>

guiThread == \/ setDevice \/ Waited \/ LastWaited \/ Close
             \/ stopReader("stopReader", "idle")
             \/ stopReader("terminate", "lastWait")
             \/ stopReader("lastStop", "delete")
             \/ stopReader("delete", "close")
library == ReadAsync \/ Finish

Next == \/ guiThread \/ start \/ stop \/ reset \/ TerminateProcess
        \/ run \/ getSamples \/ library \/ Callback
-----------------------------------------------------------------------------
MadeTyped ==
  /\ tries \in 1 .. 5
  /\ theDevice \in Compiled \cup {"none"}
  /\ openDevs \subseteq {theDevice, "airspy", "hackrf"} \ {"none"}
ThreadsTyped ==
  /\ gui \in {"setup", "crashed", "ended", "idle", "wait", "stopReader",
              "terminate", "lastWait", "lastStop", "delete", "close"}
  /\ dab \in {"off", "flush", "restart", "set", "run"}
  /\ next \in {"none", "stopReader", "restart", "lastStop"}
  /\ gui = "wait" => next # "none"
  /\ starts \in Nat
FlowTyped ==
  /\ worker \in {"none", "created", "reading", "cancelled", "finished"}
  /\ stream \in [start : Nat, number : Nat] /\ position \in 0 .. Wrap - 1
FlagsTyped ==
  /\ reading \in BOOLEAN /\ running \in BOOLEAN /\ streaming \in BOOLEAN
  /\ missed \in BOOLEAN /\ uneven \in BOOLEAN /\ unhalted \in BOOLEAN
SampleSet == [stream : [start : Nat, number : Nat], at : 0 .. Wrap * Out - 1]
SamplesTyped ==
  /\ buffer \in Seq(SampleSet) /\ Len(buffer) <= MaxRing
  /\ convBuffer \in Seq(SampleSet) /\ Len(convBuffer) <= In
  /\ stale \in Nat
TypeOK == MadeTyped /\ ThreadsTyped /\ FlowTyped /\ FlagsTyped /\ SamplesTyped

\* The handler in use has its hardware open.
DeviceOpen == gui \notin {"setup", "crashed", "ended"} => theDevice \in openDevs
\* Before there is a handler nothing runs.
SetUp == gui = "setup" => /\ theDevice = "none" /\ dab = "off" /\ ~running
                          /\ ~streaming /\ buffer = << >>
\* A library calls back only while the handler runs, unless it did not stop;
\* that of rtlsdr has a thread as long as there is a workerHandle.
FlowRuns ==
  IF theDevice = "rtlsdr"
  THEN /\ running <=> worker # "none"
       /\ streaming => worker \in {"reading", "cancelled"}
  ELSE worker = "none" /\ (streaming => running \/ unhalted)
\* The loop of the dabProcessor goes on until it is told to end.
Reads == gui = "idle" /\ dab = "run" => reading
\* The GUI thread has waited for its end.
Ends == gui \in {"stopReader", "lastStop", "delete", "close"} => dab = "off"
\* Between two channels there is no stream.
Quiet == gui = "idle" /\ dab = "off" /\ ~unhalted => ~streaming /\ worker = "none"

StreamTuned ==
  (streaming \/ worker # "none") /\ ~unhalted => stream.start = starts
Stale       == IF theDevice = "airspy" THEN Out ELSE 0
\* All stale samples there may be come first, and are read once.
FewStale ==
  /\ stale <= Stale
  /\ theDevice # "airspy" => convBuffer = << >>
  /\ dab \in {"restart", "set", "run"} /\ ~unhalted =>
       /\ \E k \in 0 .. Stale - stale :
            \A i \in k + 1 .. Len(buffer) : Fresh(buffer[i])
       /\ \/ \A i \in 1 .. Len(convBuffer) : Fresh(convBuffer[i])
          \/ buffer = << >> /\ stale = 0

\* No sample is of a stream to come.
Begun == /\ \A i \in 1 .. Len(buffer) : buffer[i].stream.number <= stream.number
         /\ \A i \in 1 .. Len(convBuffer) :
              convBuffer[i].stream.number <= stream.number
\* The samples in convBuffer are the last ones of the stream, and those in
\* the buffer end where they begin.
Spaced ==
  /\ ~uneven
  /\ theDevice = "airspy" =>
       /\ \A i \in 1 .. Len(convBuffer) : Own(convBuffer[i]) =>
            (convBuffer[i].at + (Len(convBuffer) + 1 - i) * Out) % (Wrap * Out)
              = position * Out
       /\ EvenlySpaced(buffer, In)
       /\ Len(buffer) > 0 /\ Own(buffer[Len(buffer)]) =>
            /\ Len(convBuffer) > 0
            /\ Own(convBuffer[1])
            /\ (buffer[Len(buffer)].at + In) % (Wrap * Out) = convBuffer[1].at

\* What is read after a start is of the channel that was asked for, whatever
\* was left in the buffer and however the threads are interleaved; only an
\* airspy may mix one millisecond that lay in its convBuffer with it
\* (dab-processor.cpp:121, airspy-handler.cpp:327).  Nothing is said from then on
\* when a library did not stop its stream.
OnlyTuned == stale <= Stale

\* The samples an airspy makes are evenly spaced, in one block and from one
\* block to the next: none of the device is left out or taken twice
\* (airspy-handler.cpp:311-330).
EvenlyResampled == ~uneven

\* "Everything should be halted by now" (radio.cpp:540): when the handler is
\* deleted, its library does not call back any more, nor will it, even if the
\* thread started the device after the first stopReader of TerminateProcess,
\* as long as the libraries stop when asked to (hackrf-handler.cpp:213-217).
HaltedByThen ==
  gui \in {"delete", "close"} \/ (gui = "ended" /\ theDevice # "none")
    => dab = "off" /\ (~unhalted => ~running /\ ~streaming /\ worker = "none")

\* Inductive.
IInv == /\ TypeOK /\ DeviceOpen /\ SetUp /\ FlowRuns /\ Reads /\ Ends /\ Quiet
        /\ StreamTuned /\ FewStale /\ Begun /\ Spaced /\ HaltedByThen

\* The program ends when it is closed, unless a stop came before the start of
\* what it is to stop (rtlsdr-handler.cpp:260-264, dab-processor.cpp:311-312).
Terminated == gui \in {"ended", "crashed"} \/ missed
=============================================================================

----------------------------- MODULE AudioSink -----------------------------
(***************************************************************************)
(* The sound output: the frames a decoder makes go through audioBuffer to  *)
(* the GUI thread (newAudio), which brings them to 48000 and puts them     *)
(* into _O_Buffer; the callback of PortAudio takes them out.               *)
(*                                                                         *)
(* The buffers keep the order of the frames (RingBuffer), which are the    *)
(* numbers of their making.  What a rate converter makes of its block of   *)
(* Limit frames stands for these frames.                                   *)
(***************************************************************************)
EXTENDS Integers, Sequences, SequencesExt

CONSTANTS
  numofDevices, Supported,  \* devices of PortAudio, those with 48000
  Default,                  \* Pa_GetDefaultOutputDevice
  Limit,                    \* inputLimit of the converter for 24000
  MaxRing,                  \* frames in _O_Buffer
  MaxFrames                 \* bound: frames that are made

\* Assumed of the constants by Peripherals.
DevicesAssumption == /\ numofDevices \in Nat
                     /\ Supported \subseteq 0 .. numofDevices - 1
                     /\ Default \in 0 .. numofDevices - 1
LimitAssumption   == Limit \in Nat \ {0} /\ MaxRing >= Limit

rates == {24000, 48000}

VARIABLES
  gui,            \* what the GUI thread waits for
  idx,            \* the index that selectDevice is called with
  ostream,        \* null, open, or dangling: closed and not opened again
  device,         \* of the stream
  active,         \* not Pa_IsStreamStopped
  paCallbackReturn,
  taking,         \* the callback: how many frames it is taking, or Idle
  audioBuffer, signals,   \* frames of the decoder; newAudio signals: rates
  inBuffer,       \* of the converter
  _O_Buffer,
  made,           \* frames that were made
  flushed,        \* history: the last frame that was made before the last flush
  heard,          \* history: the frames that were heard, for each rate
  late,           \* history: frames made before the last flush and heard after
  spoilt          \* history: heard twice, out of order, or while flushed

stream    == <<ostream, device>>
played    == <<heard, late, spoilt>>
decoding  == <<audioBuffer, signals, made>>
sinkVars  == <<gui, idx, stream, active, paCallbackReturn, taking, decoding,
               inBuffer, _O_Buffer, flushed, played>>
Idle == -1

\* The entries of the combobox and the devices they stand for.
Entry(d) == Cardinality({e \in Supported : e <= d})
outTable == [k \in 0 .. numofDevices |->
               IF \E d \in Supported : Entry(d) = k
               THEN CHOOSE d \in Supported : Entry(d) = k ELSE -1]
setupChannels == 1 .. Cardinality(Supported)
isValidDevice(d) == 0 <= d /\ d < numofDevices

Init ==
  /\ gui = "new" /\ idx = 0 /\ ostream = "null" /\ device = -1
  /\ active = FALSE /\ paCallbackReturn = "abort" /\ taking = Idle
  /\ audioBuffer = << >> /\ signals = << >> /\ inBuffer = << >>
  /\ _O_Buffer = << >> /\ made = 0 /\ flushed = 0
  /\ heard = [r \in rates |-> {}] /\ late = {} /\ spoilt = FALSE

(***************************************************************************)
(* The GUI thread: the device.                                             *)
(***************************************************************************)
\* A Pa_ call for a stream that was closed: an error, if it returns.
Crash ==
  /\ gui # "new" /\ gui # "crashed" /\ ostream = "dangling"
  /\ gui' = "crashed"
  /\ UNCHANGED <<idx, stream, active, paCallbackReturn, taking, decoding,
                 inBuffer, _O_Buffer, flushed, played>>

\* selectDevice up to Pa_AbortStream.  At the start the saved device is tried,
\* then the default one; that is an index of PortAudio, not of the combobox.
Calls(from, choices, waiting, failing) ==
  /\ gui = from
  /\ idx' \in choices
  /\ IF idx' = 0 \/ ~isValidDevice(outTable[idx'])
     THEN gui' = failing /\ UNCHANGED paCallbackReturn
     ELSE /\ gui' = waiting
          /\ paCallbackReturn' = IF active THEN "abort" ELSE paCallbackReturn
  /\ UNCHANGED <<stream, active, taking, decoding, inBuffer, _O_Buffer,
                 flushed, played>>
selectSaved          == Calls("new", setupChannels, "select saved", "default")
selectDefaultDevice  == Calls("default", {Default}, "select", "idle")
set_streamSelector   == Calls("idle", {0} \cup setupChannels, "select", "idle")
NoneSaved ==
  /\ gui = "new" /\ gui' = "default"
  /\ UNCHANGED <<idx, stream, active, paCallbackReturn, taking, decoding,
                 inBuffer, _O_Buffer, flushed, played>>

\* The rest of selectDevice, once the callback has returned.
selectDevice(from, failing) ==
  /\ gui = from /\ taking = Idle
  /\ \/ /\ gui' = failing /\ active' = FALSE      \* Pa_OpenStream fails
        /\ ostream' = IF ostream = "null" THEN "null" ELSE "dangling"
        /\ UNCHANGED <<device, paCallbackReturn>>
     \/ /\ active' \in BOOLEAN                    \* Pa_StartStream may fail
        /\ gui' = IF active' THEN "idle" ELSE failing
        /\ ostream' = "open" /\ device' = outTable[idx]
        /\ paCallbackReturn' = "continue"
  /\ UNCHANGED <<idx, taking, decoding, inBuffer, _O_Buffer, flushed, played>>

(***************************************************************************)
(* The GUI thread: start, stop and end.                                    *)
(***************************************************************************)
\* FlushRingBuffer.  A callback in the middle of it gets what is not there.
Flush ==
  /\ _O_Buffer' = << >> /\ flushed' = made - Len(audioBuffer)
  /\ late' = {} /\ spoilt' = (spoilt \/ taking # Idle)
  /\ UNCHANGED heard
Restarted ==
  /\ Flush
  /\ paCallbackReturn' = "continue"
  /\ active' \in IF ostream = "open" THEN BOOLEAN ELSE {FALSE}
restartAlways ==
  /\ gui = "idle" /\ Restarted
  /\ UNCHANGED <<gui, idx, stream, taking, decoding, inBuffer>>
restart ==
  /\ gui = "idle" /\ ~active /\ Restarted
  /\ UNCHANGED <<gui, idx, stream, taking, decoding, inBuffer>>

\* stop, and the beginning of the destructor: Pa_StopStream, Pa_AbortStream.
Stops(to) ==
  /\ gui = "idle" /\ active
  /\ paCallbackReturn' = "abort" /\ gui' = to
  /\ UNCHANGED <<idx, stream, active, taking, decoding, inBuffer, _O_Buffer,
                 flushed, played>>
stop == Stops("stop")
Stopped ==
  /\ gui = "stop" /\ taking = Idle
  /\ active' = FALSE /\ gui' = "idle"
  /\ UNCHANGED <<idx, stream, paCallbackReturn, taking, decoding, inBuffer,
                 _O_Buffer, flushed, played>>

\* TerminateProcess stops the stream before it deletes the sink.
Delete ==
  /\ gui = "idle" /\ ~active
  /\ gui' = "deleted" /\ spoilt' = (spoilt \/ taking # Idle)
  /\ UNCHANGED <<idx, stream, active, paCallbackReturn, taking, decoding,
                 inBuffer, _O_Buffer, flushed, heard, late>>

(***************************************************************************)
(* The frames.                                                             *)
(***************************************************************************)
\* A decoder puts a frame into audioBuffer and signals it.
Decoded ==
  /\ gui # "deleted" /\ made < MaxFrames /\ Len(signals) < 2
  /\ made' = made + 1
  /\ audioBuffer' = Append(audioBuffer, made')
  /\ \E r \in rates : signals' = Append(signals, r)
  /\ UNCHANGED <<gui, idx, stream, active, paCallbackReturn, taking, inBuffer,
                 _O_Buffer, flushed, played>>

\* audioOutput: what does not fit into the buffer is lost.
audioOutput(frames, r) ==
  LET tagged == [i \in DOMAIN frames |-> <<r, frames[i]>>]
      all    == _O_Buffer \o tagged
  IN _O_Buffer' = SubSeq(all, 1, IF Len(all) < MaxRing THEN Len(all) ELSE MaxRing)

\* convert: a block at a time; inp becomes 0.
Blocks(seq) == (Len(seq) \div Limit) * Limit
RestKept(seq) == seq
Rest(seq)     == SubSeq(seq, Blocks(seq) + 1, Len(seq))

audioOut(frames, r) ==
  IF r = 48000
  THEN audioOutput(frames, r) /\ UNCHANGED inBuffer
  ELSE LET inp == inBuffer \o frames
       IN audioOutput(SubSeq(inp, 1, Blocks(inp)), r) /\ inBuffer' = Rest(inp)

\* newAudio: one frame stays in audioBuffer, whatever rate it has.
newAudio ==
  /\ gui = "idle" /\ signals # << >>
  /\ signals' = Tail(signals)
  /\ audioOut(Front(audioBuffer), Head(signals))
  /\ audioBuffer' = <<Last(audioBuffer)>>
  /\ UNCHANGED <<gui, idx, stream, active, paCallbackReturn, taking, made,
                 flushed, played>>

\* paCallback_o, around getDataFromBuffer.
CallbackBegins ==
  /\ active /\ taking = Idle /\ paCallbackReturn = "continue"
  /\ taking' = Len(_O_Buffer)
  /\ UNCHANGED <<gui, idx, stream, active, paCallbackReturn, decoding, inBuffer,
                 _O_Buffer, flushed, played>>
CallbackEnds ==
  LET number(i) == _O_Buffer[i][2]
      frames(r) == {i \in 1 .. taking : _O_Buffer[i][1] = r}
      After(i, r) == /\ \A n \in heard[r] : n < number(i)
                     /\ \A j \in frames(r) : j < i => number(j) < number(i)
  IN /\ taking # Idle /\ taking <= Len(_O_Buffer)
     /\ taking' = Idle
     /\ _O_Buffer' = SubSeq(_O_Buffer, taking + 1, Len(_O_Buffer))
     /\ heard' = [r \in rates |-> heard[r] \cup {number(i) : i \in frames(r)}]
     /\ late' = late \cup {n \in {number(i) : i \in 1 .. taking} : n <= flushed}
     /\ spoilt' = (spoilt \/ \E r \in rates : \E i \in frames(r) : ~After(i, r))
     /\ UNCHANGED <<gui, idx, stream, active, paCallbackReturn, decoding,
                    inBuffer, flushed>>

Next == \/ selectSaved \/ NoneSaved \/ selectDefaultDevice \/ set_streamSelector
        \/ selectDevice("select saved", "default") \/ selectDevice("select", "idle")
        \/ Crash \/ restart \/ stop \/ Stopped \/ Delete
        \/ Decoded \/ newAudio \/ CallbackBegins \/ CallbackEnds
-----------------------------------------------------------------------------
StreamTyped ==
  /\ gui \in {"new", "default", "select saved", "select", "idle", "stop",
              "deleted", "crashed"}
  /\ ostream \in {"null", "open", "dangling"}
  /\ active \in BOOLEAN /\ spoilt \in BOOLEAN
  /\ ostream # "null" => device \in Supported
FramesTyped ==
  /\ made \in Nat /\ flushed \in Nat
  /\ audioBuffer \in Seq(Nat) /\ signals \in Seq(rates)
  /\ Len(audioBuffer) <= 1 + Len(signals)
  /\ inBuffer \in Seq(Nat) /\ Len(inBuffer) < Limit
  /\ _O_Buffer \in Seq(rates \X Nat) /\ Len(_O_Buffer) <= MaxRing
  /\ taking \in Nat \cup {Idle}
  /\ heard \in [rates -> SUBSET Nat] /\ late \in SUBSET Nat
TypeOK == StreamTyped /\ FramesTyped

\* selectDevice was called with a valid device.
ValidAsked ==
  gui \in {"select saved", "select"} =>
    idx \in 1 .. numofDevices /\ outTable[idx] \in Supported
\* The callback is called by a stream that is open, and the stream has
\* stopped before another one is begun or the buffer emptied.
CallbackActive == /\ active => ostream = "open"
                  /\ taking # Idle => active
\* newAudio finds a frame that is left.
FrameLeft == signals # << >> => audioBuffer # << >>

\* The frames in audioBuffer are the last ones made; those before it in the
\* other buffers were made earlier, in their order.
Past == made - Len(audioBuffer)
LastMade ==
  /\ Past >= 0 /\ flushed <= Past
  /\ \A i \in 1 .. Len(audioBuffer) : audioBuffer[i] = Past + i
Number(i) == _O_Buffer[i][2]
Rate(i)   == _O_Buffer[i][1]
InOrder ==
  /\ \A i \in 1 .. Len(inBuffer) : inBuffer[i] <= Past
  /\ \A i, j \in 1 .. Len(inBuffer) : i < j => inBuffer[i] < inBuffer[j]
  /\ \A i \in 1 .. Len(_O_Buffer) :
       /\ Number(i) <= Past
       /\ \A n \in heard[Rate(i)] : n < Number(i)
       /\ \A j \in 1 .. i - 1 : Rate(j) = Rate(i) => Number(j) < Number(i)
       /\ Rate(i) = 24000 => \A j \in 1 .. Len(inBuffer) : Number(i) < inBuffer[j]
  /\ \A r \in rates : \A n \in heard[r] : n <= Past
  /\ \A n \in heard[24000] : \A j \in 1 .. Len(inBuffer) : n < inBuffer[j]
\* What was made before the last flush and was heard or may yet be: what the
\* converter had kept.
Left == late \cup {inBuffer[i] : i \in {k \in 1 .. Len(inBuffer) : inBuffer[k] <= flushed}}
             \cup {Number(i) : i \in {k \in 1 .. Len(_O_Buffer) : Number(k) <= flushed}}
FewLate == IsFiniteSet(Left) /\ Cardinality(Left) < Limit

\* Each frame is heard at most once and those of a rate in the order of their
\* making; the GUI thread never empties or deletes the buffer while the
\* callback takes frames out of it (audiosink.cpp:147-150, 62); and after it
\* was emptied nothing is heard that came before, but what a rate converter
\* had kept (newconverter.cpp:60-64).
HeardRight == ~spoilt /\ Cardinality(late) < Limit

\* Inductive.
IInv == TypeOK /\ ValidAsked /\ CallbackActive /\ FrameLeft /\ LastMade
          /\ InOrder /\ FewLate /\ ~spoilt
=============================================================================

---------------------------- MODULE Peripherals ----------------------------
(***************************************************************************)
(* The two ends of the receiver: the device that brings the samples in and *)
(* the sink that brings the sound out.  They have nothing in common but    *)
(* the GUI thread, which makes them, starts and stops them: each is looked *)
(* at by itself.                                                           *)
(***************************************************************************)
EXTENDS Integers, Sequences, FiniteSets

CONSTANTS Compiled, In, Out, Wrap, MaxStarts,                        \* Devices
          numofDevices, Supported, Default, Limit, MaxFrames,        \* AudioSink
          MaxRing

VARIABLES
  part, gui,
  tries, theDevice, openDevs, dab, next, reading, running, worker, streaming,
  stream, position, unhalted, buffer, convBuffer, starts, stale, uneven, missed,
  idx, ostream, device, active, paCallbackReturn, taking, audioBuffer, signals,
  inBuffer, _O_Buffer, made, flushed, heard, late, spoilt

Device == INSTANCE Devices
Sink   == INSTANCE AudioSink

ASSUME DeviceAssumption == /\ Device!CompiledAssumption
                           /\ Device!RatesAssumption
                           /\ Device!BoundsAssumption
ASSUME SinkAssumption   == Sink!DevicesAssumption /\ Sink!LimitAssumption

ownDevice == <<tries, theDevice, openDevs, dab, next, reading, running, worker,
               streaming, stream, position, unhalted, buffer, convBuffer, starts,
               stale, uneven, missed>>
ownSink   == <<idx, ostream, device, active, paCallbackReturn, taking,
               audioBuffer, signals, inBuffer, _O_Buffer, made, flushed, heard,
               late, spoilt>>
vars      == <<part, gui, ownDevice, ownSink>>

\* The variables of the part that is not looked at.
None == << >>
NoDevice == /\ tries = None /\ theDevice = None /\ openDevs = None /\ dab = None
            /\ next = None /\ reading = None /\ running = None /\ worker = None
            /\ streaming = None /\ stream = None /\ position = None
            /\ buffer = None /\ convBuffer = None /\ starts = None
            /\ stale = None /\ uneven = None /\ missed = None
            /\ unhalted = None
NoSink == /\ idx = None /\ ostream = None /\ device = None /\ active = None
          /\ paCallbackReturn = None /\ taking = None /\ audioBuffer = None
          /\ signals = None /\ inBuffer = None /\ _O_Buffer = None
          /\ made = None /\ flushed = None /\ heard = None /\ late = None
          /\ spoilt = None

Init == \/ part = "device" /\ Device!Init /\ NoSink
        \/ part = "sink" /\ Sink!Init /\ NoDevice

InDevice(A) == part = "device" /\ A /\ UNCHANGED <<part, ownSink>>
DeviceStep  == InDevice(Device!Next)
SinkStep    == part = "sink" /\ Sink!Next /\ UNCHANGED <<part, ownDevice>>
Next == DeviceStep \/ SinkStep

\* The GUI thread, the thread of the dabProcessor and that of librtlsdr are
\* scheduled; the user and the callbacks owe nothing.
Fairness == /\ WF_vars(InDevice(Device!guiThread))
            /\ WF_vars(InDevice(Device!run))
            /\ WF_vars(InDevice(Device!library))
Spec == Init /\ [][Next]_vars /\ Fairness
-----------------------------------------------------------------------------
\* What each part keeps to, with the types of its variables; inductive.
IInv == /\ part \in {"device", "sink"}
        /\ part = "device" => Device!IInv
        /\ part = "sink"   => Sink!IInv

\* What is read after a start is of the channel that was asked for
\* (dab-processor.cpp:121), as long as the libraries stop when asked to.
OnlyTuned == part = "device" => Device!OnlyTuned

\* The samples an airspy makes are evenly spaced (airspy-handler.cpp:311-330).
EvenlyResampled == part = "device" => Device!EvenlyResampled

\* When the handler is deleted nothing runs any more (radio.cpp:540), if the
\* libraries stopped when asked to.
HaltedByThen == part = "device" => Device!HaltedByThen

\* The frames that are heard are heard once and in order, and none of them is
\* taken from a buffer that is being emptied (audiosink.cpp:150).
HeardRight == part = "sink" => Sink!HeardRight

\* The program ends when it is closed (radio.cpp:527-531), unless a stop came
\* before the start of what it is to stop.
CloseEnds == (part = "device" /\ gui = "terminate")
               ~> (part = "device" /\ Device!Terminated)
=============================================================================

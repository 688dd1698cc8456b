--------------------------- MODULE RadioInterface ---------------------------
(***************************************************************************)
(* The GUI thread's RadioInterface (radio.cpp): scanning the channels that *)
(* are on the persistent list, collecting services from the signals of the *)
(* dabProcessor thread, selecting a service, and leaving the program at    *)
(* any moment and starting it again.                                       *)
(*                                                                         *)
(* A handler runs to its end before the next one starts.  Signals of the   *)
(* dabProcessor thread are queued connections: emitting one posts an event *)
(* that stays in the queue, and is delivered, even if the connection is    *)
(* cut in the meantime.  dabProcessor itself is reduced to the channel it  *)
(* is tuned to and the services its FIB database has: stop waits for the   *)
(* thread to end (see DabThreads) and clears the database.                 *)
(***************************************************************************)
EXTENDS Integers, Sequences

CONSTANTS
  channels,     \* how many channels the band has
  Services,     \* the names of the services on the air
  None,         \* no channel, or no service
  MaxPosted,    \* bound: events in the queue of the GUI thread
  MaxClicks,    \* bound: services selected and resets asked for
  MaxQuits      \* bound: times the program is left

Channel == 0 .. channels - 1

ASSUME ChannelsAssumption  == channels \in Nat \ {0}
ASSUME NoneAssumption      == None \notin Channel \cup Services
ASSUME MaxPostedAssumption == MaxPosted \in Nat
ASSUME MaxClicksAssumption == MaxClicks \in Nat
ASSUME MaxQuitsAssumption  == MaxQuits \in Nat

VARIABLES
  offers,        \* the audio services each channel carries
  settings,      \* dabSettings: 1 for a channel on the list, -1 for others
  up,            \* whether the program runs
  channelNumber, scanning,
  nextConnected, \* whether No_Signal_Found and signalTimer lead to nextChannel
  signalTimer, channelTimer,                     \* whether they are running
  selectable,    \* whether a click on a service leads to selectService
  resettable,    \* whether a click on the reset button leads to reset
  serviceMap,    \* service to the channel it was found on
  selectedChannel, currentService,
  procOn, tuned, scanMode,    \* dabProcessor: running, frequency, scanMode
  ensemble,      \* the services in the FIB database
  playing,       \* the service mscHandler has backends for
  posted,        \* the event queue of the GUI thread
  heard,         \* history: the channels listened to in full since they were
                 \* last tuned to in a scan
  clicks, quits

listVars == <<settings, heard>>
scanVars == <<channelNumber, scanning, nextConnected, signalTimer>>
viewVars == <<serviceMap, selectable, resettable>>
selVars  == <<selectedChannel, currentService, channelTimer>>
procVars == <<procOn, tuned, scanMode, ensemble, playing>>
userVars == <<clicks, quits>>
vars == <<offers, listVars, up, scanVars, viewVars, selVars, procVars, posted,
          userVars>>

NoSignalFrom(c) == [kind |-> "No_Signal_Found", from |-> c]
ServiceEvent(s) == [kind |-> "addtoEnsemble", from |-> s]
ChangeEvent     == [kind |-> "changeinConfiguration", from |-> None]
Events == {NoSignalFrom(c) : c \in Channel} \cup
          {ServiceEvent(s) : s \in Services} \cup {ChangeEvent}

NoServices == [s \in Services |-> None]

Init ==
  /\ offers \in [Channel -> SUBSET Services]
  /\ settings \in [Channel -> {-1, 1}]
  /\ heard = {c \in Channel : settings[c] = -1}
  /\ up = FALSE
  /\ channelNumber = 0 /\ scanning = FALSE
  /\ nextConnected = FALSE /\ signalTimer = FALSE /\ channelTimer = FALSE
  /\ selectable = FALSE /\ resettable = FALSE
  /\ serviceMap = NoServices
  /\ selectedChannel = None /\ currentService = None
  /\ procOn = FALSE /\ tuned = None /\ scanMode = FALSE
  /\ ensemble = {} /\ playing = None
  /\ posted = << >>
  /\ clicks = 0 /\ quits = 0

(***************************************************************************)
(* dabProcessor as the GUI thread uses it.                                 *)
(***************************************************************************)
\* A stop that leaves the FIB database alone.
TuneKeepingEnsemble(c, mode) ==
  /\ procOn' = TRUE /\ tuned' = c /\ scanMode' = mode
  /\ playing' = None
  /\ UNCHANGED ensemble

\* stop, and then start (c, mode).
Tune(c, mode) ==
  /\ procOn' = TRUE /\ tuned' = c /\ scanMode' = mode
  /\ ensemble' = {} /\ playing' = None

\* stop
Halt ==
  /\ procOn' = FALSE
  /\ ensemble' = {} /\ playing' = None
  /\ UNCHANGED <<tuned, scanMode>>

Post(e) == Len(posted) < MaxPosted /\ posted' = Append(posted, e)

\* run: five times no dip, or no start of a frame more than three times.
\* Without a connection nothing is posted.
EmitNoSignal ==
  /\ procOn /\ scanMode /\ nextConnected
  /\ Post(NoSignalFrom(tuned))
  /\ UNCHANGED <<offers, listVars, up, scanVars, viewVars, selVars, procVars,
                 userVars>>

\* bind_audioService: a service of the channel enters the database.
Decode(s) ==
  /\ procOn /\ s \in offers[tuned] \ ensemble
  /\ ensemble' = ensemble \cup {s}
  /\ Post(ServiceEvent(s))
  /\ UNCHANGED <<offers, listVars, up, scanVars, viewVars, selVars, procOn,
                 tuned, scanMode, playing, userVars>>

\* FIG0/0 announces that a change of the configuration takes place now.
EmitChange ==
  /\ procOn
  /\ Post(ChangeEvent)
  /\ UNCHANGED <<offers, listVars, up, scanVars, viewVars, selVars, procVars,
                 userVars>>

dabProcessor == EmitNoSignal \/ (\E s \in Services : Decode(s)) \/ EmitChange

(***************************************************************************)
(* Scanning.                                                               *)
(***************************************************************************)
\* The loops of startScanning and nextChannel stop at c, or find nothing.
Finds(first, list, c) ==
  /\ first <= c /\ list[c] > 0
  /\ \A d \in Channel : first <= d /\ list[d] > 0 => c <= d
FindsNone(first, list) ==
  \A d \in Channel : first <= d => list[d] <= 0

\* A scan without the timer.
ScanUntimed(c, list, done) ==
  /\ channelNumber' = c
  /\ settings' = [list EXCEPT ![c] = -1]
  /\ heard' = (heard \cup done) \ {c}
  /\ nextConnected' = TRUE /\ signalTimer' = FALSE /\ scanning' = TRUE
  /\ Tune(c, TRUE)

\* The channel is off the list until it shows a service.
Scan(c, list, done) ==
  /\ channelNumber' = c
  /\ settings' = [list EXCEPT ![c] = -1]
  /\ heard' = (heard \cup done) \ {c}
  /\ nextConnected' = TRUE /\ signalTimer' = TRUE /\ scanning' = TRUE
  /\ Tune(c, TRUE)

\* Called with the processor stopped.
startScanning(list) ==
  \/ /\ \E c \in Channel : Finds(0, list, c) /\ Scan(c, list, {})
     /\ UNCHANGED resettable
  \/ /\ FindsNone(0, list)
     /\ channelNumber' = channels
     /\ settings' = list
     /\ nextConnected' = FALSE
     /\ resettable' = TRUE
     /\ UNCHANGED <<heard, scanning, signalTimer, procVars>>

\* done: the channel that has been listened to in full, if it was.
nextChannel(done) ==
  \/ /\ \E c \in Channel :
          Finds(channelNumber + 1, settings, c) /\ Scan(c, settings, done)
     /\ UNCHANGED <<selectable, resettable>>
  \/ /\ FindsNone(channelNumber + 1, settings)
     /\ channelNumber' = IF channelNumber < channels THEN channels
                                                     ELSE channelNumber + 1
     /\ scanning' = FALSE
     /\ heard' = heard \cup done
     /\ nextConnected' = FALSE /\ signalTimer' = FALSE
     /\ selectable' = TRUE /\ resettable' = TRUE
     /\ Halt
     /\ UNCHANGED settings

\* signalTimer fires.  It is running only while it is connected.
SignalTimeout ==
  /\ signalTimer
  /\ nextChannel({channelNumber})
  /\ UNCHANGED <<offers, up, serviceMap, selVars, posted, userVars>>

\* The event at the head of the queue is delivered.
Serve(e) == posted # << >> /\ Head(posted) = e /\ posted' = Tail(posted)

NoSignalArrives(c) ==
  /\ Serve(NoSignalFrom(c))
  /\ nextChannel({c} \cap {channelNumber})
  /\ UNCHANGED <<offers, up, serviceMap, selVars, userVars>>

\* A service of the scan; a name that is in serviceMap stays as it is.
addtoEnsemble(s) ==
  /\ Serve(ServiceEvent(s))
  /\ IF scanning /\ s \in ensemble
     THEN /\ settings' = [settings EXCEPT ![channelNumber] = 1]
          /\ serviceMap' = IF serviceMap[s] = None
                           THEN [serviceMap EXCEPT ![s] = channelNumber]
                           ELSE serviceMap
     ELSE UNCHANGED <<settings, serviceMap>>
  /\ UNCHANGED <<offers, heard, up, scanVars, selectable, resettable, selVars,
                 procVars, userVars>>

\* A restart of the thread that leaves the backends as they are.
ChangeKeepingBackends ==
  /\ Serve(ChangeEvent)
  /\ procOn' = TRUE /\ ensemble' = {}
  /\ UNCHANGED <<offers, listVars, up, scanVars, viewVars, selVars, tuned,
                 scanMode, playing, userVars>>

\* dabProcessor::reset: stop, and start again with what it had.
changeinConfiguration ==
  /\ Serve(ChangeEvent)
  /\ procOn' = TRUE /\ ensemble' = {} /\ playing' = None
  /\ UNCHANGED <<offers, listVars, up, scanVars, viewVars, selVars, tuned,
                 scanMode, userVars>>

(***************************************************************************)
(* The user: resets, services, and the end and start of the program.       *)
(***************************************************************************)
AllListed == [c \in Channel |-> 1]

reset ==
  /\ up /\ resettable /\ clicks < MaxClicks
  /\ clicks' = clicks + 1
  /\ selectable' = FALSE /\ resettable' = FALSE
  /\ serviceMap' = NoServices
  /\ \E c \in Channel : Finds(0, AllListed, c) /\ Scan(c, AllListed, {})
  /\ UNCHANGED <<offers, up, selVars, posted, quits>>

\* What startService hands to mscHandler after reset_msc.
Started(s) == IF s \in ensemble THEN s ELSE None

\* selectService, a service of another channel than selectedChannel.
SelectOther(s) ==
  /\ selectable /\ ~scanning /\ clicks < MaxClicks
  /\ serviceMap[s] # None /\ selectedChannel # serviceMap[s]
  /\ clicks' = clicks + 1
  /\ Tune(serviceMap[s], FALSE)
  /\ selectedChannel' = serviceMap[s] /\ currentService' = s
  /\ channelTimer' = TRUE
  /\ UNCHANGED <<offers, listVars, up, scanVars, viewVars, posted, quits>>

\* selectService, a service of selectedChannel.
SelectSame(s) ==
  /\ selectable /\ ~scanning /\ clicks < MaxClicks
  /\ serviceMap[s] # None /\ selectedChannel = serviceMap[s]
  /\ clicks' = clicks + 1
  /\ playing' = Started(s)
  /\ UNCHANGED <<offers, listVars, up, scanVars, viewVars, selVars, procOn,
                 tuned, scanMode, ensemble, posted, quits>>

selectService(s) == SelectOther(s) \/ SelectSame(s)

\* Five seconds later: the service, if the database knows its kind.
channelTimer_timeout ==
  /\ channelTimer
  /\ channelTimer' = FALSE
  /\ playing' = IF currentService \in ensemble THEN Started(currentService)
                                               ELSE playing
  /\ UNCHANGED <<offers, listVars, up, scanVars, viewVars, selectedChannel,
                 currentService, procOn, tuned, scanMode, ensemble, posted,
                 userVars>>

\* The constructor.
Launch ==
  /\ ~up
  /\ up' = TRUE
  /\ startScanning(settings)
  /\ UNCHANGED <<offers, serviceMap, selectable, selVars, posted, userVars>>

\* TerminateProcess; only the settings and the air stay.
TerminateProcess ==
  /\ up /\ quits < MaxQuits
  /\ quits' = quits + 1
  /\ up' = FALSE
  /\ channelNumber' = 0 /\ scanning' = FALSE
  /\ nextConnected' = FALSE /\ signalTimer' = FALSE /\ channelTimer' = FALSE
  /\ selectable' = FALSE /\ resettable' = FALSE
  /\ serviceMap' = NoServices
  /\ selectedChannel' = None /\ currentService' = None
  /\ procOn' = FALSE /\ tuned' = None /\ scanMode' = FALSE
  /\ ensemble' = {} /\ playing' = None
  /\ posted' = << >>
  /\ UNCHANGED <<offers, listVars, clicks>>

Arrives ==
  \/ \E c \in Channel : NoSignalArrives(c)
  \/ \E s \in Services : addtoEnsemble(s)
  \/ changeinConfiguration

Next ==
  \/ dabProcessor
  \/ Arrives \/ SignalTimeout \/ channelTimer_timeout
  \/ reset \/ (\E s \in Services : selectService(s))
  \/ Launch \/ TerminateProcess

Spec == Init /\ [][Next]_vars
\* The GUI thread serves its events and its timers, each in the end.
FairSpec == Spec /\ WF_vars(Arrives) /\ WF_vars(SignalTimeout)
                 /\ WF_vars(channelTimer_timeout)
----------------------------------------------------------------------------
TypeOK ==
  /\ offers \in [Channel -> SUBSET Services]
  /\ settings \in [Channel -> {-1, 1}] /\ heard \subseteq Channel
  /\ up \in BOOLEAN /\ channelNumber \in Nat /\ scanning \in BOOLEAN
  /\ nextConnected \in BOOLEAN
  /\ signalTimer \in BOOLEAN /\ channelTimer \in BOOLEAN
  /\ selectable \in BOOLEAN /\ resettable \in BOOLEAN
  /\ serviceMap \in [Services -> Channel \cup {None}]
  /\ selectedChannel \in Channel \cup {None}
  /\ currentService \in Services \cup {None}
  /\ procOn \in BOOLEAN /\ tuned \in Channel \cup {None}
  /\ scanMode \in BOOLEAN /\ ensemble \subseteq Services
  /\ playing \in Services \cup {None}
  /\ posted \in Seq(Events)
  /\ clicks \in 0 .. MaxClicks /\ quits \in 0 .. MaxQuits

\* A service is on record for a channel only if that channel carries it,
\* whatever signals of earlier channels are still under way.
RightChannel ==
  \A s \in Services : serviceMap[s] # None => s \in offers[serviceMap[s]]

\* A channel with a service on record is on the list for the next start.
RecordedIsListed ==
  \A s \in Services : serviceMap[s] # None => settings[serviceMap[s]] = 1

\* What mscHandler plays is in the ensemble the processor is tuned to.
PlaysTuned ==
  playing # None => procOn /\ playing \in ensemble \cap offers[tuned]

\* What these rest on: during a scan the processor is on the channel of the
\* scan and one of the two triggers will come; afterwards the user can go on;
\* the database is that of the channel the processor is on; and the services
\* on record are from channels the scan has reached, not from one to come.
ScanTuned ==
  /\ scanning => /\ procOn /\ tuned = channelNumber /\ channelNumber \in Channel
                 /\ signalTimer /\ ~selectable
  /\ up /\ ~scanning => resettable /\ channelNumber >= channels
  /\ signalTimer => scanning
  /\ ~up => /\ ~procOn /\ ~scanning /\ ~selectable
            /\ serviceMap = NoServices /\ posted = << >>
  /\ ensemble # {} => procOn
  /\ procOn => tuned # None /\ ensemble \subseteq offers[tuned]
  /\ posted # << >> \/ channelTimer => tuned # None
  /\ \A s \in Services : serviceMap[s] # None => serviceMap[s] <= channelNumber

\* The inductive invariant.
IInv == TypeOK /\ RightChannel /\ RecordedIsListed /\ PlaysTuned /\ ScanTuned

\* The list of channels is maintained (README.md:70-76): a channel is off it
\* only while it is scanned, or after it was listened to in full.  It does not
\* hold (README).
ListMaintained ==
  \A c \in Channel : settings[c] = -1 =>
    c \in heard \/ (scanning /\ c = channelNumber)

\* When a service is selected the FIB database that is asked for its data is
\* that of its channel (radio.cpp:564-565).  It does not hold (README).
SelectionTunes ==
  [][\A s \in Services :
       selectService(s) => procOn' /\ tuned' = serviceMap[s]]_vars

\* A scan comes to its end, whatever the signals do.
ScanEnds == scanning ~> ~scanning
============================================================================

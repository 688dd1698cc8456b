---------------------------- MODULE ControlProofs ----------------------------
(***************************************************************************)
(* Proofs about the control of the receiver: the handlers of the GUI       *)
(* thread (RadioInterface), for every number of channels, every set of     *)
(* services and every length of the event queue; and what they do to the   *)
(* two threads of the receiver (DabThreads), for every number of slots and *)
(* calls.                                                                  *)
(***************************************************************************)
EXTENDS RadioInterface, DabThreads, TLAPS

(***************************************************************************)
(* RadioInterface.                                                         *)
(***************************************************************************)
USE ChannelsAssumption, NoneAssumption

\* TypeOK in two parts: the flags, and everything else.
Flags ==
  /\ up \in BOOLEAN /\ scanning \in BOOLEAN /\ nextConnected \in BOOLEAN
  /\ signalTimer \in BOOLEAN /\ channelTimer \in BOOLEAN
  /\ selectable \in BOOLEAN /\ resettable \in BOOLEAN
  /\ procOn \in BOOLEAN /\ scanMode \in BOOLEAN
Data ==
  /\ offers \in [Channel -> SUBSET Services]
  /\ settings \in [Channel -> {-1, 1}] /\ heard \subseteq Channel
  /\ channelNumber \in Nat
  /\ serviceMap \in [Services -> Channel \cup {None}]
  /\ selectedChannel \in Channel \cup {None}
  /\ currentService \in Services \cup {None}
  /\ tuned \in Channel \cup {None}
  /\ ensemble \subseteq Services /\ playing \in Services \cup {None}
Queue  == posted \in Seq(Events)
Counts == clicks \in 0 .. MaxClicks /\ quits \in 0 .. MaxQuits

LEMMA TypeParts == TypeOK <=> Flags /\ Data /\ Queue /\ Counts
BY DEF TypeOK, Flags, Data, Queue, Counts

LEMMA EventKinds ==
  /\ \A c \in Channel : NoSignalFrom(c) \in Events
  /\ \A s \in Services : ServiceEvent(s) \in Events
  /\ ChangeEvent \in Events
BY DEF Events

LEMMA PostEvent ==
  ASSUME posted \in Seq(Events), NEW e \in Events, Post(e)
  PROVE  posted' \in Seq(Events)
BY DEF Post

LEMMA ServeEvent ==
  ASSUME posted \in Seq(Events), NEW e, Serve(e)
  PROVE  e \in Events /\ posted' \in Seq(Events) /\ posted # << >>
BY DEF Serve

\* What a handler leaves of the invariant when it keeps the queue and the
\* counts well typed: the parts about the data alone.
Facts == RightChannel /\ RecordedIsListed /\ PlaysTuned /\ ScanTuned

LEMMA Initially == Init => IInv
<1>. SUFFICES ASSUME Init PROVE IInv
  OBVIOUS
<1>1. Flags
  BY Zenon DEF Init, Flags
<1>2. Data
  BY DEF Init, Data, NoServices
<1>3. Queue /\ Counts
  BY MaxClicksAssumption, MaxQuitsAssumption DEF Init, Queue, Counts
<1>4. Facts
  BY DEF Init, Facts, RightChannel, RecordedIsListed, PlaysTuned, ScanTuned,
         NoServices
<1>. QED BY <1>1, <1>2, <1>3, <1>4, TypeParts DEF IInv, Facts

\* The dabProcessor thread.
LEMMA ProcessorStep == IInv /\ dabProcessor => IInv'
<1>. SUFFICES ASSUME IInv, dabProcessor PROVE IInv'
  OBVIOUS
<1>0. Flags /\ Data /\ Queue /\ Counts /\ Facts
  BY TypeParts DEF IInv, Facts
<1>1. tuned \in Channel
  BY <1>0 DEF dabProcessor, EmitNoSignal, Decode, EmitChange, Facts, ScanTuned, Data
<1>2. Queue'
  <2>1. CASE EmitNoSignal
    BY <2>1, <1>0, <1>1, EventKinds, PostEvent DEF EmitNoSignal, Queue
  <2>2. CASE \E s \in Services : Decode(s)
    BY <2>2, <1>0, EventKinds, PostEvent DEF Decode, Queue
  <2>3. CASE EmitChange
    BY <2>3, <1>0, EventKinds, PostEvent DEF EmitChange, Queue
  <2>. QED BY <2>1, <2>2, <2>3 DEF dabProcessor
<1>3. /\ UNCHANGED <<offers, listVars, up, scanVars, viewVars, selVars, procOn,
                     tuned, scanMode, playing, userVars>>
      /\ \/ UNCHANGED ensemble
         \/ \E s \in offers[tuned] : ensemble' = ensemble \cup {s}
      /\ procOn
  BY DEF dabProcessor, EmitNoSignal, Decode, EmitChange, procVars
<1>4. Flags' /\ Counts'
  BY <1>0, <1>3, Zenon DEF Flags, Counts, listVars, scanVars, viewVars,
                           selVars, userVars
<1>5. Data'
  BY <1>0, <1>1, <1>3 DEF Data, listVars, scanVars, viewVars, selVars
<1>6. up
  BY <1>0, <1>3 DEF Facts, ScanTuned
<1>7. Facts'
  <2>. USE <1>0, <1>1, <1>3, <1>6 DEF Facts, listVars, scanVars, viewVars, selVars
  <2>1. RightChannel' /\ RecordedIsListed'
    BY DEF RightChannel, RecordedIsListed
  <2>2. PlaysTuned'
    BY DEF PlaysTuned
  <2>3. ScanTuned'
    BY DEF ScanTuned
  <2>. QED BY <2>1, <2>2, <2>3
<1>. QED BY <1>2, <1>4, <1>5, <1>7, Zenon
     DEF IInv, Facts, TypeOK, Flags, Data, Queue, Counts

\* A scan that tunes to channel c, of which no service is on record.
LEMMA ScanStep ==
  ASSUME Flags, Data, Facts, up',
         NEW c \in Channel, NEW list \in [Channel -> {-1, 1}],
         NEW done, done \subseteq Channel, Scan(c, list, done),
         UNCHANGED offers, ~selectable', serviceMap' \in {serviceMap, NoServices},
         \A s \in Services : serviceMap'[s] # None =>
           serviceMap[s] # c /\ list[serviceMap[s]] = 1 /\ serviceMap[s] <= c,
         UNCHANGED <<selectedChannel, currentService>>
  PROVE  Data' /\ Facts'
<1>1. /\ channelNumber' = c /\ settings' = [list EXCEPT ![c] = -1]
      /\ heard' \subseteq Channel /\ signalTimer' /\ scanning'
      /\ procOn' /\ tuned' = c /\ ensemble' = {} /\ playing' = None
  BY DEF Scan, Tune, Data
<1>2. NoServices \in [Services -> Channel \cup {None}]
  BY DEF NoServices
<1>3. settings' \in [Channel -> {-1, 1}]
  BY <1>1
<1>4. Data'
  BY <1>1, <1>2, <1>3 DEF Data, Channel
<1>5. \A s \in Services : serviceMap'[s] # None => serviceMap'[s] = serviceMap[s]
  BY DEF NoServices
<1>6. RightChannel' /\ RecordedIsListed'
  BY <1>1, <1>5 DEF RightChannel, RecordedIsListed, Facts, Data
<1>7. PlaysTuned' /\ ScanTuned'
  BY <1>1, <1>5 DEF PlaysTuned, ScanTuned
<1>. QED BY <1>4, <1>6, <1>7 DEF Facts

LEMMA nextChannelStep ==
  ASSUME Flags, Data, Facts, Counts, up, tuned # None,
         NEW done, done \subseteq Channel, nextChannel(done), Queue',
         UNCHANGED <<offers, up, serviceMap, selVars, userVars>>
  PROVE  IInv'
<1>1. CASE /\ \E c \in Channel :
                Finds(channelNumber + 1, settings, c) /\ Scan(c, settings, done)
           /\ UNCHANGED <<selectable, resettable>>
  <2>1. PICK c \in Channel :
          Finds(channelNumber + 1, settings, c) /\ Scan(c, settings, done)
    BY <1>1
  <2>2. \A s \in Services : serviceMap[s] # None =>
          /\ serviceMap[s] <= channelNumber /\ settings[serviceMap[s]] = 1
          /\ serviceMap[s] \in Channel
    BY DEF Facts, ScanTuned, RecordedIsListed, Data
  <2>3. channelNumber + 1 <= c /\ channelNumber \in Nat
    BY <2>1 DEF Finds, Data
  <2>4. \A s \in Services : serviceMap[s] # None =>
          serviceMap[s] # c /\ settings[serviceMap[s]] = 1 /\ serviceMap[s] <= c
    BY <2>2, <2>3 DEF Channel
  <2>5. scanning
    BY <2>3 DEF Facts, ScanTuned, Channel
  <2>6. ~selectable' /\ up' /\ serviceMap' = serviceMap
    BY <1>1, <2>5 DEF Facts, ScanTuned
  <2>7. Data' /\ Facts'
    <3>1. settings \in [Channel -> {-1, 1}]
      BY DEF Data
    <3>. QED BY <2>1, <2>4, <2>6, <3>1, ScanStep DEF selVars
  <2>8. Flags' /\ Counts'
    BY <1>1, <2>1, Zenon DEF Flags, Counts, Scan, Tune, selVars, userVars
  <2>. QED BY <2>7, <2>8, Zenon
       DEF IInv, Facts, TypeOK, Flags, Data, Queue, Counts
<1>2. CASE /\ FindsNone(channelNumber + 1, settings)
           /\ channelNumber' = IF channelNumber < channels THEN channels
                                                           ELSE channelNumber + 1
           /\ scanning' = FALSE
           /\ heard' = heard \cup done
           /\ nextConnected' = FALSE /\ signalTimer' = FALSE
           /\ selectable' = TRUE /\ resettable' = TRUE
           /\ Halt
           /\ UNCHANGED settings
  <2>1. /\ ~scanning' /\ ~signalTimer' /\ resettable' /\ up'
        /\ ~procOn' /\ ensemble' = {} /\ playing' = None /\ tuned' = tuned
    BY <1>2 DEF Halt
  <2>2. /\ channelNumber' \in Nat /\ channelNumber' >= channels
        /\ channelNumber \in Nat /\ channelNumber <= channelNumber'
    BY <1>2 DEF Data
  <2>3. Flags' /\ Counts'
    BY <1>2, Zenon DEF Flags, Counts, Halt, selVars, userVars
  <2>4. Data'
    BY <1>2, <2>1, <2>2 DEF Data, selVars
  <2>5. RightChannel' /\ RecordedIsListed' /\ PlaysTuned'
    BY <1>2, <2>1 DEF RightChannel, RecordedIsListed, PlaysTuned, Facts
  <2>6. \A s \in Services : serviceMap'[s] # None => serviceMap'[s] <= channelNumber'
    <3>1. \A s \in Services : serviceMap[s] # None =>
            serviceMap[s] \in Nat /\ serviceMap[s] <= channelNumber
      BY DEF Facts, ScanTuned, Data, Channel
    <3>. QED BY <2>2, <3>1
  <2>7. ScanTuned'
    BY <2>1, <2>2, <2>6 DEF ScanTuned
  <2>. QED BY <2>3, <2>4, <2>5, <2>7, Zenon
       DEF IInv, Facts, TypeOK, Flags, Data, Queue, Counts
<1>. QED BY <1>1, <1>2 DEF nextChannel

\* The events and the timers.
LEMMA ArrivalStep ==
  ASSUME IInv, Arrives \/ SignalTimeout \/ channelTimer_timeout
  PROVE  IInv'
<1>0. Flags /\ Data /\ Queue /\ Counts /\ Facts
  BY TypeParts DEF IInv, Facts
<1>1. CASE \E c \in Channel : NoSignalArrives(c)
  <2>1. PICK c \in Channel : NoSignalArrives(c)
    BY <1>1
  <2>2. Queue' /\ posted # << >>
    BY <2>1, <1>0, ServeEvent DEF NoSignalArrives, Queue
  <2>3. up /\ tuned # None
    BY <2>2, <1>0 DEF Facts, ScanTuned
  <2>. QED BY <1>0, <2>1, <2>2, <2>3, nextChannelStep DEF NoSignalArrives
<1>2. CASE SignalTimeout
  <2>1. Queue'
    BY <1>0, <1>2, Zenon DEF SignalTimeout, Queue
  <2>2. up /\ tuned # None /\ {channelNumber} \subseteq Channel
    BY <1>0, <1>2 DEF SignalTimeout, Facts, ScanTuned
  <2>. QED BY <1>0, <1>2, <2>1, <2>2, nextChannelStep DEF SignalTimeout
<1>3. CASE \E s \in Services : addtoEnsemble(s)
  <2>1. PICK s \in Services : addtoEnsemble(s)
    BY <1>3
  <2>2. Queue' /\ posted # << >>
    BY <2>1, <1>0, ServeEvent DEF addtoEnsemble, Queue
  <2>3. Flags' /\ Counts'
    BY <1>0, <2>1, Zenon DEF Flags, Counts, addtoEnsemble, scanVars, selVars,
                             procVars, userVars
  <2>4. UNCHANGED <<offers, heard, up, scanVars, selectable, resettable,
                    selVars, procVars>>
    BY <2>1 DEF addtoEnsemble
  <2>5. CASE scanning /\ s \in ensemble
    <3>1. /\ settings' = [settings EXCEPT ![channelNumber] = 1]
          /\ serviceMap' = IF serviceMap[s] = None
                           THEN [serviceMap EXCEPT ![s] = channelNumber]
                           ELSE serviceMap
      BY <2>1, <2>5 DEF addtoEnsemble
    <3>2. /\ channelNumber \in Channel /\ tuned = channelNumber
          /\ s \in offers[channelNumber] /\ up
      BY <1>0, <2>5 DEF Facts, ScanTuned
    <3>3. Data'
      BY <1>0, <2>4, <3>1, <3>2 DEF Data, scanVars, selVars, procVars
    <3>4. RightChannel' /\ RecordedIsListed' /\ PlaysTuned'
      BY <1>0, <2>4, <3>1, <3>2 DEF Data, Facts, RightChannel,
         RecordedIsListed, PlaysTuned, procVars
    <3>5. \A r \in Services :
            serviceMap'[r] # None => serviceMap'[r] <= channelNumber'
      <4>1. channelNumber <= channelNumber /\ channelNumber' = channelNumber
        BY <2>4, <3>2 DEF scanVars, Channel
      <4>. QED BY <1>0, <3>1, <4>1 DEF Facts, ScanTuned, Data
    <3>6. ScanTuned'
      BY <1>0, <2>2, <2>4, <3>2, <3>5
      DEF Facts, ScanTuned, scanVars, selVars, procVars
    <3>. QED BY <2>2, <2>3, <3>3, <3>4, <3>6, Zenon
         DEF IInv, TypeOK, Flags, Data, Queue, Counts
  <2>6. CASE ~(scanning /\ s \in ensemble)
    <3>1. UNCHANGED <<settings, serviceMap>>
      BY <2>1, <2>6 DEF addtoEnsemble
    <3>2. Data'
      BY <1>0, <2>4, <3>1 DEF Data, scanVars, selVars, procVars
    <3>3. RightChannel' /\ RecordedIsListed' /\ PlaysTuned' /\ ScanTuned'
      BY <1>0, <2>2, <2>4, <3>1 DEF Facts, RightChannel, RecordedIsListed,
         PlaysTuned, ScanTuned, scanVars, selVars, procVars
    <3>. QED BY <2>2, <2>3, <3>2, <3>3, Zenon
         DEF IInv, TypeOK, Flags, Data, Queue, Counts
  <2>. QED BY <2>5, <2>6
<1>4. CASE changeinConfiguration
  <2>1. Queue' /\ posted # << >>
    BY <1>4, <1>0, ServeEvent DEF changeinConfiguration, Queue
  <2>2. /\ procOn' /\ ensemble' = {} /\ playing' = None
        /\ UNCHANGED <<offers, listVars, up, scanVars, viewVars, selVars, tuned,
                       scanMode>>
    BY <1>4 DEF changeinConfiguration
  <2>3. Flags' /\ Counts'
    BY <1>0, <1>4, Zenon DEF Flags, Counts, changeinConfiguration, scanVars,
                             viewVars, selVars, userVars
  <2>4. Data'
    BY <1>0, <2>2 DEF Data, listVars, scanVars, viewVars, selVars
  <2>5. RightChannel' /\ RecordedIsListed' /\ PlaysTuned' /\ ScanTuned'
    BY <1>0, <2>1, <2>2 DEF Facts, RightChannel, RecordedIsListed,
       PlaysTuned, ScanTuned, listVars, scanVars, viewVars, selVars
  <2>. QED BY <2>1, <2>3, <2>4, <2>5, Zenon
       DEF IInv, TypeOK, Flags, Data, Queue, Counts
<1>5. CASE channelTimer_timeout
  <2>1. /\ UNCHANGED <<offers, listVars, up, scanVars, viewVars, selectedChannel,
                       currentService, procOn, tuned, scanMode, ensemble, posted>>
        /\ playing' = IF currentService \in ensemble THEN currentService ELSE playing
        /\ ~channelTimer'
    BY <1>5 DEF channelTimer_timeout, Started
  <2>2. Flags' /\ Counts' /\ Queue'
    BY <1>0, <1>5, Zenon DEF Flags, Counts, Queue, channelTimer_timeout,
                             scanVars, viewVars, userVars
  <2>3. Data'
    BY <1>0, <2>1 DEF Data, listVars, scanVars, viewVars
  <2>4. PlaysTuned'
    BY <1>0, <2>1 DEF Facts, PlaysTuned, ScanTuned
  <2>5. RightChannel' /\ RecordedIsListed' /\ ScanTuned'
    BY <1>0, <2>1 DEF Facts, RightChannel, RecordedIsListed, ScanTuned,
       listVars, scanVars, viewVars
  <2>. QED BY <2>2, <2>3, <2>4, <2>5, Zenon
       DEF IInv, TypeOK, Flags, Data, Queue, Counts
<1>. QED BY <1>1, <1>2, <1>3, <1>4, <1>5 DEF Arrives

\* The user.
LEMMA resetStep == IInv /\ reset => IInv'
<1>. SUFFICES ASSUME IInv, reset PROVE IInv'
  OBVIOUS
<1>0. Flags /\ Data /\ Queue /\ Counts /\ Facts
  BY TypeParts DEF IInv, Facts
<1>1. PICK c \in Channel : Scan(c, AllListed, {})
  BY DEF reset
<1>2. AllListed \in [Channel -> {-1, 1}]
  BY DEF AllListed
<1>3. /\ up' /\ ~selectable' /\ serviceMap' = NoServices
      /\ UNCHANGED <<offers, selectedChannel, currentService>>
  BY DEF reset, selVars
<1>4. \A s \in Services : serviceMap'[s] = None
  BY <1>3 DEF NoServices
<1>5. Data' /\ Facts'
  <2>1. serviceMap' \in {serviceMap, NoServices}
    BY <1>3
  <2>2. {} \subseteq Channel
    OBVIOUS
  <2>. QED BY <1>0, <1>1, <1>2, <1>3, <1>4, <2>1, <2>2, ScanStep
<1>6. Flags' /\ Queue'
  BY <1>0, <1>1, Zenon DEF reset, Flags, Queue, Scan, Tune, selVars
<1>7. Counts'
  BY <1>0, MaxClicksAssumption DEF reset, Counts
<1>. QED BY <1>5, <1>6, <1>7, Zenon
     DEF IInv, Facts, TypeOK, Flags, Data, Queue, Counts

LEMMA selectServiceStep ==
  ASSUME IInv, NEW s \in Services, selectService(s)
  PROVE  IInv'
<1>0. Flags /\ Data /\ Queue /\ Counts /\ Facts
  BY TypeParts DEF IInv, Facts
<1>1. serviceMap[s] \in Channel
  BY <1>0 DEF selectService, SelectOther, SelectSame, Data
<1>2. CASE SelectOther(s)
  <2>1. /\ UNCHANGED <<offers, listVars, up, scanVars, viewVars, posted>>
        /\ procOn' /\ tuned' = serviceMap[s] /\ ensemble' = {} /\ playing' = None
        /\ selectedChannel' = serviceMap[s] /\ currentService' = s
        /\ ~scanning /\ up
    BY <1>0, <1>2 DEF SelectOther, Tune, Facts, ScanTuned, NoServices
  <2>2. Flags' /\ Queue'
    BY <1>0, <1>2, Zenon DEF SelectOther, Tune, Flags, Queue, scanVars, viewVars
  <2>3. Counts'
    BY <1>0, <1>2, MaxClicksAssumption DEF SelectOther, Counts
  <2>4. Data'
    BY <1>0, <1>1, <2>1 DEF Data, listVars, scanVars, viewVars
  <2>5. RightChannel' /\ RecordedIsListed' /\ PlaysTuned' /\ ScanTuned'
    BY <1>0, <1>1, <2>1 DEF Facts, RightChannel, RecordedIsListed, PlaysTuned,
       ScanTuned, listVars, scanVars, viewVars
  <2>. QED BY <2>2, <2>3, <2>4, <2>5, Zenon
       DEF IInv, TypeOK, Flags, Data, Queue, Counts
<1>3. CASE SelectSame(s)
  <2>1. /\ UNCHANGED <<offers, listVars, up, scanVars, viewVars, selVars, procOn,
                       tuned, scanMode, ensemble, posted>>
        /\ playing' = IF s \in ensemble THEN s ELSE None
    BY <1>3 DEF SelectSame, Started
  <2>2. Flags' /\ Queue'
    BY <1>0, <2>1, Zenon DEF Flags, Queue, scanVars, viewVars, selVars
  <2>3. Counts'
    BY <1>0, <1>3, MaxClicksAssumption DEF SelectSame, Counts
  <2>4. Data'
    BY <1>0, <2>1 DEF Data, listVars, scanVars, viewVars, selVars
  <2>5. PlaysTuned'
    BY <1>0, <2>1 DEF Facts, PlaysTuned, ScanTuned
  <2>6. RightChannel' /\ RecordedIsListed' /\ ScanTuned'
    BY <1>0, <2>1 DEF Facts, RightChannel, RecordedIsListed, ScanTuned,
       listVars, scanVars, viewVars, selVars
  <2>. QED BY <2>2, <2>3, <2>4, <2>5, <2>6, Zenon
       DEF IInv, TypeOK, Flags, Data, Queue, Counts
<1>. QED BY <1>2, <1>3 DEF selectService

\* The start and the end of the program.
LEMMA LaunchStep == IInv /\ Launch => IInv'
<1>. SUFFICES ASSUME IInv, Launch PROVE IInv'
  OBVIOUS
<1>0. Flags /\ Data /\ Queue /\ Counts /\ Facts
  BY TypeParts DEF IInv, Facts
<1>1. /\ up' /\ UNCHANGED <<offers, serviceMap, selectable, selVars, posted>>
      /\ ~procOn /\ ~scanning /\ ~signalTimer /\ serviceMap = NoServices
      /\ posted = << >>
  BY <1>0 DEF Launch, Facts, ScanTuned
<1>2. Queue' /\ Counts'
  BY <1>0, <1>1, Zenon DEF Launch, Queue, Counts, userVars
<1>3. \A s \in Services : serviceMap[s] = None
  BY <1>1 DEF NoServices
<1>4. CASE /\ \E c \in Channel : Finds(0, settings, c) /\ Scan(c, settings, {})
           /\ UNCHANGED resettable
  <2>1. PICK c \in Channel : Scan(c, settings, {})
    BY <1>4
  <2>2. settings \in [Channel -> {-1, 1}] /\ {} \subseteq Channel
    BY <1>0 DEF Data
  <2>3. ~selectable'
    BY <1>0 DEF Launch, Facts, ScanTuned
  <2>4. Data' /\ Facts'
    BY <1>0, <1>1, <1>3, <2>1, <2>2, <2>3, ScanStep DEF selVars
  <2>5. Flags'
    BY <1>0, <1>1, <1>4, <2>1, Zenon DEF Flags, Scan, Tune, selVars
  <2>. QED BY <1>2, <2>4, <2>5, Zenon
       DEF IInv, Facts, TypeOK, Flags, Data, Queue, Counts
<1>5. CASE /\ FindsNone(0, settings)
           /\ channelNumber' = channels
           /\ settings' = settings
           /\ nextConnected' = FALSE
           /\ resettable' = TRUE
           /\ UNCHANGED <<heard, scanning, signalTimer, procVars>>
  <2>1. Flags'
    BY <1>0, <1>1, <1>5, Zenon DEF Flags, procVars, selVars
  <2>2. Data'
    BY <1>0, <1>1, <1>5 DEF Data, procVars, selVars
  <2>3. RightChannel' /\ RecordedIsListed' /\ PlaysTuned' /\ ScanTuned'
    BY <1>0, <1>1, <1>3, <1>5 DEF Facts, RightChannel, RecordedIsListed,
       PlaysTuned, ScanTuned, procVars, selVars
  <2>. QED BY <1>2, <2>1, <2>2, <2>3, Zenon
       DEF IInv, TypeOK, Flags, Data, Queue, Counts
<1>. QED BY <1>4, <1>5 DEF Launch, startScanning

LEMMA TerminateStep == IInv /\ TerminateProcess => IInv'
<1>. SUFFICES ASSUME IInv, TerminateProcess PROVE IInv'
  OBVIOUS
<1>0. Flags /\ Data /\ Queue /\ Counts /\ Facts
  BY TypeParts DEF IInv, Facts
<1>1. Flags'
  BY Zenon DEF TerminateProcess, Flags
<1>2. Data'
  BY <1>0 DEF TerminateProcess, Data, NoServices, listVars
<1>3. Queue' /\ Counts'
  BY <1>0, MaxQuitsAssumption DEF TerminateProcess, Queue, Counts
<1>4. RightChannel' /\ RecordedIsListed' /\ PlaysTuned' /\ ScanTuned'
  BY DEF TerminateProcess, RightChannel, RecordedIsListed, PlaysTuned,
         ScanTuned, NoServices
<1>. QED BY <1>1, <1>2, <1>3, <1>4, Zenon
     DEF IInv, TypeOK, Flags, Data, Queue, Counts

LEMMA StutterStep == IInv /\ UNCHANGED vars => IInv'
<1>. SUFFICES ASSUME IInv, UNCHANGED vars PROVE IInv'
  OBVIOUS
<1>0. Flags /\ Data /\ Queue /\ Counts /\ Facts
  BY TypeParts DEF IInv, Facts
<1>1. Flags' /\ Queue' /\ Counts'
  BY <1>0, Zenon DEF vars, Flags, Queue, Counts, listVars, scanVars, viewVars,
                     selVars, procVars, userVars
<1>2. Data'
  BY <1>0 DEF vars, Data, listVars, scanVars, viewVars, selVars, procVars
<1>3. RightChannel' /\ RecordedIsListed' /\ PlaysTuned' /\ ScanTuned'
  BY <1>0 DEF vars, Facts, RightChannel, RecordedIsListed, PlaysTuned,
              ScanTuned, listVars, scanVars, viewVars, selVars, procVars
<1>. QED BY <1>1, <1>2, <1>3, Zenon
     DEF IInv, TypeOK, Flags, Data, Queue, Counts

\* The inductive invariant of radio.cpp: what is on record, on the list, in
\* the database and playing fits together in every state.
THEOREM InvariantHolds == Spec => []IInv
<1>1. Init => IInv
  BY Initially
<1>2. IInv /\ [Next]_vars => IInv'
  <2>. SUFFICES ASSUME IInv, [Next]_vars PROVE IInv'
    OBVIOUS
  <2>. QED BY ProcessorStep, ArrivalStep, resetStep, selectServiceStep,
              LaunchStep, TerminateStep, StutterStep DEF Next
<1>. QED BY <1>1, <1>2, PTL DEF Spec

\* addtoEnsemble never puts a service on record for a channel that does not
\* carry it, although it runs on signals that may be as old as it gets.
THEOREM NothingMisfiled == Spec => []RightChannel
<1>1. IInv => RightChannel
  BY DEF IInv
<1>. QED BY <1>1, InvariantHolds, PTL

\* addtoEnsemble and the two scanning slots keep the list of channels in step
\* with the services on record.
THEOREM RecordedChannelsListed == Spec => []RecordedIsListed
<1>1. IInv => RecordedIsListed
  BY DEF IInv
<1>. QED BY <1>1, InvariantHolds, PTL

\* startService never gives mscHandler the data of a service of another
\* ensemble than the one being received.
THEOREM NeverOtherEnsemble == Spec => []PlaysTuned
<1>1. IInv => PlaysTuned
  BY DEF IInv
<1>. QED BY <1>1, InvariantHolds, PTL

(***************************************************************************)
(* DabThreads: reset is never run by two threads at once, the accounting   *)
(* of bufferSpace through resets, and that nothing runs after the deletion.*)
(***************************************************************************)
USE NrBlocksAssumption, MaxCallsAssumption DEF Callers, Threads

LEMMA ThreadsInitially == ThreadsInit => ThreadsInv
<1>. SUFFICES ASSUME ThreadsInit PROVE ThreadsInv
  OBVIOUS
<1>1. pc["gui"] = "idle" /\ pc["dab"] = "off" /\ pc["msc"] = "off"
  BY DEF ThreadsInit
<1>2. ThreadsTypeOK
  <2>1. /\ pc \in [Threads -> GuiPlaces \cup DabPlaces \cup MscPlaces]
        /\ pc["gui"] \in GuiPlaces /\ pc["dab"] \in DabPlaces
        /\ pc["msc"] \in MscPlaces
    BY <1>1 DEF ThreadsInit, GuiPlaces, DabPlaces, MscPlaces
  <2>2. /\ readerRunning \in BOOLEAN /\ mscRunning \in BOOLEAN
        /\ backends \in BOOLEAN
    BY Zenon DEF ThreadsInit
  <2>3. /\ handler \in Handlers /\ calls \in 0 .. MaxCalls
        /\ bufferSpace \in Int /\ amount \in Nat
        /\ room \in [Callers -> Int] /\ leftover \in Nat
        /\ lost \subseteq {"dab", "msc"}
    BY DEF ThreadsInit, Handlers
  <2>. QED BY <2>1, <2>2, <2>3, Zenon DEF ThreadsTypeOK
<1>3. Waiting /\ NothingRunsWhenGone
  BY <1>1 DEF Waiting, NothingRunsWhenGone, InReset
<1>4. CreditLaw
  BY <1>1 DEF ThreadsInit, CreditLaw, InWork, Pending, One
<1>. QED BY <1>2, <1>3, <1>4 DEF ThreadsInv

LEMMA ResetStep ==
  ASSUME ThreadsInv, NEW t \in Callers, mscHandler_reset(t)
  PROVE  ThreadsInv'
<1>. USE DEF ThreadsInv, ThreadsTypeOK, Waiting, CreditLaw, NothingRunsWhenGone, InWork,
             Pending, One, GuiPlaces, DabPlaces, MscPlaces, InReset, Goto,
             guiVars, flagVars, countVars
<1>1. CASE ResetStore(t)
  BY <1>1 DEF ResetStore
<1>2. CASE ResetWait(t)
  BY <1>2 DEF ResetWait
<1>3. CASE Clear(t)
  <2>1. /\ pc' = [pc EXCEPT ![t] = "refill"] /\ pc[t] = "clear"
        /\ \A u \in Callers : pc[u] # "refill"
        /\ backends' = FALSE /\ leftover' = InWork
        /\ room' = [room EXCEPT ![t] = NrBlocks - bufferSpace]
        /\ UNCHANGED <<handler, calls, lost, readerRunning, mscRunning,
                       bufferSpace, amount>>
    BY <1>3 DEF Clear, LockFree
  <2>2. CreditLaw'
    <3>1. CASE t = "gui"
      BY <2>1, <3>1
    <3>2. CASE t = "dab"
      BY <2>1, <3>2
    <3>. QED BY <3>1, <3>2
  <2>3. InWork \in Nat
    OBVIOUS
  <2>4. ThreadsTypeOK'
    <3>1. room' \in [Callers -> Int]
      <4>1. NrBlocks - bufferSpace \in Int /\ room \in [Callers -> Int]
        OBVIOUS
      <4>. QED BY <2>1, <4>1
    <3>2. /\ pc' \in [Threads -> GuiPlaces \cup DabPlaces \cup MscPlaces]
          /\ pc'["gui"] \in GuiPlaces /\ pc'["dab"] \in DabPlaces
          /\ pc'["msc"] \in MscPlaces
      BY <2>1
    <3>3. leftover' \in Nat
      BY <2>1, <2>3
    <3>. QED BY <2>1, <3>1, <3>2, <3>3
  <2>5. Waiting' /\ NothingRunsWhenGone'
    BY <2>1
  <2>. QED BY <2>2, <2>4, <2>5
<1>4. CASE Refill(t)
  BY <1>4 DEF Refill
<1>5. CASE Restart(t)
  BY <1>5 DEF Restart, AfterReset
<1>. QED BY <1>1, <1>2, <1>3, <1>4, <1>5 DEF mscHandler_reset

LEMMA GuiStep ==
  ASSUME ThreadsInv,
         \/ startService \/ set_Channel \/ StopDone \/ Delete \/ Deleted
         \/ \E h \in Handlers : Stop(h)
  PROVE  ThreadsInv'
<1>. USE DEF ThreadsInv, ThreadsTypeOK, Waiting, CreditLaw, NothingRunsWhenGone, InWork,
             Pending, One, GuiPlaces, DabPlaces, MscPlaces, InReset, Goto,
             guiVars, flagVars, countVars
<1>1. CASE startService
  BY <1>1 DEF startService
<1>2. CASE set_Channel
  BY <1>2 DEF set_Channel
<1>3. CASE StopDone
  BY <1>3 DEF StopDone
<1>4. CASE Delete \/ Deleted
  BY <1>4 DEF Delete, Deleted
<1>5. ASSUME NEW h \in Handlers, Stop(h)
      PROVE  ThreadsInv'
  <2>1. /\ pc' = [pc EXCEPT !["gui"] = "waitDab"] /\ pc["gui"] = "idle"
        /\ calls < MaxCalls /\ calls' = calls + 1 /\ handler' = h
        /\ readerRunning' = FALSE
        /\ UNCHANGED <<lost, mscRunning, bufferSpace, amount, room, leftover, backends>>
    BY <1>5 DEF Stop
  <2>2. ThreadsTypeOK'
    <3>1. calls' \in 0 .. MaxCalls
      <4>1. calls \in 0 .. MaxCalls
        OBVIOUS
      <4>. QED BY <2>1, <4>1
    <3>2. handler' \in Handlers
      BY <2>1
    <3>3. /\ pc' \in [Threads -> GuiPlaces \cup DabPlaces \cup MscPlaces]
          /\ pc'["gui"] \in GuiPlaces /\ pc'["dab"] \in DabPlaces
          /\ pc'["msc"] \in MscPlaces
      BY <2>1
    <3>. QED BY <2>1, <3>1, <3>2, <3>3
  <2>3. Waiting' /\ NothingRunsWhenGone'
    BY <2>1
  <2>4. CreditLaw'
    BY <2>1
  <2>. QED BY <2>2, <2>3, <2>4
<1>. QED BY <1>1, <1>2, <1>3, <1>4, <1>5

LEMMA DabStep ==
  ASSUME ThreadsInv, RunBegins \/ StartMsc \/ Read \/ Acquire \/ PostBlock
  PROVE  ThreadsInv'
<1>. USE DEF ThreadsInv, ThreadsTypeOK, Waiting, CreditLaw, NothingRunsWhenGone, InWork,
             Pending, One, GuiPlaces, DabPlaces, MscPlaces, InReset, Goto,
             guiVars, flagVars, countVars
<1>1. CASE RunBegins
  BY <1>1 DEF RunBegins, Lose
<1>2. CASE StartMsc
  BY <1>2 DEF StartMsc
<1>3. CASE Read
  BY <1>3 DEF Read
<1>4. CASE Acquire
  BY <1>4 DEF Acquire
<1>5. CASE PostBlock
  BY <1>5 DEF PostBlock
<1>. QED BY <1>1, <1>2, <1>3, <1>4, <1>5

LEMMA MscStep ==
  ASSUME ThreadsInv, msc
  PROVE  ThreadsInv'
<1>. USE DEF ThreadsInv, ThreadsTypeOK, Waiting, CreditLaw, NothingRunsWhenGone, InWork,
             Pending, One, GuiPlaces, DabPlaces, MscPlaces, InReset, Goto,
             guiVars, flagVars, countVars
<1>1. CASE Begin
  BY <1>1 DEF Begin, Lose
<1>2. CASE Take
  BY <1>2 DEF Take
<1>3. CASE Quit
  BY <1>3 DEF Quit
<1>4. CASE Lock
  BY <1>4 DEF Lock
<1>5. CASE Process
  BY <1>5 DEF Process
<1>6. CASE Release
  BY <1>6 DEF Release
<1>7. CASE Advance
  BY <1>7 DEF Advance
<1>. QED BY <1>1, <1>2, <1>3, <1>4, <1>5, <1>6, <1>7 DEF msc

\* Types, the accounting, who may be where: all of it in every reachable state.
THEOREM ThreadsInvariant == ThreadsSpec => []ThreadsInv
<1>1. ThreadsInv /\ [ThreadsNext]_threadVars => ThreadsInv'
  <2>. SUFFICES ASSUME ThreadsInv, [ThreadsNext]_threadVars PROVE ThreadsInv'
    OBVIOUS
  <2>1. CASE UNCHANGED threadVars
    BY <2>1 DEF threadVars, guiVars, flagVars, countVars, ThreadsInv, ThreadsTypeOK, Waiting,
                CreditLaw, NothingRunsWhenGone, InWork, Pending, One
  <2>. QED BY <2>1, ResetStep, GuiStep, DabStep, MscStep DEF ThreadsNext, gui, dab
<1>. QED BY <1>1, ThreadsInitially, PTL DEF ThreadsSpec

\* mscHandler::reset is never run by the GUI thread and the dabProcessor
\* thread at the same time, although nothing in it prevents that.
THEOREM ResetsExclusive == ThreadsSpec => []OneReset
<1>1. ThreadsInv => OneReset
  BY DEF ThreadsInv, Waiting, OneReset, InReset
<1>. QED BY <1>1, ThreadsInvariant, PTL

\* bufferSpace through any sequence of starts, stops and resets.
THEOREM Credits == ThreadsSpec => []CreditLaw
<1>1. ThreadsInv => CreditLaw
  BY DEF ThreadsInv
<1>. QED BY <1>1, ThreadsInvariant, PTL

\* After the destructors neither thread runs.
THEOREM CleanEnd == ThreadsSpec => []NothingRunsWhenGone
<1>1. ThreadsInv => NothingRunsWhenGone
  BY DEF ThreadsInv
<1>. QED BY <1>1, ThreadsInvariant, PTL
==============================================================================

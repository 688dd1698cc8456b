---------------------------- MODULE FibProcessor ----------------------------
(***************************************************************************)
(* ficHandler and fib_processor: the database of the services of an        *)
(* ensemble.  The dabProcessor thread fills it from the FIBs in the first  *)
(* blocks of each frame; the GUI thread asks it for services, and clears   *)
(* it when the receiver goes to another channel, the thread having ended.  *)
(*                                                                         *)
(* A FIB is handled under fibLocker, and so is every query: these are the  *)
(* steps.  A FIB is a sequence of FIGs, a FIG a record with what its fields*)
(* say.  The loops over the entries of a FIG reach all of them (an entry   *)
(* takes two bytes or more), but for FIG0/14.  The FIGs that leave no      *)
(* trace in the database (0/4, 0/6 to 0/8, 0/11 and so on) are left out.   *)
(***************************************************************************)
EXTENDS Integers, Sequences, FiniteSetsExt, SequencesExt, Loops

CONSTANTS
  Slots,       \* the entries of ServiceComps and of listofServices: 64
  SubChIds,    \* the sub-channels: 0 .. 63
  Channel,     \* the channels that can be tuned to ...
  First,       \* ... and the one the receiver starts with
  Broadcast,   \* for each channel the FIBs its ensemble repeats, in a sequence
  carriers,    \* of an OFDM block: 1536 in mode I, the mode being I or II
  MaxComps,    \* set_audioChannel looks at the components below it: 10
  None,
  MaxFibs,     \* bound: FIBs of one block that come through the CRC
  MaxPosted,   \* bound: events in the queue of the GUI thread
  MaxTunes     \* bound: changes of channel

ASSUME SlotsAssumption    == Slots \in Nat \ {0}
ASSUME SubChIdsAssumption == SubChIds \subseteq 0 .. 63 /\ 0 \in SubChIds
ASSUME CarriersAssumption == carriers \in {1536, 768, 384}
ASSUME MaxCompsAssumption == MaxComps \in Nat \ {0, 1}
ASSUME BoundsAssumption   == {MaxFibs, MaxPosted, MaxTunes} \subseteq Nat

P == INSTANCE Protection

Slot == 0 .. Slots - 1

(***************************************************************************)
(* What an ensemble says of itself: the FIGs with the fields that are read *)
(* of them, the short or the long form of the place of a sub-channel, the  *)
(* components of a service, audio (0) or in packets (3).                   *)
(***************************************************************************)
SubChEntry ==
  [short : {TRUE}, SubChId : SubChIds, startAdr : Nat, tabelIndex : 0 .. 63]
  \cup [short : {FALSE}, SubChId : SubChIds, startAdr : Nat, option : {0, 1},
        level : 0 .. 3, size : Nat]
Component == [TMid : {0}, SubChId : SubChIds] \cup [TMid : {3}, SCId : Nat]
             \cup [TMid : {1, 2}]
EntryOf(fig) ==
  CASE fig = "0/1"  -> SubChEntry
    [] fig = "0/2"  -> [SId : Nat, comps : Seq(Component)]
    [] fig = "0/3"  -> [SCId : Nat, SubChId : SubChIds, DSCTy : Nat,
                        packetAddress : Nat]
    [] fig = "0/5"  -> [short : BOOLEAN, SubChId : SubChIds, language : Nat]
    [] fig = "0/13" -> [SId : Nat, SCIdS : Nat, appType : Nat]
    [] fig = "0/14" -> [SubChId : SubChIds, FEC : 0 .. 3]
    [] fig = "0/16" -> [SId : Nat, pNum : Nat]
    [] fig = "0/17" -> [SId : Nat, language : {None} \cup Nat, type : Nat]
ListOf(kind) == [fig : {kind}, entries : Seq(EntryOf(kind))]
Text == Seq(STRING)
FIG ==
  ListOf("0/1") \cup ListOf("0/2") \cup ListOf("0/3") \cup ListOf("0/5")
  \cup ListOf("0/13") \cup ListOf("0/14") \cup ListOf("0/16") \cup ListOf("0/17")
  \cup [fig : {"0/0"}, alarm : BOOLEAN, changeFlag : Nat, highpart : Nat,
        lowpart : Nat, occurrenceChange : Nat]
  \cup [fig : {"0/9"}]
  \cup [fig : {"1/0"}, label : Text] \cup [fig : {"1/1"}, SId : Nat, label : Text]

Figs(c, fig) == {f \in UNION {Range(fib) : fib \in Range(Broadcast[c])} : f.fig = fig}
Entries(c, fig) == UNION {Range(f.entries) : f \in Figs(c, fig)}
Labels == {f.label : f \in UNION {Figs(c, "1/1") : c \in Channel}}

\* The services an ensemble speaks of, and the components that are bound.
Mentioned(c) ==
  {f.SId : f \in Figs(c, "1/1")}
  \cup {e.SId : e \in UNION {Entries(c, k) : k \in {"0/2", "0/13", "0/16", "0/17"}}}
Announced(c) ==
  UNION {{<<e.SId, i, e.comps[i]>> :
            i \in {k \in DOMAIN e.comps : e.comps[k].TMid \in {0, 3}}} :
         e \in Entries(c, "0/2")}
Fits(S) == IsFiniteSet(S) /\ Cardinality(S) <= Slots

match(a, b) == IsPrefix(a, b) \/ IsPrefix(b, a)

\* An ensemble fits the tables; and no label is the beginning of another: they
\* are filled up with spaces to 16 characters.
ASSUME BroadcastAssumption ==
  First \in Channel /\ Broadcast \in [Channel -> Seq(Seq(FIG))]
ASSUME CapacityAssumption ==
  \A c \in Channel : Fits(Mentioned(c)) /\ Fits(Announced(c))
ASSUME LabelsAssumption == \A a, b \in Labels : match(a, b) => a = b

VARIABLES
  db,          \* the database and the signals emitted by the FIB in hand
  index,       \* bits in ofdm_input
  held,        \* history: whether these are of this frame or an earlier one
  blkno,       \* the block that comes next
  torn,        \* history: a FIC was decoded with bits of two frames
  heard,       \* history: the FIB handled by this step, 0 if none
  tuned,       \* the channel of the device
  posted,      \* signals on their way to the GUI thread
  found,       \* serviceMap: where a service was found, with its data
  playing,     \* what mscHandler was given: the service, its audio, its data
  comp,        \* set_audioChannel: the component looked for, 0 if idle
  tunes

ficVars == <<index, held, blkno, torn>>
guiVars == <<found, playing, comp>>
vars == <<db, ficVars, heard, tuned, posted, guiVars, tunes>>

NoSubChannel == [inUse |-> FALSE, SubChId |-> 0, startAddr |-> 0,
  language |-> 0, FEC_scheme |-> 0,
  org |-> [shortForm |-> FALSE, Length |-> 0, protLevel |-> 0, bitRate |-> 0]]
NoComponent == [inUse |-> FALSE, TMid |-> 0, service |-> None,
  componentNr |-> 0, subchannelId |-> 0, SCId |-> 0, DSCTy |-> 0,
  packetAddress |-> 0, appType |-> 0, is_madePublic |-> FALSE]
NoService == [inUse |-> FALSE, serviceId |-> -1, label |-> << >>,
  hasName |-> FALSE, language |-> -1, programType |-> -1, pNum |-> -1]

\* The constructor.
EmptyDb ==
  [subChannels    |-> [s \in SubChIds |-> NoSubChannel],
   ServiceComps   |-> [i \in Slot |-> NoComponent],
   listofServices |-> [i \in Slot |-> NoService],
   ensemble       |-> [name |-> None, name_Present |-> FALSE,
                       ecc_Present |-> FALSE],
   isSynced       |-> FALSE,
   overrun        |-> FALSE,   \* history: written before ServiceComps
   emitted        |-> << >>]

\* Everything of a service but hasName, which findServiceId resets.
ClearedKeepingLabel(e) ==
  [NoService EXCEPT !.hasName = e.hasName, !.label = e.label]
ClearedService(e) == [NoService EXCEPT !.hasName = e.hasName]
ClearForgettingSubChannels(d) ==
  [EmptyDb EXCEPT !.overrun = d.overrun, !.subChannels = d.subChannels,
     !.listofServices =
       [i \in Slot |-> ClearedService(d.listofServices[i])]]
clearEnsemble(d) ==
  [EmptyDb EXCEPT !.overrun = d.overrun, !.listofServices =
     [i \in Slot |-> ClearedService(d.listofServices[i])]]

Emit(d, e) == [d EXCEPT !.emitted = Append(@, e)]
ServiceEvent(l) == [kind |-> "addtoEnsemble", of |-> l]
NameEvent(n)    == [kind |-> "nameofEnsemble", of |-> n]
ChangeEvent     == [kind |-> "changeinConfiguration", of |-> None]

(***************************************************************************)
(* Looking things up.                                                      *)
(***************************************************************************)
Known(d, SId) == {i \in Slot : d.listofServices[i].inUse /\
                               d.listofServices[i].serviceId = SId}
FreeServices(d) == {i \in Slot : ~d.listofServices[i].inUse}
UsedComps(d)    == {j \in Slot : d.ServiceComps[j].inUse}

\* findServiceId: the entry it returns, the first one when the list is full ...
ServiceEntry(d, SId) == IF Known(d, SId) # {} THEN Min(Known(d, SId))
                        ELSE IF FreeServices(d) # {} THEN Min(FreeServices(d))
                        ELSE 0
\* ... and the entry it makes if need be; the label it leaves as it is.
findServiceId(d, SId) ==
  IF Known(d, SId) # {} \/ FreeServices(d) = {} THEN d
  ELSE [d EXCEPT !.listofServices[Min(FreeServices(d))] =
          [@ EXCEPT !.inUse = TRUE, !.hasName = FALSE, !.serviceId = SId,
                    !.language = -1, !.pNum = -1]]
find_packetComponent(d, SCId) ==
  {j \in UsedComps(d) : d.ServiceComps[j].TMid = 3 /\
                        d.ServiceComps[j].SCId = SCId}
find_serviceComponent(d, SId, SCId) ==
  {j \in UsedComps(d) : d.ServiceComps[j].service = ServiceEntry(d, SId) /\
                        d.ServiceComps[j].SCId = SCId}

(***************************************************************************)
(* Binding components to services.                                         *)
(***************************************************************************)
\* The entry b of ServiceComps with the component c, number nr of the service s.
Filled(b, s, nr, c) ==
  IF c.TMid = 0
  THEN [b EXCEPT !.inUse = TRUE, !.TMid = 0, !.componentNr = nr, !.service = s,
                 !.subchannelId = c.SubChId]
  ELSE [b EXCEPT !.inUse = TRUE, !.TMid = 3, !.componentNr = nr, !.service = s,
                 !.SCId = c.SCId, !.is_madePublic = FALSE]
\* The entry at firstFree is filled in; with none free it is the one at -1.
Store(d, s, nr, c) ==
  IF UsedComps(d) = Slot THEN [d EXCEPT !.overrun = TRUE]
  ELSE [d EXCEPT !.ServiceComps[Min(Slot \ UsedComps(d))] = Filled(@, s, nr, c)]

\* Components that were bound before.
BoundBySubChannel(d, s, nr) ==
  {j \in UsedComps(d) : d.ServiceComps[j].service = s /\
                        d.ServiceComps[j].subchannelId = nr}
BoundComps(d, s, nr) ==
  {j \in UsedComps(d) : d.ServiceComps[j].service = s /\
                        d.ServiceComps[j].componentNr = nr}

\* The service has its label and the sub-channel its place.
OrganisedOnly(d, s, SubChId) == d.subChannels[SubChId].inUse
Bindable(d, s, SubChId) ==
  d.listofServices[s].hasName /\ d.subChannels[SubChId].inUse

\* c: the component at position nr of the service SId in FIG0/2.
bind_audioService(d0, SId, nr, c) ==
  LET d == findServiceId(d0, SId)
      s == ServiceEntry(d, SId)
  IN IF ~Bindable(d, s, c.SubChId) \/ BoundComps(d, s, nr) # {} THEN d
     ELSE Store(Emit(d, ServiceEvent(d.listofServices[s].label)), s, nr, c)

\* A component of any service with the same SCId stands in the way.
bind_packetService(d0, SId, nr, c) ==
  LET d == findServiceId(d0, SId)
      s == ServiceEntry(d, SId)
  IN IF ~d.listofServices[s].hasName
        \/ \E j \in UsedComps(d) : d.ServiceComps[j].SCId = c.SCId
     THEN d
     ELSE Store(d, s, nr, c)

(***************************************************************************)
(* The FIGs.                                                               *)
(***************************************************************************)
\* A change of the configuration is announced, unless the alarm flag is set,
\* when the CIF counter is at the occurrence, a number below 256.
FIG0Extension0(d, f) ==
  IF ~f.alarm /\ f.changeFlag # 0
     /\ (f.highpart % 20) * 250 + (f.lowpart % 250) = f.occurrenceChange
  THEN Emit(d, ChangeEvent) ELSE d

OrgOf(e) == IF e.short THEN P!ShortForm(e.tabelIndex)
                       ELSE P!LongForm(e.option, e.level, e.size)
HandleFIG0Extension1(d, e) ==
  [d EXCEPT !.subChannels[e.SubChId].startAddr = e.startAdr,
            !.subChannels[e.SubChId].inUse = TRUE,
            !.subChannels[e.SubChId].org = OrgOf(e)]

BindComponent(d, e, i) ==
  CASE e.comps[i].TMid = 0 -> bind_audioService(d, e.SId, i - 1, e.comps[i])
    [] e.comps[i].TMid = 3 -> bind_packetService(d, e.SId, i - 1, e.comps[i])
    [] OTHER -> d
HandleFIG0Extension2(d, e) ==
  Along(LAMBDA b, i : BindComponent(b, e, i), d, Upto(Len(e.comps)))

HandleFIG0Extension3(d, e) ==
  LET c == find_packetComponent(d, e.SCId)
  IN IF c = {} \/ ~d.subChannels[e.SubChId].inUse \/ e.DSCTy = 0 THEN d
     ELSE IF d.ServiceComps[Min(c)].is_madePublic THEN d
     ELSE [d EXCEPT !.ServiceComps[Min(c)] =
             [@ EXCEPT !.is_madePublic = TRUE, !.SCId = e.SCId,
                !.DSCTy = e.DSCTy, !.subchannelId = e.SubChId,
                !.packetAddress = e.packetAddress]]

\* Only the short form is used.
HandleFIG0Extension5(d, e) ==
  IF e.short THEN [d EXCEPT !.subChannels[e.SubChId].language = e.language]
             ELSE d

FIG0Extension9(d, f) == [d EXCEPT !.ensemble.ecc_Present = TRUE]

\* The number of the component within the service is looked for in SCId.
HandleFIG0Extension13(d0, e) ==
  LET d == findServiceId(d0, e.SId)
      c == find_serviceComponent(d, e.SId, e.SCIdS)
  IN IF c = {} THEN d
     ELSE [d EXCEPT !.ServiceComps[Min(c)].appType = e.appType]

\* The field that is compared is 0 in every sub-channel.
HandleFIG0Extension14(d, e) ==
  [d EXCEPT !.subChannels = [s \in SubChIds |->
     IF @[s].SubChId = e.SubChId THEN [@[s] EXCEPT !.FEC_scheme = e.FEC]
                                 ELSE @[s]]]

HandleFIG0Extension16(d0, e) ==
  LET d == findServiceId(d0, e.SId)
      s == ServiceEntry(d, e.SId)
  IN IF d.listofServices[s].pNum < 0
     THEN [d EXCEPT !.listofServices[s].pNum = e.pNum % 256] ELSE d

HandleFIG0Extension17(d0, e) ==
  LET d == findServiceId(d0, e.SId)
      s == ServiceEntry(d, e.SId)
  IN [d EXCEPT !.listofServices[s].programType = e.type,
               !.listofServices[s].language =
                  IF e.language = None THEN @ ELSE e.language]

EnsembleLabel(d, f) ==
  IF d.ensemble.name_Present THEN [d EXCEPT !.isSynced = TRUE]
  ELSE Emit([d EXCEPT !.ensemble.name = f.label,
                      !.ensemble.name_Present = TRUE, !.isSynced = TRUE],
            NameEvent(f.label))

\* FIG1/1 and FIG1/5: the label is appended to the one in the entry.
ServiceLabel(d0, f) ==
  LET d == findServiceId(d0, f.SId)
      s == ServiceEntry(d, f.SId)
  IN IF d.listofServices[s].hasName THEN d
     ELSE [d EXCEPT !.listofServices[s].label = @ \o f.label,
                    !.listofServices[s].hasName = TRUE]

process_FIG1(d, f) == CASE f.fig = "1/0" -> EnsembleLabel(d, f)
                        [] f.fig = "1/1" -> ServiceLabel(d, f)

HandleEntry(d, fig, e) ==
  CASE fig = "0/1"  -> HandleFIG0Extension1(d, e)
    [] fig = "0/2"  -> HandleFIG0Extension2(d, e)
    [] fig = "0/3"  -> HandleFIG0Extension3(d, e)
    [] fig = "0/5"  -> HandleFIG0Extension5(d, e)
    [] fig = "0/13" -> HandleFIG0Extension13(d, e)
    [] fig = "0/14" -> HandleFIG0Extension14(d, e)
    [] fig = "0/16" -> HandleFIG0Extension16(d, e)
    [] fig = "0/17" -> HandleFIG0Extension17(d, e)

\* The loop of FIG0/14 ends before the last entry, which has one byte.
EntriesRead(f) == IF f.fig = "0/14" THEN Front(f.entries) ELSE f.entries
process_FIG0(d, f) ==
  CASE f.fig = "0/0" -> FIG0Extension0(d, f)
    [] f.fig = "0/9" -> FIG0Extension9(d, f)
    [] OTHER -> Along(LAMBDA b, e : HandleEntry(b, f.fig, e), d, EntriesRead(f))

process_FIG(d, f) == IF f.fig \in {"1/0", "1/1"} THEN process_FIG1(d, f)
                                                 ELSE process_FIG0(d, f)
process_FIB(d, fib) == Along(process_FIG, d, fib)

(***************************************************************************)
(* The queries.                                                            *)
(***************************************************************************)
Named(d, l) == {i \in Slot : d.listofServices[i].inUse /\
                             d.listofServices[i].hasName /\
                             d.listofServices[i].label = l}
Matching(d, l) == {i \in Slot : d.listofServices[i].inUse /\
                                d.listofServices[i].hasName /\
                                match(l, d.listofServices[i].label)}

\* The components with number nr of the service with the number of entry i.
CompsOf(d, i, nr) ==
  {j \in UsedComps(d) : d.ServiceComps[j].componentNr = nr /\
     d.listofServices[d.ServiceComps[j].service].serviceId
       = d.listofServices[i].serviceId}

\* The first service with a matching name decides, known or not.
kindofService(d, l) ==
  IF Matching(d, l) = {} THEN "UNKNOWN"
  ELSE LET c == CompsOf(d, Min(Matching(d, l)), 0)
       IN IF c = {} THEN "UNKNOWN"
          ELSE IF d.ServiceComps[Min(c)].TMid = 3 THEN "PACKET" ELSE "AUDIO"

\* dataforAudioService and dataforDataService: None for "not defined".
DataOf(d, j) ==
  LET c == d.ServiceComps[j]
  IN [SId |-> d.listofServices[c.service].serviceId,
      subchId |-> c.subchannelId, packetAddress |-> c.packetAddress,
      DSCTy |-> c.DSCTy,
      startAddr |-> d.subChannels[c.subchannelId].startAddr,
      org |-> d.subChannels[c.subchannelId].org]
dataforService(d, l, nr, TMid) ==
  IF Named(d, l) = {} THEN None
  ELSE LET c == {j \in CompsOf(d, Min(Named(d, l)), nr) :
                   d.ServiceComps[j].TMid = TMid}
       IN IF c = {} THEN None ELSE DataOf(d, Min(c))
dataforAudioService(d, l, nr) == dataforService(d, l, nr, 0)
dataforDataService(d, l, nr)  == dataforService(d, l, nr, 3)

----------------------------------------------------------------------------
Init ==
  /\ db = EmptyDb
  /\ index = 0 /\ held = {} /\ blkno = 1 /\ torn = FALSE /\ heard = 0
  /\ tuned = First
  /\ posted = << >>
  /\ found = << >> /\ playing = None /\ comp = 0
  /\ tunes = 0

(***************************************************************************)
(* The dabProcessor thread.  Of a FIC of 2304 soft bits come three FIBs,   *)
(* each of which is handled only if its CRC is right.                      *)
(***************************************************************************)
Received(n) == 
  UNION {[1 .. k -> Range(Broadcast[tuned])] : k \in 0 .. Min({n, MaxFibs})}

\* process_FIB for all of them, and the signals posted.
Decode(fibs) ==
  LET d == Along(process_FIB, db, fibs)
  IN /\ Len(posted \o d.emitted) <= MaxPosted
     /\ db' = [d EXCEPT !.emitted = << >>]
     /\ posted' = posted \o d.emitted

\* The index at the first bit of block b.
IndexKept(b) == index
IndexAt(b) == IF b = 1 THEN 0 ELSE index

process_ficBlock(fibs) ==
  LET first == IndexAt(blkno)
      from  == (IF first = 0 THEN {} ELSE held) \cup {"this"}
      bits  == first + 2 * carriers
      fics  == bits \div 2304
  IN /\ blkno <= 3
     /\ fibs \in Received(3 * fics)
     /\ Decode(fibs)
     /\ index' = bits % 2304
     /\ held' = IF fics = 0 THEN from ELSE IF index' = 0 THEN {} ELSE {"this"}
     /\ torn' = (torn \/ (fics > 0 /\ Cardinality(from) > 1))
     /\ blkno' = blkno + 1
     /\ heard' = IF fibs = << >> THEN 0
                 ELSE CHOOSE k \in DOMAIN Broadcast[tuned] :
                        Broadcast[tuned][k] = Last(fibs)
     /\ UNCHANGED <<tuned, guiVars, tunes>>

BeginFrame ==
  blkno' = 1 /\ held' = IF index = 0 THEN {} ELSE {"earlier"}

\* The blocks after these, and the next frame.
NextFrame ==
  /\ blkno = 4
  /\ BeginFrame
  /\ heard' = 0
  /\ UNCHANGED <<db, index, torn, tuned, posted, guiVars, tunes>>

dabProcessor == (\E fibs \in Received(MaxFibs) : process_ficBlock(fibs))
                \/ NextFrame

(***************************************************************************)
(* The GUI thread.  stop and reset wait for the thread, which ends between *)
(* two blocks, clear the database and start the thread again; the stop of  *)
(* mscHandler ends what is playing.                                        *)
(***************************************************************************)
Restart ==
  /\ db' = clearEnsemble(db)
  /\ BeginFrame
  /\ playing' = None
  /\ UNCHANGED <<index, torn>>

Tune(c) ==
  /\ comp = 0 /\ tunes < MaxTunes /\ c # tuned
  /\ tunes' = tunes + 1
  /\ tuned' = c
  /\ Restart
  /\ UNCHANGED <<posted, found, comp>>

Serve(e) ==
  comp = 0 /\ posted # << >> /\ Head(posted) = e /\ posted' = Tail(posted)

changeinConfiguration ==
  /\ Serve(ChangeEvent)
  /\ Restart
  /\ UNCHANGED <<tuned, found, comp, tunes>>

\* A service of the scan, if the database can say more about it by now.
addtoEnsemble(l) ==
  LET d == dataforAudioService(db, l, 0)
  IN /\ Serve(ServiceEvent(l))
     /\ found' = IF d = None \/ l \in DOMAIN found THEN found
                 ELSE [k \in DOMAIN found \cup {l} |->
                         IF k = l THEN [channel |-> tuned, data |-> d]
                                  ELSE found[k]]
     /\ UNCHANGED <<db, ficVars, tuned, playing, comp, tunes>>

nameofEnsemble ==
  /\ posted # << >> /\ Serve(NameEvent(Head(posted).of))
  /\ UNCHANGED <<db, ficVars, tuned, guiVars, tunes>>

\* startService: the audio, and then component after component until one is
\* a data service; every query takes the lock anew.
startService(l) ==
  LET d == dataforAudioService(db, l, 0)
  IN /\ comp = 0 /\ d # None
     /\ playing' = [service |-> l, audio |-> d, data |-> None]
     /\ comp' = 1
     /\ UNCHANGED <<db, ficVars, tuned, posted, found, tunes>>

set_audioChannelToTen ==
  LET d == dataforDataService(db, playing.service, comp)
  IN /\ comp # 0
     /\ playing' = [playing EXCEPT !.data = d]
     /\ comp' = IF d # None \/ comp = MaxComps THEN 0 ELSE comp + 1
     /\ UNCHANGED <<db, ficVars, tuned, posted, found, tunes>>
set_audioChannel ==
  LET d == dataforDataService(db, playing.service, comp)
  IN /\ comp # 0
     /\ playing' = [playing EXCEPT !.data = d]
     /\ comp' = IF d # None \/ comp + 1 = MaxComps THEN 0 ELSE comp + 1
     /\ UNCHANGED <<db, ficVars, tuned, posted, found, tunes>>

\* A service without a label would be announced without one.
Arrives ==
  \/ changeinConfiguration \/ nameofEnsemble
  \/ \E l \in Labels \cup {NoService.label} : addtoEnsemble(l)

gui == Arrives \/ (\E c \in Channel : Tune(c)) \/ (\E l \in Labels : startService(l))
       \/ set_audioChannel

Next == dabProcessor \/ (gui /\ heard' = 0)

Spec == Init /\ [][Next]_vars
\* The thread goes on with its blocks; the GUI thread with what it began, and,
\* its queue being served in turn, with what was posted; and an ensemble repeats
\* its FIBs, of which none is lost for ever, and does not change for ever.
Repeats == \A k \in 1 .. 4 : []<>(k \in DOMAIN Broadcast[tuned] => heard = k)
Settles == <>[](heard # 0 => \A i \in DOMAIN Broadcast[tuned][heard] :
                               Broadcast[tuned][heard][i].fig # "0/0")
Serves == comp = 0 /\ posted # << >> /\ posted' = Tail(posted)
Looks  == comp # 0 /\ comp' \in 0 .. MaxComps - 1 /\ comp' # comp
FairSpec == Spec /\ Repeats /\ Settles /\ WF_comp(Looks) /\ SF_posted(Serves)
----------------------------------------------------------------------------
\* The values the fields take.
Event == [kind : {"addtoEnsemble", "nameofEnsemble", "changeinConfiguration"},
          of : {None} \cup Text]
Orgs == {NoSubChannel.org}
        \cup {OrgOf(e) : e \in UNION {Entries(c, "0/1") : c \in Channel}}
Database ==
  [subChannels :
     [SubChIds -> [inUse : BOOLEAN, SubChId : {0}, startAddr : Nat,
                   language : Nat, FEC_scheme : 0 .. 3, org : Orgs]],
   ServiceComps :
     [Slot -> [inUse : BOOLEAN, TMid : {0, 3}, service : {None} \cup Slot,
               componentNr : Nat, subchannelId : SubChIds, SCId : Nat,
               DSCTy : Nat, packetAddress : Nat, appType : Nat,
               is_madePublic : BOOLEAN]],
   listofServices :
     [Slot -> [inUse : BOOLEAN, serviceId : Int, label : Text,
               hasName : BOOLEAN, language : Int, programType : Int,
               pNum : Int]],
   ensemble : [name : {None} \cup Text, name_Present : BOOLEAN,
               ecc_Present : BOOLEAN],
   isSynced : BOOLEAN, overrun : BOOLEAN, emitted : Seq(Event)]
ServiceData == [SId : Int, subchId : SubChIds, packetAddress : Nat, DSCTy : Nat,
                startAddr : Nat, org : Orgs]
Playing == [service : Labels, audio : ServiceData, data : {None} \cup ServiceData]

ASSUME NoneAssumption == None \notin ServiceData \cup Playing

TypeOK ==
  /\ db \in Database /\ db.emitted = << >>
  /\ index \in 0 .. 2303 /\ held \subseteq {"this", "earlier"} /\ blkno \in 1 .. 4
  /\ torn \in BOOLEAN
  /\ tuned \in Channel /\ heard \in 0 .. Len(Broadcast[tuned])
  /\ posted \in Seq(Event) /\ Len(posted) <= MaxPosted
  /\ DOMAIN found \subseteq Labels
  /\ found \in [DOMAIN found -> [channel : Channel, data : ServiceData]]
  /\ playing \in {None} \cup Playing
  /\ comp \in 0 .. MaxComps - 1 /\ (comp # 0 => playing # None) /\ tunes \in 0 .. MaxTunes

\* The database is that of the channel tuned to, whatever was received of the
\* channels before it and in whatever order: the sub-channels are where FIG0/1
\* puts them, a service has the label of its number, and a component belongs
\* to the service, and has the place in it, that FIG0/2 gives it.
PlacesRight(c, d) ==
  \A s \in SubChIds : d.subChannels[s].inUse =>
    \E e \in Entries(c, "0/1") :
      /\ e.SubChId = s /\ e.startAdr = d.subChannels[s].startAddr
      /\ OrgOf(e) = d.subChannels[s].org
LabelsRight(c, d) ==
  \A i \in Slot : LET s == d.listofServices[i] IN s.inUse /\ s.hasName =>
    \E f \in Figs(c, "1/1") : f.SId = s.serviceId /\ f.label = s.label
Agrees(b, e) == IF b.TMid = 0 THEN e.TMid = 0 /\ e.SubChId = b.subchannelId
                              ELSE e.TMid = 3 /\ e.SCId = b.SCId
ComponentsRight(c, d) ==
  \A j \in UsedComps(d) : LET b == d.ServiceComps[j]
                              s == d.listofServices[b.service] IN
    /\ s.inUse /\ s.hasName
    /\ \E e \in Entries(c, "0/2") :
         /\ e.SId = s.serviceId /\ b.componentNr + 1 \in DOMAIN e.comps
         /\ Agrees(b, e.comps[b.componentNr + 1])
NameRight(c, d) ==
  /\ d.isSynced => d.ensemble.name_Present
  /\ d.ensemble.name_Present => \E f \in Figs(c, "1/0") : f.label = d.ensemble.name
DatabaseOfTuned ==
  /\ PlacesRight(tuned, db) /\ LabelsRight(tuned, db)
  /\ ComponentsRight(tuned, db) /\ NameRight(tuned, db)

\* Nothing is written before the table of components: with as many entries as
\* the ensemble has components there is always a free one to be found.
NoOverrun == ~db.overrun

\* Why it stays so while the FIGs come in: no service is in the list twice, and
\* no component is bound twice, so that the ensemble that fits the tables never
\* fills them up with something still to come; an entry that is made anew has no
\* label that the next one would be appended to; and a component of audio has a
\* sub-channel with a place.
ServicesApart(c, d) ==
  /\ \A i \in Slot : LET s == d.listofServices[i] IN
       /\ s.inUse => s.serviceId \in Mentioned(c)
       /\ s.label # << >> => s.inUse /\ s.hasName
  /\ \A i, j \in Slot : LET s == d.listofServices[i]
                            t == d.listofServices[j] IN
       s.inUse /\ t.inUse /\ s.serviceId = t.serviceId => i = j
ComponentsApart(d) ==
  /\ \A j \in UsedComps(d) : LET b == d.ServiceComps[j] IN
       /\ b.service \in Slot
       /\ b.TMid = 0 => d.subChannels[b.subchannelId].inUse
  /\ \A j, k \in UsedComps(d) : LET a == d.ServiceComps[j]
                                    b == d.ServiceComps[k] IN
       a.TMid = b.TMid /\ (IF a.TMid = 3 THEN a.SCId = b.SCId
                           ELSE a.service = b.service /\ a.componentNr = b.componentNr)
       => j = k
DatabaseOf(c) ==
  {d \in Database :
     /\ PlacesRight(c, d) /\ LabelsRight(c, d) /\ ComponentsRight(c, d)
     /\ NameRight(c, d) /\ ServicesApart(c, d) /\ ComponentsApart(d)
     /\ ~d.overrun}
\* What the queries say of an audio service is what the channel says of it:
\* for the service that was started (radio.cpp:611-622) ...
AudioOf(c, l, d) ==
  \E f \in Figs(c, "1/1"), e \in Entries(c, "0/2"), o \in Entries(c, "0/1") :
    /\ f.label = l /\ {f.SId, e.SId} = {d.SId}
    /\ e.comps[1].TMid = 0 /\ {e.comps[1].SubChId, o.SubChId} = {d.subchId}
    /\ o.startAdr = d.startAddr /\ OrgOf(o) = d.org
StartedRight ==
  playing # None => AudioOf(tuned, playing.service, playing.audio)
\* ... and for one that was put on the list in a scan, from a signal that may
\* have been emitted on the channel before (radio.cpp:314-343).
FoundRight ==
  \A l \in DOMAIN found : AudioOf(found[l].channel, l, found[l].data)

\* A service that kindofService calls an audio service has its data, so that
\* channelTimer_timeout starts it without a warning (radio.cpp:601-609).
KindAgrees ==
  \A l \in Labels : kindofService(db, l) = "AUDIO" =>
                      dataforAudioService(db, l, 0) # None

\* All three: what the GUI thread gets from the database is right.
QueriesRight == StartedRight /\ FoundRight /\ KindAgrees

\* A FIC is decoded from bits of one frame, and "we are pretty sure now that
\* after block 4, we end up with index = 0" (fic-handler.cpp:146).
FicWhole == ~torn /\ (blkno = 4 => index = 0)

\* Where the FIC of a frame has come to, the bits of earlier frames forgotten.
FicPlace ==
  blkno > 1 => index = ((blkno - 1) * (2 * carriers)) % 2304 /\ held \subseteq {"this"}

\* What the invariants follow from, and what every step preserves.
IInv == TypeOK /\ db \in DatabaseOf(tuned) /\ StartedRight /\ FoundRight
        /\ FicPlace /\ ~torn

\* A scan that stays on a channel lists all its audio services in the end, in
\* whatever order the FIBs come.
AudioLabels(c) ==
  {f.label : f \in {g \in Figs(c, "1/1") :
     \E e \in Entries(c, "0/2") : e.SId = g.SId /\ e.comps[1].TMid = 0}}
AllFound ==
  \A c \in Channel : \A l \in AudioLabels(c) :
    (tuned = c) ~> (tuned # c \/ l \in DOMAIN found)
=============================================================================

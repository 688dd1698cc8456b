------------------------- MODULE FibProcessorProofs -------------------------
(***************************************************************************)
(* Proofs about FibProcessor, for ensembles of any size that fit the       *)
(* tables and whatever FIBs of theirs come in, in any order: the database  *)
(* is that of the channel tuned to, nothing is written before the table of *)
(* components, the queries are answered rightly, and no FIC is decoded     *)
(* from the bits of two frames.                                            *)
(***************************************************************************)
EXTENDS FibProcessor, ProofLemmas, FiniteSetTheorems, TLAPS

(***************************************************************************)
(* What is broadcast.                                                      *)
(***************************************************************************)
LEMMA FigIn ==
  ASSUME NEW c \in Channel, NEW k \in DOMAIN Broadcast[c],
         NEW i \in DOMAIN Broadcast[c][k]
  PROVE  /\ Broadcast[c][k][i] \in FIG
         /\ Broadcast[c][k][i] \in Figs(c, Broadcast[c][k][i].fig)
<1>. DEFINE fib == Broadcast[c][k]
            f == fib[i]
<1>1. fib \in Seq(FIG) /\ i \in DOMAIN fib
  BY BroadcastAssumption
<1>2. f \in FIG
  <2>. HIDE DEF fib
  <2>. QED BY <1>1
<1>3. f \in Range(fib) /\ fib \in Range(Broadcast[c])
  BY DEF Range
<1>. HIDE DEF fib, f
<1>4. f \in Figs(c, f.fig)
  BY <1>3 DEF Figs
<1>. QED BY <1>2, <1>4, Zenon DEF f, fib

LEMMA FigTyped ==
  ASSUME NEW c \in Channel, NEW fig, NEW f \in Figs(c, fig)
  PROVE  f \in FIG /\ f.fig = fig
<1>1. PICK fib \in Range(Broadcast[c]) : f \in Range(fib)
  BY DEF Figs
<1>2. fib \in Seq(FIG)
  BY <1>1, BroadcastAssumption DEF Range
<1>3. f \in FIG
  BY <1>1, <1>2 DEF Range
<1>. QED BY <1>3 DEF Figs

Kinds == {"0/1", "0/2", "0/3", "0/5", "0/13", "0/14", "0/16", "0/17"}

LEMMA FigCases ==
  ASSUME NEW f \in FIG
  PROVE  \/ f.fig \in Kinds /\ f.entries \in Seq(EntryOf(f.fig))
         \/ f.fig \in {"0/0", "0/9"}
         \/ f.fig = "1/0" /\ f.label \in Text
         \/ f.fig = "1/1" /\ f.SId \in Nat /\ f.label \in Text
<1>1. ASSUME NEW k \in Kinds, f \in ListOf(k)
      PROVE  f.fig \in Kinds /\ f.entries \in Seq(EntryOf(f.fig))
  BY <1>1 DEF ListOf
<1>2. f \in [fig : {"0/0"}, alarm : BOOLEAN, changeFlag : Nat, highpart : Nat,
             lowpart : Nat, occurrenceChange : Nat] \cup [fig : {"0/9"}]
      => f.fig \in {"0/0", "0/9"}
  OBVIOUS
<1>3. f \in [fig : {"1/0"}, label : Text] => f.fig = "1/0" /\ f.label \in Text
  OBVIOUS
<1>4. f \in [fig : {"1/1"}, SId : Nat, label : Text]
      => f.fig = "1/1" /\ f.SId \in Nat /\ f.label \in Text
  OBVIOUS
<1>5. \/ \E k \in Kinds : f \in ListOf(k)
      \/ f \in [fig : {"0/0"}, alarm : BOOLEAN, changeFlag : Nat, highpart : Nat,
                lowpart : Nat, occurrenceChange : Nat] \cup [fig : {"0/9"}]
      \/ f \in [fig : {"1/0"}, label : Text]
      \/ f \in [fig : {"1/1"}, SId : Nat, label : Text]
  BY DEF FIG, Kinds
<1>. QED BY <1>1, <1>2, <1>3, <1>4, <1>5, Zenon

LEMMA EntryTyped ==
  ASSUME NEW c \in Channel, NEW k \in Kinds, NEW e \in Entries(c, k)
  PROVE  e \in EntryOf(k)
<1>1. PICK f \in Figs(c, k) : e \in Range(f.entries)
  BY DEF Entries
<1>2. f.entries \in Seq(EntryOf(k))
  BY FigTyped, FigCases DEF Kinds
<1>. QED BY <1>1, <1>2 DEF Range

(***************************************************************************)
(* The service of a number, in the list or put there.                      *)
(***************************************************************************)
LEMMA MinIn ==
  ASSUME NEW S \in SUBSET Slot, S # {}
  PROVE  Min(S) \in S /\ \A x \in S : Min(S) <= x
<1>1. S \in SUBSET Nat
  BY SlotsAssumption DEF Slot
<1>2. \E m \in S : \A x \in S : m <= x
  BY <1>1, Least
<1>. QED BY <1>2, Zenon DEF Min

LEMMA ServiceRoom ==
  ASSUME NEW c \in Channel, NEW d \in DatabaseOf(c), NEW SId \in Mentioned(c),
         Known(d, SId) = {}
  PROVE  FreeServices(d) # {}
<1>. SUFFICES ASSUME FreeServices(d) = {} PROVE FALSE
  OBVIOUS
<1>. DEFINE F == [i \in 0 .. Slots |-> IF i = Slots THEN SId
                                       ELSE d.listofServices[i].serviceId]
<1>1. \A i \in Slot : /\ d.listofServices[i].inUse
                      /\ d.listofServices[i].serviceId # SId
                      /\ d.listofServices[i].serviceId \in Mentioned(c)
  BY DEF FreeServices, Known, DatabaseOf, ServicesApart
<1>2. \A i, j \in Slot : d.listofServices[i].serviceId = d.listofServices[j].serviceId
                         => i = j
  BY <1>1 DEF DatabaseOf, ServicesApart
<1>0. \A i \in 0 .. Slots : i = Slots \/ i \in Slot
  BY SlotsAssumption DEF Slot
<1>3. F \in [0 .. Slots -> Mentioned(c)]
  BY <1>0, <1>1
<1>4. \A i, j \in 0 .. Slots : F[i] = F[j] => i = j
  <2>2. \A i \in Slot : F[i] = d.listofServices[i].serviceId
    BY SlotsAssumption DEF Slot
  <2>3. F[Slots] = SId
    BY SlotsAssumption
  <2>. HIDE DEF F
  <2>. QED BY <1>0, <1>1, <1>2, <2>2, <2>3
<1>. HIDE DEF F
<1>5. IsFiniteSet(0 .. Slots) /\ Cardinality(0 .. Slots) = Slots + 1
  BY FS_Interval, SlotsAssumption
<1>6. IsFiniteSet(Mentioned(c)) /\ Cardinality(Mentioned(c)) <= Slots
  BY CapacityAssumption DEF Fits
<1>7. Cardinality(Mentioned(c)) \in Nat
  BY <1>6, FS_CardinalityType
<1>8. Cardinality(Mentioned(c)) < Cardinality(0 .. Slots)
  BY <1>5, <1>6, <1>7, SlotsAssumption
<1>9. \E i, j \in 0 .. Slots : i # j /\ F[i] = F[j]
  <2>. DEFINE S == 0 .. Slots
              T == Mentioned(c)
  <2>1. IsFiniteSet(S) /\ IsFiniteSet(T) /\ Cardinality(T) < Cardinality(S) /\ F \in [S -> T]
    BY <1>3, <1>5, <1>6, <1>8
  <2>. HIDE DEF S, T
  <2>2. \E i, j \in S : i # j /\ F[i] = F[j]
    BY <2>1, FS_PigeonHole
  <2>. QED BY <2>2 DEF S
<1>. QED BY <1>4, <1>9

LEMMA FoundService ==
  ASSUME NEW c \in Channel, NEW d \in DatabaseOf(c), NEW SId \in Mentioned(c),
         SId \in Nat
  PROVE  LET g == findServiceId(d, SId)
             s == ServiceEntry(g, SId)
         IN /\ g \in DatabaseOf(c) /\ s \in Slot
            /\ g.listofServices[s].inUse /\ g.listofServices[s].serviceId = SId
<1>. DEFINE g == findServiceId(d, SId)
            s == ServiceEntry(g, SId)
<1>1. CASE Known(d, SId) # {}
  <2>1. g = d
    BY <1>1 DEF findServiceId
  <2>2. s = Min(Known(d, SId))
    BY <1>1, <2>1 DEF ServiceEntry
  <2>3. s \in Known(d, SId)
    BY <1>1, <2>2, MinIn DEF Known
  <2>. QED BY <2>1, <2>3 DEF Known
<1>2. CASE Known(d, SId) = {}
  <2>. DEFINE n == Min(FreeServices(d))
              e == [d.listofServices[n] EXCEPT !.inUse = TRUE, !.hasName = FALSE,
                      !.serviceId = SId, !.language = -1, !.pNum = -1]
  <2>1. FreeServices(d) # {} /\ n \in FreeServices(d)
    BY <1>2, ServiceRoom, MinIn DEF FreeServices
  <2>2. n \in Slot /\ ~d.listofServices[n].inUse
    BY <2>1 DEF FreeServices
  <2>3. g = [d EXCEPT !.listofServices[n] = e]
    BY <1>2, <2>1 DEF findServiceId
  <2>4. d \in Database
    BY DEF DatabaseOf
  <2>. HIDE DEF n
  <2>5. /\ e.inUse /\ ~e.hasName /\ e.serviceId = SId
        /\ e.label = d.listofServices[n].label
    BY <2>2, <2>4 DEF Database
  <2>6. e \in [inUse : BOOLEAN, serviceId : Int, label : Text, hasName : BOOLEAN,
               language : Int, programType : Int, pNum : Int]
    <3>1. d.listofServices[n] \in
            [inUse : BOOLEAN, serviceId : Int, label : Text, hasName : BOOLEAN,
             language : Int, programType : Int, pNum : Int]
      BY <2>2, <2>4 DEF Database
    <3>2. -1 \in Int /\ SId \in Int
      OBVIOUS
    <3>. QED BY <3>1, <3>2, Zenon
  <2>7. d.listofServices[n].label = << >>
    BY <2>2 DEF DatabaseOf, ServicesApart
  <2>. HIDE DEF e, g
  <2>8. g \in Database
    BY <2>2, <2>3, <2>4, <2>6 DEF Database
  <2>9. /\ g.listofServices[n] = e
        /\ \A i \in Slot : i # n => g.listofServices[i] = d.listofServices[i]
        /\ g.subChannels = d.subChannels /\ g.ServiceComps = d.ServiceComps
        /\ g.ensemble = d.ensemble /\ g.isSynced = d.isSynced
        /\ g.overrun = d.overrun
    BY <2>2, <2>3, <2>4 DEF Database
  <2>10. PlacesRight(c, g) /\ NameRight(c, g) /\ ~g.overrun /\ UsedComps(g) = UsedComps(d)
    BY <2>9 DEF DatabaseOf, PlacesRight, NameRight, UsedComps
  <2>11. LabelsRight(c, g)
    BY <2>5, <2>9 DEF DatabaseOf, LabelsRight
  <2>12. ComponentsApart(g)
    BY <2>9, <2>10 DEF DatabaseOf, ComponentsApart
  <2>13. ComponentsRight(c, g)
    <3>1. \A j \in UsedComps(d) : d.ServiceComps[j].service \in Slot
                                  /\ d.ServiceComps[j].service # n
      BY <2>2 DEF DatabaseOf, ComponentsApart, ComponentsRight
    <3>. QED BY <2>9, <2>10, <3>1 DEF DatabaseOf, ComponentsRight
  <2>14. ServicesApart(c, g)
    <3>1. \A i \in Slot : d.listofServices[i].inUse => d.listofServices[i].serviceId # SId
      BY <1>2 DEF Known
    <3>2. \A i, j \in Slot : g.listofServices[i].inUse /\ g.listofServices[j].inUse
            /\ g.listofServices[i].serviceId = g.listofServices[j].serviceId => i = j
      BY <2>5, <2>9, <3>1 DEF DatabaseOf, ServicesApart
    <3>3. \A i \in Slot :
            /\ g.listofServices[i].inUse => g.listofServices[i].serviceId \in Mentioned(c)
            /\ g.listofServices[i].label # << >> =>
                 g.listofServices[i].inUse /\ g.listofServices[i].hasName
      BY <2>5, <2>7, <2>9 DEF DatabaseOf, ServicesApart
    <3>. QED BY <3>2, <3>3 DEF ServicesApart
  <2>15. g \in DatabaseOf(c)
    BY <2>8, <2>10, <2>11, <2>12, <2>13, <2>14 DEF DatabaseOf
  <2>16. n \in Known(g, SId)
    BY <2>2, <2>5, <2>9 DEF Known
  <2>17. s \in Known(g, SId)
    BY <2>16, MinIn DEF ServiceEntry, Known
  <2>. QED BY <2>15, <2>17 DEF Known, g
<1>. QED BY <1>1, <1>2

(***************************************************************************)
(* Signals, and components that are bound to a service.                    *)
(***************************************************************************)
LEMMA Emitted ==
  ASSUME NEW c \in Channel, NEW d \in DatabaseOf(c), NEW e \in Event
  PROVE  /\ Emit(d, e) \in DatabaseOf(c)
         /\ Emit(d, e).ServiceComps = d.ServiceComps
         /\ Emit(d, e).subChannels = d.subChannels
         /\ Emit(d, e).listofServices = d.listofServices
<1>. DEFINE g == Emit(d, e)
<1>1. d \in Database
  BY DEF DatabaseOf
<1>2. /\ g.subChannels = d.subChannels /\ g.ServiceComps = d.ServiceComps
      /\ g.listofServices = d.listofServices /\ g.ensemble = d.ensemble
      /\ g.isSynced = d.isSynced /\ g.overrun = d.overrun
  BY <1>1 DEF Emit, Database
<1>3. g \in Database
  <2>1. Append(d.emitted, e) \in Seq(Event)
    BY <1>1 DEF Database
  <2>. QED BY <1>1, <2>1 DEF Emit, Database
<1>. HIDE DEF g
<1>4. g \in DatabaseOf(c)
  <2>1. UsedComps(g) = UsedComps(d)
    BY <1>2 DEF UsedComps
  <2>2. PlacesRight(c, g) /\ LabelsRight(c, g) /\ NameRight(c, g) /\ ~g.overrun
    BY <1>2 DEF DatabaseOf, PlacesRight, LabelsRight, NameRight
  <2>3. ComponentsRight(c, g) /\ ComponentsApart(g)
    BY <1>2, <2>1 DEF DatabaseOf, ComponentsRight, ComponentsApart
  <2>4. ServicesApart(c, g)
    BY <1>2 DEF DatabaseOf, ServicesApart
  <2>. QED BY <1>3, <2>2, <2>3, <2>4 DEF DatabaseOf
<1>. QED BY <1>2, <1>4 DEF g

\* What FIG0/2 says of the component in entry j.
Said(b) == IF b.TMid = 0 THEN [TMid |-> 0, SubChId |-> b.subchannelId]
                         ELSE [TMid |-> 3, SCId |-> b.SCId]
Announcement(d, j) ==
  LET b == d.ServiceComps[j]
  IN <<d.listofServices[b.service].serviceId, b.componentNr + 1, Said(b)>>

LEMMA SaidOf ==
  ASSUME NEW x \in Component, NEW b, b.TMid \in {0, 3}, Agrees(b, x)
  PROVE  x.TMid = b.TMid /\ x = Said(b)
<1>1. CASE b.TMid = 0
  BY <1>1 DEF Component, Agrees, Said
<1>2. CASE b.TMid = 3
  BY <1>2 DEF Component, Agrees, Said
<1>. QED BY <1>1, <1>2

LEMMA AnnouncedTyped ==
  ASSUME NEW c \in Channel, NEW e \in Entries(c, "0/2"), NEW i \in DOMAIN e.comps
  PROVE  /\ e.SId \in Nat /\ e.SId \in Mentioned(c) /\ e.comps \in Seq(Component)
         /\ e.comps[i] \in Component /\ i \in Nat \ {0}
         /\ e.comps[i].TMid = 0 => e.comps[i].SubChId \in SubChIds
         /\ e.comps[i].TMid = 3 => e.comps[i].SCId \in Nat
         /\ e.comps[i].TMid \in {0, 3} =>
              <<e.SId, i, e.comps[i]>> \in Announced(c)
<1>1. e \in [SId : Nat, comps : Seq(Component)]
  BY EntryTyped DEF EntryOf, Kinds
<1>2. e.SId \in Nat /\ e.comps \in Seq(Component)
  BY <1>1
<1>3. e.SId \in Mentioned(c)
  BY DEF Mentioned
<1>4. e.comps[i] \in Component /\ i \in Nat \ {0}
  BY <1>2
<1>. DEFINE x == e.comps[i]
<1>5. x \in Component
  BY <1>4
<1>6. e.comps[i].TMid \in {0, 3} => <<e.SId, i, e.comps[i]>> \in Announced(c)
  BY DEF Announced
<1>. HIDE DEF x
<1>7. /\ x.TMid = 0 => x.SubChId \in SubChIds
      /\ x.TMid = 3 => x.SCId \in Nat
  BY <1>5 DEF Component
<1>. QED BY <1>2, <1>3, <1>4, <1>6, <1>7, Zenon DEF x

LEMMA IsAnnounced ==
  ASSUME NEW c \in Channel, NEW d \in DatabaseOf(c), NEW j \in UsedComps(d)
  PROVE  Announcement(d, j) \in Announced(c)
<1>. DEFINE b == d.ServiceComps[j]
            s == d.listofServices[b.service]
<1>1. PICK e \in Entries(c, "0/2") :
         /\ e.SId = s.serviceId /\ b.componentNr + 1 \in DOMAIN e.comps
         /\ Agrees(b, e.comps[b.componentNr + 1])
  BY DEF DatabaseOf, ComponentsRight
<1>. DEFINE i == b.componentNr + 1
<1>2. b.TMid \in {0, 3}
  BY DEF DatabaseOf, Database, UsedComps
<1>. HIDE DEF b, s
<1>3. e.comps[i].TMid \in {0, 3} /\ e.comps[i] = Said(b)
  <2>. DEFINE x == e.comps[i]
  <2>1. i \in DOMAIN e.comps /\ Agrees(b, x)
    BY <1>1
  <2>. HIDE DEF i
  <2>2. x \in Component
    BY <2>1, AnnouncedTyped
  <2>. HIDE DEF x
  <2>3. x.TMid \in {0, 3} /\ x = Said(b)
    BY <1>2, <2>1, <2>2, SaidOf
  <2>. QED BY <2>3 DEF x
<1>4. <<e.SId, i, e.comps[i]>> \in Announced(c)
  BY <1>1, <1>3, AnnouncedTyped
<1>. QED BY <1>1, <1>3, <1>4 DEF Announcement, b, s

LEMMA AnnouncedOnce ==
  ASSUME NEW c \in Channel, NEW d \in DatabaseOf(c),
         NEW j \in UsedComps(d), NEW k \in UsedComps(d),
         Announcement(d, j) = Announcement(d, k)
  PROVE  j = k
<1>. DEFINE a == d.ServiceComps[j]
            b == d.ServiceComps[k]
<1>1. /\ a.TMid \in {0, 3} /\ b.TMid \in {0, 3}
      /\ a.componentNr \in Nat /\ b.componentNr \in Nat
      /\ a.service \in Slot /\ b.service \in Slot
      /\ d.listofServices[a.service].inUse /\ d.listofServices[b.service].inUse
  BY DEF DatabaseOf, Database, UsedComps, ComponentsApart, ComponentsRight
<1>2. /\ d.listofServices[a.service].serviceId = d.listofServices[b.service].serviceId
      /\ a.componentNr + 1 = b.componentNr + 1 /\ Said(a) = Said(b)
  BY DEF Announcement
<1>3. a.service = b.service
  BY <1>1, <1>2 DEF DatabaseOf, ServicesApart
<1>4. a.componentNr = b.componentNr
  BY <1>1, <1>2
<1>5. a.TMid = b.TMid /\ (a.TMid = 3 => a.SCId = b.SCId)
  <2>. HIDE DEF a, b
  <2>1. Said(a).TMid = a.TMid /\ Said(b).TMid = b.TMid
    BY <1>1 DEF Said
  <2>2. a.TMid = b.TMid
    BY <1>2, <2>1
  <2>3. a.TMid = 3 => Said(a).SCId = a.SCId /\ Said(b).SCId = b.SCId
    BY <2>2 DEF Said
  <2>. QED BY <1>2, <2>2, <2>3
<1>. QED BY <1>3, <1>4, <1>5 DEF DatabaseOf, ComponentsApart

LEMMA ComponentRoom ==
  ASSUME NEW c \in Channel, NEW d \in DatabaseOf(c), NEW x \in Announced(c),
         \A j \in UsedComps(d) : Announcement(d, j) # x
  PROVE  UsedComps(d) # Slot
<1>. SUFFICES ASSUME UsedComps(d) = Slot PROVE FALSE
  OBVIOUS
<1>. DEFINE F == [i \in 0 .. Slots |-> IF i = Slots THEN x ELSE Announcement(d, i)]
            S == 0 .. Slots
            T == Announced(c)
<1>1. \A i \in S : i = Slots \/ i \in UsedComps(d)
  BY SlotsAssumption DEF Slot
<1>2. \A i \in UsedComps(d) : F[i] = Announcement(d, i)
  BY SlotsAssumption DEF Slot
<1>3. F[Slots] = x
  BY SlotsAssumption
<1>4. F \in [S -> T]
  BY <1>1, IsAnnounced
<1>5. IsFiniteSet(S) /\ Cardinality(S) = Slots + 1
  BY FS_Interval, SlotsAssumption
<1>6. IsFiniteSet(T) /\ Cardinality(T) <= Slots
  BY CapacityAssumption DEF Fits
<1>. HIDE DEF F, S, T
<1>7. Cardinality(T) < Cardinality(S)
  BY <1>5, <1>6, FS_CardinalityType, SlotsAssumption
<1>8. PICK i \in S, k \in S : i # k /\ F[i] = F[k]
  BY <1>4, <1>5, <1>6, <1>7, FS_PigeonHole
<1>. QED BY <1>1, <1>2, <1>3, <1>8, AnnouncedOnce

CompRecord == [inUse : BOOLEAN, TMid : {0, 3}, service : {None} \cup Slot,
               componentNr : Nat, subchannelId : SubChIds, SCId : Nat,
               DSCTy : Nat, packetAddress : Nat, appType : Nat,
               is_madePublic : BOOLEAN]

LEMMA FilledIn ==
  ASSUME NEW x \in Component, x.TMid \in {0, 3}, NEW a \in CompRecord,
         NEW s \in Slot, NEW nr \in Nat
  PROVE  LET b == Filled(a, s, nr, x)
         IN /\ b \in CompRecord /\ b.inUse /\ b.service = s /\ b.componentNr = nr
            /\ b.TMid = x.TMid /\ Agrees(b, x)
            /\ x.TMid = 0 => b.subchannelId = x.SubChId
            /\ x.TMid = 3 => b.SCId = x.SCId
<1>. USE DEF Filled, CompRecord, Agrees, Component
<1>1. CASE x.TMid = 0
  <2>. DEFINE b == [a EXCEPT !.inUse = TRUE, !.TMid = 0, !.componentNr = nr,
                             !.service = s, !.subchannelId = x.SubChId]
  <2>1. x.SubChId \in SubChIds
    BY <1>1
  <2>2. b \in CompRecord
    BY <2>1, Zenon
  <2>3. /\ b.inUse /\ b.service = s /\ b.componentNr = nr
        /\ b.TMid = 0 /\ b.subchannelId = x.SubChId
    OBVIOUS
  <2>. QED BY <1>1, <2>2, <2>3
<1>2. CASE x.TMid = 3
  <2>. DEFINE b == [a EXCEPT !.inUse = TRUE, !.TMid = 3, !.componentNr = nr,
                             !.service = s, !.SCId = x.SCId, !.is_madePublic = FALSE]
  <2>1. x.SCId \in Nat
    BY <1>2
  <2>2. b \in CompRecord
    BY <2>1, Zenon
  <2>3. /\ b.inUse /\ b.service = s /\ b.componentNr = nr
        /\ b.TMid = 3 /\ b.SCId = x.SCId
    OBVIOUS
  <2>. QED BY <1>2, <2>2, <2>3
<1>. QED BY <1>1, <1>2

LEMMA Stored ==
  ASSUME NEW c \in Channel, NEW d \in DatabaseOf(c), NEW e \in Entries(c, "0/2"),
         NEW i \in DOMAIN e.comps, NEW s \in Slot, e.comps[i].TMid \in {0, 3},
         d.listofServices[s].inUse, d.listofServices[s].hasName,
         d.listofServices[s].serviceId = e.SId,
         e.comps[i].TMid = 0 => /\ BoundComps(d, s, i - 1) = {}
                                /\ d.subChannels[e.comps[i].SubChId].inUse,
         e.comps[i].TMid = 3 =>
           \A j \in UsedComps(d) : d.ServiceComps[j].SCId # e.comps[i].SCId
  PROVE  Store(d, s, i - 1, e.comps[i]) \in DatabaseOf(c)
<1>. DEFINE x == e.comps[i]
            n == Min(Slot \ UsedComps(d))
            b == Filled(d.ServiceComps[n], s, i - 1, x)
            g == Store(d, s, i - 1, x)
<1>1. /\ x \in Component /\ <<e.SId, i, x>> \in Announced(c) /\ i - 1 \in Nat
      /\ x.TMid \in {0, 3} /\ (i - 1) + 1 = i
  BY AnnouncedTyped
<1>2. d \in Database
  BY DEF DatabaseOf
<1>3. /\ x.TMid = 0 => BoundComps(d, s, i - 1) = {} /\ d.subChannels[x.SubChId].inUse
      /\ x.TMid = 3 => \A j \in UsedComps(d) : d.ServiceComps[j].SCId # x.SCId
  OBVIOUS
<1>. HIDE DEF x
<1>4. ASSUME NEW j \in UsedComps(d), Announcement(d, j) = <<e.SId, i, x>>
      PROVE  FALSE
  <2>. DEFINE a == d.ServiceComps[j]
  <2>1. d.listofServices[a.service].serviceId = e.SId /\ a.componentNr + 1 = i /\ Said(a) = x
    BY <1>4 DEF Announcement
  <2>2. /\ a.service \in Slot /\ d.listofServices[a.service].inUse
        /\ a.componentNr \in Nat /\ a.TMid \in {0, 3}
    BY DEF DatabaseOf, Database, UsedComps, ComponentsRight, ComponentsApart
  <2>3. a.service = s /\ a.componentNr = i - 1
    BY <1>1, <2>1, <2>2 DEF DatabaseOf, ServicesApart
  <2>4. CASE a.TMid = 0
    <3>1. x.TMid = 0
      BY <2>1, <2>4 DEF Said
    <3>2. j \in BoundComps(d, s, i - 1)
      BY <2>3 DEF BoundComps
    <3>. QED BY <1>3, <3>1, <3>2
  <2>5. CASE a.TMid = 3
    <3>1. x.TMid = 3 /\ x.SCId = a.SCId
      BY <2>1, <2>5 DEF Said
    <3>. QED BY <1>3, <3>1
  <2>. QED BY <2>2, <2>4, <2>5
<1>5. UsedComps(d) # Slot
  BY <1>1, <1>4, ComponentRoom
<1>6. n \in Slot /\ n \notin UsedComps(d)
  <2>1. Slot \ UsedComps(d) \in SUBSET Slot /\ Slot \ UsedComps(d) # {}
    BY <1>5 DEF UsedComps
  <2>2. n \in Slot \ UsedComps(d)
    BY <2>1, MinIn
  <2>. QED BY <2>2
<1>7. g = [d EXCEPT !.ServiceComps[n] = b]
  BY <1>5 DEF Store
<1>. HIDE DEF n, g
<1>8. /\ b \in CompRecord /\ b.inUse /\ b.service = s /\ b.componentNr = i - 1
      /\ b.TMid = x.TMid /\ Agrees(b, x)
      /\ x.TMid = 0 => b.subchannelId = x.SubChId
      /\ x.TMid = 3 => b.SCId = x.SCId
  <2>1. d.ServiceComps[n] \in CompRecord
    BY <1>2, <1>6 DEF Database, CompRecord
  <2>. QED BY <1>1, <2>1, FilledIn
<1>. HIDE DEF b
<1>9. g \in Database
  BY <1>2, <1>6, <1>7, <1>8 DEF Database, CompRecord
<1>10. /\ g.ServiceComps[n] = b
       /\ \A j \in Slot : j # n => g.ServiceComps[j] = d.ServiceComps[j]
       /\ g.subChannels = d.subChannels /\ g.listofServices = d.listofServices
       /\ g.ensemble = d.ensemble /\ g.isSynced = d.isSynced /\ g.overrun = d.overrun
  BY <1>2, <1>6, <1>7 DEF Database
<1>11. \A j \in UsedComps(g) : j = n \/ (j \in UsedComps(d) /\ j # n
                                         /\ g.ServiceComps[j] = d.ServiceComps[j])
  BY <1>6, <1>10 DEF UsedComps
<1>12. PlacesRight(c, g) /\ LabelsRight(c, g) /\ NameRight(c, g) /\ ~g.overrun
  BY <1>10 DEF DatabaseOf, PlacesRight, LabelsRight, NameRight
<1>13. ServicesApart(c, g)
  BY <1>10 DEF DatabaseOf, ServicesApart
<1>14. ComponentsRight(c, g)
  <2>1. i \in DOMAIN e.comps /\ Agrees(b, e.comps[b.componentNr + 1]) /\ b.componentNr + 1 = i
    BY <1>1, <1>8 DEF x
  <2>. QED BY <1>8, <1>10, <1>11, <2>1 DEF DatabaseOf, ComponentsRight
<1>15. ComponentsApart(g)
  <2>1. \A j \in UsedComps(g) : LET a == g.ServiceComps[j] IN
          a.service \in Slot /\ (a.TMid = 0 => g.subChannels[a.subchannelId].inUse)
    BY <1>3, <1>8, <1>10, <1>11 DEF DatabaseOf, ComponentsApart
  <2>2. ASSUME NEW j \in UsedComps(d), d.ServiceComps[j].TMid = b.TMid,
               IF b.TMid = 3 THEN d.ServiceComps[j].SCId = b.SCId
               ELSE d.ServiceComps[j].service = b.service
                    /\ d.ServiceComps[j].componentNr = b.componentNr
        PROVE  FALSE
    BY <1>1, <1>3, <1>8, <2>2 DEF BoundComps
  <2>3. ASSUME NEW j \in UsedComps(g), NEW k \in UsedComps(g),
               g.ServiceComps[j].TMid = g.ServiceComps[k].TMid,
               IF g.ServiceComps[j].TMid = 3
               THEN g.ServiceComps[j].SCId = g.ServiceComps[k].SCId
               ELSE g.ServiceComps[j].service = g.ServiceComps[k].service
                    /\ g.ServiceComps[j].componentNr = g.ServiceComps[k].componentNr
        PROVE  j = k
    <3>1. CASE j # n /\ k # n
      BY <1>11, <2>3, <3>1 DEF DatabaseOf, ComponentsApart
    <3>2. CASE j = n /\ k # n
      BY <1>10, <1>11, <2>2, <2>3, <3>2
    <3>3. CASE j # n /\ k = n
      BY <1>10, <1>11, <2>2, <2>3, <3>3
    <3>. QED BY <3>1, <3>2, <3>3
  <2>. QED BY <2>1, <2>3 DEF ComponentsApart
<1>. QED BY <1>9, <1>12, <1>13, <1>14, <1>15 DEF DatabaseOf, g, x

LEMMA BindStep ==
  ASSUME NEW c \in Channel, NEW d0 \in DatabaseOf(c), NEW e \in Entries(c, "0/2"),
         NEW i \in DOMAIN e.comps
  PROVE  BindComponent(d0, e, i) \in DatabaseOf(c)
<1>. DEFINE x == e.comps[i]
            d == findServiceId(d0, e.SId)
            s == ServiceEntry(d, e.SId)
<1>1. /\ e.SId \in Nat /\ e.SId \in Mentioned(c)
      /\ x.TMid = 0 => x.SubChId \in SubChIds
  BY AnnouncedTyped
<1>2. /\ d \in DatabaseOf(c) /\ s \in Slot
      /\ d.listofServices[s].inUse /\ d.listofServices[s].serviceId = e.SId
  BY <1>1, FoundService
<1>. DEFINE ev == ServiceEvent(d.listofServices[s].label)
            m == Emit(d, ev)
<1>. HIDE DEF d, s
<1>3. CASE x.TMid = 0
  <2>1. BindComponent(d0, e, i) = bind_audioService(d0, e.SId, i - 1, x)
    BY <1>3 DEF BindComponent
  <2>2. CASE ~Bindable(d, s, x.SubChId) \/ BoundComps(d, s, i - 1) # {}
    <3>1. bind_audioService(d0, e.SId, i - 1, x) = d
      BY <2>2 DEF bind_audioService, d, s
    <3>. QED BY <1>2, <2>1, <3>1
  <2>3. CASE Bindable(d, s, x.SubChId) /\ BoundComps(d, s, i - 1) = {}
    <3>1. bind_audioService(d0, e.SId, i - 1, x) = Store(m, s, i - 1, x)
      BY <2>3 DEF bind_audioService, d, s
    <3>2. ev \in Event
      BY <1>2 DEF ServiceEvent, Event, DatabaseOf, Database
    <3>3. /\ m \in DatabaseOf(c) /\ m.ServiceComps = d.ServiceComps
          /\ m.subChannels = d.subChannels /\ m.listofServices = d.listofServices
      BY <1>2, <3>2, Emitted
    <3>. HIDE DEF m
    <3>4. BoundComps(m, s, i - 1) = {}
      BY <2>3, <3>3 DEF BoundComps, UsedComps
    <3>5. m.listofServices[s].hasName /\ m.subChannels[x.SubChId].inUse
      BY <2>3, <3>3 DEF Bindable
    <3>6. Store(m, s, i - 1, x) \in DatabaseOf(c)
      BY <1>2, <1>3, <3>3, <3>4, <3>5, Stored
    <3>. QED BY <2>1, <3>1, <3>6
  <2>. QED BY <2>2, <2>3
<1>4. CASE x.TMid = 3
  <2>1. BindComponent(d0, e, i) = bind_packetService(d0, e.SId, i - 1, x)
    BY <1>4 DEF BindComponent
  <2>2. CASE \/ ~d.listofServices[s].hasName
             \/ \E j \in UsedComps(d) : d.ServiceComps[j].SCId = x.SCId
    <3>1. bind_packetService(d0, e.SId, i - 1, x) = d
      BY <2>2 DEF bind_packetService, d, s
    <3>. QED BY <1>2, <2>1, <3>1
  <2>3. CASE /\ d.listofServices[s].hasName
             /\ \A j \in UsedComps(d) : d.ServiceComps[j].SCId # x.SCId
    <3>1. bind_packetService(d0, e.SId, i - 1, x) = Store(d, s, i - 1, x)
      BY <2>3 DEF bind_packetService, d, s
    <3>2. Store(d, s, i - 1, x) \in DatabaseOf(c)
      BY <1>2, <1>4, <2>3, Stored
    <3>. QED BY <2>1, <3>1, <3>2
  <2>. QED BY <2>2, <2>3
<1>5. CASE x.TMid \notin {0, 3}
  <2>1. BindComponent(d0, e, i) = d0
    BY <1>5 DEF BindComponent
  <2>. QED BY <2>1
<1>. QED BY <1>3, <1>4, <1>5

\* The loop over the components of a service.
LEMMA Extension2 ==
  ASSUME NEW c \in Channel, NEW d \in DatabaseOf(c), NEW e \in Entries(c, "0/2")
  PROVE  HandleFIG0Extension2(d, e) \in DatabaseOf(c)
<1>. DEFINE s == Upto(Len(e.comps))
            n == Len(s)
            S == DatabaseOf(c)
            F == [b \in S |-> [i \in 1 .. n |-> BindComponent(b, e, s[i])]]
            Is(t) == t = [i \in 0 .. n |-> IF i = 0 THEN d
                                           ELSE BindComponent(t[i - 1], e, s[i])]
            u == CHOOSE t : Is(t)
<1>1. n \in Nat /\ \A i \in 1 .. n : s[i] \in DOMAIN e.comps
  <2>1. e.comps \in Seq(Component)
    BY EntryTyped DEF EntryOf, Kinds
  <2>. QED BY <2>1 DEF Upto
<1>2. d \in S
  OBVIOUS
<1>. HIDE DEF s, n
<1>3. \A b \in S, i \in 1 .. n : BindComponent(b, e, s[i]) \in S
  BY <1>1, BindStep
<1>0. \A b \in S, i \in 1 .. n : F[b][i] = BindComponent(b, e, s[i])
  OBVIOUS
<1>4. F \in [S -> [1 .. n -> S]]
  BY <1>3
<1>. HIDE DEF S, F
<1>5. PICK t : Goes(t, n, S, d, F)
  BY <1>1, <1>2, <1>4, Rounds
<1>6. Is(t)
  <2>1. \A i \in 1 .. n : t[i - 1] \in S
    BY <1>1, <1>5 DEF Goes
  <2>2. \A i \in 1 .. n : t[i] = BindComponent(t[i - 1], e, s[i])
    BY <1>0, <1>5, <2>1 DEF Goes
  <2>. QED BY <1>1, <1>5, <2>2 DEF Goes
<1>7. Is(u)
  <2>. HIDE DEF Is
  <2>. QED BY <1>6, Zenon
<1>8. HandleFIG0Extension2(d, e) = u[n]
  BY DEF HandleFIG0Extension2, Along, n, s
<1>. HIDE DEF u
<1>9. u[0] = d /\ \A i \in 1 .. n : u[i] = BindComponent(u[i - 1], e, s[i])
  BY <1>1, <1>7
<1>10. u[n] \in S
  <2>1. u[0] \in S /\ \A i \in 1 .. n : u[i - 1] \in S => u[i] \in S
    BY <1>2, <1>3, <1>9
  <2>. QED BY <1>1, <2>1, AfterRounds
<1>. QED BY <1>8, <1>10 DEF S

(***************************************************************************)
(* What may change without harm.                                           *)
(***************************************************************************)
LEMMA PlacesTouched ==
  ASSUME NEW c \in Channel, NEW d \in DatabaseOf(c), NEW g \in Database,
         g.ServiceComps = d.ServiceComps, g.listofServices = d.listofServices,
         g.ensemble = d.ensemble, g.isSynced = d.isSynced, g.overrun = d.overrun,
         PlacesRight(c, g),
         \A s \in SubChIds : d.subChannels[s].inUse => g.subChannels[s].inUse
  PROVE  g \in DatabaseOf(c)
<1>1. UsedComps(g) = UsedComps(d)
  BY DEF UsedComps
<1>2. LabelsRight(c, g) /\ NameRight(c, g) /\ ServicesApart(c, g) /\ ~g.overrun
  BY DEF DatabaseOf, LabelsRight, NameRight, ServicesApart
<1>3. ComponentsRight(c, g)
  BY <1>1 DEF DatabaseOf, ComponentsRight
<1>4. ComponentsApart(g)
  <2>1. \A j \in UsedComps(d) : d.ServiceComps[j].subchannelId \in SubChIds
    BY DEF DatabaseOf, Database, UsedComps
  <2>. QED BY <1>1, <2>1 DEF DatabaseOf, ComponentsApart
<1>. QED BY <1>2, <1>3, <1>4 DEF DatabaseOf

SameComponent(a, b) ==
  /\ b.inUse = a.inUse /\ b.TMid = a.TMid /\ b.service = a.service
  /\ b.componentNr = a.componentNr /\ b.SCId = a.SCId
  /\ a.TMid = 0 => b.subchannelId = a.subchannelId

LEMMA ComponentsTouched ==
  ASSUME NEW c \in Channel, NEW d \in DatabaseOf(c), NEW g \in Database,
         g.subChannels = d.subChannels, g.listofServices = d.listofServices,
         g.ensemble = d.ensemble, g.isSynced = d.isSynced, g.overrun = d.overrun,
         \A j \in Slot : SameComponent(d.ServiceComps[j], g.ServiceComps[j])
  PROVE  g \in DatabaseOf(c)
<1>1. UsedComps(g) = UsedComps(d)
  BY DEF UsedComps, SameComponent
<1>2. /\ PlacesRight(c, g) /\ LabelsRight(c, g) /\ NameRight(c, g)
      /\ ServicesApart(c, g) /\ ~g.overrun
  BY DEF DatabaseOf, PlacesRight, LabelsRight, NameRight, ServicesApart
<1>3. \A j \in UsedComps(d) : j \in Slot /\ d.ServiceComps[j].TMid \in {0, 3}
  BY DEF UsedComps, DatabaseOf, Database
<1>4. ComponentsRight(c, g)
  <2>1. ASSUME NEW j \in UsedComps(d), NEW x, Agrees(d.ServiceComps[j], x)
        PROVE  Agrees(g.ServiceComps[j], x)
    BY <1>3, <2>1 DEF Agrees, SameComponent
  <2>2. \A j \in UsedComps(d) :
          /\ g.ServiceComps[j].service = d.ServiceComps[j].service
          /\ g.ServiceComps[j].componentNr = d.ServiceComps[j].componentNr
    BY <1>3 DEF SameComponent
  <2>. QED BY <1>1, <2>1, <2>2 DEF DatabaseOf, ComponentsRight
<1>5. ComponentsApart(g)
  BY <1>1, <1>3 DEF DatabaseOf, ComponentsApart, SameComponent
<1>. QED BY <1>2, <1>4, <1>5 DEF DatabaseOf

SameService(a, b) ==
  b.inUse = a.inUse /\ b.serviceId = a.serviceId /\ b.hasName = a.hasName /\ b.label = a.label

LEMMA ServicesTouched ==
  ASSUME NEW c \in Channel, NEW d \in DatabaseOf(c), NEW g \in Database,
         g.subChannels = d.subChannels, g.ServiceComps = d.ServiceComps,
         g.ensemble = d.ensemble, g.isSynced = d.isSynced, g.overrun = d.overrun,
         \A i \in Slot : SameService(d.listofServices[i], g.listofServices[i])
  PROVE  g \in DatabaseOf(c)
<1>1. UsedComps(g) = UsedComps(d)
  BY DEF UsedComps
<1>2. PlacesRight(c, g) /\ LabelsRight(c, g) /\ NameRight(c, g) /\ ~g.overrun
  BY DEF DatabaseOf, PlacesRight, LabelsRight, NameRight, SameService
<1>3. ServicesApart(c, g)
  BY DEF DatabaseOf, ServicesApart, SameService
<1>4. ComponentsApart(g)
  BY <1>1 DEF DatabaseOf, ComponentsApart
<1>5. ComponentsRight(c, g)
  <2>1. \A j \in UsedComps(d) : d.ServiceComps[j].service \in Slot
    BY DEF DatabaseOf, ComponentsApart
  <2>. QED BY <1>1, <2>1 DEF DatabaseOf, ComponentsRight, SameService
<1>. QED BY <1>2, <1>3, <1>4, <1>5 DEF DatabaseOf

(***************************************************************************)
(* The handlers of the FIGs.                                               *)
(***************************************************************************)
SubChannel == [inUse : BOOLEAN, SubChId : {0}, startAddr : Nat, language : Nat,
               FEC_scheme : 0 .. 3, org : Orgs]

\* One sub-channel is given the description b.
LEMMA PlaceWritten ==
  ASSUME NEW c \in Channel, NEW d \in DatabaseOf(c), NEW k \in SubChIds,
         NEW b \in SubChannel, d.subChannels[k].inUse => b.inUse,
         b.inUse => \E e \in Entries(c, "0/1") :
                      e.SubChId = k /\ e.startAdr = b.startAddr /\ OrgOf(e) = b.org
  PROVE  [d EXCEPT !.subChannels[k] = b] \in DatabaseOf(c)
<1>. DEFINE g == [d EXCEPT !.subChannels[k] = b]
<1>1. d \in Database
  BY DEF DatabaseOf
<1>2. g \in Database
  BY <1>1 DEF Database, SubChannel
<1>3. /\ g.ServiceComps = d.ServiceComps /\ g.listofServices = d.listofServices
      /\ g.ensemble = d.ensemble /\ g.isSynced = d.isSynced /\ g.overrun = d.overrun
      /\ g.subChannels[k] = b
      /\ \A s \in SubChIds : s # k => g.subChannels[s] = d.subChannels[s]
  BY <1>1 DEF Database
<1>. HIDE DEF g
<1>4. PlacesRight(c, g)
  BY <1>3 DEF DatabaseOf, PlacesRight
<1>5. \A s \in SubChIds : d.subChannels[s].inUse => g.subChannels[s].inUse
  BY <1>3
<1>6. g \in DatabaseOf(c)
  BY <1>2, <1>3, <1>4, <1>5, PlacesTouched
<1>. QED BY <1>6 DEF g

LEMMA Extension1 ==
  ASSUME NEW c \in Channel, NEW d \in DatabaseOf(c), NEW e \in Entries(c, "0/1")
  PROVE  HandleFIG0Extension1(d, e) \in DatabaseOf(c)
<1>. DEFINE k == e.SubChId
            a == d.subChannels[k]
            b == [a EXCEPT !.startAddr = e.startAdr, !.inUse = TRUE, !.org = OrgOf(e)]
<1>1. e \in SubChEntry
  BY EntryTyped DEF EntryOf, Kinds
<1>2. k \in SubChIds /\ e.startAdr \in Nat
  BY <1>1 DEF SubChEntry
<1>3. OrgOf(e) \in Orgs
  BY DEF Orgs
<1>4. a \in SubChannel /\ d \in Database
  BY <1>2 DEF DatabaseOf, Database, SubChannel
<1>5. b \in SubChannel
  BY <1>2, <1>3, <1>4, Zenon DEF SubChannel
<1>6. b.inUse /\ b.startAddr = e.startAdr /\ b.org = OrgOf(e)
  BY <1>4 DEF SubChannel
<1>7. HandleFIG0Extension1(d, e) = [d EXCEPT !.subChannels[k] = b]
  BY <1>2, <1>4 DEF HandleFIG0Extension1, Database, SubChannel
<1>. HIDE DEF a, b
<1>8. [d EXCEPT !.subChannels[k] = b] \in DatabaseOf(c)
  BY <1>2, <1>5, <1>6, PlaceWritten
<1>. QED BY <1>7, <1>8

LEMMA Extension5 ==
  ASSUME NEW c \in Channel, NEW d \in DatabaseOf(c), NEW e \in Entries(c, "0/5")
  PROVE  HandleFIG0Extension5(d, e) \in DatabaseOf(c)
<1>. DEFINE k == e.SubChId
            a == d.subChannels[k]
            b == [a EXCEPT !.language = e.language]
<1>1. k \in SubChIds /\ e.language \in Nat
  BY EntryTyped DEF EntryOf, Kinds
<1>2. a \in SubChannel /\ d \in Database
  BY <1>1 DEF DatabaseOf, Database, SubChannel
<1>3. b \in SubChannel
  BY <1>1, <1>2, Zenon DEF SubChannel
<1>4. b.inUse = a.inUse /\ b.startAddr = a.startAddr /\ b.org = a.org
  BY <1>2, Zenon DEF SubChannel
<1>5. [d EXCEPT !.subChannels[k].language = e.language] = [d EXCEPT !.subChannels[k] = b]
  BY <1>1, <1>2 DEF Database, SubChannel
<1>6. a.inUse => \E f \in Entries(c, "0/1") :
                   f.SubChId = k /\ f.startAdr = a.startAddr /\ OrgOf(f) = a.org
  BY <1>1 DEF DatabaseOf, PlacesRight
<1>. HIDE DEF b
<1>7. [d EXCEPT !.subChannels[k] = b] \in DatabaseOf(c)
  BY <1>1, <1>3, <1>4, <1>6, PlaceWritten
<1>. QED BY <1>5, <1>7 DEF HandleFIG0Extension5

LEMMA Extension14 ==
  ASSUME NEW c \in Channel, NEW d \in DatabaseOf(c), NEW e \in Entries(c, "0/14")
  PROVE  HandleFIG0Extension14(d, e) \in DatabaseOf(c)
<1>. DEFINE g == HandleFIG0Extension14(d, e)
            all == [s \in SubChIds |->
                      IF d.subChannels[s].SubChId = e.SubChId
                      THEN [d.subChannels[s] EXCEPT !.FEC_scheme = e.FEC]
                      ELSE d.subChannels[s]]
<1>1. e.FEC \in 0 .. 3
  BY EntryTyped DEF EntryOf, Kinds
<1>2. d \in Database
  BY DEF DatabaseOf
<1>3. g = [d EXCEPT !.subChannels = all]
  BY <1>2 DEF HandleFIG0Extension14, Database
<1>4. ASSUME NEW s \in SubChIds
      PROVE  /\ [d.subChannels[s] EXCEPT !.FEC_scheme = e.FEC] \in SubChannel
             /\ d.subChannels[s] \in SubChannel
             /\ g.subChannels[s].inUse = d.subChannels[s].inUse
             /\ g.subChannels[s].startAddr = d.subChannels[s].startAddr
             /\ g.subChannels[s].org = d.subChannels[s].org
  <2>1. d.subChannels[s] \in SubChannel
    BY <1>2 DEF Database, SubChannel
  <2>. DEFINE a == d.subChannels[s]
              b == [a EXCEPT !.FEC_scheme = e.FEC]
  <2>2. b \in SubChannel
    BY <1>1, <2>1, Zenon DEF SubChannel
  <2>3. b.inUse = a.inUse /\ b.startAddr = a.startAddr /\ b.org = a.org
    BY <2>1, Zenon DEF SubChannel
  <2>4. g.subChannels[s] = IF a.SubChId = e.SubChId THEN b ELSE a
    BY <1>2, <1>3 DEF Database
  <2>. HIDE DEF g, b
  <2>5. CASE a.SubChId = e.SubChId
    BY <2>1, <2>2, <2>3, <2>4, <2>5, Zenon DEF b
  <2>6. CASE a.SubChId # e.SubChId
    BY <2>1, <2>2, <2>3, <2>4, <2>6, Zenon DEF b
  <2>. QED BY <2>5, <2>6
<1>. HIDE DEF g
<1>5. g \in Database
  <2>1. all \in [SubChIds -> SubChannel]
    BY <1>4
  <2>. HIDE DEF all
  <2>. QED BY <1>2, <1>3, <2>1 DEF Database, SubChannel
<1>6. /\ g.ServiceComps = d.ServiceComps /\ g.listofServices = d.listofServices
      /\ g.ensemble = d.ensemble /\ g.isSynced = d.isSynced /\ g.overrun = d.overrun
  <2>. HIDE DEF all
  <2>. QED BY <1>2, <1>3 DEF Database
<1>7. PlacesRight(c, g)
  <2>1. \A s \in SubChIds : /\ g.subChannels[s].inUse = d.subChannels[s].inUse
                            /\ g.subChannels[s].startAddr = d.subChannels[s].startAddr
                            /\ g.subChannels[s].org = d.subChannels[s].org
    BY <1>4
  <2>2. PlacesRight(c, d)
    BY DEF DatabaseOf
  <2>. QED BY <2>1, <2>2 DEF PlacesRight
<1>8. \A s \in SubChIds : d.subChannels[s].inUse => g.subChannels[s].inUse
  BY <1>4
<1>9. g \in DatabaseOf(c)
  BY <1>5, <1>6, <1>7, <1>8, PlacesTouched
<1>. QED BY <1>9 DEF g

\* The entry k of ServiceComps is changed in what does not bind it.
LEMMA ComponentWritten ==
  ASSUME NEW c \in Channel, NEW d \in DatabaseOf(c), NEW k \in Slot,
         NEW b \in CompRecord, SameComponent(d.ServiceComps[k], b)
  PROVE  [d EXCEPT !.ServiceComps[k] = b] \in DatabaseOf(c)
<1>. DEFINE g == [d EXCEPT !.ServiceComps[k] = b]
<1>1. d \in Database
  BY DEF DatabaseOf
<1>2. g \in Database
  BY <1>1 DEF Database, CompRecord
<1>3. /\ g.subChannels = d.subChannels /\ g.listofServices = d.listofServices
      /\ g.ensemble = d.ensemble /\ g.isSynced = d.isSynced /\ g.overrun = d.overrun
      /\ g.ServiceComps[k] = b
      /\ \A j \in Slot : j # k => g.ServiceComps[j] = d.ServiceComps[j]
  BY <1>1 DEF Database
<1>. HIDE DEF g
<1>4. \A j \in Slot : SameComponent(d.ServiceComps[j], g.ServiceComps[j])
  BY <1>3 DEF SameComponent
<1>5. g \in DatabaseOf(c)
  BY <1>2, <1>3, <1>4, ComponentsTouched
<1>. QED BY <1>5 DEF g

LEMMA Extension3 ==
  ASSUME NEW c \in Channel, NEW d \in DatabaseOf(c), NEW e \in Entries(c, "0/3")
  PROVE  HandleFIG0Extension3(d, e) \in DatabaseOf(c)
<1>. DEFINE p == find_packetComponent(d, e.SCId)
            k == Min(p)
            a == d.ServiceComps[k]
            b == [a EXCEPT !.is_madePublic = TRUE, !.SCId = e.SCId, !.DSCTy = e.DSCTy,
                           !.subchannelId = e.SubChId, !.packetAddress = e.packetAddress]
<1>1. e.SCId \in Nat /\ e.SubChId \in SubChIds /\ e.DSCTy \in Nat /\ e.packetAddress \in Nat
  BY EntryTyped DEF EntryOf, Kinds
<1>2. d \in Database
  BY DEF DatabaseOf
<1>3. CASE p = {} \/ ~d.subChannels[e.SubChId].inUse \/ e.DSCTy = 0 \/ a.is_madePublic
  <2>1. HandleFIG0Extension3(d, e) = d
    BY <1>3 DEF HandleFIG0Extension3
  <2>. QED BY <2>1
<1>4. CASE p # {} /\ d.subChannels[e.SubChId].inUse /\ e.DSCTy # 0 /\ ~a.is_madePublic
  <2>1. HandleFIG0Extension3(d, e) = [d EXCEPT !.ServiceComps[k] = b]
    BY <1>4 DEF HandleFIG0Extension3
  <2>2. p \in SUBSET Slot
    BY DEF find_packetComponent, UsedComps
  <2>3. k \in p
    <3>. HIDE DEF p
    <3>. QED BY <1>4, <2>2, MinIn
  <2>4. k \in Slot /\ a.TMid = 3 /\ a.SCId = e.SCId
    BY <2>3 DEF find_packetComponent, UsedComps
  <2>. HIDE DEF k
  <2>5. a \in CompRecord
    BY <1>2, <2>4 DEF Database, CompRecord
  <2>. HIDE DEF a
  <2>6. b \in CompRecord
    BY <1>1, <2>5, Zenon DEF CompRecord
  <2>7. SameComponent(a, b)
    BY <2>4, <2>5 DEF SameComponent, CompRecord
  <2>. HIDE DEF b
  <2>8. [d EXCEPT !.ServiceComps[k] = b] \in DatabaseOf(c)
    BY <2>4, <2>6, <2>7, ComponentWritten DEF a
  <2>. QED BY <2>1, <2>8
<1>. QED BY <1>3, <1>4

LEMMA Extension13 ==
  ASSUME NEW c \in Channel, NEW d0 \in DatabaseOf(c), NEW e \in Entries(c, "0/13")
  PROVE  HandleFIG0Extension13(d0, e) \in DatabaseOf(c)
<1>. DEFINE d == findServiceId(d0, e.SId)
            p == find_serviceComponent(d, e.SId, e.SCIdS)
            k == Min(p)
            a == d.ServiceComps[k]
            b == [a EXCEPT !.appType = e.appType]
<1>1. e.SId \in Nat /\ e.SId \in Mentioned(c) /\ e.appType \in Nat
  BY EntryTyped DEF EntryOf, Kinds, Mentioned
<1>2. d \in DatabaseOf(c)
  BY <1>1, FoundService
<1>. HIDE DEF d
<1>3. d \in Database
  BY <1>2 DEF DatabaseOf
<1>4. CASE p = {}
  <2>1. HandleFIG0Extension13(d0, e) = d
    BY <1>4 DEF HandleFIG0Extension13, d
  <2>. QED BY <1>2, <2>1
<1>5. CASE p # {}
  <2>1. HandleFIG0Extension13(d0, e) = [d EXCEPT !.ServiceComps[k].appType = e.appType]
    BY <1>5 DEF HandleFIG0Extension13, d
  <2>2. p \in SUBSET Slot
    BY DEF find_serviceComponent, UsedComps
  <2>3. k \in Slot
    <3>. HIDE DEF p
    <3>. QED BY <1>5, <2>2, MinIn
  <2>. HIDE DEF k
  <2>4. a \in CompRecord
    BY <1>3, <2>3 DEF Database, CompRecord
  <2>5. [d EXCEPT !.ServiceComps[k].appType = e.appType] = [d EXCEPT !.ServiceComps[k] = b]
    BY <1>3, <2>3, <2>4 DEF Database
  <2>. HIDE DEF a
  <2>6. b \in CompRecord
    BY <1>1, <2>4, Zenon DEF CompRecord
  <2>7. SameComponent(a, b)
    BY <2>4 DEF SameComponent, CompRecord
  <2>. HIDE DEF b
  <2>8. [d EXCEPT !.ServiceComps[k] = b] \in DatabaseOf(c)
    BY <1>2, <2>3, <2>6, <2>7, ComponentWritten DEF a
  <2>. QED BY <2>1, <2>5, <2>8
<1>. QED BY <1>4, <1>5

ServiceRecord == [inUse : BOOLEAN, serviceId : Int, label : Text, hasName : BOOLEAN,
                  language : Int, programType : Int, pNum : Int]

\* The entry k of listofServices is changed in what does not name it.
LEMMA ServiceWritten ==
  ASSUME NEW c \in Channel, NEW d \in DatabaseOf(c), NEW k \in Slot,
         NEW b \in ServiceRecord, SameService(d.listofServices[k], b)
  PROVE  [d EXCEPT !.listofServices[k] = b] \in DatabaseOf(c)
<1>. DEFINE g == [d EXCEPT !.listofServices[k] = b]
<1>1. d \in Database
  BY DEF DatabaseOf
<1>2. g \in Database
  BY <1>1 DEF Database, ServiceRecord
<1>3. /\ g.subChannels = d.subChannels /\ g.ServiceComps = d.ServiceComps
      /\ g.ensemble = d.ensemble /\ g.isSynced = d.isSynced /\ g.overrun = d.overrun
      /\ g.listofServices[k] = b
      /\ \A i \in Slot : i # k => g.listofServices[i] = d.listofServices[i]
  BY <1>1 DEF Database
<1>. HIDE DEF g
<1>4. \A i \in Slot : SameService(d.listofServices[i], g.listofServices[i])
  BY <1>3 DEF SameService
<1>5. g \in DatabaseOf(c)
  BY <1>2, <1>3, <1>4, ServicesTouched
<1>. QED BY <1>5 DEF g

LEMMA Extension16 ==
  ASSUME NEW c \in Channel, NEW d0 \in DatabaseOf(c), NEW e \in Entries(c, "0/16")
  PROVE  HandleFIG0Extension16(d0, e) \in DatabaseOf(c)
<1>. DEFINE d == findServiceId(d0, e.SId)
            k == ServiceEntry(d, e.SId)
            a == d.listofServices[k]
            b == [a EXCEPT !.pNum = e.pNum % 256]
<1>1. e.SId \in Nat /\ e.SId \in Mentioned(c) /\ e.pNum \in Nat
  BY EntryTyped DEF EntryOf, Kinds, Mentioned
<1>2. d \in DatabaseOf(c) /\ k \in Slot
  BY <1>1, FoundService
<1>3. HandleFIG0Extension16(d0, e) = IF a.pNum < 0 THEN [d EXCEPT !.listofServices[k].pNum = e.pNum % 256]
                                     ELSE d
  BY DEF HandleFIG0Extension16
<1>. HIDE DEF d, k
<1>4. a \in ServiceRecord /\ d \in Database
  BY <1>2 DEF DatabaseOf, Database, ServiceRecord
<1>5. [d EXCEPT !.listofServices[k].pNum = e.pNum % 256] = [d EXCEPT !.listofServices[k] = b]
  BY <1>2, <1>4 DEF Database
<1>. HIDE DEF a
<1>6. b \in ServiceRecord
  <2>1. e.pNum % 256 \in Int
    BY <1>1
  <2>. QED BY <1>4, <2>1, Zenon DEF ServiceRecord
<1>7. SameService(a, b)
  BY <1>4, Zenon DEF SameService, ServiceRecord
<1>. HIDE DEF b
<1>8. [d EXCEPT !.listofServices[k] = b] \in DatabaseOf(c)
  BY <1>2, <1>6, <1>7, ServiceWritten DEF a
<1>. QED BY <1>2, <1>3, <1>5, <1>8

LEMMA Extension17 ==
  ASSUME NEW c \in Channel, NEW d0 \in DatabaseOf(c), NEW e \in Entries(c, "0/17")
  PROVE  HandleFIG0Extension17(d0, e) \in DatabaseOf(c)
<1>. DEFINE d == findServiceId(d0, e.SId)
            k == ServiceEntry(d, e.SId)
            a == d.listofServices[k]
            l == IF e.language = None THEN a.language ELSE e.language
            b == [a EXCEPT !.programType = e.type, !.language = l]
<1>1. /\ e.SId \in Nat /\ e.SId \in Mentioned(c)
      /\ e.type \in Nat /\ e.language \in {None} \cup Nat
  BY EntryTyped DEF EntryOf, Kinds, Mentioned
<1>2. d \in DatabaseOf(c) /\ k \in Slot
  BY <1>1, FoundService
<1>3. HandleFIG0Extension17(d0, e) =
        [d EXCEPT !.listofServices[k].programType = e.type,
                  !.listofServices[k].language = IF e.language = None THEN @ ELSE e.language]
  BY DEF HandleFIG0Extension17
<1>. HIDE DEF d, k
<1>4. a \in ServiceRecord /\ d \in Database
  BY <1>2 DEF DatabaseOf, Database, ServiceRecord
<1>5. [d EXCEPT !.listofServices[k].programType = e.type,
                !.listofServices[k].language = IF e.language = None THEN @ ELSE e.language]
      = [d EXCEPT !.listofServices[k] = b]
  BY <1>2, <1>4 DEF Database, ServiceRecord
<1>6. l \in Int
  BY <1>1, <1>4 DEF ServiceRecord
<1>. HIDE DEF a, l
<1>7. b \in ServiceRecord
  <2>1. e.type \in Int
    BY <1>1
  <2>. QED BY <1>4, <1>6, <2>1, Zenon DEF ServiceRecord
<1>8. SameService(a, b)
  BY <1>4, Zenon DEF SameService, ServiceRecord
<1>. HIDE DEF b
<1>9. [d EXCEPT !.listofServices[k] = b] \in DatabaseOf(c)
  BY <1>2, <1>7, <1>8, ServiceWritten DEF a
<1>. QED BY <1>3, <1>5, <1>9

LEMMA Extension0 ==
  ASSUME NEW c \in Channel, NEW d \in DatabaseOf(c), NEW f
  PROVE  FIG0Extension0(d, f) \in DatabaseOf(c)
<1>1. ChangeEvent \in Event
  BY DEF ChangeEvent, Event
<1>2. Emit(d, ChangeEvent) \in DatabaseOf(c)
  BY <1>1, Emitted
<1>. QED BY <1>2 DEF FIG0Extension0

EnsembleRecord == [name : {None} \cup Text, name_Present : BOOLEAN, ecc_Present : BOOLEAN]

\* The description of the ensemble is replaced by b, which has its name.
LEMMA EnsembleWritten ==
  ASSUME NEW c \in Channel, NEW d \in DatabaseOf(c), NEW b \in EnsembleRecord,
         NEW synced \in BOOLEAN, synced => b.name_Present,
         b.name_Present => \E f \in Figs(c, "1/0") : f.label = b.name
  PROVE  [d EXCEPT !.ensemble = b, !.isSynced = synced] \in DatabaseOf(c)
<1>. DEFINE g == [d EXCEPT !.ensemble = b, !.isSynced = synced]
<1>1. d \in Database
  BY DEF DatabaseOf
<1>2. g \in Database
  BY <1>1, Zenon DEF Database, EnsembleRecord
<1>3. /\ g.subChannels = d.subChannels /\ g.ServiceComps = d.ServiceComps
      /\ g.listofServices = d.listofServices /\ g.overrun = d.overrun
      /\ g.ensemble = b /\ g.isSynced = synced
  BY <1>1, Zenon DEF Database
<1>. HIDE DEF g
<1>4. UsedComps(g) = UsedComps(d)
  BY <1>3 DEF UsedComps
<1>5. NameRight(c, g)
  BY <1>3 DEF NameRight
<1>6. PlacesRight(c, g) /\ LabelsRight(c, g) /\ ~g.overrun /\ ServicesApart(c, g)
  BY <1>3 DEF DatabaseOf, PlacesRight, LabelsRight, ServicesApart
<1>7. ComponentsRight(c, g) /\ ComponentsApart(g)
  BY <1>3, <1>4 DEF DatabaseOf, ComponentsRight, ComponentsApart
<1>8. g \in DatabaseOf(c)
  BY <1>2, <1>5, <1>6, <1>7 DEF DatabaseOf
<1>. QED BY <1>8 DEF g

LEMMA Extension9 ==
  ASSUME NEW c \in Channel, NEW d \in DatabaseOf(c), NEW f
  PROVE  FIG0Extension9(d, f) \in DatabaseOf(c)
<1>. DEFINE b == [d.ensemble EXCEPT !.ecc_Present = TRUE]
<1>1. d \in Database /\ d.ensemble \in EnsembleRecord /\ d.isSynced \in BOOLEAN
  BY DEF DatabaseOf, Database, EnsembleRecord
<1>2. b \in EnsembleRecord
  BY <1>1, Zenon DEF EnsembleRecord
<1>3. b.name_Present = d.ensemble.name_Present /\ b.name = d.ensemble.name
  BY <1>1, Zenon DEF EnsembleRecord
<1>4. FIG0Extension9(d, f) = [d EXCEPT !.ensemble = b, !.isSynced = d.isSynced]
  BY <1>1 DEF FIG0Extension9, Database
<1>. HIDE DEF b
<1>5. [d EXCEPT !.ensemble = b, !.isSynced = d.isSynced] \in DatabaseOf(c)
  BY <1>1, <1>2, <1>3, EnsembleWritten DEF DatabaseOf, NameRight
<1>. QED BY <1>4, <1>5

LEMMA Label0 ==
  ASSUME NEW c \in Channel, NEW d \in DatabaseOf(c), NEW f \in Figs(c, "1/0")
  PROVE  EnsembleLabel(d, f) \in DatabaseOf(c)
<1>1. f.label \in Text
  BY FigTyped, FigCases DEF Kinds
<1>2. d \in Database /\ d.ensemble \in EnsembleRecord
  BY DEF DatabaseOf, Database, EnsembleRecord
<1>3. CASE d.ensemble.name_Present
  <2>1. EnsembleLabel(d, f) = [d EXCEPT !.ensemble = d.ensemble, !.isSynced = TRUE]
    BY <1>2, <1>3 DEF EnsembleLabel, Database
  <2>2. [d EXCEPT !.ensemble = d.ensemble, !.isSynced = TRUE] \in DatabaseOf(c)
    BY <1>2, <1>3, EnsembleWritten DEF DatabaseOf, NameRight
  <2>. QED BY <2>1, <2>2
<1>4. CASE ~d.ensemble.name_Present
  <2>. DEFINE b == [d.ensemble EXCEPT !.name = f.label, !.name_Present = TRUE]
              g == [d EXCEPT !.ensemble = b, !.isSynced = TRUE]
  <2>1. EnsembleLabel(d, f) = Emit(g, NameEvent(f.label))
    BY <1>2, <1>4 DEF EnsembleLabel, Database, EnsembleRecord
  <2>2. b \in EnsembleRecord
    BY <1>1, <1>2, Zenon DEF EnsembleRecord
  <2>3. b.name_Present /\ b.name = f.label
    BY <1>2, Zenon DEF EnsembleRecord
  <2>. HIDE DEF b
  <2>4. g \in DatabaseOf(c)
    BY <2>2, <2>3, EnsembleWritten
  <2>5. NameEvent(f.label) \in Event
    BY <1>1 DEF NameEvent, Event
  <2>. HIDE DEF g
  <2>. QED BY <2>1, <2>4, <2>5, Emitted
<1>. QED BY <1>3, <1>4

LEMMA Label1 ==
  ASSUME NEW c \in Channel, NEW d0 \in DatabaseOf(c), NEW f \in Figs(c, "1/1")
  PROVE  ServiceLabel(d0, f) \in DatabaseOf(c)
<1>. DEFINE d == findServiceId(d0, f.SId)
            k == ServiceEntry(d, f.SId)
            a == d.listofServices[k]
            b == [a EXCEPT !.label = a.label \o f.label, !.hasName = TRUE]
            g == [d EXCEPT !.listofServices[k] = b]
<1>1. f.SId \in Nat /\ f.SId \in Mentioned(c) /\ f.label \in Text
  BY FigTyped, FigCases DEF Kinds, Mentioned
<1>2. d \in DatabaseOf(c) /\ k \in Slot /\ a.inUse /\ a.serviceId = f.SId
  BY <1>1, FoundService
<1>3. ServiceLabel(d0, f) = IF a.hasName THEN d
                            ELSE [d EXCEPT !.listofServices[k].label = @ \o f.label,
                                           !.listofServices[k].hasName = TRUE]
  BY DEF ServiceLabel
<1>. HIDE DEF d, k
<1>4. a \in ServiceRecord /\ d \in Database
  BY <1>2 DEF DatabaseOf, Database, ServiceRecord
<1>5. [d EXCEPT !.listofServices[k].label = @ \o f.label,
                !.listofServices[k].hasName = TRUE] = g
  BY <1>2, <1>4 DEF Database, ServiceRecord
<1>6. CASE a.hasName
  BY <1>2, <1>3, <1>6
<1>7. CASE ~a.hasName
  <2>1. a.label = << >>
    BY <1>2, <1>7 DEF DatabaseOf, ServicesApart
  <2>2. a.label \o f.label = f.label
    BY <1>1, <2>1 DEF Text
  <2>. HIDE DEF a
  <2>3. b \in ServiceRecord
    BY <1>1, <1>4, <2>2, Zenon DEF ServiceRecord
  <2>4. b.inUse /\ b.serviceId = f.SId /\ b.hasName /\ b.label = f.label
    BY <1>2, <1>4, <2>2, Zenon DEF ServiceRecord
  <2>. HIDE DEF b
  <2>5. g \in Database
    BY <1>2, <1>4, <2>3 DEF Database, ServiceRecord
  <2>6. /\ g.subChannels = d.subChannels /\ g.ServiceComps = d.ServiceComps
        /\ g.ensemble = d.ensemble /\ g.isSynced = d.isSynced /\ g.overrun = d.overrun
        /\ g.listofServices[k] = b
        /\ \A i \in Slot : i # k => g.listofServices[i] = d.listofServices[i]
    BY <1>2, <1>4 DEF Database
  <2>. HIDE DEF g
  <2>7. UsedComps(g) = UsedComps(d)
    BY <2>6 DEF UsedComps
  <2>8. PlacesRight(c, g) /\ NameRight(c, g) /\ ~g.overrun
    BY <1>2, <2>6 DEF DatabaseOf, PlacesRight, NameRight
  <2>9. LabelsRight(c, g)
    BY <1>2, <2>4, <2>6 DEF DatabaseOf, LabelsRight
  <2>10. \A i \in Slot : /\ g.listofServices[i].inUse = d.listofServices[i].inUse
                         /\ g.listofServices[i].serviceId = d.listofServices[i].serviceId
                         /\ d.listofServices[i].hasName => g.listofServices[i].hasName
    <3>1. b.inUse = a.inUse
      BY <1>2, <2>4, <1>4, <2>3 DEF ServiceRecord
    <3>2. a = d.listofServices[k]
      BY DEF a
    <3>. HIDE DEF ServiceRecord
    <3>. QED BY <1>2, <1>7, <2>4, <2>6, <3>1, <3>2, Zenon
  <2>11. ServicesApart(c, g)
    <3>1. \A i \in Slot : g.listofServices[i].label # << >> =>
            g.listofServices[i].inUse /\ g.listofServices[i].hasName
      BY <1>2, <2>4, <2>6 DEF DatabaseOf, ServicesApart
    <3>. QED BY <1>2, <2>10, <3>1 DEF DatabaseOf, ServicesApart
  <2>12. ComponentsApart(g)
    BY <1>2, <2>6, <2>7 DEF DatabaseOf, ComponentsApart
  <2>13. ComponentsRight(c, g)
    <3>1. \A j \in UsedComps(d) : d.ServiceComps[j].service \in Slot
      BY <1>2 DEF DatabaseOf, ComponentsApart
    <3>. QED BY <1>2, <2>6, <2>7, <2>10, <3>1 DEF DatabaseOf, ComponentsRight
  <2>14. g \in DatabaseOf(c)
    BY <2>5, <2>8, <2>9, <2>11, <2>12, <2>13 DEF DatabaseOf
  <2>. QED BY <1>3, <1>5, <1>7, <2>14 DEF a
<1>. QED BY <1>6, <1>7

(***************************************************************************)
(* A FIG, a FIB, and the FIBs of a block.                                  *)
(***************************************************************************)
LEMMA EntryHandled ==
  ASSUME NEW c \in Channel, NEW d \in DatabaseOf(c), NEW k \in Kinds,
         NEW e \in Entries(c, k)
  PROVE  HandleEntry(d, k, e) \in DatabaseOf(c)
<1>1. CASE k = "0/1"
  <2>1. HandleEntry(d, k, e) = HandleFIG0Extension1(d, e)
    BY <1>1 DEF HandleEntry
  <2>. QED BY <1>1, <2>1, Extension1
<1>2. CASE k = "0/2"
  <2>1. HandleEntry(d, k, e) = HandleFIG0Extension2(d, e)
    BY <1>2 DEF HandleEntry
  <2>. QED BY <1>2, <2>1, Extension2
<1>3. CASE k = "0/3"
  <2>1. HandleEntry(d, k, e) = HandleFIG0Extension3(d, e)
    BY <1>3 DEF HandleEntry
  <2>. QED BY <1>3, <2>1, Extension3
<1>4. CASE k = "0/5"
  <2>1. HandleEntry(d, k, e) = HandleFIG0Extension5(d, e)
    BY <1>4 DEF HandleEntry
  <2>. QED BY <1>4, <2>1, Extension5
<1>5. CASE k = "0/13"
  <2>1. HandleEntry(d, k, e) = HandleFIG0Extension13(d, e)
    BY <1>5 DEF HandleEntry
  <2>. QED BY <1>5, <2>1, Extension13
<1>6. CASE k = "0/14"
  <2>1. HandleEntry(d, k, e) = HandleFIG0Extension14(d, e)
    BY <1>6 DEF HandleEntry
  <2>. QED BY <1>6, <2>1, Extension14
<1>7. CASE k = "0/16"
  <2>1. HandleEntry(d, k, e) = HandleFIG0Extension16(d, e)
    BY <1>7 DEF HandleEntry
  <2>. QED BY <1>7, <2>1, Extension16
<1>8. CASE k = "0/17"
  <2>1. HandleEntry(d, k, e) = HandleFIG0Extension17(d, e)
    BY <1>8 DEF HandleEntry
  <2>. QED BY <1>8, <2>1, Extension17
<1>. QED BY <1>1, <1>2, <1>3, <1>4, <1>5, <1>6, <1>7, <1>8 DEF Kinds

\* The entries of a FIG that its loop reaches.
LEMMA ReadOf ==
  ASSUME NEW c \in Channel, NEW k \in Kinds, NEW f \in Figs(c, k)
  PROVE  /\ Len(EntriesRead(f)) \in Nat
         /\ \A i \in 1 .. Len(EntriesRead(f)) : EntriesRead(f)[i] \in Entries(c, k)
<1>1. f.entries \in Seq(EntryOf(k)) /\ f.fig = k
  BY FigTyped, FigCases DEF Kinds
<1>2. \A i \in 1 .. Len(f.entries) : f.entries[i] \in Entries(c, k)
  <2>1. \A i \in 1 .. Len(f.entries) : f.entries[i] \in Range(f.entries)
    BY <1>1 DEF Range
  <2>. QED BY <2>1 DEF Entries
<1>3. CASE k # "0/14"
  BY <1>1, <1>2, <1>3 DEF EntriesRead
<1>4. CASE k = "0/14"
  <2>. DEFINE s == f.entries
              n == Len(s)
  <2>1. EntriesRead(f) = SubSeq(s, 1, n - 1)
    BY <1>1, <1>4 DEF EntriesRead, Front
  <2>2. CASE n = 0
    <3>1. Len(SubSeq(s, 1, 0 - 1)) = 0
      <4>1. s \in Seq(EntryOf(k)) /\ Len(s) = 0
        BY <1>1, <2>2
      <4>. HIDE DEF s
      <4>. QED BY <4>1
    <3>. QED BY <2>1, <2>2, <3>1
  <2>3. CASE n # 0
    <3>1. n \in Nat /\ n - 1 \in Nat
      BY <1>1, <2>3
    <3>2. /\ Len(SubSeq(s, 1, n - 1)) = n - 1
          /\ \A i \in 1 .. n - 1 : SubSeq(s, 1, n - 1)[i] = s[i]
      BY <1>1, <3>1
    <3>. HIDE DEF s, n
    <3>3. \A i \in 1 .. n - 1 : i \in 1 .. n
      BY <3>1
    <3>. QED BY <1>2, <2>1, <3>1, <3>2, <3>3 DEF s, n
  <2>. QED BY <2>2, <2>3
<1>. QED BY <1>3, <1>4

LEMMA EntriesHandled ==
  ASSUME NEW c \in Channel, NEW d \in DatabaseOf(c), NEW k \in Kinds,
         NEW f \in Figs(c, k)
  PROVE  process_FIG0(d, f) \in DatabaseOf(c)
<1>. DEFINE s == EntriesRead(f)
            n == Len(s)
            S == DatabaseOf(c)
            F == [b \in S |-> [i \in 1 .. n |-> HandleEntry(b, k, s[i])]]
            Is(t) == t = [i \in 0 .. n |-> IF i = 0 THEN d
                                           ELSE HandleEntry(t[i - 1], k, s[i])]
            u == CHOOSE t : Is(t)
<1>1. n \in Nat /\ \A i \in 1 .. n : s[i] \in Entries(c, k)
  BY ReadOf
<1>2. d \in S
  OBVIOUS
<1>8. process_FIG0(d, f) = u[n]
  <2>1. f.fig = k /\ k # "0/0" /\ k # "0/9"
    BY FigTyped DEF Kinds
  <2>. QED BY <2>1 DEF process_FIG0, Along
<1>. HIDE DEF s, n
<1>3. \A b \in S, i \in 1 .. n : HandleEntry(b, k, s[i]) \in S
  BY <1>1, EntryHandled
<1>0. \A b \in S, i \in 1 .. n : F[b][i] = HandleEntry(b, k, s[i])
  OBVIOUS
<1>4. F \in [S -> [1 .. n -> S]]
  BY <1>3
<1>. HIDE DEF S, F
<1>5. PICK t : Goes(t, n, S, d, F)
  BY <1>1, <1>2, <1>4, Rounds
<1>6. Is(t)
  <2>1. \A i \in 1 .. n : t[i - 1] \in S
    BY <1>1, <1>5 DEF Goes
  <2>2. \A i \in 1 .. n : t[i] = HandleEntry(t[i - 1], k, s[i])
    BY <1>0, <1>5, <2>1 DEF Goes
  <2>. QED BY <1>1, <1>5, <2>2 DEF Goes
<1>7. Is(u)
  <2>. HIDE DEF Is
  <2>. QED BY <1>6, Zenon
<1>. HIDE DEF u
<1>9. u[0] = d /\ \A i \in 1 .. n : u[i] = HandleEntry(u[i - 1], k, s[i])
  BY <1>1, <1>7
<1>10. u[n] \in S
  <2>1. u[0] \in S /\ \A i \in 1 .. n : u[i - 1] \in S => u[i] \in S
    BY <1>2, <1>3, <1>9
  <2>. QED BY <1>1, <2>1, AfterRounds
<1>. QED BY <1>8, <1>10 DEF S

LEMMA FigHandled ==
  ASSUME NEW c \in Channel, NEW d \in DatabaseOf(c), NEW f \in FIG,
         f \in Figs(c, f.fig)
  PROVE  process_FIG(d, f) \in DatabaseOf(c)
<1>1. CASE f.fig \in Kinds
  <2>1. process_FIG0(d, f) \in DatabaseOf(c)
    BY <1>1, EntriesHandled
  <2>2. process_FIG(d, f) = process_FIG0(d, f)
    BY <1>1 DEF process_FIG, Kinds
  <2>. QED BY <2>1, <2>2
<1>2. CASE f.fig = "0/0"
  BY <1>2, Extension0 DEF process_FIG, process_FIG0
<1>3. CASE f.fig = "0/9"
  BY <1>3, Extension9 DEF process_FIG, process_FIG0
<1>4. CASE f.fig = "1/0"
  BY <1>4, Label0 DEF process_FIG, process_FIG1
<1>5. CASE f.fig = "1/1"
  BY <1>5, Label1 DEF process_FIG, process_FIG1
<1>. QED BY <1>1, <1>2, <1>3, <1>4, <1>5, FigCases

LEMMA FibHandled ==
  ASSUME NEW c \in Channel, NEW d \in DatabaseOf(c), NEW fib \in Range(Broadcast[c])
  PROVE  process_FIB(d, fib) \in DatabaseOf(c)
<1>. DEFINE n == Len(fib)
            S == DatabaseOf(c)
            F == [b \in S |-> [i \in 1 .. n |-> process_FIG(b, fib[i])]]
            Is(t) == t = [i \in 0 .. n |-> IF i = 0 THEN d
                                           ELSE process_FIG(t[i - 1], fib[i])]
            u == CHOOSE t : Is(t)
<1>1. n \in Nat /\ \A i \in 1 .. n : fib[i] \in FIG /\ fib[i] \in Figs(c, fib[i].fig)
  <2>1. PICK k \in DOMAIN Broadcast[c] : fib = Broadcast[c][k]
    BY DEF Range
  <2>2. fib \in Seq(FIG)
    BY <2>1, BroadcastAssumption
  <2>3. n \in Nat /\ \A i \in 1 .. n : i \in DOMAIN Broadcast[c][k]
    BY <2>1, <2>2
  <2>. QED BY <2>1, <2>3, FigIn
<1>2. d \in S
  OBVIOUS
<1>8. process_FIB(d, fib) = u[n]
  BY DEF process_FIB, Along
<1>. HIDE DEF n
<1>3. \A b \in S, i \in 1 .. n : process_FIG(b, fib[i]) \in S
  BY <1>1, FigHandled
<1>0. \A b \in S, i \in 1 .. n : F[b][i] = process_FIG(b, fib[i])
  OBVIOUS
<1>4. F \in [S -> [1 .. n -> S]]
  BY <1>3
<1>. HIDE DEF S, F
<1>5. PICK t : Goes(t, n, S, d, F)
  BY <1>1, <1>2, <1>4, Rounds
<1>6. Is(t)
  <2>1. \A i \in 1 .. n : t[i - 1] \in S
    BY <1>1, <1>5 DEF Goes
  <2>2. \A i \in 1 .. n : t[i] = process_FIG(t[i - 1], fib[i])
    BY <1>0, <1>5, <2>1 DEF Goes
  <2>. QED BY <1>1, <1>5, <2>2 DEF Goes
<1>7. Is(u)
  <2>. HIDE DEF Is
  <2>. QED BY <1>6, Zenon
<1>. HIDE DEF u
<1>9. u[0] = d /\ \A i \in 1 .. n : u[i] = process_FIG(u[i - 1], fib[i])
  BY <1>1, <1>7
<1>10. u[n] \in S
  <2>1. u[0] \in S /\ \A i \in 1 .. n : u[i - 1] \in S => u[i] \in S
    BY <1>2, <1>3, <1>9
  <2>. QED BY <1>1, <2>1, AfterRounds
<1>. QED BY <1>8, <1>10 DEF S

LEMMA FibsHandled ==
  ASSUME NEW c \in Channel, NEW d \in DatabaseOf(c), NEW n \in Nat,
         NEW fibs \in [1 .. n -> Range(Broadcast[c])]
  PROVE  Along(process_FIB, d, fibs) \in DatabaseOf(c)
<1>. DEFINE S == DatabaseOf(c)
            F == [b \in S |-> [i \in 1 .. n |-> process_FIB(b, fibs[i])]]
            Is(t) == t = [i \in 0 .. n |-> IF i = 0 THEN d
                                           ELSE process_FIB(t[i - 1], fibs[i])]
            u == CHOOSE t : Is(t)
<1>1. Len(fibs) = n /\ \A i \in 1 .. n : fibs[i] \in Range(Broadcast[c])
  <2>. DEFINE R == Range(Broadcast[c])
  <2>. HIDE DEF R
  <2>1. fibs \in [1 .. n -> R]
    BY DEF R
  <2>2. fibs \in Seq(R) /\ Len(fibs) = n /\ \A i \in 1 .. n : fibs[i] \in R
    BY <2>1
  <2>. QED BY <2>2 DEF R
<1>2. d \in S
  OBVIOUS
<1>8. Along(process_FIB, d, fibs) = u[n]
  BY <1>1 DEF Along
<1>3. \A b \in S, i \in 1 .. n : process_FIB(b, fibs[i]) \in S
  BY <1>1, FibHandled
<1>0. \A b \in S, i \in 1 .. n : F[b][i] = process_FIB(b, fibs[i])
  OBVIOUS
<1>4. F \in [S -> [1 .. n -> S]]
  BY <1>3
<1>. HIDE DEF S, F
<1>5. PICK t : Goes(t, n, S, d, F)
  BY <1>2, <1>4, Rounds
<1>6. Is(t)
  <2>1. \A i \in 1 .. n : t[i - 1] \in S
    BY <1>5 DEF Goes
  <2>2. \A i \in 1 .. n : t[i] = process_FIB(t[i - 1], fibs[i])
    BY <1>0, <1>5, <2>1 DEF Goes
  <2>. QED BY <1>5, <2>2 DEF Goes
<1>7. Is(u)
  <2>. HIDE DEF Is
  <2>. QED BY <1>6, Zenon
<1>. HIDE DEF u
<1>9. u[0] = d /\ \A i \in 1 .. n : u[i] = process_FIB(u[i - 1], fibs[i])
  BY <1>7
<1>10. u[n] \in S
  <2>1. u[0] \in S /\ \A i \in 1 .. n : u[i - 1] \in S => u[i] \in S
    BY <1>2, <1>3, <1>9
  <2>. QED BY <2>1, AfterRounds
<1>. QED BY <1>8, <1>10 DEF S

\* The signals of the FIBs are posted, the database is the same.
LEMMA Posted ==
  ASSUME NEW c \in Channel, NEW d \in DatabaseOf(c)
  PROVE  /\ d.emitted \in Seq(Event)
         /\ [d EXCEPT !.emitted = << >>] \in DatabaseOf(c)
         /\ [d EXCEPT !.emitted = << >>].emitted = << >>
<1>. DEFINE g == [d EXCEPT !.emitted = << >>]
<1>1. d \in Database
  BY DEF DatabaseOf
<1>2. /\ g.subChannels = d.subChannels /\ g.ServiceComps = d.ServiceComps
      /\ g.listofServices = d.listofServices /\ g.ensemble = d.ensemble
      /\ g.isSynced = d.isSynced /\ g.overrun = d.overrun /\ g.emitted = << >>
  BY <1>1 DEF Database
<1>3. g \in Database
  <2>1. << >> \in Seq(Event)
    OBVIOUS
  <2>. QED BY <1>1, <2>1 DEF Database
<1>. HIDE DEF g
<1>4. g \in DatabaseOf(c)
  <2>1. UsedComps(g) = UsedComps(d)
    BY <1>2 DEF UsedComps
  <2>2. PlacesRight(c, g) /\ LabelsRight(c, g) /\ NameRight(c, g) /\ ~g.overrun
    BY <1>2 DEF DatabaseOf, PlacesRight, LabelsRight, NameRight
  <2>3. ComponentsRight(c, g) /\ ComponentsApart(g)
    BY <1>2, <2>1 DEF DatabaseOf, ComponentsRight, ComponentsApart
  <2>4. ServicesApart(c, g)
    BY <1>2 DEF DatabaseOf, ServicesApart
  <2>. QED BY <1>3, <2>2, <2>3, <2>4 DEF DatabaseOf
<1>5. d.emitted \in Seq(Event)
  BY <1>1 DEF Database
<1>. QED BY <1>2, <1>4, <1>5 DEF g

(***************************************************************************)
(* A database that is cleared is right for every channel.                  *)
(***************************************************************************)
LEMMA NothingIn ==
  ASSUME NEW c \in Channel, NEW d \in Database,
         \A s \in SubChIds : ~d.subChannels[s].inUse,
         \A j \in Slot : ~d.ServiceComps[j].inUse,
         \A i \in Slot : ~d.listofServices[i].inUse /\ d.listofServices[i].label = << >>,
         ~d.ensemble.name_Present, ~d.isSynced, ~d.overrun
  PROVE  d \in DatabaseOf(c)
<1>1. UsedComps(d) = {}
  BY DEF UsedComps
<1>2. PlacesRight(c, d) /\ LabelsRight(c, d) /\ NameRight(c, d)
  BY DEF PlacesRight, LabelsRight, NameRight
<1>3. ComponentsRight(c, d) /\ ComponentsApart(d)
  BY <1>1 DEF ComponentsRight, ComponentsApart
<1>4. ServicesApart(c, d)
  BY DEF ServicesApart
<1>. QED BY <1>2, <1>3, <1>4 DEF DatabaseOf

LEMMA EmptyTyped == /\ NoSubChannel \in SubChannel /\ ~NoSubChannel.inUse
                    /\ NoComponent \in CompRecord /\ ~NoComponent.inUse
                    /\ NoService \in ServiceRecord /\ ~NoService.inUse
                    /\ NoService.label = << >>
                    /\ EmptyDb.ensemble \in EnsembleRecord
                    /\ ~EmptyDb.ensemble.name_Present
<1>1. NoSubChannel \in SubChannel /\ ~NoSubChannel.inUse
  <2>1. NoSubChannel.org \in Orgs
    BY DEF Orgs
  <2>. DEFINE o == NoSubChannel.org
  <2>2. NoSubChannel = [inUse |-> FALSE, SubChId |-> 0, startAddr |-> 0,
                        language |-> 0, FEC_scheme |-> 0, org |-> o]
    BY DEF NoSubChannel
  <2>. HIDE DEF o
  <2>3. o \in Orgs
    BY <2>1 DEF o
  <2>. QED BY <2>2, <2>3 DEF SubChannel
<1>2. NoComponent \in CompRecord /\ ~NoComponent.inUse
  BY SubChIdsAssumption DEF NoComponent, CompRecord
<1>3. NoService \in ServiceRecord /\ ~NoService.inUse /\ NoService.label = << >>
  <2>1. << >> \in Text
    BY DEF Text
  <2>. QED BY <2>1 DEF NoService, ServiceRecord
<1>4. EmptyDb.ensemble \in EnsembleRecord /\ ~EmptyDb.ensemble.name_Present
  BY DEF EmptyDb, EnsembleRecord
<1>. QED BY <1>1, <1>2, <1>3, <1>4

LEMMA EmptyRight ==
  ASSUME NEW c \in Channel
  PROVE  EmptyDb \in DatabaseOf(c) /\ EmptyDb.emitted = << >>
<1>1. /\ EmptyDb.subChannels = [s \in SubChIds |-> NoSubChannel]
      /\ EmptyDb.ServiceComps = [i \in Slot |-> NoComponent]
      /\ EmptyDb.listofServices = [i \in Slot |-> NoService]
      /\ EmptyDb.isSynced = FALSE /\ EmptyDb.overrun = FALSE
      /\ EmptyDb.emitted = << >>
  BY DEF EmptyDb
<1>2. EmptyDb \in Database
  <2>1. << >> \in Seq(Event)
    OBVIOUS
  <2>. QED BY <1>1, <2>1, EmptyTyped
       DEF EmptyDb, Database, SubChannel, CompRecord, ServiceRecord, EnsembleRecord
<1>. QED BY <1>1, <1>2, EmptyTyped, NothingIn

LEMMA ClearedRight ==
  ASSUME NEW c \in Channel, NEW b \in Channel, NEW d \in DatabaseOf(b)
  PROVE  clearEnsemble(d) \in DatabaseOf(c) /\ clearEnsemble(d).emitted = << >>
<1>. DEFINE g == clearEnsemble(d)
<1>1. d \in Database /\ ~d.overrun
  BY DEF DatabaseOf
<1>2. /\ g.subChannels = [s \in SubChIds |-> NoSubChannel]
      /\ g.ServiceComps = [i \in Slot |-> NoComponent]
      /\ g.listofServices = [i \in Slot |-> ClearedService(d.listofServices[i])]
      /\ g.ensemble = EmptyDb.ensemble
      /\ g.isSynced = FALSE /\ g.overrun = d.overrun /\ g.emitted = << >>
  BY DEF EmptyDb, clearEnsemble
<1>3. \A i \in Slot : /\ ClearedService(d.listofServices[i]) \in ServiceRecord
                      /\ ~ClearedService(d.listofServices[i]).inUse
                      /\ ClearedService(d.listofServices[i]).label = << >>
  <2>1. ASSUME NEW i \in Slot
        PROVE  LET e == ClearedService(d.listofServices[i])
               IN e \in ServiceRecord /\ ~e.inUse /\ e.label = << >>
    <3>1. d.listofServices[i].hasName \in BOOLEAN
      BY <1>1 DEF Database
    <3>2. NoService \in ServiceRecord /\ ~NoService.inUse /\ NoService.label = << >>
      BY EmptyTyped
    <3>. QED BY <3>1, <3>2, Zenon DEF ClearedService, ServiceRecord
  <2>. QED BY <2>1
<1>4. g \in Database
  <2>1. << >> \in Seq(Event)
    OBVIOUS
  <2>2. g = [EmptyDb EXCEPT !.overrun = d.overrun, !.listofServices =
               [i \in Slot |-> ClearedService(d.listofServices[i])]]
    BY DEF clearEnsemble
  <2>3. EmptyDb \in Database
    BY EmptyRight DEF DatabaseOf
  <2>4. d.overrun \in BOOLEAN
    BY <1>1 DEF Database
  <2>. DEFINE all == [i \in Slot |-> ClearedService(d.listofServices[i])]
  <2>5. all \in [Slot -> ServiceRecord]
    BY <1>3, Zenon
  <2>6. g = [EmptyDb EXCEPT !.overrun = d.overrun, !.listofServices = all]
    BY <2>2
  <2>. HIDE DEF all, g
  <2>. QED BY <2>3, <2>4, <2>5, <2>6 DEF Database, ServiceRecord
<1>. HIDE DEF g
<1>5. g \in DatabaseOf(c)
  BY <1>1, <1>2, <1>3, <1>4, EmptyTyped, NothingIn
<1>. QED BY <1>2, <1>5 DEF g

(***************************************************************************)
(* The queries.                                                            *)
(***************************************************************************)
\* The component that a query takes its data from.
LEMMA Queried ==
  ASSUME NEW c \in Channel, NEW d \in DatabaseOf(c), NEW l, NEW nr, NEW TMid,
         dataforService(d, l, nr, TMid) # None
  PROVE  \E i \in Slot, j \in UsedComps(d) :
           /\ d.listofServices[i].inUse /\ d.listofServices[i].hasName
           /\ d.listofServices[i].label = l
           /\ d.ServiceComps[j].componentNr = nr /\ d.ServiceComps[j].TMid = TMid
           /\ d.listofServices[d.ServiceComps[j].service].serviceId
                = d.listofServices[i].serviceId
           /\ dataforService(d, l, nr, TMid) = DataOf(d, j)
<1>. DEFINE i == Min(Named(d, l))
            C == {j \in CompsOf(d, i, nr) : d.ServiceComps[j].TMid = TMid}
            j == Min(C)
<1>1. Named(d, l) # {} /\ C # {} /\ dataforService(d, l, nr, TMid) = DataOf(d, j)
  BY DEF dataforService
<1>2. i \in Named(d, l)
  BY <1>1, MinIn DEF Named
<1>. HIDE DEF i
<1>3. j \in C
  BY <1>1, MinIn DEF CompsOf, UsedComps
<1>. HIDE DEF j
<1>. QED BY <1>1, <1>2, <1>3 DEF Named, CompsOf

LEMMA DataTyped ==
  ASSUME NEW c \in Channel, NEW d \in DatabaseOf(c), NEW j \in UsedComps(d)
  PROVE  /\ DataOf(d, j) \in ServiceData
         /\ LET b == d.ServiceComps[j]
            IN /\ DataOf(d, j).SId = d.listofServices[b.service].serviceId
               /\ DataOf(d, j).subchId = b.subchannelId
               /\ DataOf(d, j).startAddr = d.subChannels[b.subchannelId].startAddr
               /\ DataOf(d, j).org = d.subChannels[b.subchannelId].org
<1>. DEFINE b == d.ServiceComps[j]
            s == d.listofServices[b.service]
            p == d.subChannels[b.subchannelId]
<1>1. d \in Database /\ j \in Slot /\ b.service \in Slot
  BY DEF DatabaseOf, ComponentsApart, UsedComps
<1>2. b \in CompRecord /\ s \in ServiceRecord
  BY <1>1 DEF Database, CompRecord, ServiceRecord
<1>3. b.subchannelId \in SubChIds
  BY <1>2 DEF CompRecord
<1>4. p \in SubChannel
  BY <1>1, <1>3 DEF Database, SubChannel
<1>5. DataOf(d, j) = [SId |-> s.serviceId, subchId |-> b.subchannelId,
        packetAddress |-> b.packetAddress, DSCTy |-> b.DSCTy,
        startAddr |-> p.startAddr, org |-> p.org]
  BY DEF DataOf
<1>. HIDE DEF b, s, p
<1>. DEFINE a == DataOf(d, j)
<1>6. /\ a.SId = s.serviceId /\ a.subchId = b.subchannelId
      /\ a.startAddr = p.startAddr /\ a.org = p.org
  BY <1>5
<1>7. a \in ServiceData
  BY <1>2, <1>3, <1>4, <1>5 DEF CompRecord, ServiceRecord, SubChannel, ServiceData
<1>. HIDE DEF a
<1>. QED BY <1>6, <1>7 DEF a, b, s, p

LEMMA QueryTyped ==
  ASSUME NEW c \in Channel, NEW d \in DatabaseOf(c), NEW l, NEW nr, NEW TMid
  PROVE  dataforService(d, l, nr, TMid) \in {None} \cup ServiceData
BY Queried, DataTyped

\* The data of an audio service are those that the channel gives it.
LEMMA AudioQuery ==
  ASSUME NEW c \in Channel, NEW d \in DatabaseOf(c), NEW l,
         dataforAudioService(d, l, 0) # None
  PROVE  /\ AudioOf(c, l, dataforAudioService(d, l, 0))
         /\ dataforAudioService(d, l, 0) \in ServiceData
<1>. DEFINE a == dataforAudioService(d, l, 0)
<1>1. dataforService(d, l, 0, 0) # None /\ a = dataforService(d, l, 0, 0)
  BY DEF dataforAudioService
<1>2. PICK i \in Slot, j \in UsedComps(d) :
        /\ d.listofServices[i].inUse /\ d.listofServices[i].hasName
        /\ d.listofServices[i].label = l
        /\ d.ServiceComps[j].componentNr = 0 /\ d.ServiceComps[j].TMid = 0
        /\ d.listofServices[d.ServiceComps[j].service].serviceId
             = d.listofServices[i].serviceId
        /\ a = DataOf(d, j)
  BY <1>1, Queried
<1>. DEFINE b == d.ServiceComps[j]
<1>3. /\ a \in ServiceData
      /\ a.SId = d.listofServices[b.service].serviceId
      /\ a.subchId = b.subchannelId
      /\ a.startAddr = d.subChannels[b.subchannelId].startAddr
      /\ a.org = d.subChannels[b.subchannelId].org
  BY <1>2, DataTyped
<1>. HIDE DEF a
<1>4. PICK f \in Figs(c, "1/1") : f.SId = a.SId /\ f.label = l
  BY <1>2, <1>3 DEF DatabaseOf, LabelsRight
<1>5. PICK e \in Entries(c, "0/2") : /\ e.SId = a.SId
                                     /\ Agrees(b, e.comps[b.componentNr + 1])
  BY <1>3 DEF DatabaseOf, ComponentsRight
<1>6. e.comps[1].TMid = 0 /\ e.comps[1].SubChId = a.subchId
  BY <1>2, <1>3, <1>5 DEF Agrees
<1>7. a.subchId \in SubChIds /\ d.subChannels[a.subchId].inUse
  <2>1. b.TMid = 0 /\ b.subchannelId = a.subchId
    BY <1>2, <1>3
  <2>2. d.subChannels[b.subchannelId].inUse
    BY <1>2, <2>1 DEF DatabaseOf, ComponentsApart
  <2>3. a.subchId \in SubChIds
    BY <1>3 DEF ServiceData
  <2>. QED BY <2>1, <2>2, <2>3
<1>8. PICK o \in Entries(c, "0/1") :
        o.SubChId = a.subchId /\ o.startAdr = a.startAddr /\ OrgOf(o) = a.org
  BY <1>3, <1>7 DEF DatabaseOf, PlacesRight
<1>9. AudioOf(c, l, a)
  BY <1>4, <1>5, <1>6, <1>8 DEF AudioOf
<1>. QED BY <1>3, <1>9 DEF a

LEMMA LabelOf ==
  ASSUME NEW c \in Channel, NEW d \in DatabaseOf(c), NEW i \in Slot,
         d.listofServices[i].inUse, d.listofServices[i].hasName
  PROVE  d.listofServices[i].label \in Labels
<1>1. PICK f \in Figs(c, "1/1") : f.label = d.listofServices[i].label
  BY DEF DatabaseOf, LabelsRight
<1>. QED BY <1>1 DEF Labels

\* No label being the beginning of another, the service that matches is the one.
LEMMA KindRight ==
  ASSUME NEW c \in Channel, NEW d \in DatabaseOf(c), NEW l \in Labels,
         kindofService(d, l) = "AUDIO"
  PROVE  dataforAudioService(d, l, 0) # None
<1>. DEFINE i == Min(Named(d, l))
            K == CompsOf(d, i, 0)
            C == {j \in K : d.ServiceComps[j].TMid = 0}
<1>1. Matching(d, l) = Named(d, l)
  <2>1. \A k \in Slot : d.listofServices[k].inUse /\ d.listofServices[k].hasName =>
          (match(l, d.listofServices[k].label) <=> d.listofServices[k].label = l)
    <3>1. ASSUME NEW k \in Slot, d.listofServices[k].inUse, d.listofServices[k].hasName
          PROVE  match(l, d.listofServices[k].label) <=> d.listofServices[k].label = l
      <4>1. d.listofServices[k].label \in Labels
        BY <3>1, LabelOf
      <4>2. match(l, l)
        <5>1. PICK b \in Channel : \E f \in Figs(b, "1/1") : l = f.label
          BY DEF Labels
        <5>2. l \in Text
          BY <5>1, FigTyped, FigCases DEF Kinds
        <5>. QED BY <5>2 DEF match, IsPrefix, Text
      <4>. QED BY <4>1, <4>2, LabelsAssumption, Zenon
    <3>. QED BY <3>1
  <2>. QED BY <2>1 DEF Matching, Named
<1>2. Matching(d, l) # {} /\ K # {} /\ d.ServiceComps[Min(K)].TMid # 3
  BY <1>1 DEF kindofService
<1>3. Min(K) \in K /\ K \subseteq UsedComps(d)
  BY <1>2, MinIn DEF CompsOf, UsedComps
<1>4. d.ServiceComps[Min(K)].TMid = 0
  <2>1. d \in Database /\ Min(K) \in Slot
    BY <1>3 DEF DatabaseOf, UsedComps
  <2>2. d.ServiceComps[Min(K)].TMid \in {0, 3}
    BY <2>1 DEF Database
  <2>. QED BY <1>2, <2>2
<1>5. C # {}
  BY <1>3, <1>4
<1>6. Min(C) \in UsedComps(d)
  <2>1. Min(C) \in C
    BY <1>3, <1>5, MinIn DEF UsedComps
  <2>. QED BY <1>3, <2>1
<1>7. dataforAudioService(d, l, 0) = DataOf(d, Min(C))
  BY <1>1, <1>2, <1>5 DEF dataforAudioService, dataforService
<1>. QED BY <1>6, <1>7, DataTyped, NoneAssumption

(***************************************************************************)
(* The invariant.                                                          *)
(***************************************************************************)
LEMMA InitIInv == Init => IInv
<1>. SUFFICES ASSUME Init PROVE IInv
  OBVIOUS
<1>0. First \in Channel /\ Broadcast \in [Channel -> Seq(Seq(FIG))]
  BY BroadcastAssumption
<1>1. db \in DatabaseOf(tuned) /\ db.emitted = << >>
  BY <1>0, EmptyRight DEF Init
<1>2. DOMAIN found = {}
  BY DEF Init
<1>3. TypeOK
  <2>1. db \in Database
    BY <1>1 DEF DatabaseOf
  <2>2. tuned \in Channel /\ heard \in 0 .. Len(Broadcast[tuned])
    <3>1. Broadcast[First] \in Seq(Seq(FIG))
      BY <1>0
    <3>2. Len(Broadcast[First]) \in Nat
      <4>. DEFINE s == Broadcast[First]
      <4>. HIDE DEF s
      <4>1. s \in Seq(Seq(FIG))
        BY <3>1 DEF s
      <4>2. Len(s) \in Nat
        BY <4>1
      <4>. QED BY <4>2 DEF s
    <3>. QED BY <1>0, <3>2 DEF Init
  <2>3. posted \in Seq(Event) /\ Len(posted) = 0
    BY DEF Init
  <2>4. found \in [DOMAIN found -> [channel : Channel, data : ServiceData]]
    BY <1>2 DEF Init
  <2>5. MaxPosted \in Nat /\ MaxTunes \in Nat /\ MaxComps \in Nat \ {0, 1}
    BY BoundsAssumption, MaxCompsAssumption
  <2>6. DOMAIN found \subseteq Labels
    BY <1>2
  <2>7. /\ index \in 0 .. 2303 /\ held \subseteq {"this", "earlier"} /\ blkno \in 1 .. 4
        /\ playing \in {None} \cup Playing
    BY DEF Init
  <2>10. torn \in BOOLEAN
    BY Zenon DEF Init
  <2>8. /\ comp \in 0 .. MaxComps - 1 /\ (comp # 0 => playing # None)
        /\ tunes \in 0 .. MaxTunes
    BY <2>5 DEF Init
  <2>9. Len(posted) <= MaxPosted
    BY <2>3, <2>5
  <2>. QED BY <1>1, <2>1, <2>2, <2>3, <2>4, <2>6, <2>7, <2>8, <2>9, <2>10 DEF TypeOK
<1>4. StartedRight /\ FoundRight /\ FicPlace /\ ~torn
  BY <1>2 DEF Init, StartedRight, FoundRight, FicPlace
<1>. QED BY <1>1, <1>3, <1>4 DEF IInv

\* A block of the FIC: what is left of it, and that it was of one frame.
LEMMA FicStep ==
  ASSUME IInv, NEW fibs, process_ficBlock(fibs)
  PROVE  /\ index' \in 0 .. 2303 /\ blkno' \in 1 .. 4 /\ ~torn' /\ torn' \in BOOLEAN
         /\ held' \subseteq {"this"}
         /\ index' = ((blkno' - 1) * (2 * carriers)) % 2304
<1>. DEFINE first == IndexAt(blkno)
            from  == (IF first = 0 THEN {} ELSE held) \cup {"this"}
            bits  == first + 2 * carriers
            fics  == bits \div 2304
<1>1. /\ blkno <= 3 /\ index' = bits % 2304 /\ blkno' = blkno + 1
      /\ held' = IF fics = 0 THEN from ELSE IF index' = 0 THEN {} ELSE {"this"}
      /\ torn' = (torn \/ (fics > 0 /\ Cardinality(from) > 1))
  BY DEF process_ficBlock
<1>2. blkno \in 1 .. 3 /\ index \in 0 .. 2303 /\ ~torn
  BY <1>1 DEF IInv, TypeOK
<1>3. /\ first = ((blkno - 1) * (2 * carriers)) % 2304
      /\ first = 0 \/ held \subseteq {"this"}
  BY <1>2, CarriersAssumption DEF IInv, FicPlace, IndexAt
<1>4. from = {"this"}
  BY <1>3
<1>5. Cardinality(from) = 1
  BY <1>4, FS_Singleton
<1>6. torn' = FALSE
  <2>1. ~(Cardinality(from) > 1)
    BY <1>5
  <2>2. torn' = (torn \/ (fics > 0 /\ Cardinality(from) > 1)) /\ torn \in BOOLEAN
    BY <1>1 DEF IInv, TypeOK
  <2>. HIDE DEF from, fics
  <2>. QED BY <1>2, <2>1, <2>2
<1>7. held' \subseteq {"this"}
  BY <1>1, <1>4
<1>. HIDE DEF from, fics
<1>8. index' \in 0 .. 2303 /\ index' = (blkno * (2 * carriers)) % 2304
  <2>1. CASE carriers = 1536
    BY <1>1, <1>2, <1>3, <2>1
  <2>2. CASE carriers = 768
    BY <1>1, <1>2, <1>3, <2>2
  <2>3. CASE carriers = 384
    BY <1>1, <1>2, <1>3, <2>3
  <2>. QED BY <2>1, <2>2, <2>3, CarriersAssumption
<1>. HIDE DEF bits, first
<1>9. (blkno' - 1) = blkno /\ blkno' \in 1 .. 4
  BY <1>1, <1>2
<1>. QED BY <1>6, <1>7, <1>8, <1>9

LEMMA BlockStep ==
  ASSUME IInv, NEW fibs, process_ficBlock(fibs)
  PROVE  IInv'
<1>. DEFINE first == IndexAt(blkno)
            fics  == (first + 2 * carriers) \div 2304
            d == Along(process_FIB, db, fibs)
            B == Broadcast[tuned]
<1>1. /\ fibs \in Received(3 * fics) /\ Decode(fibs)
      /\ heard' = IF fibs = << >> THEN 0
                  ELSE CHOOSE k \in DOMAIN B : B[k] = Last(fibs)
      /\ UNCHANGED <<tuned, guiVars, tunes>>
  BY DEF process_ficBlock
<1>2. TypeOK /\ tuned \in Channel /\ db \in DatabaseOf(tuned)
  BY DEF IInv, TypeOK
<1>3. PICK n \in Nat : fibs \in [1 .. n -> Range(B)]
  BY <1>1 DEF Received
<1>4. d \in DatabaseOf(tuned)
  BY <1>2, <1>3, FibsHandled
<1>5. /\ Len(posted \o d.emitted) <= MaxPosted
      /\ db' = [d EXCEPT !.emitted = << >>] /\ posted' = posted \o d.emitted
  BY <1>1 DEF Decode
<1>. HIDE DEF d
<1>6. db' \in DatabaseOf(tuned) /\ db' \in Database /\ db'.emitted = << >>
  BY <1>2, <1>4, <1>5, Posted DEF DatabaseOf
<1>7. posted' \in Seq(Event) /\ Len(posted') <= MaxPosted
  BY <1>2, <1>4, <1>5, Posted DEF TypeOK
<1>8. heard' \in 0 .. Len(B)
  <2>1. B \in Seq(Seq(FIG))
    BY <1>2, BroadcastAssumption
  <2>. HIDE DEF B
  <2>2. DOMAIN B = 1 .. Len(B) /\ Len(B) \in Nat
    BY <2>1
  <2>3. CASE fibs = << >>
    BY <1>1, <2>2, <2>3
  <2>4. CASE fibs # << >>
    <3>1. Last(fibs) \in Range(B)
      <4>. DEFINE R == Range(B)
      <4>. HIDE DEF R
      <4>1. fibs \in Seq(R) /\ fibs # << >>
        BY <1>3, <2>4 DEF R
      <4>2. fibs[Len(fibs)] \in R
        BY <4>1
      <4>. QED BY <4>2 DEF Last, R
    <3>2. \E k \in DOMAIN B : B[k] = Last(fibs)
      BY <3>1 DEF Range
    <3>3. heard' \in DOMAIN B
      BY <1>1, <2>4, <3>2
    <3>. QED BY <2>2, <3>3
  <2>. QED BY <2>3, <2>4
<1>9. /\ index' \in 0 .. 2303 /\ blkno' \in 1 .. 4 /\ ~torn' /\ torn' \in BOOLEAN
      /\ held' \subseteq {"this"}
      /\ index' = ((blkno' - 1) * (2 * carriers)) % 2304
  BY FicStep
<1>10. TypeOK'
  <2>1. /\ tuned' = tuned /\ found' = found /\ playing' = playing
        /\ comp' = comp /\ tunes' = tunes
    BY <1>1 DEF guiVars
  <2>2. /\ DOMAIN found' \subseteq Labels /\ playing' \in {None} \cup Playing
        /\ found' \in [DOMAIN found' -> [channel : Channel, data : ServiceData]]
        /\ comp' \in 0 .. MaxComps - 1 /\ (comp' # 0 => playing' # None)
        /\ tunes' \in 0 .. MaxTunes /\ tuned' \in Channel
    BY <1>2, <2>1 DEF TypeOK
  <2>3. heard' \in 0 .. Len(Broadcast[tuned'])
    BY <1>8, <2>1
  <2>4. held' \subseteq {"this", "earlier"}
    BY <1>9
  <2>5. torn' \in BOOLEAN
    BY <1>9, Zenon
  <2>. QED BY <1>6, <1>7, <1>9, <2>2, <2>3, <2>4, <2>5 DEF TypeOK
<1>11. db' \in DatabaseOf(tuned')
  BY <1>1, <1>6
<1>12. StartedRight' /\ FoundRight'
  BY <1>1 DEF IInv, StartedRight, FoundRight, guiVars
<1>13. FicPlace'
  BY <1>9 DEF FicPlace
<1>. QED BY <1>9, <1>10, <1>11, <1>12, <1>13 DEF IInv

LEMMA FrameStep == ASSUME IInv, NextFrame PROVE IInv'
<1>1. Len(Broadcast[tuned]) \in Nat
  <2>1. Broadcast[tuned] \in Seq(Seq(FIG))
    BY BroadcastAssumption DEF IInv, TypeOK
  <2>. DEFINE B == Broadcast[tuned]
  <2>. HIDE DEF B
  <2>2. B \in Seq(Seq(FIG))
    BY <2>1 DEF B
  <2>3. Len(B) \in Nat
    BY <2>2
  <2>. QED BY <2>3 DEF B
<1>2. TypeOK'
  BY <1>1 DEF IInv, TypeOK, NextFrame, BeginFrame, guiVars
<1>3. db' \in DatabaseOf(tuned') /\ ~torn'
  BY DEF IInv, NextFrame
<1>4. StartedRight' /\ FoundRight'
  BY DEF IInv, StartedRight, FoundRight, NextFrame, guiVars
<1>5. FicPlace'
  BY DEF FicPlace, NextFrame, BeginFrame
<1>. QED BY <1>2, <1>3, <1>4, <1>5 DEF IInv

LEMMA NoBlocks ==
  ASSUME NEW c \in Channel
  PROVE  0 \in 0 .. Len(Broadcast[c])
<1>. DEFINE B == Broadcast[c]
<1>1. B \in Seq(Seq(FIG))
  BY BroadcastAssumption
<1>. HIDE DEF B
<1>2. Len(B) \in Nat
  BY <1>1
<1>. QED BY <1>2 DEF B

LEMMA RestartStep ==
  ASSUME IInv, Restart, comp = 0, tuned' \in Channel, tunes' \in 0 .. MaxTunes,
         posted' \in Seq(Event), Len(posted') <= MaxPosted,
         found' = found, comp' = comp, heard' = 0
  PROVE  IInv'
<1>1. db' \in DatabaseOf(tuned') /\ db' \in Database /\ db'.emitted = << >>
  <2>1. tuned \in Channel /\ db \in DatabaseOf(tuned)
    BY DEF IInv, TypeOK
  <2>2. db' = clearEnsemble(db)
    BY DEF Restart
  <2>3. db' \in DatabaseOf(tuned') /\ db'.emitted = << >>
    BY <2>1, <2>2, ClearedRight
  <2>. QED BY <2>3 DEF DatabaseOf
<1>2. /\ index' = index /\ blkno' = 1 /\ playing' = None
      /\ held' \subseteq {"this", "earlier"}
  BY DEF Restart, BeginFrame
<1>3. ~torn' /\ torn' \in BOOLEAN
  <2>1. ~torn /\ torn \in BOOLEAN /\ torn' = torn
    BY DEF IInv, TypeOK, Restart
  <2>. QED BY <2>1, Zenon
<1>4. heard' \in 0 .. Len(Broadcast[tuned'])
  BY NoBlocks
<1>5. TypeOK'
  BY <1>1, <1>2, <1>3, <1>4 DEF IInv, TypeOK
<1>6. StartedRight' /\ FoundRight' /\ FicPlace'
  BY <1>2 DEF IInv, StartedRight, FoundRight, FicPlace
<1>. QED BY <1>1, <1>3, <1>5, <1>6 DEF IInv

\* What the steps leave as it was that touch neither database nor FIC.
LEMMA GuiStep ==
  ASSUME IInv, UNCHANGED <<db, ficVars, tuned, tunes>>, heard' = 0,
         posted' \in Seq(Event), Len(posted') <= MaxPosted,
         DOMAIN found' \subseteq Labels,
         found' \in [DOMAIN found' -> [channel : Channel, data : ServiceData]],
         playing' \in {None} \cup Playing,
         comp' \in 0 .. MaxComps - 1, comp' # 0 => playing' # None,
         StartedRight', FoundRight'
  PROVE  IInv'
<1>1. /\ db' = db /\ index' = index /\ held' = held /\ blkno' = blkno
      /\ torn' = torn /\ tuned' = tuned /\ tunes' = tunes
  BY DEF ficVars
<1>2. db' \in DatabaseOf(tuned') /\ tuned' \in Channel
  BY <1>1 DEF IInv, TypeOK
<1>3. heard' \in 0 .. Len(Broadcast[tuned'])
  BY <1>2, NoBlocks
<1>4. TypeOK'
  BY <1>1, <1>2, <1>3 DEF IInv, TypeOK
<1>5. ~torn' /\ FicPlace'
  BY <1>1 DEF IInv, FicPlace
<1>. QED BY <1>2, <1>4, <1>5 DEF IInv

LEMMA ServeStep ==
  ASSUME IInv, NEW e, Serve(e)
  PROVE  comp = 0 /\ posted' \in Seq(Event) /\ Len(posted') <= MaxPosted
<1>1. posted \in Seq(Event) /\ Len(posted) <= MaxPosted /\ MaxPosted \in Nat
  BY BoundsAssumption DEF IInv, TypeOK
<1>2. comp = 0 /\ posted # << >> /\ posted' = Tail(posted)
  BY DEF Serve
<1>. QED BY <1>1, <1>2

LEMMA FoundStep ==
  ASSUME IInv, NEW l, addtoEnsemble(l), heard' = 0
  PROVE  IInv'
<1>. DEFINE d == dataforAudioService(db, l, 0)
            D == DOMAIN found \cup {l}
            r == [channel |-> tuned, data |-> d]
<1>1. /\ comp = 0 /\ posted' \in Seq(Event) /\ Len(posted') <= MaxPosted
      /\ UNCHANGED <<db, ficVars, tuned, playing, comp, tunes>>
  BY ServeStep DEF addtoEnsemble
<1>2. /\ DOMAIN found \subseteq Labels
      /\ found \in [DOMAIN found -> [channel : Channel, data : ServiceData]]
      /\ tuned \in Channel /\ db \in DatabaseOf(tuned)
      /\ playing \in {None} \cup Playing
      /\ comp \in 0 .. MaxComps - 1 /\ (comp # 0 => playing # None)
      /\ StartedRight /\ FoundRight
  BY DEF IInv, TypeOK
<1>3. StartedRight'
  BY <1>1, <1>2 DEF StartedRight
<1>4. CASE d = None \/ l \in DOMAIN found
  <2>1. found' = found
    BY <1>4 DEF addtoEnsemble
  <2>2. FoundRight'
    BY <1>2, <2>1 DEF FoundRight
  <2>. QED BY <1>1, <1>2, <1>3, <2>1, <2>2, GuiStep
<1>5. CASE d # None /\ l \notin DOMAIN found
  <2>1. found' = [k \in D |-> IF k = l THEN r ELSE found[k]]
    BY <1>5 DEF addtoEnsemble
  <2>2. d \in ServiceData /\ AudioOf(tuned, l, d)
    BY <1>2, <1>5, AudioQuery
  <2>3. l \in Labels
    <3>1. dataforService(db, l, 0, 0) # None
      BY <1>5 DEF dataforAudioService
    <3>. QED BY <1>2, <3>1, Queried, LabelOf
  <2>. HIDE DEF d
  <2>4. r \in [channel : Channel, data : ServiceData] /\ r.channel = tuned /\ r.data = d
    BY <1>2, <2>2
  <2>. HIDE DEF r
  <2>5. /\ DOMAIN found' = D /\ D \subseteq Labels
        /\ found' \in [D -> [channel : Channel, data : ServiceData]]
    BY <1>2, <2>1, <2>3, <2>4
  <2>6. FoundRight'
    <3>1. ASSUME NEW k \in D
          PROVE  AudioOf(found'[k].channel, k, found'[k].data)
      <4>1. CASE k = l
        BY <2>1, <2>2, <2>4, <4>1
      <4>2. CASE k # l
        BY <1>2, <2>1, <4>2 DEF FoundRight
      <4>. QED BY <4>1, <4>2
    <3>. HIDE DEF D
    <3>. QED BY <2>5, <3>1 DEF FoundRight
  <2>. HIDE DEF D
  <2>. QED BY <1>1, <1>2, <1>3, <2>5, <2>6, GuiStep
<1>. QED BY <1>4, <1>5

LEMMA StartStep ==
  ASSUME IInv, NEW l \in Labels, startService(l), heard' = 0
  PROVE  IInv'
<1>. DEFINE d == dataforAudioService(db, l, 0)
            p == [service |-> l, audio |-> d, data |-> None]
<1>1. /\ d # None /\ playing' = p /\ comp' = 1
      /\ UNCHANGED <<db, ficVars, tuned, posted, found, tunes>>
  BY DEF startService
<1>2. /\ tuned \in Channel /\ db \in DatabaseOf(tuned) /\ FoundRight
      /\ posted \in Seq(Event) /\ Len(posted) <= MaxPosted
      /\ DOMAIN found \subseteq Labels
      /\ found \in [DOMAIN found -> [channel : Channel, data : ServiceData]]
  BY DEF IInv, TypeOK
<1>3. d \in ServiceData /\ AudioOf(tuned, l, d)
  BY <1>1, <1>2, AudioQuery
<1>. HIDE DEF d
<1>4. p \in Playing /\ p.service = l /\ p.audio = d
  BY <1>3 DEF Playing
<1>. HIDE DEF p
<1>5. StartedRight' /\ FoundRight'
  BY <1>1, <1>2, <1>3, <1>4 DEF StartedRight, FoundRight
<1>6. comp' \in 0 .. MaxComps - 1 /\ playing' \in {None} \cup Playing /\ playing' # None
  BY <1>1, <1>4, MaxCompsAssumption, NoneAssumption
<1>. QED BY <1>1, <1>2, <1>5, <1>6, GuiStep

LEMMA ComponentStep ==
  ASSUME IInv, set_audioChannel, heard' = 0
  PROVE  IInv'
<1>. DEFINE d == dataforDataService(db, playing.service, comp)
            p == [playing EXCEPT !.data = d]
<1>1. /\ comp # 0 /\ playing' = p
      /\ comp' = IF d # None \/ comp + 1 = MaxComps THEN 0 ELSE comp + 1
      /\ UNCHANGED <<db, ficVars, tuned, posted, found, tunes>>
  BY DEF set_audioChannel
<1>2. /\ tuned \in Channel /\ db \in DatabaseOf(tuned) /\ FoundRight /\ StartedRight
      /\ posted \in Seq(Event) /\ Len(posted) <= MaxPosted
      /\ DOMAIN found \subseteq Labels
      /\ found \in [DOMAIN found -> [channel : Channel, data : ServiceData]]
      /\ comp \in 0 .. MaxComps - 1 /\ playing \in Playing
  BY <1>1 DEF IInv, TypeOK
<1>3. d \in {None} \cup ServiceData
  BY <1>2, QueryTyped DEF dataforDataService
<1>. HIDE DEF d
<1>4. p \in Playing /\ p.service = playing.service /\ p.audio = playing.audio
  BY <1>2, <1>3 DEF Playing
<1>. HIDE DEF p
<1>5. playing # None /\ playing' # None
  BY <1>1, <1>2, <1>4, NoneAssumption
<1>6. StartedRight' /\ FoundRight'
  BY <1>1, <1>2, <1>4, <1>5 DEF StartedRight, FoundRight
<1>7. comp' \in 0 .. MaxComps - 1
  BY <1>1, <1>2, MaxCompsAssumption
<1>. QED BY <1>1, <1>2, <1>4, <1>5, <1>6, <1>7, GuiStep

LEMMA StepIInv == IInv /\ [Next]_vars => IInv'
<1>. SUFFICES ASSUME IInv, [Next]_vars PROVE IInv'
  OBVIOUS
<1>1. CASE \E fibs : process_ficBlock(fibs)
  BY <1>1, BlockStep
<1>2. CASE NextFrame
  BY <1>2, FrameStep
<1>3. ASSUME NEW c \in Channel, Tune(c), heard' = 0 PROVE IInv'
  <2>1. /\ comp = 0 /\ tunes < MaxTunes /\ tunes' = tunes + 1 /\ tuned' = c /\ Restart
        /\ UNCHANGED <<posted, found, comp>>
    BY <1>3 DEF Tune
  <2>2. /\ posted \in Seq(Event) /\ Len(posted) <= MaxPosted
        /\ tunes \in 0 .. MaxTunes /\ MaxTunes \in Nat
    BY BoundsAssumption DEF IInv, TypeOK
  <2>3. tunes' \in 0 .. MaxTunes
    BY <2>1, <2>2
  <2>. QED BY <1>3, <2>1, <2>2, <2>3, RestartStep
<1>4. ASSUME changeinConfiguration, heard' = 0 PROVE IInv'
  <2>1. Serve(ChangeEvent) /\ Restart /\ UNCHANGED <<tuned, found, comp, tunes>>
    BY <1>4 DEF changeinConfiguration
  <2>2. comp = 0 /\ posted' \in Seq(Event) /\ Len(posted') <= MaxPosted
    BY <2>1, ServeStep
  <2>3. tuned \in Channel /\ tunes \in 0 .. MaxTunes
    BY DEF IInv, TypeOK
  <2>. QED BY <1>4, <2>1, <2>2, <2>3, RestartStep
<1>5. ASSUME nameofEnsemble, heard' = 0 PROVE IInv'
  <2>1. /\ Serve(NameEvent(Head(posted).of))
        /\ UNCHANGED <<db, ficVars, tuned, tunes>>
        /\ found' = found /\ playing' = playing /\ comp' = comp
    BY <1>5 DEF nameofEnsemble, guiVars
  <2>2. posted' \in Seq(Event) /\ Len(posted') <= MaxPosted
    BY <2>1, ServeStep
  <2>3. /\ DOMAIN found \subseteq Labels
        /\ found \in [DOMAIN found -> [channel : Channel, data : ServiceData]]
        /\ playing \in {None} \cup Playing
        /\ comp \in 0 .. MaxComps - 1 /\ (comp # 0 => playing # None)
    BY DEF IInv, TypeOK
  <2>4. StartedRight' /\ FoundRight'
    BY <2>1 DEF IInv, StartedRight, FoundRight
  <2>. QED BY <1>5, <2>1, <2>2, <2>3, <2>4, GuiStep
<1>6. ASSUME NEW l, addtoEnsemble(l), heard' = 0 PROVE IInv'
  BY <1>6, FoundStep
<1>7. ASSUME NEW l \in Labels, startService(l), heard' = 0 PROVE IInv'
  BY <1>7, StartStep
<1>8. ASSUME set_audioChannel, heard' = 0 PROVE IInv'
  BY <1>8, ComponentStep
<1>9. CASE UNCHANGED vars
  <2>1. /\ db' = db /\ index' = index /\ held' = held /\ blkno' = blkno /\ torn' = torn
        /\ heard' = heard /\ tuned' = tuned /\ posted' = posted /\ found' = found
        /\ playing' = playing /\ comp' = comp /\ tunes' = tunes
    BY <1>9 DEF vars, ficVars, guiVars
  <2>. QED BY <2>1 DEF IInv, TypeOK, StartedRight, FoundRight, FicPlace
<1>10. \/ \E fibs : process_ficBlock(fibs)
       \/ NextFrame
       \/ /\ heard' = 0
          /\ \/ \E c \in Channel : Tune(c)
             \/ changeinConfiguration \/ nameofEnsemble
             \/ \E l : addtoEnsemble(l)
             \/ \E l \in Labels : startService(l)
             \/ set_audioChannel
       \/ UNCHANGED vars
  BY DEF Next, dabProcessor, gui, Arrives
<1>. QED BY <1>1, <1>2, <1>3, <1>4, <1>5, <1>6, <1>7, <1>8, <1>9, <1>10

\* The database has the form of that of the channel tuned to, in every state.
THEOREM InvariantHolds == Spec => []IInv
<1>1. Init => IInv
  BY InitIInv
<1>2. IInv /\ [Next]_vars => IInv'
  BY StepIInv
<1>. QED BY <1>1, <1>2, PTL DEF Spec

\* Whatever FIBs come in and in whatever order, on this channel and on those
\* before it, the sub-channels, labels and components of the database are those
\* of the channel tuned to (fib_processor::process_FIB and clearEnsemble).
THEOREM DatabaseRight == Spec => []DatabaseOfTuned
<1>1. IInv => DatabaseOfTuned
  BY DEF IInv, DatabaseOf, DatabaseOfTuned
<1>. QED BY <1>1, InvariantHolds, PTL

\* An ensemble that fits the tables never fills ServiceComps up with something
\* still to come, so that its entry at -1 is never written (bind_audioService,
\* bind_packetService).
THEOREM TablesHold == Spec => []NoOverrun
<1>1. IInv => NoOverrun
  BY DEF IInv, DatabaseOf, NoOverrun
<1>. QED BY <1>1, InvariantHolds, PTL

\* What the GUI thread takes from the database, at whatever moment and after
\* whatever changes of channel, is what the channel says of that service:
\* the service that is started, the list of a scan, and the kind of a service.
THEOREM AnswersRight == Spec => []QueriesRight
<1>1. ASSUME IInv PROVE QueriesRight
  <2>1. KindAgrees
    <3>1. tuned \in Channel /\ db \in DatabaseOf(tuned)
      BY <1>1 DEF IInv, TypeOK
    <3>. QED BY <3>1, KindRight DEF KindAgrees
  <2>. QED BY <1>1, <2>1 DEF IInv, QueriesRight
<1>. QED BY <1>1, InvariantHolds, PTL

\* The three blocks of the FIC of a frame leave no bit over, in every mode whose
\* FIC has three blocks, so that no FIC is decoded from the bits of two frames,
\* though the receiver may be stopped between any two blocks (process_ficBlock).
THEOREM FicsWhole == Spec => []FicWhole
<1>1. ASSUME IInv PROVE FicWhole
  <2>1. ASSUME blkno = 4 PROVE index = 0
    <3>1. index = (3 * (2 * carriers)) % 2304
      BY <1>1, <2>1 DEF IInv, FicPlace
    <3>2. CASE carriers = 1536
      BY <3>1, <3>2
    <3>3. CASE carriers = 768
      BY <3>1, <3>3
    <3>4. CASE carriers = 384
      BY <3>1, <3>4
    <3>. QED BY <3>2, <3>3, <3>4, CarriersAssumption
  <2>. QED BY <1>1, <2>1 DEF IInv, FicWhole
<1>. QED BY <1>1, InvariantHolds, PTL
=============================================================================

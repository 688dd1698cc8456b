--------------------------- MODULE DataProcessor ---------------------------
(***************************************************************************)
(* dataProcessor and motHandler: a packet data channel.  Packets are put   *)
(* together to MSC data groups, the data groups to MOT objects: slides by  *)
(* themselves, and files that a directory tells of.                        *)
(*                                                                         *)
(* The ensemble sends the data groups of Carousel over and over, each cut  *)
(* into packets; a packet may be damaged on its way.  What a packet        *)
(* carries is named <<k, i>>, part i of group k of the carousel.           *)
(***************************************************************************)
EXTENDS Integers, Sequences, FiniteSetsExt, SequencesExt

CONSTANTS
  Carousel,       \* the data groups: what their headers say, and in how
                  \* many packets each is sent
  TableSize,      \* of motTable: 15
  packetAddress,  \* of the service
  Padding,        \* packets of address 0 that may come in between
  MaxBad          \* bound: packets that are damaged or come in between

M == INSTANCE MotObject

Parts(k) == [i \in 1 .. Carousel[k].parts |-> <<k, i>>]

\* The object of the carousel with this number: its segments.
BodyGroups(tid) == {k \in DOMAIN Carousel : Carousel[k].groupType = 4 /\
                                            Carousel[k].transportId = tid}
Segments(tid)   == {Carousel[k].segmentNumber : k \in BodyGroups(tid)}
Group(tid, n)   == CHOOSE k \in BodyGroups(tid) : Carousel[k].segmentNumber = n
Object(tid)     == [n \in Segments(tid) |-> Parts(Group(tid, n))]

\* Assumed of the constants by FrameProcessors.  A body segment has a CRC and
\* a number of its own, the last one the largest.
GroupTypes == {3, 4, 6}    \* a header, a body, a directory
Entries == [segment : Nat, transportId : Nat, content : M!Contents]
CarouselAssumption ==
  /\ Len(Carousel) \in Nat \ {0} /\ DOMAIN Carousel = 1 .. Len(Carousel)
  /\ \A k \in DOMAIN Carousel : LET g == Carousel[k] IN
       /\ g.parts \in Nat \ {0} /\ g.crcFlag \in BOOLEAN
       /\ g.groupType \in GroupTypes /\ g.transportId \in Nat
       /\ g.segmentNumber \in M!SegmentNumbers /\ g.lastFlag \in BOOLEAN
       /\ g.groupType = 3 => g.content \in M!Contents
       /\ g.groupType = 6 => g.content \in Seq(Entries)
SegmentsAssumption ==
  \A k \in DOMAIN Carousel : LET g == Carousel[k] IN g.groupType = 4 =>
    /\ g.crcFlag
    /\ g.lastFlag => Segments(g.transportId) = 0 .. g.segmentNumber
    /\ \A l \in BodyGroups(g.transportId) :
         Carousel[l].segmentNumber = g.segmentNumber => l = k
BoundAssumption    == MaxBad \in Nat /\ packetAddress # 0 /\ TableSize \in Nat \ {0}

VARIABLES
  sender,         \* group, part and continuity index of the next packet
  bad,            \* packets that were damaged or came in between
  expectedIndex, packetState, series,
  motTable,       \* the slides, the oldest first
  theDirectory,   \* the directory and its objects: at most one
  pictures        \* history: what was shown or written

sending  == <<sender, bad>>
packets  == <<expectedIndex, packetState, series>>
objects  == <<motTable, theDirectory, pictures>>
dataVars == <<sending, packets, objects>>

Init ==
  /\ sender = [group |-> 1, part |-> 1, ci |-> 0] /\ bad = 0
  /\ expectedIndex = 0 /\ packetState = 0 /\ series = << >>
  /\ motTable = << >> /\ theDirectory = << >> /\ pictures = {}

(***************************************************************************)
(* motHandler.                                                             *)
(***************************************************************************)
With(seq, tid) == {i \in DOMAIN seq : seq[i].transportId = tid}
dirObjects == IF theDirectory = << >> THEN << >> ELSE theDirectory[1].motComponents
InTable(tid) == With(motTable, tid) # {}
getHandle(tid) == InTable(tid) \/ With(dirObjects, tid) # {}

\* The oldest slide goes when the table is full.
setHandle(o) ==
  motTable' = Append(IF Len(motTable) < TableSize THEN motTable ELSE Tail(motTable), o)

HeaderSegment(g) ==
  /\ IF g.segmentNumber = 0 /\ ~getHandle(g.transportId)
     THEN setHandle(M!motObject(g.transportId, g.content, FALSE))
     ELSE UNCHANGED motTable
  /\ UNCHANGED <<theDirectory, pictures>>

BodySegment(g, body) ==
  LET s == [segmentNumber |-> g.segmentNumber, lastFlag |-> g.lastFlag,
            body |-> body]
      Add(seq) == LET i == Min(With(seq, g.transportId))
                  IN [seq EXCEPT ![i] = M!addBodySegment(@, s)]
      Done(seq) == M!handleComplete(seq[Min(With(seq, g.transportId))], s)
  IN CASE InTable(g.transportId) ->
            /\ motTable' = Add(motTable)
            /\ pictures' = pictures \cup Done(motTable)
            /\ UNCHANGED theDirectory
       [] ~InTable(g.transportId) /\ getHandle(g.transportId) ->
            /\ theDirectory' = [theDirectory EXCEPT ![1].motComponents = Add(@)]
            /\ pictures' = pictures \cup Done(dirObjects)
            /\ UNCHANGED motTable
       [] OTHER -> UNCHANGED objects

\* analyse_theDirectory: the entries are read one by one, up to the first one
\* in a segment that is not there, whose memory was never written: its number
\* may be 0, which ends the list, or any.  An object goes to the next free
\* component; if there is none it is lost.
Missing(d, entries) == {i \in DOMAIN entries : entries[i].segment \notin d.marked}
Readable(d, entries) ==
  IF Missing(d, entries) = {} THEN entries
  ELSE SubSeq(entries, 1, Min(Missing(d, entries)) - 1)
Analysed(d, entries) ==
  LET Made(e) == M!motObject(e.transportId, e.content, TRUE)
      good    == [i \in 1 .. Len(Readable(d, entries)) |->
                    Made(Readable(d, entries)[i])]
      junk    == IF Missing(d, entries) = {} THEN {<< >>}
                 ELSE {<< >>, <<Made([transportId |-> -1, content |-> "other"])>>}
      Fit(seq) == SubSeq(seq, 1, Min({Len(seq), Len(entries)}))
  IN {[d EXCEPT !.motComponents = Fit(@ \o good \o j)] : j \in junk}

\* directorySegment: the directory is analysed when all segments are there,
\* and with each segment as long as their number is not known.
DirectorySegment(g) ==
  LET old == theDirectory[1]
      d   == [old EXCEPT !.marked = @ \cup {g.segmentNumber},
                         !.num_dirSegments =
                            IF g.lastFlag THEN g.segmentNumber + 1 ELSE @]
      Waits == d.num_dirSegments # -1 /\
               ~(0 .. d.num_dirSegments - 1 \subseteq d.marked)
  IN /\ IF theDirectory = << >> THEN UNCHANGED theDirectory
        ELSE IF old.transportId # g.transportId \/ g.segmentNumber \in old.marked
        THEN UNCHANGED theDirectory
        ELSE IF Waits THEN theDirectory' = <<d>>
        ELSE \E a \in Analysed(d, g.content) : theDirectory' = <<a>>
     /\ UNCHANGED <<motTable, pictures>>

\* Segment 0 makes the directory, which replaces another one with its objects.
DirectoryStart(g) ==
  /\ theDirectory' =
       IF With(theDirectory, g.transportId) # {} THEN theDirectory
       ELSE <<[transportId |-> g.transportId, marked |-> {0},
               num_dirSegments |-> -1, motComponents |-> << >>]>>
  /\ UNCHANGED <<motTable, pictures>>

\* add_mscDatagroup: the header is in the first packet; a group that is not
\* whole does not pass its CRC, if it has one.
Whole(msc) == msc = Parts(Head(msc)[1])
AdmittedAny(msc) == msc # << >>
Admitted(msc)    == ~Carousel[Head(msc)[1]].crcFlag \/ Whole(msc)
add_mscDatagroup(msc) ==
  LET g == Carousel[Head(msc)[1]]
  IN IF ~Admitted(msc) THEN UNCHANGED objects
     ELSE CASE g.groupType = 3 -> HeaderSegment(g)
            [] g.groupType = 4 -> BodySegment(g, msc)
            [] g.groupType = 6 -> IF g.segmentNumber = 0 THEN DirectoryStart(g)
                                                         ELSE DirectorySegment(g)

(***************************************************************************)
(* dataProcessor.                                                          *)
(***************************************************************************)
Deliver(s) == series' = s /\ add_mscDatagroup(s)
Keep(s)    == series' = s /\ UNCHANGED objects

\* The packet is the only one, the first, the last or one in between.
AssembleStayingWithin(p) ==
  CASE p.firstLast = "first" ->
         packetState' = 1 /\ Keep(<<p.data>>)
    [] p.firstLast = "single" /\ packetState = 0 ->
         packetState' = 0 /\ Deliver(<<p.data>>)
    [] p.firstLast = "middle" /\ packetState = 1 ->
         packetState' = 1 /\ Keep(Append(series, p.data))
    [] p.firstLast = "last" /\ packetState = 1 ->
         packetState' = 1 /\ Deliver(Append(series, p.data))
    [] OTHER -> packetState' = 0 /\ Keep(<< >>)
Assemble(p) ==
  CASE p.firstLast = "first" ->
         packetState' = 1 /\ Keep(<<p.data>>)
    [] p.firstLast = "single" /\ packetState = 0 ->
         packetState' = 0 /\ Deliver(<<p.data>>)
    [] p.firstLast = "middle" /\ packetState = 1 ->
         packetState' = 1 /\ Keep(Append(series, p.data))
    [] p.firstLast = "last" /\ packetState = 1 ->
         packetState' = 0 /\ Deliver(Append(series, p.data))
    [] OTHER -> packetState' = 0 /\ Keep(<< >>)

\* Out of sequence, a packet is dropped and one with index 0 waited for; what
\* was collected stays.
handlePacket(p) ==
  /\ expectedIndex' = IF p.ci = expectedIndex THEN (expectedIndex + 1) % 4 ELSE 0
  /\ IF p.ci = expectedIndex /\ p.crc /\ p.address = packetAddress
     THEN Assemble(p)
     ELSE UNCHANGED <<packetState, series, objects>>

(***************************************************************************)
(* The packets that come in.                                               *)
(***************************************************************************)
FirstLast(k, i) == CASE Carousel[k].parts = 1 -> "single"
                     [] i = 1 /\ Carousel[k].parts > 1 -> "first"
                     [] i = Carousel[k].parts /\ i > 1 -> "last"
                     [] OTHER -> "middle"

Sent == [ci |-> sender.ci, crc |-> TRUE, address |-> packetAddress,
         firstLast |-> FirstLast(sender.group, sender.part),
         data |-> <<sender.group, sender.part>>]

Advance ==
  sender' =
    IF sender.part < Carousel[sender.group].parts
    THEN [sender EXCEPT !.part = @ + 1, !.ci = (@ + 1) % 4]
    ELSE [group |-> (sender.group % Len(Carousel)) + 1, part |-> 1,
          ci |-> (sender.ci + 1) % 4]

Arrives == handlePacket(Sent) /\ Advance /\ UNCHANGED bad

\* A damaged packet fails its CRC; what is taken for its index may be any.
Damaged ==
  /\ bad < MaxBad /\ bad' = bad + 1
  /\ \E ci \in 0 .. 3 : handlePacket([Sent EXCEPT !.crc = FALSE, !.ci = ci])
  /\ Advance

\* A packet of another address counts its own index.
Other ==
  /\ Padding /\ bad < MaxBad /\ bad' = bad + 1
  /\ \E ci \in 0 .. 3 : handlePacket([Sent EXCEPT !.address = 0, !.ci = ci])
  /\ UNCHANGED sender

Next == Arrives \/ Damaged \/ Other
----------------------------------------------------------------------------
Numbers == {Carousel[k].segmentNumber : k \in DOMAIN Carousel}
MotObjects == M!Objects(Numbers, {Parts(k) : k \in DOMAIN Carousel})
Directories == [transportId : Nat, marked : SUBSET Nat,
                num_dirSegments : Nat \cup {-1}, motComponents : Seq(MotObjects)]
TypeOK ==
  /\ sender.group \in DOMAIN Carousel /\ sender.part \in 1 .. Carousel[sender.group].parts
  /\ sender \in [group : Nat, part : Nat, ci : 0 .. 3]
  /\ expectedIndex \in 0 .. 3 /\ packetState \in 0 .. 1 /\ bad \in 0 .. MaxBad
  /\ motTable \in Seq(MotObjects) /\ Len(motTable) <= TableSize
  /\ theDirectory \in Seq(Directories) /\ Len(theDirectory) <= 1
  /\ series \in Seq((DOMAIN Carousel) \X Nat)
  /\ series # << >> => Head(series)[2] = 1
  /\ packetState = 1 => series # << >>

\* The slides and the files are parts of those that are sent.
Sound(o) == M!PartOf(o, Object(o.transportId))
AllSound == /\ \A i \in DOMAIN motTable : Sound(motTable[i])
            /\ \A i \in DOMAIN dirObjects : Sound(dirObjects[i])

\* A picture or a file that is handed on is the whole of one object: all its
\* segments in order, each put together from all its packets, whatever packets
\* were damaged or came out of sequence (data-processor.cpp:107).
PicturesWhole == \A x \in pictures : x.result = M!InOrder(Object(x.transportId))

IInv == TypeOK /\ AllSound /\ PicturesWhole

\* Every object that is sent was handed on.
Sendable == {Carousel[k].transportId : k \in
               {j \in DOMAIN Carousel : Carousel[j].groupType = 4}}
AllHandedOn == Sendable \subseteq {x.transportId : x \in pictures}
=============================================================================

----------------------------- MODULE PadHandler -----------------------------
(***************************************************************************)
(* padHandler: the programme associated data that come with each frame of  *)
(* an audio service: the dynamic label, in short or in variable X-PADs, and *)
(* slides, as MSC data groups in variable X-PADs.                          *)
(*                                                                         *)
(* A service sends the fields of its script over and over; a field may     *)
(* be lost with the frame it belongs to.  Byte i of a data group k, or     *)
(* character i of a text k, is <<k, i>>.  The bytes of a field are in the  *)
(* order in which they are used: they are stored from the end.             *)
(***************************************************************************)
EXTENDS Integers, Sequences, FiniteSetsExt, SequencesExt, Loops

CONSTANTS
  Scripts,     \* for each service the sequence of its fields
  PadGroups,   \* what the headers of the data groups say, and their length
  Texts,       \* the labels: sequences of characters <<character, charSet>>
  MaxLost      \* bound: fields that are lost, and changes of service

M == INSTANCE MotObject

\* The slide with this number: the data groups that are its segments.
PadGroup(k) == [i \in 1 .. PadGroups[k].length |-> <<k, i>>]
SlideGroups(tid) == {k \in DOMAIN PadGroups : PadGroups[k].groupType = 4 /\
                                              PadGroups[k].transportId = tid}
Segments(tid)    == {PadGroups[k].segmentNumber : k \in SlideGroups(tid)}
Group(tid, n)    == CHOOSE k \in SlideGroups(tid) : PadGroups[k].segmentNumber = n
Slide(tid)       == [n \in Segments(tid) |-> PadGroup(Group(tid, n))]

\* What fields are: one without an X-PAD; a short one, with flags or all data;
\* a variable one, with subfields or all data.
Byte == Nat \X Nat
Indicators == [appType : {1}, length : Nat, dataGroupLength : Nat \ {0}]
LabelStarts ==
  [appType : {2}, length : Nat, bytes : Seq(Byte), first : BOOLEAN, last : BOOLEAN,
   command : BOOLEAN, total : Nat, charSet : Nat]
Others == [appType : Nat \ {1, 2}, length : Nat, bytes : Seq(Byte)]
Subfields == Indicators \cup LabelStarts \cup Others

\* Before a data group begins, an indicator gives its length.
Indicated(subs) ==
  \A j \in DOMAIN subs : subs[j].appType = 12 =>
    \E i \in 1 .. j - 1 : subs[i].appType = 1

NoXPads ==
  [x_padInd : {0}, CI : BOOLEAN, opens : BOOLEAN, texts : SUBSET Texts,
   slides : SUBSET Nat]
ShortFlags ==
  [x_padInd : {1}, CI : {TRUE}, AcTy : Nat, first : BOOLEAN, last : BOOLEAN,
   charSet : Nat, togo : Nat, bytes : Seq(Byte), opens : BOOLEAN,
   texts : SUBSET Texts, slides : SUBSET Nat]
AllData ==
  [x_padInd : {1, 2}, CI : {FALSE}, bytes : Seq(Byte), opens : BOOLEAN,
   texts : SUBSET Texts, slides : SUBSET Nat]
Variables ==
  [x_padInd : {2}, CI : {TRUE}, subs : {q \in Seq(Subfields) : Indicated(q)},
   opens : BOOLEAN, texts : SUBSET Texts, slides : SUBSET Nat]
PadFields == NoXPads \cup ShortFlags \cup AllData \cup Variables

\* Assumed of the constants by FrameProcessors.  A segment of a slide has a CRC
\* and a number of its own, the last one the largest.
ScriptsAssumption ==
  \A s \in DOMAIN Scripts : Scripts[s] # << >> /\ Scripts[s] \in Seq(PadFields)
PadGroupsAssumption ==
  \A k \in DOMAIN PadGroups : LET g == PadGroups[k] IN
    /\ k \in Nat \ {0} /\ g.length \in Nat \ {0} /\ g.crcFlag \in BOOLEAN
    /\ g.groupType \in Nat /\ g.transportId \in Nat
    /\ g.segmentNumber \in M!SegmentNumbers /\ g.lastFlag \in BOOLEAN
    /\ g.groupType = 4 =>
         /\ g.crcFlag
         /\ g.lastFlag => Segments(g.transportId) = 0 .. g.segmentNumber
         /\ \A l \in SlideGroups(g.transportId) :
              PadGroups[l].segmentNumber = g.segmentNumber => l = k
LostAssumption    == MaxLost \in Nat

VARIABLES
  script, at,  \* the service, and its next field
  lost,
  intact,      \* history: no field was lost since the one that began a label
  label,       \* dynamicLabelText, charSet, and the static variables of
               \* dynamicLabel, which all padHandlers share
  short,       \* what handle_shortPAD keeps
  msc,         \* the data group that is put together
  currentSlide,\* at most one
  shown, pictures  \* history: labels shown unbroken, pictures handed on

channel == <<script, at, lost, intact>>
padVars == <<channel, label, short, msc, currentSlide, shown, pictures>>

\* The static variables are initialised once, and stay as they are when another
\* padHandler is made.
Static      == [dynamicLabelText |-> << >>, charSet |-> -1, remainDataLength |-> 0,
                isLastSegment |-> FALSE, moreXPad |-> FALSE]
NewLabel(l) == [l EXCEPT !.dynamicLabelText = << >>, !.charSet = -1]
NewShort == [still_to_go |-> 0, firstSegment |-> FALSE, lastSegment |-> FALSE,
             shortpadData |-> << >>]
NewMsc   == [mscGroupElement |-> FALSE, xpadLength |-> -1, dataGroupLength |-> 0,
             msc_dataGroupBuffer |-> << >>]

Init ==
  /\ script \in DOMAIN Scripts /\ at = 1 /\ lost = 0 /\ intact = FALSE
  /\ label = Static /\ short = NewShort /\ msc = NewMsc
  /\ currentSlide = << >> /\ shown = {} /\ pictures = {}

First(s, n) == SubSeq(s, 1, Min({n, Len(s)}))

\* toQStringUsingCharset, for bytes that are not all zero.
Converted(bytes, charSet) == [i \in DOMAIN bytes |-> <<bytes[i], charSet>>]

\* showLabel: of texts that were received unbroken a record is kept.
Show(l, set) == IF intact THEN set \cup {l.dynamicLabelText} ELSE set

(***************************************************************************)
(* Short X-PADs.                                                           *)
(***************************************************************************)
AppendedText(l, bytes) ==
  [l EXCEPT !.dynamicLabelText = @ \o Converted(bytes, l.charSet)]
Cleared(l) == [l EXCEPT !.dynamicLabelText = << >>]

\* f.first, f.last and f.charSet are bits of the second and the third byte,
\* whatever these bytes are.
Flagged(f) == [short EXCEPT !.firstSegment = f.first, !.lastSegment = f.last]

ShortStart(f) ==
  LET l == [label EXCEPT !.charSet = f.charSet]
      new == f.first /\ ~f.last
  IN /\ shown' = IF new /\ l.dynamicLabelText # << >> THEN Show(l, shown) ELSE shown
     /\ label' = IF new THEN Cleared(l) ELSE l
     /\ short' = [Flagged(f) EXCEPT !.still_to_go = f.togo,
                                    !.shortpadData = f.bytes]

\* The continuation in a field with an indicator: shown only with the next one.
ShortContinued(f) ==
  LET taken == First(f.bytes, Min({3, short.still_to_go}))
      data  == short.shortpadData \o taken
      left  == short.still_to_go - Len(taken)
      ends  == left = 0 /\ Len(data) > 1
      l     == [label EXCEPT !.charSet = f.charSet]
  IN /\ label' = IF ends THEN AppendedText(l, data) ELSE l
     /\ short' = [Flagged(f) EXCEPT !.still_to_go = left,
                                    !.shortpadData = IF ends THEN << >> ELSE data]
     /\ UNCHANGED shown

\* A field that is all data.
ShortData(f) ==
  LET taken == First(f.bytes, Min({4, short.still_to_go}))
      data  == short.shortpadData \o taken
      left  == short.still_to_go - Len(taken)
      ends  == left = 0 /\ Len(data) > 0
      l     == AppendedText(label, data)
      over  == ends /\ ~short.firstSegment /\ short.lastSegment
  IN /\ label' = IF over THEN Cleared(l) ELSE IF ends THEN l ELSE label
     /\ shown' = IF over THEN Show(l, shown) ELSE shown
     /\ short' = [short EXCEPT !.still_to_go = left,
                               !.shortpadData = IF ends THEN << >> ELSE data]

handle_shortPAD(f) ==
  /\ CASE f.CI /\ f.AcTy = 2 -> ShortStart(f)
       [] f.CI /\ f.AcTy = 3 -> ShortContinued(f)
       [] f.CI /\ f.AcTy \notin {2, 3} ->
            /\ short' = Flagged(f) /\ label' = [label EXCEPT !.charSet = f.charSet]
            /\ UNCHANGED shown
       [] ~f.CI -> ShortData(f)
  /\ UNCHANGED <<msc, currentSlide, pictures>>

(***************************************************************************)
(* Variable X-PADs: the subfields change a record st of label, msc, slide, *)
(* shown and pictures one after the other.                                 *)
(***************************************************************************)
\* A label segment starts: a field of d.length bytes, two of them the prefix.
LabelStart(st, d) ==
  LET fits == Min({d.length - 2, d.total})
      l0   == IF d.first THEN [st.label EXCEPT !.dynamicLabelText = << >>,
                                               !.charSet = d.charSet]
                         ELSE st.label
      l    == [AppendedText(l0, First(d.bytes, fits)) EXCEPT
                 !.moreXPad = fits < d.total,
                 !.remainDataLength = d.total - fits,
                 !.isLastSegment = IF d.last /\ fits = d.total THEN @ ELSE d.last]
  IN IF d.command THEN [st EXCEPT !.label = Cleared(l0)]
     ELSE [st EXCEPT !.label = l,
             !.shown = IF d.last /\ fits = d.total THEN Show(l, @) ELSE @]

LabelContinuedLong(st, d) ==
  LET l == [AppendedText(st.label, d.bytes) EXCEPT
              !.moreXPad = st.label.remainDataLength > d.length,
              !.remainDataLength = IF @ > d.length THEN @ - d.length ELSE @]
  IN IF ~st.label.moreXPad THEN st
     ELSE [st EXCEPT !.label = l,
             !.shown = IF ~l.moreXPad /\ l.isLastSegment THEN Show(l, @) ELSE @]
LabelContinued(st, d) ==
  LET fits == Min({d.length, st.label.remainDataLength})
      l == [AppendedText(st.label, First(d.bytes, fits)) EXCEPT
              !.moreXPad = st.label.remainDataLength > d.length,
              !.remainDataLength = IF @ > d.length THEN @ - d.length ELSE @]
  IN IF ~st.label.moreXPad THEN st
     ELSE [st EXCEPT !.label = l,
             !.shown = IF ~l.moreXPad /\ l.isLastSegment THEN Show(l, @) ELSE @]

\* build_MSC_segment: a data group of which the first byte is of group k.  The
\* transportId 0 stands for one that is not there as well.
CrcRight(k, data) == /\ k \in DOMAIN PadGroups
                     /\ PadGroups[k].crcFlag => data = PadGroup(k)
NoCrc(k, data)    == TRUE
NewSlide(g) == <<M!motObject(g.transportId, "slide", FALSE)>>
build_MSC_segment(st, whole) ==
  LET data == First(whole, st.msc.dataGroupLength)
      k    == data[1][1]
      g    == PadGroups[k]
      same == st.slide # << >> /\ st.slide[1].transportId = g.transportId
      s    == [segmentNumber |-> g.segmentNumber, lastFlag |-> g.lastFlag,
               body |-> data]
  IN IF ~CrcRight(k, data) \/ g.transportId = 0 THEN st
     ELSE IF g.groupType = 3 /\ ~same THEN [st EXCEPT !.slide = NewSlide(g)]
     ELSE IF g.groupType = 4 /\ same
     THEN [st EXCEPT !.slide = <<M!addBodySegment(@[1], s)>>,
                     !.pictures = @ \cup M!handleComplete(st.slide[1], s)]
     ELSE st

new_MSC_element(st, data) ==
  IF Len(data) >= st.msc.dataGroupLength
  THEN build_MSC_segment([st EXCEPT !.msc.msc_dataGroupBuffer = << >>,
                                    !.msc.mscGroupElement = FALSE], data)
  ELSE [st EXCEPT !.msc.mscGroupElement = TRUE, !.msc.msc_dataGroupBuffer = data]

add_MSC_element(st, data) ==
  LET all == st.msc.msc_dataGroupBuffer \o data
  IN IF st.msc.msc_dataGroupBuffer = << >> THEN st
     ELSE IF Len(all) < st.msc.dataGroupLength
     THEN [st EXCEPT !.msc.msc_dataGroupBuffer = all]
     ELSE build_MSC_segment([st EXCEPT !.msc.msc_dataGroupBuffer = << >>], all)

Subfield(st, d) ==
  CASE d.appType = 1  -> [st EXCEPT !.msc.dataGroupLength = d.dataGroupLength]
    [] d.appType = 2  -> LabelStart(st, d)
    [] d.appType = 3  -> LabelContinued(st, d)
    [] d.appType = 12 -> new_MSC_element(st, d.bytes)
    [] d.appType = 13 -> add_MSC_element(st, d.bytes)

\* The length of a field with indicators: the subfields, the indicators and
\* the 0 after them, if there are less than four.
Longer(n, d) == n + d.length
TotalLength(subs) == Along(Longer, 0, subs) + Min({4, Len(subs) + 1})

\* The subfields up to the first one of another kind.
Handled(subs) ==
  LET other == {i \in DOMAIN subs : subs[i].appType \notin {1, 2, 3, 12, 13}}
  IN IF other = {} THEN subs ELSE SubSeq(subs, 1, Min(other) - 1)

\* Without indicators, the field is of the length of an earlier one; what lies
\* beyond its end is of other fields.
SizedAs(bytes, n) ==
  [i \in 1 .. n |-> IF i \in DOMAIN bytes THEN bytes[i] ELSE <<0, 0>>]

handle_variablePAD(f) ==
  LET st0 == [label |-> label, msc |-> msc, slide |-> currentSlide,
              shown |-> shown, pictures |-> pictures]
      st1 == IF msc.mscGroupElement
             THEN [st0 EXCEPT !.msc.xpadLength = TotalLength(f.subs)] ELSE st0
      st  == IF f.CI THEN Along(Subfield, st1, Handled(f.subs))
             ELSE IF msc.mscGroupElement /\ msc.xpadLength > 0
             THEN add_MSC_element(st0, SizedAs(f.bytes, msc.xpadLength))
             ELSE st0
  IN /\ label' = st.label /\ msc' = st.msc /\ currentSlide' = st.slide
     /\ shown' = st.shown /\ pictures' = st.pictures
     /\ UNCHANGED short

\* fpadType 0; the indicator of the X-PAD is 1, 2 or another.
processPAD(f) ==
  CASE f.x_padInd = 1 -> handle_shortPAD(f)
    [] f.x_padInd = 2 -> handle_variablePAD(f)
    [] OTHER -> UNCHANGED <<label, short, msc, currentSlide, shown, pictures>>

(***************************************************************************)
(* The fields that come in.                                                *)
(***************************************************************************)
Field == Scripts[script][at]
AdvanceField == at' = (at % Len(Scripts[script])) + 1

FieldComes ==
  /\ processPAD(Field)
  /\ intact' = (intact \/ Field.opens)
  /\ AdvanceField /\ UNCHANGED <<script, lost>>

FieldLost ==
  /\ lost < MaxLost /\ lost' = lost + 1
  /\ intact' = FALSE
  /\ AdvanceField
  /\ UNCHANGED <<script, label, short, msc, currentSlide, shown, pictures>>

\* Another service: a new padHandler, in the middle of what that one sends.
NewService ==
  /\ lost < MaxLost /\ lost' = lost + 1
  /\ script' \in DOMAIN Scripts /\ at' \in DOMAIN Scripts[script']
  /\ label' = NewLabel(label)
  /\ short' = NewShort /\ msc' = NewMsc /\ currentSlide' = << >>
  /\ intact' = FALSE /\ shown' = {} /\ pictures' = {}

Next == FieldComes \/ FieldLost \/ NewService
----------------------------------------------------------------------------
Labels ==
  {l \in [dynamicLabelText : Seq(Byte \X Int), charSet : Int, remainDataLength : Nat,
          isLastSegment : BOOLEAN, moreXPad : BOOLEAN] :
     l.moreXPad => l.remainDataLength > 0}
Shorts == [still_to_go : Nat, firstSegment : BOOLEAN, lastSegment : BOOLEAN,
           shortpadData : Seq(Byte)]
Mscs   == [mscGroupElement : BOOLEAN, xpadLength : Int, dataGroupLength : Nat,
           msc_dataGroupBuffer : Seq(Byte)]
TypeOK ==
  /\ script \in DOMAIN Scripts /\ at \in DOMAIN Scripts[script] /\ lost \in 0 .. MaxLost
  /\ label \in Labels /\ short \in Shorts /\ msc \in Mscs
  /\ shown \subseteq Seq(Byte \X Int) /\ Len(currentSlide) <= 1

\* A label that was received unbroken is shown as it was sent, in the right
\* character set, whatever was left of the one before it, of a field that was
\* lost or of another service (pad-handler.cpp:292-296).
LabelsWhole == shown \subseteq Texts

\* A slide is handed on whole, with the right bytes in each segment, whatever
\* fields were lost in between (pad-handler.cpp:407-429).
SlidesWhole == \A x \in pictures : x.result = M!InOrder(Slide(x.transportId))

\* The slide is a part of one that is sent.
Numbers == {PadGroups[k].segmentNumber : k \in DOMAIN PadGroups}
PadObjects == M!Objects(Numbers, {PadGroup(k) : k \in DOMAIN PadGroups})
SlideSound ==
  /\ currentSlide \in Seq(PadObjects)
  /\ \A i \in DOMAIN currentSlide :
       M!PartOf(currentSlide[i], Slide(currentSlide[i].transportId))

IInv == TypeOK /\ SlideSound /\ SlidesWhole

\* The labels and the slides of the service were shown.
AllShown ==
  \A f \in Range(Scripts[script]) : /\ f.texts \subseteq shown
                                    /\ f.slides \subseteq {x.transportId : x \in pictures}
=============================================================================

--------------------------- MODULE FrameProcessors ---------------------------
(***************************************************************************)
(* backendDriver: what becomes of the bits of a service is up to the       *)
(* processor that was made for its type: an mp2Processor, an mp4Processor  *)
(* or a dataProcessor.  An audio processor has a padHandler, which shares  *)
(* nothing with the frames: it is looked at by itself.  The names that     *)
(* begin with Processors do so because ServiceProofs extends Backend, too. *)
(***************************************************************************)
EXTENDS Integers, Sequences, FiniteSets

CONSTANTS Ones, Header, Bodies, Noise, Rates,                 \* Mp2Processor
          Period, num_aus, MaxAac,                            \* Mp4Processor
          Carousel, TableSize, packetAddress, Padding, MaxBad,\* DataProcessor
          Scripts, PadGroups, Texts, MaxLost                  \* PadHandler

VARIABLES theProcessor,
  rate, half, baudRate, MP2Header_OK, MP2headerCount, MP2bitCount, first,
  header, decoded, locked,
  sent, frameBytes, blockFillIndex, blocksInBuffer, quality, aacInitialized,
  fine, processed,
  sender, bad, expectedIndex, packetState, series, motTable, theDirectory,
  script, at, lost, intact, label, short, msc, currentSlide, shown,
  pictures         \* of the dataProcessor or the padHandler

Mp2  == INSTANCE Mp2Processor
Mp4  == INSTANCE Mp4Processor
Data == INSTANCE DataProcessor
Pad  == INSTANCE PadHandler

ASSUME Mp2Assumption  == /\ Mp2!OnesAssumption /\ Mp2!BodiesAssumption
                         /\ Mp2!NoiseAssumption /\ Mp2!RatesAssumption
ASSUME Mp4Assumption  == Mp4!PeriodAssumption /\ Mp4!UnitsAssumption
ASSUME DataAssumption == /\ Data!CarouselAssumption /\ Data!SegmentsAssumption
                         /\ Data!BoundAssumption
ASSUME PadAssumption  == /\ Pad!ScriptsAssumption /\ Pad!PadGroupsAssumption
                         /\ Pad!LostAssumption

mp2Vars   == <<rate, half, baudRate, MP2Header_OK, MP2headerCount, MP2bitCount,
               first, header, decoded, locked>>
superVars == <<sent, frameBytes, blockFillIndex, blocksInBuffer, quality,
               aacInitialized, fine, processed>>
packVars  == <<sender, bad, expectedIndex, packetState, series, motTable,
               theDirectory>>
padVars   == <<script, at, lost, intact, label, short, msc, currentSlide, shown>>
processorVars == <<theProcessor, mp2Vars, superVars, packVars, padVars, pictures>>

\* The variables of a processor that is not there.
None == << >>
NoMp2 == /\ rate = None /\ half = None /\ baudRate = None /\ first = None
         /\ MP2Header_OK = None /\ MP2headerCount = None /\ MP2bitCount = None
         /\ header = None /\ decoded = None /\ locked = None
NoMp4 == /\ sent = None /\ frameBytes = None /\ blockFillIndex = None
         /\ blocksInBuffer = None /\ quality = None /\ aacInitialized = None
         /\ fine = None /\ processed = None
NoData == /\ sender = None /\ bad = None /\ expectedIndex = None
          /\ packetState = None /\ series = None /\ motTable = None
          /\ theDirectory = None
NoPad == /\ script = None /\ at = None /\ lost = None /\ intact = None
         /\ label = None /\ short = None /\ msc = None /\ currentSlide = None
         /\ shown = None
NoPictures == pictures = {}

ProcessorsInit ==
  \/ theProcessor = "mp2" /\ Mp2!Init /\ NoMp4 /\ NoData /\ NoPad /\ NoPictures
  \/ theProcessor = "mp4" /\ Mp4!Init /\ NoMp2 /\ NoData /\ NoPad /\ NoPictures
  \/ theProcessor = "data" /\ Data!Init /\ NoMp2 /\ NoMp4 /\ NoPad
  \/ theProcessor = "pad" /\ Pad!Init /\ NoMp2 /\ NoMp4 /\ NoData

\* addtoFrame, of each processor.
Mp2Frame ==
  /\ theProcessor = "mp2" /\ Mp2!Next
  /\ UNCHANGED <<theProcessor, superVars, packVars, padVars, pictures>>
Mp4Frame ==
  /\ theProcessor = "mp4" /\ Mp4!Next
  /\ UNCHANGED <<theProcessor, mp2Vars, packVars, padVars, pictures>>
Packet ==
  /\ theProcessor = "data" /\ Data!Next
  /\ UNCHANGED <<theProcessor, mp2Vars, superVars, padVars>>
PadField ==
  /\ theProcessor = "pad" /\ Pad!Next
  /\ UNCHANGED <<theProcessor, mp2Vars, superVars, packVars>>

ProcessorsNext == Mp2Frame \/ Mp4Frame \/ Packet \/ PadField

\* The ensemble goes on sending, and only so many packets or fields are lost.
Fairness == /\ WF_sender(theProcessor = "data" /\ Data!Advance)
            /\ WF_at(theProcessor = "pad" /\ Pad!AdvanceField)
ProcessorsSpec ==
  ProcessorsInit /\ [][ProcessorsNext]_processorVars /\ Fairness
----------------------------------------------------------------------------
\* The processor that is there is in a state its code can be in, and what it
\* collects is in its place: each of the properties below, made inductive.
ProcessorsInv ==
  /\ theProcessor = "mp2"  => Mp2!IInv
  /\ theProcessor = "mp4"  => Mp4!IInv
  /\ theProcessor = "data" => Data!IInv
  /\ theProcessor = "pad"  => Pad!IInv

\* Once an MPEG frame was decoded as a whole, the mp2Processor decodes each
\* whole frame and nothing else until a DAB frame is damaged
\* (mp2processor.cpp:612-641).
Mp2Aligned == theProcessor = "mp2" => Mp2!StaysAligned

\* A superframe that came in right, or can be corrected, is processed with its
\* last frame, whatever came before it (mp4processor.cpp:118-134).
Mp4NoneSkipped == theProcessor = "mp4" => Mp4!NoneSkipped

\* Both: the audio frames come through, and come through whole.
AudioFrames == Mp2Aligned /\ Mp4NoneSkipped

\* What is handed on as a picture or a file is the whole of one object, from
\* packets (data-processor.cpp:107) or from X-PADs (pad-handler.cpp:407-429),
\* whatever was damaged, lost or out of sequence.
ObjectsWhole ==
  /\ theProcessor = "data" => Data!PicturesWhole
  /\ theProcessor = "pad"  => Pad!SlidesWhole

\* A label that was received unbroken is shown as it was sent, whatever was
\* left of an earlier label, a lost field or another service, although all
\* padHandlers share the static variables (pad-handler.cpp:292-296).
LabelsWhole == theProcessor = "pad" => Pad!LabelsWhole

\* All objects and labels that are sent again and again are handed on or shown
\* in the end: no damage leaves a processor where nothing more gets through.
AllArrive == <>(/\ theProcessor = "data" => Data!AllHandedOn
                /\ theProcessor = "pad"  => Pad!AllShown)
=============================================================================

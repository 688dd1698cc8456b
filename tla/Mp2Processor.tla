---------------------------- MODULE Mp2Processor ----------------------------
(***************************************************************************)
(* mp2Processor: the bits of the DAB frames are searched for the 12 ones   *)
(* an MPEG frame begins with; from there on the bits of one MPEG frame are *)
(* collected and decoded.  An MPEG frame takes one DAB frame, at 48 kHz,   *)
(* or two, at 24 kHz.                                                      *)
(*                                                                         *)
(* The header is: the ones, the bit that tells the rates apart, 1 for 48   *)
(* kHz, and a bit 1 and a bit 0, for Layer II.  The other bits of a frame  *)
(* are one of Bodies.                                                      *)
(***************************************************************************)
EXTENDS Integers, Sequences, Loops

CONSTANTS
  Ones,        \* the ones a header begins with: 12
  Header,      \* the bits after which the rate is read: 24
  Bodies,      \* the rest of a frame of 48 kHz or of half a frame of 24 kHz,
               \* as sequences of bits, all of the same length
  Noise,       \* what may come in for a DAB frame that is damaged
  Rates        \* of the service: 48000, 24000

Size == Header + Len(CHOOSE b \in Bodies : TRUE)   \* MP2framesize

\* Assumed of the constants by FrameProcessors.
OnesAssumption   == Ones \in Nat \ {0} /\ Header = Ones + 3
BodiesAssumption == /\ Bodies # {}
                    /\ \A b \in Bodies : /\ b \in Seq({0, 1}) /\ b # << >>
                                         /\ Len(b) = Size - Header
NoiseAssumption  == \A v \in Noise : v \in Seq({0, 1}) /\ Len(v) = Size
RatesAssumption  == Rates \subseteq {48000, 24000}

VARIABLES
  rate, half,      \* of the service; whether a frame is half sent
  baudRate, MP2Header_OK, MP2headerCount, MP2bitCount,
  first, header,   \* MP2frame: where its first bit is in the frame sent,
                   \* and its first bits
  decoded,         \* history: how many frames were decoded by this call,
                   \* and how many of those were whole
  locked           \* history: a whole frame was decoded, and no DAB frame was
                   \* damaged since it began

mp2Vars == <<rate, half, baudRate, MP2Header_OK, MP2headerCount, MP2bitCount,
             first, header, decoded, locked>>

Init ==
  /\ rate \in Rates /\ half \in BOOLEAN /\ (half => rate = 24000)
  /\ baudRate = 48000
  /\ MP2Header_OK = 0 /\ MP2headerCount = 0 /\ MP2bitCount = 0
  /\ first = 0 /\ header = << >>
  /\ decoded = [all |-> 0, whole |-> 0] /\ locked = FALSE

\* mp2sampleRate and setSamplerate, which takes a valid rate only.
setSamplerate(h, old) ==
  IF h[Ones + 2] = 1 /\ h[Ones + 3] = 0
  THEN (IF h[Ones + 1] = 1 THEN 48000 ELSE 24000) ELSE old

\* mp2decodeFrame goes by the header as well.
Decodable(h) == h[Ones + 2] = 1 /\ h[Ones + 3] = 0

FrameLength(r) == IF r = 48000 THEN Size ELSE 2 * Size

\* One bit, the p-th of the frame that is sent; lf is of the begin of the call.
Searched(s, bit, p) ==
  LET n == s.headerCount + 1
  IN IF bit = 0 THEN [s EXCEPT !.headerCount = 0]
     ELSE IF n # Ones THEN [s EXCEPT !.headerCount = n]
     ELSE [s EXCEPT !.headerCount = n, !.ok = 1, !.bitCount = Ones,
                    !.first = (p - Ones + 1) % FrameLength(rate),
                    !.header = [i \in 1 .. Ones |-> 1]]

HeaderRead(s, bit) ==
  LET h == Append(s.header, bit)
      t == [s EXCEPT !.bitCount = @ + 1, !.header = h]
  IN IF t.bitCount < Header THEN t
     ELSE [t EXCEPT !.ok = 2, !.baudRate = setSamplerate(h, @)]

\* At the end of a frame the search begins anew.
BegunCounting(s) == [s EXCEPT !.ok = 0, !.bitCount = 0]
Begun(s) == [s EXCEPT !.ok = 0, !.headerCount = 0, !.bitCount = 0]
Collected(s, lf) ==
  LET t     == [s EXCEPT !.bitCount = @ + 1]
      whole == t.first = 0 /\ t.bitCount = FrameLength(rate)
  IN IF t.bitCount < lf THEN t
     ELSE IF ~Decodable(t.header) THEN Begun(t)
     ELSE [Begun(t) EXCEPT !.all = @ + 1,
                           !.whole = @ + IF whole THEN 1 ELSE 0]

Bit(s, bit, p, lf) == CASE s.ok = 0 -> Searched(s, bit, p)
                        [] s.ok = 1 -> HeaderRead(s, bit)
                        [] s.ok = 2 -> Collected(s, lf)

\* A DAB frame: the first half of a frame has the header.
HeaderBits == [i \in 1 .. Ones |-> 1] \o <<IF rate = 48000 THEN 1 ELSE 0, 1, 0>>
Filler(b)  == [i \in 1 .. Header |-> b[Len(b)]]
Bits(b)    == (IF half THEN Filler(b) ELSE HeaderBits) \o b

addtoFrame(v) ==
  LET lf  == FrameLength(baudRate)
      off == IF half THEN Size - 1 ELSE -1
      s   == Along(LAMBDA t, i : Bit(t, v[i], i + off, lf),
               [ok |-> MP2Header_OK, headerCount |-> MP2headerCount,
                bitCount |-> MP2bitCount, first |-> first, header |-> header,
                baudRate |-> baudRate, all |-> 0, whole |-> 0], Upto(Size))
  IN /\ MP2Header_OK' = s.ok /\ MP2headerCount' = s.headerCount
     /\ MP2bitCount' = s.bitCount /\ first' = s.first /\ header' = s.header
     /\ baudRate' = s.baudRate
     /\ decoded' = [all |-> s.all, whole |-> s.whole]

Intact ==
  /\ \E b \in Bodies : addtoFrame(Bits(b))
  /\ locked' = (locked \/ decoded'.whole > 0)

Damaged ==
  /\ \E v \in Noise : addtoFrame(v)
  /\ locked' = FALSE

Next ==
  /\ Intact \/ Damaged
  /\ IF rate = 24000 /\ ~half THEN half' = TRUE ELSE half' = FALSE
  /\ UNCHANGED rate
----------------------------------------------------------------------------
TypeOK ==
  /\ rate \in Rates /\ half \in BOOLEAN /\ (half => rate = 24000)
  /\ baudRate \in {48000, 24000}
  /\ MP2Header_OK \in 0 .. 2 /\ MP2headerCount \in 0 .. Ones
  /\ MP2bitCount \in 0 .. 2 * Size - 1
  /\ MP2Header_OK = 1 => MP2bitCount \in Ones .. Header - 1
  /\ MP2Header_OK = 2 => MP2bitCount >= Header
  /\ first \in 0 .. FrameLength(rate) - 1 /\ header \in Seq({0, 1})
  /\ decoded \in [all : Nat, whole : Nat] /\ decoded.whole <= decoded.all
  /\ locked \in BOOLEAN

\* Where the next bit is in the frame that is sent.
Position == IF half THEN Size ELSE 0

\* What is collected is what came since the bit that first tells of.
Placed ==
  /\ MP2Header_OK = 0 => MP2headerCount < Ones /\ MP2bitCount = 0
  /\ MP2Header_OK # 0 => \E k \in -2 .. 2 :
       first + MP2bitCount = Position + k * FrameLength(rate)

\* Where a search that is done leaves the processor between two DAB frames:
\* before a frame, or in the middle of one that was found where it begins.
Aligned ==
  locked =>
    /\ baudRate = rate
    /\ IF half THEN /\ MP2Header_OK = 2 /\ MP2bitCount = Size
                    /\ first = 0 /\ header = HeaderBits
       ELSE MP2Header_OK = 0 /\ MP2headerCount = 0

\* Once a frame was decoded that was whole, the search is done: every frame
\* that follows is found where it begins and decoded as a whole, and nothing
\* else is, although the ones of a header may be in the audio as well, until
\* a DAB frame is damaged (mp2processor.cpp:612-641).
StaysAligned ==
  locked => decoded = IF half THEN [all |-> 0, whole |-> 0]
                              ELSE [all |-> 1, whole |-> 1]

IInv == TypeOK /\ Placed /\ Aligned /\ StaysAligned
=============================================================================

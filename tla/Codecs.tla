------------------------------- MODULE Codecs -------------------------------
(***************************************************************************)
(* What stands between the carriers and the frames, at work on one block   *)
(* at a time: the frequency interleaver, the puncturing of a sub-channel,  *)
(* the Viterbi decoder and the Reed-Solomon decoder.  A block is sent, is  *)
(* damaged symbol by symbol on its way, and is then decoded.  The loops of *)
(* createMapper and deconvolve take a step for every round.                *)
(***************************************************************************)
EXTENDS ReedSolomon, Viterbi, Protection

CONSTANTS Messages,    \* what is sent in a word of the Reed-Solomon code
          Errors,      \* what can be added to a symbol of it
          Blocks,      \* what is sent in a block of the convolutional code
          MaxFlipped,  \* soft bits of the wrong sign in a block
          MaxSize,     \* the longest sub-channels, in units of their rate
          None

VARIABLES codec,       \* the one at work
          sent,        \* the message, the sub-channel or the mode
          received,    \* the symbols or soft bits
          damaged,     \* which of them were damaged
          round,       \* of the loop
          carried,     \* from round to round: tmp [i], or a column of transCosts
          table,       \* made by the rounds: permTable, or the columns of history
          result       \* what is handed on

vars == <<codec, sent, received, damaged, round, carried, table, result>>
----------------------------------------------------------------------------
(***************************************************************************)
(* Depuncturing.  A soft bit that is not sent is 0.  As in the FIC, the    *)
(* last 24 bits go by the row PI_X and those before them by PI_16.         *)
(***************************************************************************)
Sent(i) == IF i <= 4 * blockLength THEN get_PCodes(16 - 1)[(i - 1) % 32]
           ELSE get_PCodes(8 - 1)[i - 4 * blockLength - 1]
Soft(bit) == IF bit = 1 THEN 127 ELSE -127
depuncture(bits) ==
  [i \in DOMAIN bits |-> IF Sent(i) THEN Soft(bits[i]) ELSE 0]

SubChannels ==
  {ShortForm(i) : i \in 0 .. 63}
    \cup {LongForm(0, l, n * UnitsA[l + 1]) : l \in 0 .. 3, n \in 1 .. MaxSize}
    \cup {LongForm(1, l, n * UnitsB[l + 1]) : l \in 0 .. 3, n \in 1 .. MaxSize}

\* The modes, and what interLeaver passes to createMapper for them.
Modes == <<[T_u |-> 2048, carriers |-> 1536, V1 |-> 511, lwb |-> 256],
           [T_u |->  512, carriers |->  384, V1 |-> 127, lwb |->  64],
           [T_u |->  256, carriers |->  192, V1 |->  63, lwb |->  32],
           [T_u |-> 1024, carriers |->  768, V1 |-> 255, lwb |-> 128]>>

Starts(c, s, r, x) ==
  codec = c /\ sent = s /\ received = r /\ carried = x
Init ==
  /\ \/ \E m \in Messages : Starts("rs", m, enc(m), None)
     \/ \E b \in Blocks :
          Starts("viterbi", b, depuncture(Convolve(b)), StartCosts)
     \/ \E p \in DOMAIN Modes : Starts("interLeaver", Modes[p], << >>, 0)
     \/ \E d \in SubChannels : Starts("protection", d, << >>, None)
  /\ damaged = {} /\ round = 0 /\ table = << >> /\ result = None

\* On the way, up to what the code is made for.
Damage(i, x) ==
  /\ round = 0 /\ result = None /\ i \notin damaged
  /\ received' = [received EXCEPT ![i] = x]
  /\ damaged' = damaged \cup {i}
  /\ UNCHANGED <<codec, sent, round, carried, table, result>>
DamageSymbol ==
  /\ codec = "rs" /\ Cardinality(damaged) < nroots \div 2
  /\ \E i \in DOMAIN received, e \in Errors : Damage(i, add_poly(received[i], e))
FlipSoftBit ==
  /\ codec = "viterbi" /\ Cardinality(damaged) < MaxFlipped
  /\ \E i \in {j \in DOMAIN received : Sent(j)} : Damage(i, -received[i])

Decode ==
  /\ codec = "rs" /\ result = None
  /\ \E zeros \in BOOLEAN : result' = dec(received, zeros)
  /\ UNCHANGED <<codec, sent, received, damaged, round, carried, table>>

\* The rounds of deconvolve, and the way back.
Pump ==
  LET new == Column(carried, SubSeq(received, 4 * round + 1, 4 * round + 4))
  IN /\ codec = "viterbi" /\ round < Columns
     /\ round' = round + 1
     /\ carried' = [s \in State |-> new[s].cost]
     /\ table' = Append(table, [s \in State |-> new[s].prev])
     /\ UNCHANGED <<codec, sent, received, damaged, result>>
TraceBack ==
  /\ codec = "viterbi" /\ round = Columns /\ result = None
  /\ result' = [data |-> Decided(carried, table), ret |-> 0]
  /\ UNCHANGED <<codec, sent, received, damaged, round, carried, table>>

\* The rounds of createMapper: a value that is a carrier goes to the table.
InRange(x, p) == p.lwb <= x /\ x <= p.lwb + p.carriers
Carrier(x, p) == InRange(x, p) /\ x # p.T_u \div 2
createMapper ==
  /\ codec = "interLeaver" /\ round < sent.T_u
  /\ round' = round + 1
  /\ carried' = (13 * carried + sent.V1) % sent.T_u
  /\ table' = IF Carrier(carried, sent)
              THEN Append(table, carried - sent.T_u \div 2) ELSE table
  /\ UNCHANGED <<codec, sent, received, damaged, result>>

Next == DamageSymbol \/ FlipSoftBit \/ Decode \/ Pump \/ TraceBack \/ createMapper
Spec == Init /\ [][Next]_vars
----------------------------------------------------------------------------
\* With up to nroots / 2 wrong symbols wherever they are, the message comes out
\* as it was sent, and dec returns how many of its symbols were wrong, so that
\* the superframe is not given up (mp4processor.cpp:162-169).  With up to
\* MaxFlipped wrong bits besides the punctured ones, the bits come out as they
\* were sent, although the decoder admits any state at the start and the end
\* and leaves out the last bits of the tail (viterbi-handler.cpp:139).
DamagedData == Cardinality({i \in damaged : codec = "rs" /\ i <= Len(sent)})
Corrected ==
  result # None => result.data = sent /\ result.ret = DamagedData

\* The table of the interleaver has every carrier but the one in the middle
\* once, so that mapIn loses no bit and takes none twice
\* (freq-interleaver.cpp:90) ...
CarriersOnce ==
  codec = "interLeaver" /\ round = sent.T_u =>
    LET half == sent.carriers \div 2
    IN Len(table) = sent.carriers /\ Range(table) = (-half .. half) \ {0}
\* ... and the tables of puncturing fill viterbiBlock exactly and take no more
\* from the fragment than it has (eep-protection.cpp:158, uep-protection.cpp:
\* 242), as long as their int16_t do not wrap around.
Int16(n) == n < 2^15
TablesFit ==
  codec = "protection" /\ Int16(TableSize(sent)) =>
    /\ viterbiCounter(sent) = TableSize(sent)
    /\ inputCounter(sent) <= 64 * sent.Length
TablesExact == CarriersOnce /\ TablesFit

\* "The table is based on chapter 11 of the DAB standard"
\* (uep-protection.cpp:136): of a sub-channel whose protection is in the table
\* all bits are used but those of the padding, of which there are at most 8.
ProfileRight ==
  codec = "protection" /\ sent.shortForm =>
    inputCounter(sent) >= 64 * sent.Length - 8
=============================================================================

----------------------------- MODULE Protection -----------------------------
(***************************************************************************)
(* The error protection of a sub-channel: what FIG0/1 says of it, the      *)
(* tables of puncturing that eep-protection.cpp and uep-protection.cpp make *)
(* from that, and how many of the soft bits of the sub-channel they use.   *)
(* Numbers only; no state.                                                 *)
(***************************************************************************)
EXTENDS Integers, Sequences, FiniteSetsExt

\* Length in capacity units, protection level and bit rate of the 64 short
\* forms of FIG0/1, by tabelIndex + 1.
ProtLevel == <<
  <<16,5,32>>, <<21,4,32>>, <<24,3,32>>, <<29,2,32>>, <<35,1,32>>, <<24,5,48>>,
  <<29,4,48>>, <<35,3,48>>, <<42,2,48>>, <<52,1,48>>, <<29,5,56>>, <<35,4,56>>,
  <<42,3,56>>, <<52,2,56>>, <<32,5,64>>, <<42,4,64>>, <<48,3,64>>, <<58,2,64>>,
  <<70,1,64>>, <<40,5,80>>, <<52,4,80>>, <<58,3,80>>, <<70,2,80>>, <<84,1,80>>,
  <<48,5,96>>, <<58,4,96>>, <<70,3,96>>, <<84,2,96>>, <<104,1,96>>, <<58,5,112>>,
  <<70,4,112>>, <<84,3,112>>, <<104,2,112>>, <<64,5,128>>, <<84,4,128>>, <<96,3,128>>,
  <<116,2,128>>, <<140,1,128>>, <<80,5,160>>, <<104,4,160>>, <<116,3,160>>, <<140,2,160>>,
  <<168,1,160>>, <<96,5,192>>, <<116,4,192>>, <<140,3,192>>, <<168,2,192>>, <<208,1,192>>,
  <<116,5,224>>, <<140,4,224>>, <<168,3,224>>, <<208,2,224>>, <<232,1,224>>, <<128,5,256>>,
  <<168,4,256>>, <<192,3,256>>, <<232,2,256>>, <<280,1,256>>, <<160,5,320>>, <<208,4,320>>,
  <<280,2,320>>, <<192,5,384>>, <<280,3,384>>, <<416,1,384>> >>

\* bitRate, protLevel, L1 .. L4, PI1 .. PI4 of the profiles of UEP.
profileTable == <<
  <<32,5,3,4,17,0,5,3,2,-1>>, <<32,4,3,3,18,0,11,6,5,-1>>, <<32,3,3,4,14,3,15,9,6,8>>,
  <<32,2,3,4,14,3,22,13,8,13>>, <<32,1,3,5,13,3,24,17,12,17>>, <<48,5,4,3,26,3,5,4,2,3>>,
  <<48,4,3,4,26,3,9,6,4,6>>, <<48,3,3,4,26,3,15,10,6,9>>, <<48,2,3,4,26,3,24,14,8,15>>,
  <<48,1,3,5,25,3,24,18,13,18>>, <<56,5,6,10,23,3,5,4,2,3>>, <<56,4,6,10,23,3,9,6,4,5>>,
  <<56,3,6,12,21,3,16,7,6,9>>, <<56,2,6,10,23,3,23,13,8,13>>, <<64,5,6,9,31,2,5,3,2,3>>,
  <<64,4,6,9,33,0,11,6,5,-1>>, <<64,3,6,12,27,3,16,8,6,9>>, <<64,2,6,10,29,3,23,13,8,13>>,
  <<64,1,6,11,28,3,24,18,12,18>>, <<80,5,6,10,41,3,6,3,2,3>>, <<80,4,6,10,41,3,11,6,5,6>>,
  <<80,3,6,11,40,3,16,8,6,7>>, <<80,2,6,10,41,3,23,13,8,13>>, <<80,1,6,10,41,3,24,7,12,18>>,
  <<96,5,7,9,53,3,5,4,2,4>>, <<96,4,7,10,52,3,9,6,4,6>>, <<96,3,6,12,51,3,16,9,6,10>>,
  <<96,2,6,10,53,3,22,12,9,12>>, <<96,1,6,13,50,3,24,18,13,19>>, <<112,5,14,17,50,3,5,4,2,5>>,
  <<112,4,11,21,49,3,9,6,4,8>>, <<112,3,11,23,47,3,16,8,6,9>>, <<112,2,11,21,49,3,23,12,9,14>>,
  <<128,5,12,19,62,3,5,3,2,4>>, <<128,4,11,21,61,3,11,6,5,7>>, <<128,3,11,22,60,3,16,9,6,10>>,
  <<128,2,11,21,61,3,22,12,9,14>>, <<128,1,11,20,62,3,24,17,13,19>>, <<160,5,11,19,87,3,5,4,2,4>>,
  <<160,4,11,23,83,3,11,6,5,9>>, <<160,3,11,24,82,3,16,8,6,11>>, <<160,2,11,21,85,3,22,11,9,13>>,
  <<160,1,11,22,84,3,24,18,12,19>>, <<192,5,11,20,110,3,6,4,2,5>>, <<192,4,11,22,108,3,10,6,4,9>>,
  <<192,3,11,24,106,3,16,10,6,11>>, <<192,2,11,20,110,3,22,13,9,13>>, <<192,1,11,21,109,3,24,20,13,24>>,
  <<224,5,12,22,131,3,8,6,2,6>>, <<224,4,12,26,127,3,12,8,4,11>>, <<224,3,11,20,134,3,16,10,7,9>>,
  <<224,2,11,22,132,3,24,16,10,15>>, <<224,1,11,24,130,3,24,20,12,20>>, <<256,5,11,24,154,3,6,5,2,5>>,
  <<256,4,11,24,154,3,12,9,5,10>>, <<256,3,11,27,151,3,16,10,7,10>>, <<256,2,11,22,156,3,24,14,10,13>>,
  <<256,1,11,26,152,3,24,19,14,18>>, <<320,5,11,26,200,3,8,5,2,6>>, <<320,4,11,25,201,3,13,9,5,10>>,
  <<320,2,11,26,200,3,24,17,9,17>>, <<384,5,11,27,247,3,8,6,2,7>>, <<384,3,11,24,250,3,16,9,7,10>>,
  <<384,1,12,28,245,3,24,20,14,23>> >>

\* The capacity units of a sub-channel per 8 kbit/s (A) or 32 kbit/s (B).
UnitsA == <<12, 8, 6, 4>>
UnitsB == <<27, 21, 18, 15>>

\* What HandleFIG0Extension1 stores of the entry e, the address apart.
ShortForm(tabelIndex) ==
  LET row == ProtLevel[tabelIndex + 1]
  IN [shortForm |-> TRUE, Length |-> row[1], protLevel |-> row[2],
      bitRate |-> row[3]]
LongForm(option, level, size) ==
  [shortForm |-> FALSE, Length |-> size,
   protLevel |-> level + 4 * option,
   bitRate |-> IF option = 0 THEN (size \div UnitsA[level + 1]) * 8
                             ELSE (size \div UnitsB[level + 1]) * 32]

(***************************************************************************)
(* Puncturing.  A row of P_Codes is 8 groups of 4; row x keeps the first   *)
(* bits of each group, the groups growing in the order of GroupRank.       *)
(***************************************************************************)
GroupRank == <<0, 4, 2, 6, 1, 5, 3, 7>>
P_Codes(x) ==
  [j \in 0 .. 31 |-> (j % 4) <= (x - GroupRank[(j \div 4) + 1] + 7) \div 8]
get_PCodes(x) == P_Codes(x + 1)

\* How many of the first n bits the row keeps.
Ones(row, n) == Quantify(0 .. n - 1, LAMBDA j : row[j])

\* A table of puncturing: blocks of 128 bits, L of them with the row PI.
Block(L, PI) == [blocks |-> L, kept |-> L * 4 * Ones(get_PCodes(PI - 1), 32)]

findIndex(bitRate, protLevel) ==
  LET rows == {i \in DOMAIN profileTable : profileTable[i][1] = bitRate /\
                                           profileTable[i][2] = protLevel}
  IN IF rows = {} THEN -1 ELSE Min(rows) - 1

\* The constructor of uep_protection: L and PI by turns.  A profile that is
\* not in the table is replaced by the one at index 1.
uep_protection(bitRate, protLevel) ==
  LET found == findIndex(bitRate, protLevel)
      row   == profileTable[IF found = -1 THEN 2 ELSE found + 1]
  IN [k \in 1 .. 4 |-> IF row[2 + k] = 0 THEN [blocks |-> 0, kept |-> 0]
                                         ELSE Block(row[2 + k], row[6 + k])]

\* The constructor of eep_protection.
EepRowsA == <<<<24, 23>>, <<14, 13>>, <<8, 7>>, <<3, 2>>>>
EepRowsB == <<<<10, 9>>, <<6, 5>>, <<4, 3>>, <<2, 1>>>>
eep_protection(bitRate, protLevel) ==
  LET l    == (protLevel % 4) + 1
      n    == bitRate \div 8
      setA == protLevel < 4
      rows == IF ~setA THEN EepRowsB[l]
              ELSE IF l = 2 /\ bitRate = 8 THEN <<13, 12>> ELSE EepRowsA[l]
      L    == IF ~setA THEN <<(24 * bitRate) \div 32 - 3, 3>>
              ELSE CASE l \in {1, 3} -> <<(6 * bitRate) \div 8 - 3, 3>>
                     [] l = 2 /\ bitRate = 8 -> <<5, 1>>
                     [] l = 2 /\ bitRate # 8 -> <<2 * n - 3, 4 * n + 3>>
                     [] l = 4 -> <<4 * n - 3, 2 * n + 3>>
  IN [k \in 1 .. 2 |-> Block(L[k], rows[k])]

\* backendDeconvolver: the tables of the sub-channel d.
backendDeconvolver(d) ==
  IF d.shortForm THEN uep_protection(d.bitRate, d.protLevel)
                 ELSE eep_protection(d.bitRate, d.protLevel)

SumBlocks(t) == MapThenSumSet(LAMBDA k : t[k].blocks, DOMAIN t)
SumKept(t)   == MapThenSumSet(LAMBDA k : t[k].kept, DOMAIN t)

\* Where viterbiCounter ends, and what deconvolve takes from its input; the
\* last 24 bits of both go by the row PI_X.  Both are of type int16_t.
Wrapped(n) == ((n + 2^15) % 2^16) - 2^15
viterbiCounter(d) == Wrapped(128 * SumBlocks(backendDeconvolver(d)) + 24)
inputCounter(d)   ==
  Wrapped(SumKept(backendDeconvolver(d)) + Ones(get_PCodes(8 - 1), 24))

\* The size of indexTable and viterbiBlock.
TableSize(d) == 4 * (24 * d.bitRate) + 24
=============================================================================

-------------------------- MODULE FrameProcessorsMC --------------------------
(***************************************************************************)
(* What is sent to the processors: the rest of MPEG frames; a carousel of  *)
(* two slides and a file of a directory; a label with a slide in variable  *)
(* X-PADs and two labels in short ones.                                    *)
(***************************************************************************)
EXTENDS FrameProcessors, TLC

MCBodies == {<<1, 0, 1>>, <<0, 1, 1>>, <<1, 1, 1>>, <<0, 0, 0>>}
MCNoise  == {<<1, 1, 1, 0, 1, 0, 1, 1, 1>>, <<0, 1, 1, 1, 1, 1, 0, 0, 1>>,
             <<0, 0, 0, 0, 0, 0, 0, 0, 0>>, <<1, 1, 1, 1, 1, 0, 1, 1, 1>>}

\* MSC data groups: headers, bodies and segments of the directory.
Group(n, type, t, s, ends, c) ==
  [parts |-> n, crcFlag |-> TRUE, groupType |-> type, transportId |-> t,
   segmentNumber |-> s, lastFlag |-> ends, content |-> c]
H(t, c)       == Group(1, 3, t, 0, TRUE, c)
B(n, t, s, l) == Group(n, 4, t, s, l, << >>)
D(s, l)       == Group(1, 6, 9, s, l,
                       <<[segment |-> 1, transportId |-> 11, content |-> "other"]>>)
MCCarousel == <<H(1, "slide"), B(2, 1, 0, FALSE), B(1, 1, 1, TRUE),
                H(2, "slide"), B(3, 2, 0, TRUE),
                D(0, FALSE), D(1, TRUE), B(2, 11, 0, TRUE)>>

\* X-PAD fields: bytes a to b of group k, the labels that are complete.
Bytes(k, a, b) == [i \in 1 .. b - a + 1 |-> <<k, a + i - 1>>]
Text(k, n, charSet) == [i \in 1 .. n |-> <<<<k, i>>, charSet>>]
Field(ind, ci, opens, texts) ==
  [x_padInd |-> ind, CI |-> ci, opens |-> opens, texts |-> texts, slides |-> {}]

Subs(s, opens, texts) == [subs |-> s] @@ Field(2, TRUE, opens, texts)
Rest(b)               == [bytes |-> b] @@ Field(2, FALSE, FALSE, {})
Sub(type, b)          == [appType |-> type, length |-> Len(b), bytes |-> b]
Start(k, a, b, begins, ends, total) ==
  [Sub(2, Bytes(k, a, b)) EXCEPT !.length = @ + 2]
  @@ [first |-> begins, last |-> ends, command |-> FALSE, total |-> total,
      charSet |-> 15]
Indicator(n) == [appType |-> 1, length |-> 4, dataGroupLength |-> n]
Variable == <<
  Subs(<<Start(11, 1, 2, TRUE, FALSE, 3)>>, TRUE, {}),
  Subs(<<Indicator(4), Sub(12, Bytes(1, 1, 4)), Sub(3, Bytes(11, 3, 6))>>, FALSE, {}),
  Subs(<<Start(11, 4, 7, FALSE, TRUE, 10)>>, FALSE, {}),
  Subs(<<Sub(3, Bytes(11, 8, 11)), Indicator(12), Sub(12, Bytes(2, 1, 4))>>, FALSE, {}),
  Rest(Bytes(2, 5, 15)),
  Subs(<<Sub(3, Bytes(11, 12, 15))>>, FALSE, {Text(11, 13, 15)}),
  Subs(<<Indicator(9), Sub(12, Bytes(3, 1, 4))>>, FALSE, {}),
  [Subs(<<Sub(13, Bytes(3, 5, 10))>>, FALSE, {}) EXCEPT !.slides = {7}]>>

Flags(AcTy, begins, ends, togo, b, opens) ==
  [AcTy |-> AcTy, first |-> begins, last |-> ends, charSet |-> 0, togo |-> togo,
   bytes |-> b] @@ Field(1, TRUE, opens, {})
Chars(k, a, texts) == [bytes |-> Bytes(k, a, a + 3)] @@ Field(1, FALSE, FALSE, texts)
Short == <<
  Flags(2, TRUE, FALSE, 5, Bytes(12, 1, 1), TRUE),
  Chars(12, 2, {}), Chars(12, 6, {}),
  Flags(2, FALSE, TRUE, 1, Bytes(12, 7, 7), FALSE), Chars(12, 8, {Text(12, 8, 0)}),
  Flags(0, FALSE, FALSE, 0, << >>, FALSE),
  Flags(2, TRUE, FALSE, 1, Bytes(13, 1, 1), TRUE), Chars(13, 2, {}),
  Flags(2, FALSE, TRUE, 3, Bytes(13, 3, 3), FALSE), Chars(13, 4, {Text(13, 6, 0)}),
  Field(0, FALSE, FALSE, {})>>
MCScripts == <<Variable, Short>>

PadData(n, type, seg, ends) ==
  [length |-> n, crcFlag |-> TRUE, groupType |-> type, transportId |-> 7,
   segmentNumber |-> seg, lastFlag |-> ends]
MCPadGroups == <<PadData(4, 3, 0, TRUE), PadData(12, 4, 0, FALSE), PadData(9, 4, 1, TRUE)>>
MCTexts == {Text(11, 13, 15), Text(12, 8, 0), Text(13, 6, 0)}
=============================================================================

----------------------------- MODULE MotObject -----------------------------
(***************************************************************************)
(* motObject: a picture or a file that comes in segments, in any order,    *)
(* over an X-PAD or a packet data channel.  The body of a segment is a     *)
(* value; its size is left out.                                            *)
(***************************************************************************)
EXTENDS Integers, Sequences, FiniteSets

\* The constructor: content is of type 2, 7 or another.
Contents == {"slide", "epg", "other"}
motObject(transportId, content, dirElement) ==
  [transportId |-> transportId, content |-> content, dirElement |-> dirElement,
   motMap |-> << >>, numofSegments |-> -1]

\* What is there of the first n segments.
Complete(o)        == o.numofSegments # -1 /\
                      0 .. o.numofSegments - 1 \subseteq DOMAIN o.motMap
CompleteButLast(o) == o.numofSegments # -1 /\
                      0 .. o.numofSegments - 2 \subseteq DOMAIN o.motMap

SegmentNumbers == 0 .. 8191

\* addBodySegment: s has segmentNumber, lastFlag and body.
Accepts(o, s) == s.segmentNumber \in SegmentNumbers \ DOMAIN o.motMap
addBodySegment(o, s) ==
  IF ~Accepts(o, s) THEN o
  ELSE [o EXCEPT !.motMap = [n \in DOMAIN @ \cup {s.segmentNumber} |->
                               IF n \in DOMAIN @ THEN @[n] ELSE s.body],
                 !.numofSegments = IF s.lastFlag THEN s.segmentNumber + 1 ELSE @]

\* handleComplete: what is handed on by a segment, if it makes the object
\* complete; the segments in the order of their numbers.
Before(o, n) == {m \in DOMAIN o.motMap : m < n}
result(o) == [k \in 1 .. Cardinality(DOMAIN o.motMap) |->
                o.motMap[CHOOSE n \in DOMAIN o.motMap : Cardinality(Before(o, n)) = k - 1]]
handleComplete(o, s) ==
  LET n == addBodySegment(o, s)
  IN IF ~Accepts(o, s) \/ ~Complete(n) \/ n.content = "epg" THEN {}
     ELSE {[transportId |-> n.transportId, result |-> result(n),
            to |-> IF n.content = "slide" /\ ~n.dirElement THEN "screen"
                   ELSE "file"]}
\* What an object may be, whose segments have these numbers and bodies.
Objects(numbers, bodies) ==
  [transportId : Nat \cup {-1}, content : Contents, dirElement : BOOLEAN,
   motMap : UNION {[N -> bodies] : N \in SUBSET numbers},
   numofSegments : Nat \cup {-1}]

\* What is there of an object are segments of the one that is sent, whose body
\* is whole, a function of the numbers of its segments.
PartOf(o, whole) ==
  /\ DOMAIN o.motMap \subseteq DOMAIN whole
  /\ \A n \in DOMAIN o.motMap : o.motMap[n] = whole[n]
  /\ o.numofSegments # -1 => DOMAIN whole = 0 .. o.numofSegments - 1
InOrder(whole) == [j \in 1 .. Cardinality(DOMAIN whole) |-> whole[j - 1]]
=============================================================================

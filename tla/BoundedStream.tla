--------------------------- MODULE BoundedStream ---------------------------
(***************************************************************************)
(* What the buffers between two threads of the receiver promise: a stream  *)
(* of numbered elements goes in at one end and comes out at the other in   *)
(* the same order, nothing twice and nothing left out, and at most         *)
(* Capacity elements are inside.  A flush drops what is inside.            *)
(* RingBuffer and Backend are shown to implement this specification.       *)
(***************************************************************************)
EXTENDS Integers

CONSTANT Capacity   \* in Nat \ {0}

VARIABLES
  accepted,   \* how many elements went in
  delivered,  \* how many came out or were dropped
  got         \* the elements that came out last, as a function on 0 .. n - 1

vars == <<accepted, delivered, got>>

Nothing == [i \in {} |-> 0]

Init == accepted = 0 /\ delivered = 0 /\ got = Nothing

Accept(n) ==
  /\ accepted + n <= delivered + Capacity
  /\ accepted' = accepted + n
  /\ UNCHANGED <<delivered, got>>

Deliver(n) ==
  /\ delivered + n <= accepted
  /\ got' = [i \in 0 .. n - 1 |-> delivered + i]
  /\ delivered' = delivered + n
  /\ UNCHANGED accepted

Flush ==
  /\ delivered' = accepted
  /\ UNCHANGED <<accepted, got>>

Next == (\E n \in 0 .. Capacity : Accept(n) \/ Deliver(n)) \/ Flush

Spec == Init /\ [][Next]_vars
============================================================================

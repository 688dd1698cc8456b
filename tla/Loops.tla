------------------------------- MODULE Loops -------------------------------
(***************************************************************************)
(* The for loops of the decoders.  Along is FoldLeft of SequencesExt as a  *)
(* recursive function over the positions, which TLC evaluates in a time    *)
(* that is linear in the length of the sequence.                           *)
(***************************************************************************)
EXTENDS Integers, Sequences

Along(op(_, _), base, seq) ==
  LET done[i \in 0 .. Len(seq)] ==
        IF i = 0 THEN base ELSE op(done[i - 1], seq[i])
  IN done[Len(seq)]

Upto(n) == [i \in 1 .. n |-> i]
=============================================================================

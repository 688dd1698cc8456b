------------------------------ MODULE CodecsMC ------------------------------
(***************************************************************************)
(* The Reed-Solomon code of 15 symbols of 4 bits with 4 of parity, that    *)
(* corrects 2, shortened by 3; blocks of 8 bits, one group of a row of     *)
(* P_Codes.                                                                *)
(***************************************************************************)
EXTENDS Codecs

MCgfpoly   == {0, 1, 4}
MCMessages == {[i \in 1 .. 8 |-> {b \in 0 .. 3 : Bit(f * i, b) = 1}] : f \in {0, 1, 7}}
MCErrors   == {{0}, {1, 2}, {0, 1, 3}}
MCBlocks   == {[i \in 1 .. 8 |-> Bit(n, i - 1)] : n \in {0, 255, 141}}
=============================================================================

------------------------------ MODULE Viterbi ------------------------------
(***************************************************************************)
(* viterbi-handler.cpp: the soft decision decoder of the convolutional     *)
(* code of rate 1/4 and constraint length 7, in which every received bit,  *)
(* of the FIC and of the sub-channels, is coded.  No state.                *)
(***************************************************************************)
EXTENDS Integers, Sequences, SequencesExt, Loops

CONSTANT blockLength
ASSUME BlockAssumption == blockLength \in Nat \ {0}

K == 7
numofStates == 2^(K - 1)
State == 0 .. numofStates - 1

\* The taps of the four polynomials, 0133, 0171, 0145 and 0133.
Taps == <<{0, 1, 3, 4, 6}, {0, 3, 4, 5, 6}, {0, 2, 5, 6}, {0, 1, 3, 4, 6}>>
Bit(n, t) == (n \div 2^t) % 2
bitFor(state, poly, bit) ==
  Cardinality({t \in poly : Bit(state + bit * numofStates, t) = 1}) % 2
indexTable ==
  [s \in 0 .. 2 * numofStates - 1 |->
     [k \in 1 .. 4 |-> bitFor(s % numofStates, Taps[k], s \div numofStates)]]

\* Positive soft bits stand for 1 (their sign is changed before the costs are
\* computed): an output that agrees with them lowers the cost.
computeCostTable(sym, out) ==
  LET Term(k) == IF out[k] = 1 THEN -sym[k] ELSE sym[k]
  IN Term(1) + Term(2) + Term(3) + Term(4)

\* One column: the cheaper of the two predecessors, the second on a tie.
Column(costs, sym) ==
  LET Arrive(p, bit) ==
        costs[p] + computeCostTable(sym, indexTable[p + bit * numofStates])
  IN [s \in State |->
        LET bit == (2 * s) \div numofStates
            p   == (2 * s) % numofStates
            c0  == Arrive(p, bit)
            c1  == Arrive(p + 1, bit)
        IN IF c0 < c1 THEN [cost |-> c0, prev |-> p]
                      ELSE [cost |-> c1, prev |-> p + 1]]

\* All states are possible at the start ...
StartCosts == [s \in State |-> 0]
\* ... and at the end, and the last of the blockLength + 6 groups of soft bits
\* is not looked at.
Columns == blockLength + 5

\* Back from the best of the last states; the bits are what was shifted in to
\* reach the states of the first blockLength columns.
Decided(costs, history) ==
  LET minimalCosts == Min({costs[s] : s \in State})
      bestState == Min({s \in State : costs[s] = minimalCosts})
      stateSequence == FoldRight(LAMBDA h, t : <<h[t[1]]>> \o t, history,
                                 <<bestState>>)
  IN [i \in 1 .. blockLength |->
        IF stateSequence[i + 1] >= numofStates \div 2 THEN 1 ELSE 0]

\* The encoder of the sender: the register starts at 0 and is emptied by six
\* zeros.
Convolve(bits) ==
  LET Shift(c, b) ==
        [state |-> c.state \div 2 + b * (numofStates \div 2),
         out   |-> c.out \o indexTable[c.state + b * numofStates]]
  IN Along(Shift, [state |-> 0, out |-> << >>],
              bits \o [i \in 1 .. K - 1 |-> 0]).out
=============================================================================

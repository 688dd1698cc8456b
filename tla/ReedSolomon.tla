---------------------------- MODULE ReedSolomon ----------------------------
(***************************************************************************)
(* galois.cpp and reed-solomon.cpp: the field of 2^symsize symbols, the    *)
(* encoder, and the decoder of the superframes of DAB+, which constructs   *)
(* it as (8, 0435, 0, 1, 10) and shortens its words by 135 symbols.        *)
(* A symbol is the set of the powers of x of its polynomial, so that ^ is  *)
(* the symmetric difference.  No state.                                    *)
(***************************************************************************)
EXTENDS Integers, Sequences, SequencesExt, Loops

CONSTANTS symsize, gfpoly, fcr, nroots, cutlen

ASSUME FieldAssumption ==
  /\ symsize \in Nat \ {0} /\ gfpoly \subseteq 0 .. symsize /\ symsize \in gfpoly
  /\ fcr \in Nat /\ nroots \in 2 .. 2^symsize - 2 /\ nroots % 2 = 0
  /\ cutlen \in 0 .. 2^symsize - 2 - nroots

codeLength == 2^symsize - 1
Symbol     == SUBSET (0 .. symsize - 1)

(***************************************************************************)
(* galois.  Powers are 0 .. codeLength, codeLength for the logarithm of 0. *)
(***************************************************************************)
add_poly(a, b) == (a \ b) \cup (b \ a)

TimesX(sr) == LET s == {b + 1 : b \in sr}
              IN IF symsize \in s THEN add_poly(s, gfpoly) ELSE s
Powers == Along(LAMBDA t, i : Append(t, TimesX(t[i])), <<{0}>>,
                   Upto(codeLength - 1))
alpha_to == [i \in 0 .. codeLength |->
               IF i = codeLength THEN {} ELSE Powers[i + 1]]
index_of == [p \in Symbol |-> CHOOSE i \in 0 .. codeLength : alpha_to[i] = p]

\* modnn (x) by its result: x is reduced modulo codeLength.
multiply_power(a, b) == (a + b) % codeLength
divide_power(a, b)   == (codeLength + a - b) % codeLength
pow_power(a, n)      == (a * n) % codeLength

multiply_poly(a, b) ==
  IF a = {} \/ b = {} THEN {}
  ELSE alpha_to[multiply_power(index_of[a], index_of[b])]
divide_poly(a, b) ==
  IF a = {} THEN {} ELSE alpha_to[divide_power(index_of[a], index_of[b])]

\* The polynomial p, in powers, at alpha^x: what the loops with pow_power sum.
At(p, degree, x) ==
  Along(LAMBDA sum, i :
             IF p[i - 1] = codeLength THEN sum
             ELSE add_poly(sum, alpha_to[multiply_power(p[i - 1],
                                                        pow_power(i - 1, x))]),
           {}, Upto(degree + 1))

(***************************************************************************)
(* The encoder, with the generator polynomial of the constructor.          *)
(***************************************************************************)
generator ==
  LET Step(g, i) ==
        LET root == fcr + i - 1
            Times(s) == multiply_poly(s, alpha_to[root % codeLength])
        IN [j \in 0 .. nroots |->
              CASE j = 0 -> Times(g[0])
                [] j \in 1 .. i - 1 -> add_poly(g[j - 1], Times(g[j]))
                [] j = i -> {0}
                [] OTHER -> g[j]]
  IN Along(Step, [j \in 0 .. nroots |-> IF j = 0 THEN {0} ELSE {}],
              Upto(nroots))

\* The parity symbols of data; bb is shifted with every symbol.
encode_rs(data) ==
  LET Step(bb, d) ==
        LET feedback == add_poly(d, bb[1])
            Times(g) == IF feedback = {} THEN {}
                        ELSE alpha_to[multiply_power(index_of[feedback],
                                                     index_of[g])]
        IN [j \in 1 .. nroots |->
              IF j = nroots THEN Times(generator[0])
              ELSE add_poly(bb[j + 1], Times(generator[nroots - j]))]
  IN Along(Step, [j \in 1 .. nroots |-> {}], data)

Padding == [i \in 1 .. cutlen |-> {}]
enc(r)  == r \o encode_rs(Padding \o r)

(***************************************************************************)
(* The decoder.                                                            *)
(***************************************************************************)
getSyndrome(data, root) ==
  Along(LAMBDA syn, d :
             IF syn = {} THEN d
             ELSE add_poly(d, alpha_to[multiply_power(index_of[syn],
                                                      fcr + root)]),
           data[1], Tail(data))

computeSyndromes(data) == [i \in 0 .. nroots - 1 |-> getSyndrome(data, i)]

\* Berlekamp-Massey.  The last error is computed from one element past both
\* arrays and is not used.
computeLambda(syndromes) ==
  LET Step(b, K) ==
        LET Lambda == [i \in 0 .. nroots - 1 |->
                         add_poly(b.Lambda[i],
                                  multiply_poly(b.error, b.Corrector[i]))]
            longer == 2 * b.L < K /\ b.error # {}
            C == IF longer THEN [i \in 0 .. nroots - 1 |->
                                   divide_poly(b.Lambda[i], b.error)]
                           ELSE b.Corrector
        IN [Lambda    |-> Lambda,
            L         |-> IF longer THEN K - b.L ELSE b.L,
            Corrector |-> [i \in 0 .. nroots - 1 |->
                             IF i = 0 THEN {} ELSE C[i - 1]],
            error     |-> IF K = nroots THEN {}
                          ELSE Along(LAMBDA e, i :
                                 add_poly(e, multiply_poly(syndromes[K - i],
                                                           Lambda[i])),
                                 syndromes[K], Upto(K))]
      b0 == [Lambda    |-> [i \in 0 .. nroots - 1 |-> IF i = 0 THEN {0} ELSE {}],
             L         |-> 0,
             Corrector |-> [i \in 0 .. nroots - 1 |-> IF i = 1 THEN {0} ELSE {}],
             error     |-> syndromes[0]]
      Lambda == Along(Step, b0, Upto(nroots)).Lambda
  IN [i \in 0 .. nroots - 1 |-> index_of[Lambda[i]]]

Degree(p) == Max({0} \cup {i \in 0 .. nroots - 1 : p[i] # codeLength})

\* Chien search: the powers at which Lambda is 0, in order.
SearchedShort == Upto(codeLength - 1)
Searched      == Upto(codeLength)
computeErrors(Lambda) ==
  SelectSeq(Searched, LAMBDA i : At(Lambda, Degree(Lambda), i) = {})

computeOmega(syndromes, Lambda) ==
  [i \in 0 .. nroots - 1 |->
     index_of[Along(LAMBDA sum, j :
                IF Lambda[j - 1] = codeLength THEN sum
                ELSE add_poly(sum, multiply_poly(syndromes[i - (j - 1)],
                                                 alpha_to[Lambda[j - 1]])),
                {}, Upto(Min({Degree(Lambda), i}) + 1))]]

\* Forney's formula for the error at alpha^root, applied to the data, from the
\* last root to the first; a correction in the parity is only discounted, and
\* a denominator of 0 gives up with what was corrected so far.
Correct(data, rootTable, Lambda, omega) ==
  LET lambda_pr == [i \in 0 .. nroots - 2 |->
                      IF i % 2 = 1 THEN codeLength ELSE Lambda[i + 1]]
      Step(c, root) ==
        LET num1 == At(omega, Degree(omega), root)
            num2 == pow_power(root, divide_power(fcr, 1))
            den  == At(lambda_pr, Min({Degree(Lambda), nroots - 2}), root)
            loc  == root
        IN IF c.ret = -1 \/ den = {} THEN [c EXCEPT !.ret = -1]
           ELSE IF num1 = {} THEN c
           ELSE IF loc > codeLength - nroots THEN [c EXCEPT !.ret = @ - 1]
           ELSE [c EXCEPT !.data[loc] =
                   add_poly(@, multiply_poly(divide_poly(num1, den),
                                             alpha_to[num2]))]
  IN Along(Step, [data |-> data, ret |-> Len(rootTable)], Reverse(rootTable))

\* syn_error is read before it is written: a right word ends in the first
\* branch or not, as zeros is, and nothing comes of that.
decode_rs(data, zeros) ==
  LET syndromes == computeSyndromes(data)
      Lambda    == computeLambda(syndromes)
      rootTable == computeErrors(Lambda)
  IN IF zeros /\ \A i \in DOMAIN syndromes : syndromes[i] = {}
     THEN [data |-> data, ret |-> 0]
     ELSE IF Len(rootTable) # Degree(Lambda) THEN [data |-> data, ret |-> -1]
     ELSE Correct(data, rootTable, Lambda, computeOmega(syndromes, Lambda))

dec(r, zeros) ==
  LET d == decode_rs(Padding \o r, zeros)
  IN [data |-> SubSeq(d.data, cutlen + 1, codeLength - nroots), ret |-> d.ret]
=============================================================================

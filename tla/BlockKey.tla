------------------------------ MODULE BlockKey ------------------------------
(***************************************************************************)
(* The key of a block in the block database is its number in decimal text, *)
(* without padding (MarshallBlockKey), and LevelDB keeps keys in byte      *)
(* order: block 10 comes before block 9.                                   *)
(***************************************************************************)
EXTENDS Integers

\* b ^ l, as a function: nothing is known of ^ to the provers.
Power(b, l) ==
  LET power[k \in Nat] == IF k = 0 THEN 1 ELSE b * power[k - 1]
  IN  power[l]

NumDigits(n) == CHOOSE d \in 1 .. n + 1 :
                  n < Power(10, d) /\ (d = 1 \/ n >= Power(10, d - 1))

\* a's text sorts strictly before b's: both are padded on the right to the
\* same length and compared as numbers; of equal ones the shorter is first.
KeyBefore(a, b) ==
  LET x == a * Power(10, NumDigits(b))
      y == b * Power(10, NumDigits(a))
  IN  x < y \/ (x = y /\ NumDigits(a) < NumDigits(b))

\* The last key of a set of block keys (GetNLastRecords(1)): empty if none.
LastKeys(S) == {n \in S : \A m \in S \ {n} : KeyBefore(m, n)}
=============================================================================

--------------------------- MODULE EncodingProofs ---------------------------
(***************************************************************************)
(* What the byte strings of Encoding say: the bytes of times are in the    *)
(* order of the times, keys put together of fields of one width are in the *)
(* order of the fields, an iterator lists a set of keys by rank, and what  *)
(* is written into the record of a block is read out of it again.          *)
(***************************************************************************)
EXTENDS Encoding, FiniteSetTheorems, SequenceTheorems, NaturalsInduction, WellFoundedInduction, TLAPS

\* Every set of numbers that is not empty has a least one.  Where an argument would
\* go by induction, the proofs here take the least number that is an exception.
LEMMA LeastNumber ==
  ASSUME NEW S, S \subseteq Nat, S # {}
  PROVE  \E n \in S : \A m \in S : n <= m
<1> DEFINE less == {p \in Nat \X Nat : p[1] < p[2]}
<1>1. OpToRel(<, Nat) = less
  BY Zenon DEF OpToRel
<1>2. IsWellFoundedOn(less, Nat)
  BY <1>1, NatLessThanWellFounded
<1> HIDE DEF less
<1>3. PICK n \in S : \A m \in S : ~(<<m, n>> \in less)
  BY <1>2, WFMin
<1>4. \A m \in S : ~(m < n)
  BY <1>3 DEF less
<1> QED BY <1>4

\* g is the beginning, up to n, of the function that step defines.
Begins(D, g, n, z, step) ==
  /\ g \in [0 .. n -> D] /\ g[0] = z
  /\ \A i \in 1 .. n : g[i] = step[i - 1][g[i - 1]]

\* f begins with z, and step leads from each of its values to the next.
Follows(f, D, z, step) ==
  f \in [Nat -> D] /\ f[0] = z /\ \A n \in Nat : f[n + 1] = step[n][f[n]]

\* The beginning of the function exists up to every n.
LEMMA BeginningExists ==
  ASSUME NEW D, NEW z \in D, NEW step \in [Nat -> [D -> D]], NEW n \in Nat
  PROVE  \E g : Begins(D, g, n, z, step)
<1> DEFINE Without == {m \in Nat : ~\E g : Begins(D, g, m, z, step)}
<1> SUFFICES ASSUME n \in Without PROVE FALSE
  OBVIOUS
<1>1. PICK m \in Without : \A k \in Without : m <= k
  <2> HIDE DEF Without
  <2>1. Without \subseteq Nat
    BY DEF Without
  <2> QED BY <2>1, LeastNumber
<1>2. m \in Nat /\ ~\E g : Begins(D, g, m, z, step)
  OBVIOUS
<1>3. CASE m = 0
  <2> DEFINE one == [i \in 0 .. 0 |-> z]
  <2>1. one \in [0 .. 0 -> D] /\ one[0] = z /\ 1 .. 0 = {}
    OBVIOUS
  <2>2. Begins(D, one, 0, z, step)
    BY <2>1, Zenon DEF Begins
  <2> QED BY <1>2, <1>3, <2>2
<1>4. CASE m # 0
  <2>1. m - 1 \in Nat /\ m - 1 \notin Without
    BY <1>1, <1>2, <1>4
  <2>2. PICK g : Begins(D, g, m - 1, z, step)
    BY <2>1
  <2> HIDE DEF Without
  <2>3. g \in [0 .. m - 1 -> D] /\ g[0] = z
    BY <2>2 DEF Begins
  <2>4. PICK last \in D : last = step[m - 1][g[m - 1]]
    BY <2>1, <2>3
  <2> DEFINE h == [i \in 0 .. m |-> IF i = m THEN last ELSE g[i]]
  <2>5. h \in [0 .. m -> D] /\ h[0] = z
    BY <1>2, <1>4, <2>3
  <2>6. ASSUME NEW i \in 1 .. m
        PROVE  h[i] = step[i - 1][h[i - 1]]
    <3>1. i \in 0 .. m /\ i - 1 \in 0 .. m /\ i - 1 # m
      BY <1>2
    <3>2. h[i - 1] = g[i - 1]
      BY <3>1
    <3>3. CASE i = m
      BY <2>4, <3>1, <3>2, <3>3
    <3>4. CASE i # m
      <4>1. i \in 1 .. m - 1
        BY <1>2, <3>4
      <4>2. g[i] = step[i - 1][g[i - 1]] /\ h[i] = g[i]
        BY <2>2, <3>1, <3>4, <4>1 DEF Begins
      <4> QED BY <3>2, <4>2
    <3> QED BY <3>3, <3>4
  <2> HIDE DEF h
  <2>7. Begins(D, h, m, z, step)
    BY <2>5, <2>6 DEF Begins
  <2> QED BY <1>2, <2>7
<1> QED BY <1>3, <1>4

\* Two beginnings have the same value where the shorter one ends.
LEMMA BeginningsAgree ==
  ASSUME NEW D, NEW z, NEW step, NEW m \in Nat, NEW n \in Nat, m <= n,
         NEW g, NEW h, Begins(D, g, m, z, step), Begins(D, h, n, z, step)
  PROVE  g[m] = h[m]
<1> DEFINE Differ == {i \in 0 .. m : g[i] # h[i]}
<1> SUFFICES ASSUME m \in Differ PROVE FALSE
  OBVIOUS
<1>1. PICK i \in Differ : \A k \in Differ : i <= k
  <2>1. Differ \subseteq Nat
    OBVIOUS
  <2> HIDE DEF Differ
  <2> QED BY <2>1, LeastNumber
<1>2. i # 0
  BY <1>1 DEF Begins
<1>3. i - 1 \in 0 .. m /\ i - 1 \notin Differ /\ i \in 1 .. m /\ i \in 1 .. n
  BY <1>1, <1>2
<1>4. g[i - 1] = h[i - 1]
  BY <1>3
<1>5. g[i] = step[i - 1][g[i - 1]] /\ h[i] = step[i - 1][h[i - 1]]
  BY <1>3 DEF Begins
<1> QED BY <1>1, <1>4, <1>5

\* A step for each number defines a function.
LEMMA StepsDefine ==
  ASSUME NEW D, NEW z \in D, NEW step \in [Nat -> [D -> D]]
  PROVE  \E f : Follows(f, D, z, step)
<1> DEFINE G == [n \in Nat |-> CHOOSE g : Begins(D, g, n, z, step)]
           f == [n \in Nat |-> G[n][n]]
<1>1. \A n \in Nat : Begins(D, G[n], n, z, step)
  BY BeginningExists
<1> HIDE DEF G
<1>2. f \in [Nat -> D] /\ f[0] = z
  BY <1>1 DEF Begins
<1>3. ASSUME NEW n \in Nat
      PROVE  f[n + 1] = step[n][f[n]]
  <2>1. Begins(D, G[n], n, z, step) /\ Begins(D, G[n + 1], n + 1, z, step)
    BY <1>1
  <2>2. n + 1 \in 1 .. n + 1 /\ (n + 1) - 1 = n /\ n + 1 \in Nat /\ n <= n + 1
    OBVIOUS
  <2>3. G[n][n] = G[n + 1][n]
    <3> HIDE DEF f
    <3> QED BY <2>1, <2>2, BeginningsAgree
  <2>4. G[n + 1][n + 1] = step[n][G[n + 1][n]]
    BY <2>1, <2>2 DEF Begins
  <2>5. n + 1 \in Nat /\ f[n + 1] = G[n + 1][n + 1] /\ f[n] = G[n][n]
    OBVIOUS
  <2> QED BY <2>3, <2>4, <2>5, Zenon
<1> HIDE DEF f
<1> QED BY <1>2, <1>3 DEF Follows

\* Power is what its definition says: the recursive function exists.
LEMMA PowerStep ==
  ASSUME NEW b \in Nat
  PROVE  /\ Power(b, 0) = 1
         /\ \A l \in Nat : Power(b, l + 1) = b * Power(b, l)
<1>1. PICK step \in [Nat -> [Nat -> Nat]] : \A n, x \in Nat : step[n][x] = b * x
  <2> DEFINE s == [n \in Nat |-> [x \in Nat |-> b * x]]
  <2>1. s \in [Nat -> [Nat -> Nat]] /\ \A n, x \in Nat : s[n][x] = b * x
    OBVIOUS
  <2> QED BY <2>1
<1>2. PICK f \in [Nat -> Nat] : f[0] = 1 /\ \A n \in Nat : f[n + 1] = b * f[n]
  <2>1. PICK f : Follows(f, Nat, 1, step)
    BY StepsDefine
  <2> QED BY <1>1, <2>1 DEF Follows
<1> DEFINE p == CHOOSE p : p = [k \in Nat |-> IF k = 0 THEN 1 ELSE b * p[k - 1]]
<1>3. f = [k \in Nat |-> IF k = 0 THEN 1 ELSE b * f[k - 1]]
  <2>1. ASSUME NEW k \in Nat, k # 0
        PROVE  f[k] = b * f[k - 1]
    <3>1. k - 1 \in Nat /\ (k - 1) + 1 = k
      BY <2>1
    <3> QED BY <1>2, <3>1
  <2> QED BY <1>2, <2>1
<1>4. p = [k \in Nat |-> IF k = 0 THEN 1 ELSE b * p[k - 1]]
  BY <1>3
<1>5. \A l : Power(b, l) = p[l]
  BY DEF Power
<1> HIDE DEF p
<1>6. Power(b, 0) = 1
  BY <1>4, <1>5
<1>7. ASSUME NEW l \in Nat PROVE Power(b, l + 1) = b * Power(b, l)
  <2>1. l + 1 \in Nat /\ l + 1 # 0 /\ (l + 1) - 1 = l
    OBVIOUS
  <2>2. p[l + 1] = b * p[(l + 1) - 1]
    BY <1>4, <2>1
  <2> QED BY <1>5, <2>1, <2>2
<1> QED BY <1>6, <1>7

\* Division with a remainder.
LEMMA DivIs ==
  ASSUME NEW n \in Nat, NEW p \in Nat \ {0}
  PROVE  /\ n \div p \in Nat /\ n % p \in 0 .. p - 1 /\ n = p * (n \div p) + (n % p)
  OBVIOUS

\* A quotient and a remainder that fit are those of the division.
LEMMA DivUnique ==
  ASSUME NEW n \in Nat, NEW p \in Nat \ {0}, NEW q \in Nat, NEW r \in 0 .. p - 1, n = p * q + r
  PROVE  n \div p = q /\ n % p = r
<1>1. n \div p \in Nat /\ n % p \in 0 .. p - 1 /\ n = p * (n \div p) + (n % p)
  BY DivIs
<1> DEFINE d == n \div p
<1> HIDE DEF d
<1>2. ASSUME NEW a \in Nat, NEW b \in Nat, NEW s \in 0 .. p - 1, NEW t \in 0 .. p - 1, a < b,
             p * a + s = p * b + t
      PROVE FALSE
  <2>1. p * (a + 1) <= p * b
    BY <1>2
  <2> QED BY <1>2, <2>1
<1> QED OBVIOUS

\* Dividing by p and then by b is dividing by b * p.
LEMMA DivDiv ==
  ASSUME NEW n \in Nat, NEW p \in Nat \ {0}, NEW b \in Nat \ {0}
  PROVE  n \div (b * p) = (n \div p) \div b
  OBVIOUS

\* Division keeps the order.
LEMMA DivMonotone ==
  ASSUME NEW n \in Nat, NEW m \in Nat, NEW p \in Nat \ {0}, n <= m
  PROVE  n \div p <= m \div p
  OBVIOUS

\* A number below p is its own remainder.
LEMMA DivSmall ==
  ASSUME NEW n \in Nat, NEW p \in Nat \ {0}, n < p
  PROVE  n \div p = 0 /\ n % p = n
  OBVIOUS

\* Division by one changes nothing.
LEMMA DivOne ==
  ASSUME NEW n \in Nat
  PROVE  n \div 1 = n
  OBVIOUS

\* A power is a positive number.
LEMMA PowerType ==
  ASSUME NEW b \in Nat \ {0}, NEW l \in Nat
  PROVE  Power(b, l) \in Nat \ {0}
<1> DEFINE Not == {k \in Nat : Power(b, k) \notin Nat \ {0}}
<1> SUFFICES ASSUME l \in Not PROVE FALSE
  OBVIOUS
<1>1. PICK k \in Not : \A m \in Not : k <= m
  <2>1. Not \subseteq Nat
    OBVIOUS
  <2> HIDE DEF Not
  <2> QED BY <2>1, LeastNumber
<1>2. k # 0
  BY <1>1, PowerStep
<1>3. k - 1 \in Nat /\ (k - 1) + 1 = k /\ k - 1 \notin Not
  BY <1>1, <1>2
<1>4. Power(b, k) = b * Power(b, k - 1)
  BY <1>3, PowerStep
<1>5. Power(b, k - 1) \in Nat \ {0}
  BY <1>3
<1>6. Power(b, k) \in Nat \ {0}
  BY <1>4, <1>5
<1> QED BY <1>1, <1>6

\* A larger exponent gives a power that is not smaller.
LEMMA PowerMonotone ==
  ASSUME NEW b \in Nat \ {0}, NEW l \in Nat, NEW m \in Nat, l <= m
  PROVE  Power(b, l) <= Power(b, m)
<1> DEFINE Not == {k \in Nat : l <= k /\ ~(Power(b, l) <= Power(b, k))}
<1> SUFFICES ASSUME m \in Not PROVE FALSE
  OBVIOUS
<1>1. PICK k \in Not : \A n \in Not : k <= n
  <2>1. Not \subseteq Nat
    OBVIOUS
  <2> HIDE DEF Not
  <2> QED BY <2>1, LeastNumber
<1>2. k # l
  BY <1>1, PowerType
<1>3. k - 1 \in Nat /\ (k - 1) + 1 = k /\ l <= k - 1 /\ k - 1 \notin Not
  BY <1>1, <1>2
<1>4. Power(b, k) = b * Power(b, k - 1)
  BY <1>3, PowerStep
<1>5. Power(b, l) <= Power(b, k - 1) /\ Power(b, k - 1) \in Nat /\ Power(b, l) \in Nat
  BY <1>3, PowerType
<1>6. Power(b, k - 1) <= b * Power(b, k - 1)
  BY <1>5
<1> QED BY <1>1, <1>4, <1>5, <1>6

\* Powers to a base above one exceed their exponent.
LEMMA PowerExceeds ==
  ASSUME NEW b \in Nat \ {0, 1}, NEW l \in Nat
  PROVE  l < Power(b, l)
<1> DEFINE Not == {k \in Nat : ~(k < Power(b, k))}
<1> SUFFICES ASSUME l \in Not PROVE FALSE
  OBVIOUS
<1>1. PICK k \in Not : \A n \in Not : k <= n
  <2>1. Not \subseteq Nat
    OBVIOUS
  <2> HIDE DEF Not
  <2> QED BY <2>1, LeastNumber
<1>2. k # 0
  BY <1>1, PowerStep
<1>3. k - 1 \in Nat /\ (k - 1) + 1 = k /\ k - 1 \notin Not
  BY <1>1, <1>2
<1>4. Power(b, k) = b * Power(b, k - 1)
  BY <1>3, PowerStep
<1>5. k - 1 < Power(b, k - 1) /\ Power(b, k - 1) \in Nat
  BY <1>3, PowerType
<1>6. 2 * Power(b, k - 1) <= b * Power(b, k - 1)
  BY <1>5
<1>7. k < Power(b, k)
  BY <1>2, <1>4, <1>5, <1>6
<1> QED BY <1>1, <1>7

\* n has l digits to the base b: 0 has none.
HasDigits(b, n, l) == n < Power(b, l) /\ (l = 0 \/ n >= Power(b, l - 1))

\* Every number has a number of digits.
LEMMA DigitsExist ==
  ASSUME NEW b \in Nat \ {0, 1}, NEW n \in Nat
  PROVE  \E l \in 0 .. n : HasDigits(b, n, l)
<1> DEFINE Enough == {l \in Nat : n < Power(b, l)}
<1>1. n \in Enough
  BY PowerExceeds
<1>2. PICK l \in Enough : \A m \in Enough : l <= m
  <2>1. Enough \subseteq Nat
    OBVIOUS
  <2> HIDE DEF Enough
  <2> QED BY <1>1, <2>1, LeastNumber
<1>3. l \in 0 .. n
  BY <1>1, <1>2
<1>4. ASSUME l # 0 PROVE n >= Power(b, l - 1)
  <2>1. l - 1 \in Nat /\ l - 1 \notin Enough
    BY <1>2, <1>4
  <2> QED BY <2>1, PowerType
<1> QED BY <1>2, <1>3, <1>4 DEF HasDigits

\* And it has only one.
LEMMA DigitsUnique ==
  ASSUME NEW b \in Nat \ {0, 1}, NEW n \in Nat, NEW l \in Nat, NEW m \in Nat,
         HasDigits(b, n, l), HasDigits(b, n, m)
  PROVE  l = m
<1>1. ASSUME NEW j \in Nat, NEW k \in Nat, j < k, HasDigits(b, n, j), HasDigits(b, n, k)
      PROVE  FALSE
  <2>1. k - 1 \in Nat /\ j <= k - 1 /\ b \in Nat \ {0}
    BY <1>1
  <2>2. Power(b, j) <= Power(b, k - 1)
    BY <2>1, PowerMonotone
  <2>3. Power(b, j) \in Nat /\ Power(b, k - 1) \in Nat
    BY <2>1, PowerType
  <2> QED BY <1>1, <2>2, <2>3 DEF HasDigits
<1> QED BY <1>1

\* NumDigits is the number of decimal digits, and at least one.
LEMMA NumDigitsIs ==
  ASSUME NEW n \in Nat
  PROVE  /\ NumDigits(n) \in Nat \ {0} /\ n < Power(10, NumDigits(n))
         /\ NumDigits(n) = 1 \/ n >= Power(10, NumDigits(n) - 1)
<1>1. PICK l \in 0 .. n : HasDigits(10, n, l)
  BY DigitsExist
<1>2. \E d \in 1 .. n + 1 : n < Power(10, d) /\ (d = 1 \/ n >= Power(10, d - 1))
  <2>1. CASE l = 0
    <3>1. Power(10, 0) <= Power(10, 1) /\ Power(10, 0) \in Nat /\ Power(10, 1) \in Nat
      BY PowerMonotone, PowerType
    <3>2. n < Power(10, 1) /\ 1 \in 1 .. n + 1
      BY <1>1, <2>1, <3>1 DEF HasDigits
    <3> QED BY <3>2
  <2>2. CASE l # 0
    BY <1>1, <2>2 DEF HasDigits
  <2> QED BY <2>1, <2>2
<1> QED BY <1>2 DEF NumDigits

\* A number below 10^d has at most d decimal digits.
LEMMA NumDigitsBounded ==
  ASSUME NEW n \in Nat, NEW d \in Nat \ {0}, n < Power(10, d)
  PROVE  NumDigits(n) <= d
<1> SUFFICES ASSUME d < NumDigits(n) PROVE FALSE
  BY NumDigitsIs
<1>1. NumDigits(n) \in Nat /\ n >= Power(10, NumDigits(n) - 1)
  BY NumDigitsIs
<1>2. NumDigits(n) - 1 \in Nat /\ d <= NumDigits(n) - 1
  BY <1>1
<1>3. Power(10, d) <= Power(10, NumDigits(n) - 1)
  BY <1>2, PowerMonotone
<1> QED BY <1>1, <1>2, <1>3, PowerType

-----------------------------------------------------------------------------
(* Numbers as bytes.                                                       *)

\* Bytes(n) has as many bytes as n has digits to the base Base.
LEMMA BytesAre ==
  ASSUME NEW n \in Nat, NEW l \in Nat, HasDigits(Base, n, l)
  PROVE  Bytes(n) = [i \in 1 .. l |-> (n \div Power(Base, l - i)) % Base]
<1>1. Base \in Nat \ {0, 1}
  BY EncodingAssumption
<1>2. PICK m \in 0 .. n : HasDigits(Base, n, m)
  BY <1>1, DigitsExist
<1>3. \A k \in 0 .. n : HasDigits(Base, n, k) => k = l
  BY <1>1, DigitsUnique
<1> DEFINE abs == IF n < 0 THEN -n ELSE n
           len == CHOOSE k \in 0 .. abs :
                    abs < Power(Base, k) /\ (k = 0 \/ abs >= Power(Base, k - 1))
<1>4. abs = n
  OBVIOUS
<1>5. len = l
  BY <1>2, <1>3, <1>4 DEF HasDigits
<1>6. Bytes(n) = [i \in 1 .. len |-> (abs \div Power(Base, len - i)) % Base]
  BY Zenon DEF Bytes
<1> HIDE DEF abs, len
<1> QED BY <1>4, <1>5, <1>6

\* A time of a block or of a query, which has TimeLen bytes.
IsTime(t) == t \in Nat /\ Power(Base, TimeLen - 1) <= t /\ t < Power(Base, TimeLen)

\* The byte strings of length l.
Strings(l) == [1 .. l -> 0 .. Base - 1]

\* A time is written in TimeLen bytes, and MarshallTime, which keeps ten decimal
\* digits, cuts none off.
LEMMA TimeBytes ==
  ASSUME NEW t, IsTime(t)
  PROVE  /\ Bytes(t) \in Strings(TimeLen)
         /\ \A i \in 1 .. TimeLen : Bytes(t)[i] = (t \div Power(Base, TimeLen - i)) % Base
         /\ MarshallTime(t) = Bytes(t)
<1>1. Base \in Nat \ {0, 1} /\ TimeLen \in Nat \ {0} /\ TimeDigits \in Nat \ {0}
  BY EncodingAssumption
<1>2. HasDigits(Base, t, TimeLen) /\ t \in Nat
  BY DEF HasDigits, IsTime
<1>3. Bytes(t) = [i \in 1 .. TimeLen |-> (t \div Power(Base, TimeLen - i)) % Base]
  BY <1>1, <1>2, BytesAre
<1>4. ASSUME NEW i \in 1 .. TimeLen
      PROVE  (t \div Power(Base, TimeLen - i)) % Base \in 0 .. Base - 1
  <2>1. TimeLen - i \in Nat
    BY <1>1
  <2>2. Power(Base, TimeLen - i) \in Nat \ {0}
    BY <1>1, <2>1, PowerType
  <2>3. t \div Power(Base, TimeLen - i) \in Nat
    BY <1>2, <2>2, DivIs
  <2> QED BY <1>1, <2>3, DivIs
<1>5. t < Power(10, TimeDigits)
  BY <1>1, PowerType, DigitsAssumption DEF IsTime
<1>6. NumDigits(t) <= TimeDigits
  BY <1>1, <1>2, <1>5, NumDigitsBounded
<1> QED BY <1>3, <1>4, <1>6 DEF Strings, MarshallTime

\* What the first i bytes of a time are worth.
Upper(t, i) == t \div Power(Base, TimeLen - i)

\* The bytes of a time make it up, each one the next place.
LEMMA UpperSteps ==
  ASSUME NEW t, IsTime(t)
  PROVE  /\ Upper(t, 0) = 0 /\ Upper(t, TimeLen) = t
         /\ \A i \in 0 .. TimeLen : Upper(t, i) \in Nat
         /\ \A i \in 1 .. TimeLen : /\ Upper(t, i) = Base * Upper(t, i - 1) + Bytes(t)[i]
                                    /\ Bytes(t)[i] = Upper(t, i) % Base
<1>1. Base \in Nat \ {0, 1} /\ TimeLen \in Nat \ {0} /\ t \in Nat
  BY EncodingAssumption DEF IsTime
<1>2. Upper(t, 0) = 0
  <2>1. TimeLen - 0 = TimeLen /\ Power(Base, TimeLen) \in Nat \ {0}
    BY <1>1, PowerType
  <2> QED BY <1>1, <2>1, DivSmall DEF Upper, IsTime
<1>3. Upper(t, TimeLen) = t
  <2>1. TimeLen - TimeLen = 0 /\ Power(Base, 0) = 1
    BY <1>1, PowerStep
  <2> QED BY <1>1, <2>1, DivOne DEF Upper
<1>4. ASSUME NEW i \in 0 .. TimeLen
      PROVE  Upper(t, i) \in Nat
  <2>1. TimeLen - i \in Nat
    BY <1>1
  <2>2. Power(Base, TimeLen - i) \in Nat \ {0}
    BY <1>1, <2>1, PowerType
  <2> QED BY <1>1, <2>2, DivIs DEF Upper
<1>5. ASSUME NEW i \in 1 .. TimeLen
      PROVE  /\ Upper(t, i) = Base * Upper(t, i - 1) + Bytes(t)[i]
             /\ Bytes(t)[i] = Upper(t, i) % Base
  <2>1. TimeLen - i \in Nat /\ (TimeLen - i) + 1 = TimeLen - (i - 1) /\ i \in 0 .. TimeLen
    BY <1>1
  <2>2. Power(Base, TimeLen - (i - 1)) = Base * Power(Base, TimeLen - i)
    BY <1>1, <2>1, PowerStep
  <2>3. Power(Base, TimeLen - i) \in Nat \ {0}
    BY <1>1, <2>1, PowerType
  <2>4. Upper(t, i - 1) = Upper(t, i) \div Base
    BY <1>1, <2>2, <2>3, DivDiv DEF Upper
  <2>5. Bytes(t)[i] = Upper(t, i) % Base
    BY TimeBytes DEF Upper
  <2>6. Upper(t, i) \in Nat
    BY <1>4, <2>1
  <2> QED BY <1>1, <2>4, <2>5, <2>6, DivIs
<1> QED BY <1>2, <1>3, <1>4, <1>5

\* The bytes of an earlier time come before those of a later one.
LEMMA TimesInOrder ==
  ASSUME NEW s, NEW t, IsTime(s), IsTime(t), s < t
  PROVE  \E i \in 1 .. TimeLen : /\ Bytes(s)[i] < Bytes(t)[i]
                                 /\ \A j \in 1 .. i - 1 : Bytes(s)[j] = Bytes(t)[j]
<1>1. Base \in Nat \ {0, 1} /\ TimeLen \in Nat \ {0} /\ s \in Nat /\ t \in Nat
  BY EncodingAssumption DEF IsTime
<1> DEFINE Differ == {i \in 0 .. TimeLen : Upper(s, i) # Upper(t, i)}
<1>2. TimeLen \in Differ
  BY <1>1, UpperSteps
<1>3. PICK i \in Differ : \A j \in Differ : i <= j
  <2>1. Differ \subseteq Nat
    BY <1>1
  <2> HIDE DEF Differ
  <2> QED BY <1>2, <2>1, LeastNumber
<1>4. i \in 1 .. TimeLen
  BY <1>1, <1>3, UpperSteps
<1>5. \A j \in 0 .. i - 1 : Upper(s, j) = Upper(t, j)
  <2>1. \A j \in 0 .. i - 1 : j \in 0 .. TimeLen /\ j \notin Differ
    BY <1>1, <1>3, <1>4
  <2> QED BY <2>1
<1>6. \A j \in 1 .. i - 1 : Bytes(s)[j] = Bytes(t)[j]
  <2>1. \A j \in 1 .. i - 1 : j \in 0 .. i - 1 /\ j \in 1 .. TimeLen
    BY <1>1, <1>4
  <2> QED BY <1>5, <2>1, UpperSteps
<1>7. Upper(s, i) <= Upper(t, i)
  <2>1. TimeLen - i \in Nat
    BY <1>1, <1>4
  <2>2. Power(Base, TimeLen - i) \in Nat \ {0}
    BY <1>1, <2>1, PowerType
  <2> QED BY <1>1, <2>2, DivMonotone DEF Upper
<1>8. Bytes(s)[i] < Bytes(t)[i]
  <2>1. i \in 0 .. TimeLen /\ i - 1 \in 0 .. TimeLen /\ i - 1 \in 0 .. i - 1
    BY <1>1, <1>4
  <2>2. /\ Upper(s, i) \in Nat /\ Upper(t, i) \in Nat
        /\ Upper(s, i - 1) \in Nat /\ Upper(t, i - 1) = Upper(s, i - 1)
        /\ Upper(s, i) = Base * Upper(s, i - 1) + Bytes(s)[i]
        /\ Upper(t, i) = Base * Upper(t, i - 1) + Bytes(t)[i]
    BY <1>4, <1>5, <2>1, UpperSteps
  <2>3. Bytes(s)[i] \in 0 .. Base - 1 /\ Bytes(t)[i] \in 0 .. Base - 1
    BY <1>4, TimeBytes DEF Strings
  <2>4. Upper(s, i) < Upper(t, i)
    BY <1>3, <1>7, <2>2
  <2> DEFINE u == Base * Upper(s, i - 1)
  <2>5. u \in Nat
    BY <1>1, <2>2
  <2>6. Upper(s, i) = u + Bytes(s)[i] /\ Upper(t, i) = u + Bytes(t)[i]
    BY <2>2
  <2> HIDE DEF u
  <2> QED BY <1>1, <2>3, <2>4, <2>5, <2>6
<1> QED BY <1>4, <1>6, <1>8

-----------------------------------------------------------------------------
(* The order of byte strings.                                              *)

\* Before, element by element.
LEMMA BeforeIs ==
  ASSUME NEW s \in Seq(Nat), NEW t \in Seq(Nat)
  PROVE  Before(s, t) <=>
           \/ Len(s) < Len(t) /\ \A i \in 1 .. Len(s) : s[i] = t[i]
           \/ \E i \in 1 .. Len(s) : /\ i <= Len(t) /\ s[i] < t[i]
                                     /\ \A j \in 1 .. i - 1 : s[j] = t[j]
<1>1. Len(s) \in Nat /\ Len(t) \in Nat
  BY LenProperties
<1>2. IsPrefix(s, t) <=> Len(s) <= Len(t) /\ \A i \in 1 .. Len(s) : s[i] = t[i]
  <2>1. /\ SubSeq(s, 1, Len(s)) = [i \in 1 .. Len(s) |-> s[i]]
        /\ Len(s) <= Len(t) => SubSeq(t, 1, Len(s)) = [i \in 1 .. Len(s) |-> t[i]]
    BY <1>1, SubSeqProperties
  <2> QED BY <2>1 DEF IsPrefix
<1>3. Len(s) < Len(t) => s # t
  BY <1>1
<1>4. Len(s) = Len(t) /\ (\A i \in 1 .. Len(s) : s[i] = t[i]) => s = t
  BY SeqEqual
<1>5. IsStrictPrefix(s, t) <=> Len(s) < Len(t) /\ \A i \in 1 .. Len(s) : s[i] = t[i]
  BY <1>1, <1>2, <1>3, <1>4 DEF IsStrictPrefix
<1> QED BY <1>5 DEF Before

\* The order of LevelDB keys is transitive.
LEMMA BeforeTransitive ==
  ASSUME NEW s \in Seq(Nat), NEW t \in Seq(Nat), NEW u \in Seq(Nat), Before(s, t), Before(t, u)
  PROVE  Before(s, u)
<1>1. Len(s) \in Nat /\ Len(t) \in Nat /\ Len(u) \in Nat
  BY LenProperties
<1>2. /\ \A i \in 1 .. Len(s) : s[i] \in Nat
      /\ \A i \in 1 .. Len(t) : t[i] \in Nat
      /\ \A i \in 1 .. Len(u) : u[i] \in Nat
  BY ElementOfSeq
<1>3. CASE Len(s) < Len(t) /\ \A i \in 1 .. Len(s) : s[i] = t[i]
  <2>1. CASE Len(t) < Len(u) /\ \A i \in 1 .. Len(t) : t[i] = u[i]
    <3>1. Len(s) < Len(u) /\ \A i \in 1 .. Len(s) : s[i] = u[i]
      BY <1>1, <1>3, <2>1
    <3> QED BY <3>1, BeforeIs
  <2>2. CASE \E i \in 1 .. Len(t) : /\ i <= Len(u) /\ t[i] < u[i]
                                    /\ \A j \in 1 .. i - 1 : t[j] = u[j]
    <3>1. PICK i \in 1 .. Len(t) : /\ i <= Len(u) /\ t[i] < u[i]
                                   /\ \A j \in 1 .. i - 1 : t[j] = u[j]
      BY <2>2
    <3>2. CASE i <= Len(s)
      <4>1. i \in 1 .. Len(s) /\ s[i] < u[i] /\ \A j \in 1 .. i - 1 : s[j] = u[j]
        BY <1>1, <1>3, <3>1, <3>2
      <4> QED BY <3>1, <4>1, BeforeIs
    <3>3. CASE i > Len(s)
      <4>1. Len(s) < Len(u) /\ \A j \in 1 .. Len(s) : s[j] = u[j]
        BY <1>1, <1>3, <3>1, <3>3
      <4> QED BY <4>1, BeforeIs
    <3> QED BY <1>1, <3>2, <3>3
  <2> QED BY <2>1, <2>2, BeforeIs
<1>4. CASE \E i \in 1 .. Len(s) : /\ i <= Len(t) /\ s[i] < t[i]
                                  /\ \A j \in 1 .. i - 1 : s[j] = t[j]
  <2>1. PICK i \in 1 .. Len(s) : /\ i <= Len(t) /\ s[i] < t[i]
                                 /\ \A j \in 1 .. i - 1 : s[j] = t[j]
    BY <1>4
  <2>2. i \in 1 .. Len(t)
    BY <1>1, <2>1
  <2>3. CASE Len(t) < Len(u) /\ \A k \in 1 .. Len(t) : t[k] = u[k]
    <3>1. i <= Len(u) /\ s[i] < u[i] /\ \A j \in 1 .. i - 1 : s[j] = u[j]
      BY <1>1, <2>1, <2>2, <2>3
    <3> QED BY <3>1, BeforeIs
  <2>4. CASE \E k \in 1 .. Len(t) : /\ k <= Len(u) /\ t[k] < u[k]
                                    /\ \A j \in 1 .. k - 1 : t[j] = u[j]
    <3>1. PICK k \in 1 .. Len(t) : /\ k <= Len(u) /\ t[k] < u[k]
                                   /\ \A j \in 1 .. k - 1 : t[j] = u[j]
      BY <2>4
    <3>2. CASE k < i
      <4>1. k \in 1 .. Len(s) /\ k \in 1 .. i - 1 /\ \A j \in 1 .. k - 1 : j \in 1 .. i - 1
        BY <1>1, <3>2
      <4>2. s[k] < u[k] /\ \A j \in 1 .. k - 1 : s[j] = u[j]
        BY <2>1, <3>1, <4>1
      <4> QED BY <3>1, <4>1, <4>2, BeforeIs
    <3>3. CASE k >= i
      <4>1. i <= Len(u) /\ \A j \in 1 .. i - 1 : s[j] = u[j]
        <5>1. i <= Len(u) /\ \A j \in 1 .. i - 1 : j \in 1 .. k - 1
          <6>1. k <= Len(u)
            BY <3>1
          <6> QED BY <1>1, <3>3, <6>1
        <5> QED BY <2>1, <3>1, <5>1, Zenon
      <4>2. s[i] < u[i]
        <5>1. s[i] \in Nat /\ t[i] \in Nat /\ u[i] \in Nat
          BY <1>1, <1>2, <2>1, <2>2, <4>1
        <5>2. CASE k = i
          BY <2>1, <3>1, <5>1, <5>2
        <5>3. CASE k > i
          <6>1. i \in 1 .. k - 1
            BY <1>1, <2>1, <3>1, <5>3
          <6>2. t[i] = u[i]
            BY <3>1, <6>1
          <6> QED BY <2>1, <5>1, <6>2
        <5> QED BY <1>1, <2>1, <3>1, <3>3, <5>2, <5>3
      <4> QED BY <4>1, <4>2, BeforeIs
    <3> QED BY <3>2, <3>3
  <2> QED BY <2>3, <2>4, BeforeIs
<1> QED BY <1>3, <1>4, BeforeIs

\* No key comes before itself.
LEMMA BeforeIrreflexive ==
  ASSUME NEW s \in Seq(Nat)
  PROVE  ~Before(s, s)
<1>1. Len(s) \in Nat /\ \A i \in 1 .. Len(s) : s[i] \in Nat
  BY LenProperties, ElementOfSeq
<1> QED BY <1>1, BeforeIs

\* Of two different keys one comes first.
LEMMA BeforeTotal ==
  ASSUME NEW s \in Seq(Nat), NEW t \in Seq(Nat), s # t
  PROVE  Before(s, t) \/ Before(t, s)
<1>1. /\ Len(s) \in Nat /\ Len(t) \in Nat
      /\ \A i \in 1 .. Len(s) : s[i] \in Nat
      /\ \A i \in 1 .. Len(t) : t[i] \in Nat
  BY LenProperties, ElementOfSeq
<1> DEFINE Differ == {i \in 1 .. Len(s) : i <= Len(t) /\ s[i] # t[i]}
<1>2. CASE Differ = {}
  <2>1. \A i \in 1 .. Len(s) : i <= Len(t) => s[i] = t[i]
    BY <1>2
  <2>2. Len(s) # Len(t)
    BY <1>1, <2>1, SeqEqual
  <2>3. CASE Len(s) < Len(t)
    BY <1>1, <2>1, <2>3, BeforeIs
  <2>4. CASE Len(t) < Len(s)
    <3>1. \A i \in 1 .. Len(t) : t[i] = s[i]
      BY <1>1, <2>1, <2>4
    <3> QED BY <2>4, <3>1, BeforeIs
  <2> QED BY <1>1, <2>2, <2>3, <2>4
<1>3. CASE Differ # {}
  <2>1. PICK i \in Differ : \A j \in Differ : i <= j
    <3>1. Differ \subseteq Nat
      BY <1>1
    <3> HIDE DEF Differ
    <3> QED BY <1>3, <3>1, LeastNumber
  <2>2. i \in 1 .. Len(s) /\ i \in 1 .. Len(t) /\ s[i] # t[i]
    BY <1>1, <2>1
  <2>3. \A j \in 1 .. i - 1 : s[j] = t[j] /\ t[j] = s[j]
    <3>1. \A j \in 1 .. i - 1 : j \in 1 .. Len(s) /\ j <= Len(t) /\ j \notin Differ
      BY <1>1, <2>1, <2>2
    <3> QED BY <3>1
  <2>4. s[i] < t[i] \/ t[i] < s[i]
    BY <1>1, <2>2
  <2> QED BY <1>1, <2>2, <2>3, <2>4, BeforeIs
<1> QED BY <1>2, <1>3

\* No two keys come before each other.
LEMMA BeforeAntisymmetric ==
  ASSUME NEW s \in Seq(Nat), NEW t \in Seq(Nat), Before(s, t)
  PROVE  ~Before(t, s) /\ s # t
BY BeforeTransitive, BeforeIrreflexive

\* Where the bytes of a string that is put together come from.
LEMMA Concatenated ==
  ASSUME NEW p \in Seq(Nat), NEW x \in Seq(Nat)
  PROVE  /\ p \o x \in Seq(Nat) /\ Len(p) \in Nat /\ Len(x) \in Nat
         /\ Len(p \o x) = Len(p) + Len(x)
         /\ \A i \in 1 .. Len(p) : (p \o x)[i] = p[i]
         /\ \A i \in 1 .. Len(x) : (p \o x)[Len(p) + i] = x[i]
<1>1. Len(p) \in Nat /\ Len(x) \in Nat
  BY LenProperties
<1>2. /\ p \o x \in Seq(Nat) /\ Len(p \o x) = Len(p) + Len(x)
      /\ \A i \in 1 .. Len(p) + Len(x) :
           (p \o x)[i] = IF i <= Len(p) THEN p[i] ELSE x[i - Len(p)]
  BY ConcatProperties
<1>3. \A i \in 1 .. Len(p) : i \in 1 .. Len(p) + Len(x) /\ i <= Len(p)
  BY <1>1
<1>4. \A i \in 1 .. Len(x) : /\ Len(p) + i \in 1 .. Len(p) + Len(x) /\ ~(Len(p) + i <= Len(p))
                             /\ (Len(p) + i) - Len(p) = i
  BY <1>1
<1>5. \A i \in 1 .. Len(x) : (p \o x)[Len(p) + i] = x[(Len(p) + i) - Len(p)]
  BY <1>2, <1>4
<1> QED BY <1>1, <1>2, <1>3, <1>4, <1>5

\* What is cut out of v from b to e is x, if it is there.
LEMMA CutOut ==
  ASSUME NEW v \in Seq(Nat), NEW x \in Seq(Nat), NEW b \in Nat \ {0}, NEW e \in Nat,
         e <= Len(v), Len(x) = (e - b) + 1, \A i \in 1 .. Len(x) : v[(b - 1) + i] = x[i]
  PROVE  SubSeq(v, b, e) = x
<1> DEFINE s == SubSeq(v, b, e)
<1>1. (\A i \in 1 .. Len(v) : v[i] \in Nat) /\ Len(v) \in Nat /\ Len(x) \in Nat
  BY ElementOfSeq, LenProperties
<1>2. \A i \in b .. e : v[i] \in Nat
  BY <1>1
<1>3. /\ s \in Seq(Nat)
      /\ Len(s) = IF b <= e THEN e - b + 1 ELSE 0
      /\ \A i \in 1 .. e - b + 1 : s[i] = v[b + i - 1]
  BY <1>2, SubSeqProperties
<1> HIDE DEF s
<1>4. Len(s) = Len(x)
  BY <1>1, <1>3
<1>5. ASSUME NEW i \in 1 .. Len(x) PROVE s[i] = x[i]
  <2>1. b + i - 1 = (b - 1) + i /\ i \in 1 .. e - b + 1
    BY <1>1
  <2>2. s[i] = v[b + i - 1]
    BY <1>3, <2>1
  <2>3. s[i] = v[(b - 1) + i]
    BY <2>1, <2>2
  <2> QED BY <2>3
<1>6. s = x
  BY <1>3, <1>4, <1>5, SeqEqual
<1> QED BY <1>6 DEF s

\* Strings with beginnings of the same length: the beginnings are compared first.
LEMMA BeforeByBeginning ==
  ASSUME NEW p \in Seq(Nat), NEW q \in Seq(Nat), Len(p) = Len(q), Before(p, q),
         NEW x \in Seq(Nat), NEW y \in Seq(Nat)
  PROVE  Before(p \o x, q \o y)
<1>1. PICK i \in 1 .. Len(p) : p[i] < q[i] /\ \A j \in 1 .. i - 1 : p[j] = q[j]
  <2>1. ~(Len(p) < Len(q))
    BY LenProperties
  <2>2. \E i \in 1 .. Len(p) : i <= Len(q) /\ p[i] < q[i] /\ \A j \in 1 .. i - 1 : p[j] = q[j]
    BY <2>1, BeforeIs
  <2> QED BY <2>2
<1>2. Len(p) \in Nat /\ Len(x) \in Nat /\ Len(y) \in Nat
  BY LenProperties
<1>3. \A j \in 1 .. i : j \in 1 .. Len(p) /\ j \in 1 .. Len(q)
  BY <1>2
<1>4. \A j \in 1 .. i : (p \o x)[j] = p[j] /\ (q \o y)[j] = q[j]
  BY <1>3, Concatenated
<1>5. /\ i \in 1 .. Len(p \o x) /\ i <= Len(q \o y)
      /\ (p \o x)[i] < (q \o y)[i] /\ \A j \in 1 .. i - 1 : (p \o x)[j] = (q \o y)[j]
  BY <1>1, <1>2, <1>4, Concatenated
<1> QED BY <1>5, BeforeIs, Concatenated

\* With the same beginning, the ends decide.
LEMMA BeforeByEnd ==
  ASSUME NEW p \in Seq(Nat), NEW x \in Seq(Nat), NEW y \in Seq(Nat), Before(x, y)
  PROVE  Before(p \o x, p \o y)
<1> DEFINE l == Len(p)
           s == p \o x
           t == p \o y
<1>1. /\ s \in Seq(Nat) /\ t \in Seq(Nat) /\ l \in Nat
      /\ Len(x) \in Nat /\ Len(y) \in Nat
      /\ Len(s) = l + Len(x) /\ Len(t) = l + Len(y)
      /\ \A i \in 1 .. l : s[i] = p[i] /\ t[i] = p[i]
      /\ \A i \in 1 .. Len(x) : s[l + i] = x[i]
      /\ \A i \in 1 .. Len(y) : t[l + i] = y[i]
  BY Concatenated
<1> HIDE DEF s, t, l
<1>2. ASSUME NEW m \in Nat, m <= Len(x), m <= Len(y), \A i \in 1 .. m : x[i] = y[i],
             NEW k \in 1 .. l + m
      PROVE  s[k] = t[k]
  <2>1. CASE k <= l
    BY <1>1, <1>2, <2>1
  <2>2. CASE k > l
    <3>1. /\ k - l \in 1 .. Len(x) /\ k - l \in 1 .. Len(y) /\ k - l \in 1 .. m
          /\ l + (k - l) = k
      BY <1>1, <1>2, <2>2
    <3>2. s[l + (k - l)] = x[k - l] /\ t[l + (k - l)] = y[k - l]
      BY <1>1, <3>1
    <3> QED BY <1>2, <3>1, <3>2
  <2> QED BY <1>1, <2>1, <2>2
<1>3. CASE Len(x) < Len(y) /\ \A i \in 1 .. Len(x) : x[i] = y[i]
  <2>1. \A k \in 1 .. Len(s) : s[k] = t[k]
    <3>1. Len(x) <= Len(x) /\ Len(x) <= Len(y) /\ Len(x) \in Nat
      BY <1>1, <1>3
    <3>2. \A k \in 1 .. l + Len(x) : s[k] = t[k]
      BY <1>2, <1>3, <3>1
    <3> QED BY <1>1, <3>2
  <2>2. Len(s) < Len(t)
    BY <1>1, <1>3
  <2>3. Before(s, t)
    BY <1>1, <2>1, <2>2, BeforeIs
  <2> QED BY <2>3 DEF s, t
<1>4. CASE \E i \in 1 .. Len(x) : /\ i <= Len(y) /\ x[i] < y[i]
                                  /\ \A j \in 1 .. i - 1 : x[j] = y[j]
  <2>1. PICK i \in 1 .. Len(x) : /\ i <= Len(y) /\ x[i] < y[i]
                                 /\ \A j \in 1 .. i - 1 : x[j] = y[j]
    BY <1>4
  <2>2. l + i \in 1 .. Len(s) /\ l + i <= Len(t) /\ i \in 1 .. Len(y)
    BY <1>1, <2>1
  <2>3. s[l + i] < t[l + i]
    BY <1>1, <2>1, <2>2
  <2>4. i - 1 \in Nat /\ i - 1 <= Len(x) /\ i - 1 <= Len(y)
    <3>1. Len(x) \in Nat /\ Len(y) \in Nat
      BY <1>1
    <3>2. i \in 1 .. Len(x) /\ i <= Len(y)
      BY <2>1
    <3> QED BY <3>1, <3>2
  <2>5. \A k \in 1 .. l + (i - 1) : s[k] = t[k]
    BY <1>2, <2>1, <2>4
  <2>6. \A k \in 1 .. (l + i) - 1 : s[k] = t[k]
    <3>1. i \in Int /\ l \in Int
      BY <1>1
    <3>2. (l + i) - 1 = l + (i - 1)
      BY <3>1
    <3> QED BY <2>5, <3>2
  <2>7. Before(s, t)
    BY <1>1, <2>2, <2>3, <2>6, BeforeIs
  <2> QED BY <2>7 DEF s, t
<1> QED BY <1>3, <1>4, BeforeIs

\* Fields of the same width put together are ordered by the first, then by the second.
LEMMA BeforeConcat ==
  ASSUME NEW p \in Seq(Nat), NEW q \in Seq(Nat), Len(p) = Len(q),
         NEW x \in Seq(Nat), NEW y \in Seq(Nat)
  PROVE  Before(p \o x, q \o y) <=> Before(p, q) \/ (p = q /\ Before(x, y))
<1>1. p \o x \in Seq(Nat) /\ q \o y \in Seq(Nat)
  BY Concatenated
<1>2. Before(p, q) => Before(p \o x, q \o y)
  BY BeforeByBeginning
<1>3. p = q /\ Before(x, y) => Before(p \o x, q \o y)
  BY BeforeByEnd
<1>4. ASSUME Before(p \o x, q \o y), ~Before(p, q)
      PROVE  p = q /\ Before(x, y)
  <2>1. ~Before(q \o y, p \o x) /\ p \o x # q \o y
    BY <1>1, <1>4, BeforeAntisymmetric
  <2>2. p = q
    BY <1>4, <2>1, BeforeTotal, BeforeByBeginning
  <2>3. ~Before(y, x) /\ x # y
    BY <2>1, <2>2, BeforeByEnd
  <2> QED BY <2>2, <2>3, BeforeTotal
<1> QED BY <1>2, <1>3, <1>4

-----------------------------------------------------------------------------
(* Finite sets in an order, and the place of an element.                   *)

\* R is a strict total order of S.
Orders(R, S) ==
  /\ \A x \in S : <<x, x>> \notin R
  /\ \A x, y \in S : x # y => <<x, y>> \in R \/ <<y, x>> \in R
  /\ \A x, y, z \in S : <<x, y>> \in R /\ <<y, z>> \in R => <<x, z>> \in R

\* The elements of S that come before x.
Below(x, S, R) == {y \in S : <<y, x>> \in R}

\* How many they are.
Rank(x, S, R) == Cardinality(Below(x, S, R))

\* A rank is below the size of the set.
LEMMA RankType ==
  ASSUME NEW S, IsFiniteSet(S), NEW R, Orders(R, S), NEW x \in S
  PROVE  /\ Cardinality(S) \in Nat /\ IsFiniteSet(Below(x, S, R))
         /\ Rank(x, S, R) \in 0 .. Cardinality(S) - 1
<1>1. Below(x, S, R) \subseteq S /\ x \notin Below(x, S, R)
  BY DEF Below, Orders
<1>2. IsFiniteSet(Below(x, S, R)) /\ Cardinality(Below(x, S, R)) <= Cardinality(S)
  BY <1>1, FS_Subset
<1>3. Cardinality(Below(x, S, R)) # Cardinality(S)
  BY <1>1, FS_Subset
<1>4. Cardinality(S) \in Nat /\ Cardinality(Below(x, S, R)) \in Nat
  BY <1>2, FS_CardinalityType
<1> QED BY <1>2, <1>3, <1>4 DEF Rank

\* What comes first has the smaller rank.
LEMMA RankLess ==
  ASSUME NEW S, IsFiniteSet(S), NEW R, Orders(R, S), NEW x \in S, NEW y \in S, <<x, y>> \in R
  PROVE  Rank(x, S, R) < Rank(y, S, R)
<1>1. Below(x, S, R) \subseteq Below(y, S, R) /\ x \in Below(y, S, R) /\ x \notin Below(x, S, R)
  BY DEF Below, Orders
<1>2. IsFiniteSet(Below(y, S, R)) /\ IsFiniteSet(Below(x, S, R))
  BY RankType
<1>3. Cardinality(Below(x, S, R)) <= Cardinality(Below(y, S, R))
  BY <1>1, <1>2, FS_Subset
<1>4. Cardinality(Below(x, S, R)) # Cardinality(Below(y, S, R))
  BY <1>1, <1>2, FS_Subset
<1>5. Cardinality(Below(x, S, R)) \in Nat /\ Cardinality(Below(y, S, R)) \in Nat
  BY <1>2, FS_CardinalityType
<1> QED BY <1>3, <1>4, <1>5 DEF Rank

\* No two elements have the same rank.
LEMMA RankUnique ==
  ASSUME NEW S, IsFiniteSet(S), NEW R, Orders(R, S), NEW x \in S, NEW y \in S,
         Rank(x, S, R) = Rank(y, S, R)
  PROVE  x = y
<1>1. Rank(x, S, R) \in Int /\ Rank(y, S, R) \in Int
  <2>1. Rank(x, S, R) \in 0 .. Cardinality(S) - 1 /\ Rank(y, S, R) \in 0 .. Cardinality(S) - 1
    BY RankType
  <2> QED BY <2>1
<1>2. ASSUME x # y PROVE FALSE
  <2>1. <<x, y>> \in R \/ <<y, x>> \in R
    BY <1>2 DEF Orders
  <2>2. Rank(x, S, R) < Rank(y, S, R) \/ Rank(y, S, R) < Rank(x, S, R)
    BY <2>1, RankLess
  <2> QED BY <1>1, <2>2
<1> QED BY <1>2

\* Every number below the size of the set is the rank of an element.
LEMMA RankOnto ==
  ASSUME NEW S, IsFiniteSet(S), NEW R, Orders(R, S), NEW k \in 0 .. Cardinality(S) - 1
  PROVE  \E x \in S : Rank(x, S, R) = k
<1> DEFINE T == 0 .. Cardinality(S) - 1
           rank == [x \in S |-> Rank(x, S, R)]
<1>1. Cardinality(S) \in Nat
  BY FS_CardinalityType
<1>2. IsFiniteSet(T) /\ Cardinality(T) = Cardinality(S)
  <2>1. 0 \in Int /\ Cardinality(S) - 1 \in Int
    BY <1>1
  <2>2. IsFiniteSet(T) /\ Cardinality(T) = IF 0 > Cardinality(S) - 1 THEN 0
                                           ELSE (Cardinality(S) - 1) - 0 + 1
    BY <2>1, FS_Interval
  <2> QED BY <1>1, <2>2
<1>3. rank \in [S -> T]
  BY RankType
<1>4. rank \in Injection(S, T)
  <2>1. \A x, y \in S : rank[x] = rank[y] => x = y
    BY RankUnique
  <2> HIDE DEF rank, T
  <2> QED BY <1>3, <2>1 DEF Injection, IsInjective
<1>5. rank \in Surjection(S, T)
  <2> HIDE DEF rank, T
  <2> QED BY <1>2, <1>4, FS_Injection
<1>6. k \in T
  OBVIOUS
<1>7. \E x \in S : rank[x] = k
  <2> HIDE DEF rank, T
  <2> QED BY <1>5, <1>6 DEF Surjection
<1> QED BY <1>7

\* A list by rank has each element at its rank.
LEMMA RankIsIndex ==
  ASSUME NEW S, IsFiniteSet(S), NEW R, Orders(R, S), NEW walk \in [1 .. Cardinality(S) -> S],
         \A i \in 1 .. Cardinality(S) : Rank(walk[i], S, R) = i - 1, NEW x \in S
  PROVE  /\ Rank(x, S, R) \in 0 .. Cardinality(S) - 1
         /\ Rank(x, S, R) + 1 \in 1 .. Cardinality(S) /\ walk[Rank(x, S, R) + 1] = x
<1>1. Cardinality(S) \in Nat /\ Rank(x, S, R) \in 0 .. Cardinality(S) - 1
  BY RankType
<1>2. Rank(x, S, R) + 1 \in 1 .. Cardinality(S) /\ (Rank(x, S, R) + 1) - 1 = Rank(x, S, R)
  BY <1>1
<1>3. walk[Rank(x, S, R) + 1] \in S /\ Rank(walk[Rank(x, S, R) + 1], S, R) = Rank(x, S, R)
  BY <1>2
<1> QED BY <1>1, <1>2, <1>3, RankUnique

-----------------------------------------------------------------------------
(* Keys in order: what an iterator over the address database goes along.   *)

\* The pairs of strings of S in the order of LevelDB keys.
Earlier(S) == {e \in S \X S : Before(e[1], e[2])}

\* That is a total order.
LEMMA EarlierOrders ==
  ASSUME NEW S, S \subseteq Seq(Nat)
  PROVE  /\ Orders(Earlier(S), S)
         /\ \A x \in S : Below(x, S, Earlier(S)) = {y \in S : Before(y, x)}
<1>1. \A x, y \in S : <<x, y>> \in Earlier(S) <=> Before(x, y)
  BY DEF Earlier
<1>2. \A x \in S : ~Before(x, x)
  BY BeforeIrreflexive
<1>3. \A x, y \in S : x # y => Before(x, y) \/ Before(y, x)
  BY BeforeTotal
<1>4. \A x, y, z \in S : Before(x, y) /\ Before(y, z) => Before(x, z)
  BY BeforeTransitive
<1>5. Orders(Earlier(S), S)
  BY <1>1, <1>2, <1>3, <1>4 DEF Orders
<1> QED BY <1>1, <1>5 DEF Below

\* InOrder lists every key of a finite set once, each one at its place: the walk of
\* an iterator over the address database.
LEMMA KeysInOrder ==
  ASSUME NEW S, IsFiniteSet(S), S \subseteq Seq(Nat)
  PROVE  LET walk == InOrder(S, Before)
             place(x) == Cardinality({y \in S : Before(y, x)})
         IN  /\ walk \in [1 .. Cardinality(S) -> S] /\ Cardinality(S) \in Nat
             /\ \A i \in 1 .. Cardinality(S) : place(walk[i]) = i - 1
             /\ \A x \in S : /\ place(x) \in 0 .. Cardinality(S) - 1
                             /\ place(x) + 1 \in 1 .. Cardinality(S)
                             /\ walk[place(x) + 1] = x
<1> DEFINE R == Earlier(S)
           walk == InOrder(S, Before)
           place(x) == Cardinality({y \in S : Before(y, x)})
           n == Cardinality(S)
<1>1. n \in Nat
  BY FS_CardinalityType
<1>2. Orders(R, S) /\ \A x \in S : place(x) = Rank(x, S, R)
  BY EarlierOrders DEF Rank
<1>3. walk = [i \in 1 .. n |-> CHOOSE x \in S : place(x) = i - 1]
  BY DEF InOrder
<1> HIDE DEF R, walk, place
<1>4. ASSUME NEW i \in 1 .. n
      PROVE  walk[i] \in S /\ place(walk[i]) = i - 1
  <2>1. i - 1 \in 0 .. n - 1
    BY <1>1
  <2>2. \E x \in S : Rank(x, S, R) = i - 1
    BY <1>2, <2>1, RankOnto
  <2>3. \E x \in S : place(x) = i - 1
    BY <1>2, <2>2
  <2> QED BY <1>3, <2>3
<1>5. walk \in [1 .. n -> S] /\ \A i \in 1 .. n : Rank(walk[i], S, R) = i - 1
  BY <1>2, <1>3, <1>4
<1>6. ASSUME NEW x \in S
      PROVE  place(x) \in 0 .. n - 1 /\ place(x) + 1 \in 1 .. n /\ walk[place(x) + 1] = x
  <2>1. /\ Rank(x, S, R) \in 0 .. n - 1 /\ Rank(x, S, R) + 1 \in 1 .. n
        /\ walk[Rank(x, S, R) + 1] = x
    BY <1>2, <1>5, RankIsIndex, Zenon
  <2> QED BY <1>2, <2>1
<1> QED BY <1>1, <1>4, <1>5, <1>6 DEF walk, place

-----------------------------------------------------------------------------
(* The keys of blocks.                                                     *)

\* Fractions a / p, b / q and c / r compared without division.
LEMMA Ratios ==
  ASSUME NEW a \in Nat, NEW b \in Nat, NEW c \in Nat,
         NEW p \in Nat \ {0}, NEW q \in Nat \ {0}, NEW r \in Nat \ {0},
         a * q <= b * p, b * r <= c * q
  PROVE  /\ a * r <= c * p
         /\ a * r = c * p => a * q = b * p /\ b * r = c * q
<1>1. (a * q) * r <= (b * p) * r /\ (a * q # b * p => (a * q) * r < (b * p) * r)
  OBVIOUS
<1>2. (b * r) * p <= (c * q) * p /\ (b * r # c * q => (b * r) * p < (c * q) * p)
  OBVIOUS
<1>3. (a * r) * q <= (c * p) * q
  BY <1>1, <1>2
<1>4. a * r = c * p => (a * r) * q = (c * p) * q
  OBVIOUS
<1>5. a * r = c * p => a * q = b * p /\ b * r = c * q
  BY <1>1, <1>2, <1>4
<1> QED BY <1>3, <1>5

\* The pairs of numbers of S in the order of their decimal text.
Later(S) == {e \in S \X S : KeyBefore(e[1], e[2])}

\* That is a total order too, of the keys of the block database.
LEMMA KeyBeforeOrders ==
  ASSUME NEW S, S \subseteq Nat
  PROVE  /\ Orders(Later(S), S)
         /\ \A x \in S : Below(x, S, Later(S)) = {y \in S : KeyBefore(y, x)}
<1>1. \A n \in Nat : NumDigits(n) \in Nat /\ Power(10, NumDigits(n)) \in Nat \ {0}
  BY NumDigitsIs, PowerType
<1>2. ASSUME NEW a \in Nat, NEW b \in Nat
      PROVE  /\ ~KeyBefore(a, a)
             /\ a # b => KeyBefore(a, b) \/ KeyBefore(b, a)
  <2>1. PICK p \in Nat \ {0} : p = Power(10, NumDigits(a))
    BY <1>1
  <2>2. PICK q \in Nat \ {0} : q = Power(10, NumDigits(b))
    BY <1>1
  <2>3. PICK d \in Nat : d = NumDigits(a)
    BY <1>1
  <2>4. PICK e \in Nat : e = NumDigits(b)
    BY <1>1
  <2>5. /\ KeyBefore(a, b) <=> a * q < b * p \/ (a * q = b * p /\ d < e)
        /\ KeyBefore(b, a) <=> b * p < a * q \/ (b * p = a * q /\ e < d)
        /\ KeyBefore(a, a) <=> a * p < a * p \/ (a * p = a * p /\ d < d)
    BY <2>1, <2>2, <2>3, <2>4 DEF KeyBefore
  <2>6. a * q \in Nat /\ b * p \in Nat /\ a * p \in Nat
    OBVIOUS
  <2>7. ASSUME a * q = b * p, d = e PROVE a = b
    <3>1. p = q
      BY <2>1, <2>2, <2>3, <2>4, <2>7
    <3>2. a * p = b * p
      BY <2>7, <3>1
    <3> QED BY <3>2
  <2>8. a * q < b * p \/ a * q = b * p \/ b * p < a * q
    BY <2>6
  <2> QED BY <2>5, <2>6, <2>7, <2>8
<1>3. ASSUME NEW a \in Nat, NEW b \in Nat, NEW c \in Nat, KeyBefore(a, b), KeyBefore(b, c)
      PROVE  KeyBefore(a, c)
  <2>1. PICK p \in Nat \ {0} : p = Power(10, NumDigits(a))
    BY <1>1
  <2>2. PICK q \in Nat \ {0} : q = Power(10, NumDigits(b))
    BY <1>1
  <2>3. PICK r \in Nat \ {0} : r = Power(10, NumDigits(c))
    BY <1>1
  <2>4. /\ a * q < b * p \/ (a * q = b * p /\ NumDigits(a) < NumDigits(b))
        /\ b * r < c * q \/ (b * r = c * q /\ NumDigits(b) < NumDigits(c))
    BY <1>3, <2>1, <2>2, <2>3 DEF KeyBefore
  <2>5. a * q \in Nat /\ b * p \in Nat /\ b * r \in Nat /\ c * q \in Nat /\ a * r \in Nat /\ c * p \in Nat
    OBVIOUS
  <2>6. /\ a * r <= c * p
        /\ a * r = c * p => a * q = b * p /\ b * r = c * q
    <3>1. a * q <= b * p /\ b * r <= c * q
      BY <2>4, <2>5
    <3> QED BY <3>1, Ratios
  <2>7. a * r = c * p => NumDigits(a) < NumDigits(c)
    <3>1. ASSUME a * r = c * p PROVE NumDigits(a) < NumDigits(b) /\ NumDigits(b) < NumDigits(c)
      BY <2>4, <2>5, <2>6, <3>1
    <3> QED BY <1>1, <3>1
  <2>8. a * r < c * p \/ (a * r = c * p /\ NumDigits(a) < NumDigits(c))
    BY <2>5, <2>6, <2>7
  <2> QED BY <2>1, <2>3, <2>8 DEF KeyBefore
<1>4. \A x, y \in S : <<x, y>> \in Later(S) <=> KeyBefore(x, y)
  BY DEF Later
<1>5. Orders(Later(S), S)
  BY <1>2, <1>3, <1>4 DEF Orders
<1> QED BY <1>4, <1>5 DEF Below

\* InOrder lists every block of a finite set once, each one at its place.
LEMMA BlocksInOrder ==
  ASSUME NEW S, IsFiniteSet(S), S \subseteq Nat
  PROVE  LET walk == InOrder(S, KeyBefore)
             place(x) == Cardinality({y \in S : KeyBefore(y, x)})
         IN  /\ walk \in [1 .. Cardinality(S) -> S] /\ Cardinality(S) \in Nat
             /\ \A i \in 1 .. Cardinality(S) : place(walk[i]) = i - 1
             /\ \A x \in S : /\ place(x) \in 0 .. Cardinality(S) - 1
                             /\ place(x) + 1 \in 1 .. Cardinality(S)
                             /\ walk[place(x) + 1] = x
<1> DEFINE R == Later(S)
           walk == InOrder(S, KeyBefore)
           place(x) == Cardinality({y \in S : KeyBefore(y, x)})
           n == Cardinality(S)
<1>1. n \in Nat
  BY FS_CardinalityType
<1>2. Orders(R, S) /\ \A x \in S : place(x) = Rank(x, S, R)
  BY KeyBeforeOrders DEF Rank
<1>3. walk = [i \in 1 .. n |-> CHOOSE x \in S : place(x) = i - 1]
  BY DEF InOrder
<1> HIDE DEF R, walk, place
<1>4. ASSUME NEW i \in 1 .. n
      PROVE  walk[i] \in S /\ place(walk[i]) = i - 1
  <2>1. i - 1 \in 0 .. n - 1
    BY <1>1
  <2>2. \E x \in S : Rank(x, S, R) = i - 1
    BY <1>2, <2>1, RankOnto
  <2>3. \E x \in S : place(x) = i - 1
    BY <1>2, <2>2
  <2> QED BY <1>3, <2>3
<1>5. walk \in [1 .. n -> S] /\ \A i \in 1 .. n : Rank(walk[i], S, R) = i - 1
  BY <1>2, <1>3, <1>4
<1>6. ASSUME NEW x \in S
      PROVE  place(x) \in 0 .. n - 1 /\ place(x) + 1 \in 1 .. n /\ walk[place(x) + 1] = x
  <2>1. /\ Rank(x, S, R) \in 0 .. n - 1 /\ Rank(x, S, R) + 1 \in 1 .. n
        /\ walk[Rank(x, S, R) + 1] = x
    BY <1>2, <1>5, RankIsIndex, Zenon
  <2> QED BY <1>2, <2>1
<1> QED BY <1>1, <1>4, <1>5, <1>6 DEF walk, place

-----------------------------------------------------------------------------
(* What is read back.                                                      *)

\* g has the numbers that the beginnings of a byte string stand for.
Sums(g, bytes) ==
  /\ g \in [0 .. Len(bytes) -> Nat] /\ g[0] = 0
  /\ \A i \in 1 .. Len(bytes) : g[i] = Base * g[i - 1] + bytes[i]

\* Number has the value of the last sum: the recursive function in it exists.
LEMMA NumberIs ==
  ASSUME NEW bytes, Len(bytes) \in Nat, NEW g, Sums(g, bytes)
  PROVE  Number(bytes) = g[Len(bytes)]
<1> DEFINE n == Len(bytes)
           h == CHOOSE h : h = [i \in 0 .. n |-> IF i = 0 THEN 0 ELSE Base * h[i - 1] + bytes[i]]
<1>1. g = [i \in 0 .. n |-> IF i = 0 THEN 0 ELSE Base * g[i - 1] + bytes[i]]
  <2>1. ASSUME NEW i \in 0 .. n
        PROVE  g[i] = IF i = 0 THEN 0 ELSE Base * g[i - 1] + bytes[i]
    <3>1. i = 0 \/ i \in 1 .. n
      OBVIOUS
    <3> QED BY <3>1, Zenon DEF Sums
  <2>2. g \in [0 .. n -> Nat]
    BY DEF Sums
  <2> QED BY <2>1, <2>2
<1>2. h = [i \in 0 .. n |-> IF i = 0 THEN 0 ELSE Base * h[i - 1] + bytes[i]]
  BY <1>1
<1>3. Number(bytes) = h[n]
  BY Zenon DEF Number
<1> HIDE DEF h, n
<1>4. n \in Nat
  BY DEF n
<1> DEFINE Differ == {i \in 0 .. n : g[i] # h[i]}
<1>5. CASE Differ = {}
  <2>1. g[n] = h[n]
    BY <1>4, <1>5
  <2> QED BY <1>3, <2>1 DEF n
<1>6. CASE Differ # {}
  <2>1. Differ \subseteq Nat
    OBVIOUS
  <2> HIDE DEF Differ
  <2>2. PICK i \in Differ : \A k \in Differ : i <= k
    BY <1>6, <2>1, LeastNumber, Zenon
  <2> USE DEF Differ
  <2>3. i \in 0 .. n /\ g[i] # h[i]
    BY <2>2
  <2>4. i # 0
    BY <1>1, <1>2, <2>3
  <2>5. i - 1 \in 0 .. n /\ ~(i <= i - 1)
    <3> HIDE DEF Differ
    <3> QED BY <1>4, <2>3, <2>4
  <2>6. g[i - 1] = h[i - 1]
    BY <2>2, <2>5
  <2>7. g[i] = Base * g[i - 1] + bytes[i] /\ h[i] = Base * h[i - 1] + bytes[i]
    BY <1>1, <1>2, <2>3, <2>4
  <2> QED BY <2>3, <2>6, <2>7
<1> QED BY <1>5, <1>6

\* SetBytes of the bytes of a time is that time.
LEMMA TimeRead ==
  ASSUME NEW t, IsTime(t)
  PROVE  Number(Bytes(t)) = t
<1> DEFINE g == [i \in 0 .. TimeLen |-> Upper(t, i)]
<1>1. TimeLen \in Nat
  BY EncodingAssumption
<1>2. /\ Upper(t, 0) = 0 /\ Upper(t, TimeLen) = t
      /\ \A i \in 0 .. TimeLen : Upper(t, i) \in Nat
      /\ \A i \in 1 .. TimeLen : Upper(t, i) = Base * Upper(t, i - 1) + Bytes(t)[i]
  BY UpperSteps
<1>3. Len(Bytes(t)) = TimeLen
  BY <1>1, TimeBytes DEF Strings
<1>4. \A i \in 1 .. TimeLen : i \in 0 .. TimeLen /\ i - 1 \in 0 .. TimeLen
  BY <1>1
<1>5. g \in [0 .. TimeLen -> Nat] /\ g[0] = 0 /\ g[TimeLen] = t
  BY <1>1, <1>2
<1>6. \A i \in 1 .. TimeLen : g[i] = Base * g[i - 1] + Bytes(t)[i]
  BY <1>2, <1>4, Zenon
<1> HIDE DEF g
<1>7. Sums(g, Bytes(t))
  BY <1>3, <1>5, <1>6 DEF Sums
<1> QED BY <1>1, <1>3, <1>5, <1>7, NumberIs

\* Bytes() drops the sign.
LEMMA NoSign ==
  ASSUME NEW n \in Nat
  PROVE  Bytes(-n) = Bytes(n)
<1> DEFINE abs(m) == IF m < 0 THEN -m ELSE m
           len(a) == CHOOSE l \in 0 .. a : a < Power(Base, l) /\ (l = 0 \/ a >= Power(Base, l - 1))
           bytes(a) == [i \in 1 .. len(a) |-> (a \div Power(Base, len(a) - i)) % Base]
<1>1. Bytes(-n) = bytes(abs(-n)) /\ Bytes(n) = bytes(abs(n))
  BY Zenon DEF Bytes
<1>2. abs(-n) = n /\ abs(n) = n
  OBVIOUS
<1> HIDE DEF abs, bytes
<1> QED BY <1>1, <1>2, Zenon

-----------------------------------------------------------------------------
(* The value of a block, cut into its fields again.                        *)

\* A time fills its field, and nothing is added to it.
LEMMA TimeFieldIs ==
  ASSUME NEW t, IsTime(t)
  PROVE  TimeField(t) = Bytes(t) /\ Bytes(t) \in Strings(TimeLen)
<1>1. Bytes(t) \in Strings(TimeLen) /\ MarshallTime(t) = Bytes(t) /\ TimeLen \in Nat /\ Base \in Nat
  BY EncodingAssumption, TimeBytes
<1> DEFINE b == Bytes(t)
<1>2. b \in Seq(Nat) /\ Len(b) = TimeLen
  <2>1. b \in [1 .. TimeLen -> Nat]
    BY <1>1 DEF Strings
  <2> HIDE DEF b
  <2> QED BY <1>1, <2>1
<1> HIDE DEF b
<1>3. TimeField(t) = b \o [i \in 1 .. TimeLen - TimeLen |-> 0]
  BY <1>1, <1>2, Zenon DEF TimeField, b
<1>4. TimeLen - TimeLen = 0
  BY <1>1
<1>5. [i \in 1 .. 0 |-> 0] = <<>>
  OBVIOUS
<1>6. b \o <<>> = b
  BY <1>2
<1>7. TimeField(t) = b
  BY <1>3, <1>4, <1>5, <1>6
<1> QED BY <1>1, <1>7 DEF b

\* In which entry of width w, and where in it, the byte j of a list of entries is.
LEMMA Cell ==
  ASSUME NEW w \in Nat \ {0}, NEW i \in Nat \ {0}, NEW m \in 1 .. w
  PROVE  LET j == (i - 1) * w + m IN (j - 1) \div w = i - 1 /\ (j - 1) % w = m - 1
<1>1. PICK p \in Nat : p = (i - 1) * w
  OBVIOUS
<1>2. (p + m) - 1 = p + (m - 1) /\ (p + m) - 1 \in Nat /\ m - 1 \in 0 .. w - 1 /\ i - 1 \in Nat
  BY <1>1
<1>3. (p + m) - 1 = w * (i - 1) + (m - 1)
  BY <1>1, <1>2
<1> QED BY <1>1, <1>2, <1>3, DivUnique

\* n entries of width w have n * w bytes, and no entry reaches beyond them.
LEMMA Grid ==
  ASSUME NEW w \in Nat \ {0}, NEW n \in Nat
  PROVE  /\ n * w \in Nat /\ (n * w) \div w = n
         /\ \A i \in 1 .. n : (i - 1) * w \in Nat /\ i * w = (i - 1) * w + w /\ i * w <= n * w
<1>1. n * w \in Nat /\ n * w = w * n + 0 /\ 0 \in 0 .. w - 1
  OBVIOUS
<1>2. (n * w) \div w = n
  BY <1>1, DivUnique
<1>3. ASSUME NEW i \in 1 .. n
      PROVE  (i - 1) * w \in Nat /\ i * w = (i - 1) * w + w /\ i * w <= n * w
  OBVIOUS
<1> QED BY <1>1, <1>2, <1>3

\* v is cut into x, y and z, where x and y have the length l.
Parted(v, x, y, z, l) ==
  SubSeq(v, 1, l) = x /\ SubSeq(v, l + 1, 2 * l) = y /\ SubSeq(v, 2 * l + 1, Len(v)) = z

\* The parts of a string are cut from it again.
LEMMA ThreeParts ==
  ASSUME NEW l \in Nat, NEW x \in Seq(Nat), NEW y \in Seq(Nat), NEW z \in Seq(Nat), Len(x) = l, Len(y) = l
  PROVE  Parted(x \o y \o z, x, y, z, l)
<1> DEFINE v == x \o y \o z
<1>1. /\ v \in Seq(Nat) /\ Len(v) = 2 * l + Len(z) /\ Len(z) \in Nat
      /\ \A i \in 1 .. l : v[i] = x[i]
      /\ \A i \in 1 .. l : v[l + i] = y[i]
      /\ \A i \in 1 .. Len(z) : v[2 * l + i] = z[i]
  <2> DEFINE u == x \o y
  <2>1. /\ u \in Seq(Nat) /\ Len(u) = 2 * l
        /\ \A i \in 1 .. l : u[i] = x[i]
        /\ \A i \in 1 .. l : u[l + i] = y[i]
    <3>1. /\ u \in Seq(Nat) /\ Len(u) = Len(x) + Len(y)
          /\ \A i \in 1 .. Len(x) : u[i] = x[i]
          /\ \A i \in 1 .. Len(y) : u[Len(x) + i] = y[i]
      BY Concatenated, Zenon
    <3> HIDE DEF u
    <3>2. l + l = 2 * l
      OBVIOUS
    <3> QED BY <3>1, <3>2, Zenon
  <2> HIDE DEF u
  <2>2. /\ u \o z \in Seq(Nat) /\ Len(z) \in Nat /\ Len(u \o z) = 2 * l + Len(z)
        /\ \A i \in 1 .. 2 * l : (u \o z)[i] = u[i]
        /\ \A i \in 1 .. Len(z) : (u \o z)[2 * l + i] = z[i]
    <3>1. u \in Seq(Nat) /\ Len(u) = 2 * l
      BY <2>1
    <3>2. /\ u \o z \in Seq(Nat) /\ Len(z) \in Nat /\ Len(u \o z) = Len(u) + Len(z)
          /\ \A i \in 1 .. Len(u) : (u \o z)[i] = u[i]
          /\ \A i \in 1 .. Len(z) : (u \o z)[Len(u) + i] = z[i]
      BY <3>1, Concatenated, Zenon
    <3> QED BY <3>1, <3>2, Zenon
  <2>3. \A i \in 1 .. l : i \in 1 .. 2 * l /\ l + i \in 1 .. 2 * l
    OBVIOUS
  <2>4. v = u \o z
    BY DEF u
  <2> HIDE DEF v
  <2> QED BY <2>1, <2>2, <2>3, <2>4
<1> HIDE DEF v
<1>2. SubSeq(v, 1, l) = x
  <2>1. Len(x) = (l - 1) + 1 /\ \A i \in 1 .. Len(x) : v[(1 - 1) + i] = x[i]
    BY <1>1
  <2>2. v \in Seq(Nat) /\ l <= Len(v) /\ 1 \in Nat \ {0}
    BY <1>1
  <2> QED BY <2>1, <2>2, CutOut, Zenon
<1>3. SubSeq(v, l + 1, 2 * l) = y
  <2>1. Len(y) = (2 * l - (l + 1)) + 1 /\ \A i \in 1 .. Len(y) : v[((l + 1) - 1) + i] = y[i]
    BY <1>1
  <2>2. v \in Seq(Nat) /\ 2 * l <= Len(v) /\ l + 1 \in Nat \ {0} /\ 2 * l \in Nat
    BY <1>1
  <2> QED BY <2>1, <2>2, CutOut, Zenon
<1>4. SubSeq(v, 2 * l + 1, Len(v)) = z
  <2>1. /\ Len(z) = (Len(v) - (2 * l + 1)) + 1
        /\ \A i \in 1 .. Len(z) : v[((2 * l + 1) - 1) + i] = z[i]
    BY <1>1
  <2>2. v \in Seq(Nat) /\ Len(v) <= Len(v) /\ 2 * l + 1 \in Nat \ {0} /\ Len(v) \in Nat
    BY <1>1
  <2> QED BY <2>1, <2>2, CutOut, Zenon
<1>5. Parted(v, x, y, z, l)
  BY <1>2, <1>3, <1>4, Zenon DEF Parted
<1> QED BY <1>5 DEF v

\* The addresses of a record: each with the last sequence of a row.
Named(n) == [1 .. n -> [address : Strings(AddressLen), sequence : 0 .. Base - 1]]

\* An address with its last sequence has one byte more than the address.
LEMMA EntryIs ==
  ASSUME NEW a \in Strings(AddressLen), NEW s \in 0 .. Base - 1
  PROVE  /\ Append(a, s) \in [1 .. AddressLen + 1 -> Nat]
         /\ \A m \in 1 .. AddressLen : Append(a, s)[m] = a[m]
         /\ Append(a, s)[AddressLen + 1] = s
<1>1. AddressLen \in Nat /\ Base \in Nat
  BY EncodingAssumption
<1>2. a \in [1 .. AddressLen -> Nat] /\ s \in Nat
  BY <1>1 DEF Strings
<1>3. a \in Seq(Nat) /\ Len(a) = AddressLen
  BY <1>1, <1>2
<1>4. /\ Append(a, s) \in Seq(Nat) /\ Len(Append(a, s)) = AddressLen + 1
      /\ \A m \in 1 .. AddressLen : Append(a, s)[m] = a[m]
      /\ Append(a, s)[AddressLen + 1] = s
  <2>1. /\ Append(a, s) \in Seq(Nat) /\ Len(Append(a, s)) = Len(a) + 1
        /\ \A m \in 1 .. Len(a) : Append(a, s)[m] = a[m]
        /\ Append(a, s)[Len(a) + 1] = s
    BY <1>2, <1>3, AppendProperties
  <2> QED BY <1>3, <2>1, Zenon
<1> DEFINE e == Append(a, s)
<1> HIDE DEF e
<1>5. e \in [1 .. AddressLen + 1 -> Nat]
  <2>1. e \in Seq(Nat) /\ Len(e) = AddressLen + 1
    BY <1>4 DEF e
  <2> QED BY <2>1
<1> QED BY <1>4, <1>5, Zenon DEF e

\* What the bytes of a record after its two times are.
Spread(entries, n, w) ==
  [j \in 1 .. n * w |-> entries[((j - 1) \div w) + 1][((j - 1) % w) + 1]]

\* The byte m of the entry i is found at (i - 1) * w + m.
LEMMA SpreadIs ==
  ASSUME NEW n \in Nat, NEW w \in Nat \ {0}, NEW entries \in [1 .. n -> [1 .. w -> Nat]]
  PROVE  /\ Spread(entries, n, w) \in Seq(Nat) /\ Len(Spread(entries, n, w)) = n * w
         /\ \A i \in 1 .. n, m \in 1 .. w : Spread(entries, n, w)[(i - 1) * w + m] = entries[i][m]
<1> DEFINE z == Spread(entries, n, w)
<1>1. PICK size \in Nat : size = n * w
  BY Grid
<1>2. ASSUME NEW j \in 1 .. size
      PROVE  ((j - 1) \div w) + 1 \in 1 .. n /\ ((j - 1) % w) + 1 \in 1 .. w
  <2>1. j - 1 \in Nat /\ j - 1 < size
    BY <1>1
  <2>2. PICK q \in Nat, r \in 0 .. w - 1 :
          q = (j - 1) \div w /\ r = (j - 1) % w /\ j - 1 = w * q + r
    BY <2>1, DivIs
  <2>3. q < n
    <3> SUFFICES ASSUME n <= q PROVE FALSE
      BY <2>2
    <3>1. n * w <= q * w
      OBVIOUS
    <3> QED BY <1>1, <2>1, <2>2, <3>1
  <2> QED BY <2>2, <2>3
<1>3. z = [j \in 1 .. size |-> entries[((j - 1) \div w) + 1][((j - 1) % w) + 1]]
  BY <1>1, Zenon DEF Spread
<1>4. z \in [1 .. size -> Nat]
  BY <1>2, <1>3
<1> HIDE DEF z
<1>5. z \in Seq(Nat) /\ Len(z) = size
  BY <1>4
<1>6. ASSUME NEW i \in 1 .. n, NEW m \in 1 .. w
      PROVE  z[(i - 1) * w + m] = entries[i][m]
  <2>1. PICK j : j = (i - 1) * w + m
    OBVIOUS
  <2>2. j \in 1 .. size
    <3>1. (i - 1) * w \in Nat /\ i * w = (i - 1) * w + w /\ i * w <= n * w
      BY Grid
    <3>2. PICK p \in Nat : p = (i - 1) * w
      BY <3>1
    <3>3. PICK e \in Nat : e = i * w
      BY <3>1
    <3>4. j = p + m /\ e = p + w /\ e <= size
      BY <1>1, <2>1, <3>1, <3>2, <3>3, Zenon
    <3> QED BY <3>4
  <2>3. (j - 1) \div w = i - 1 /\ (j - 1) % w = m - 1
    <3>1. i \in Nat \ {0}
      OBVIOUS
    <3>2. /\ (((i - 1) * w + m) - 1) \div w = i - 1
          /\ (((i - 1) * w + m) - 1) % w = m - 1
      BY <3>1, Cell, Zenon
    <3> QED BY <2>1, <3>2, Zenon
  <2>4. (i - 1) + 1 = i /\ (m - 1) + 1 = m
    OBVIOUS
  <2>5. z[j] = entries[((j - 1) \div w) + 1][((j - 1) % w) + 1]
    BY <1>3, <2>2
  <2>6. z[j] = entries[i][m]
    BY <2>3, <2>4, <2>5
  <2> QED BY <2>1, <2>6
<1> QED BY <1>1, <1>5, <1>6 DEF z

\* UnmarshallBlockValue reads what MarshallBlockValue wrote: both times, and every
\* address with its last sequence.
LEMMA RecordRead ==
  ASSUME NEW index, IsTime(index.time), IsTime(index.createdAt),
         NEW n \in Nat, index.addresses \in Named(n)
  PROVE  LET read == UnmarshallBlockValue(MarshallBlockValue(index))
         IN  /\ read.time = index.time /\ read.createdAt = index.createdAt
             /\ read.addresses = index.addresses
<1> DEFINE list == index.addresses
           w == AddressLen + 1
           entries == [i \in DOMAIN list |-> Append(list[i].address, list[i].sequence)]
           z == Spread(entries, n, w)
           x == TimeField(index.createdAt)
           y == TimeField(index.time)
           v == x \o y \o z
<1>1. AddressLen \in Nat \ {0} /\ Base \in Nat \ {0, 1} /\ TimeLen \in Nat \ {0} /\ w \in Nat \ {0}
  BY EncodingAssumption
<1>2. list \in [1 .. n -> [address : Strings(AddressLen), sequence : 0 .. Base - 1]] /\ DOMAIN list = 1 .. n
  BY DEF Named
<1> HIDE DEF list
<1>3. \A i \in 1 .. n : list[i].address \in Strings(AddressLen) /\ list[i].sequence \in 0 .. Base - 1
  BY <1>2
<1>4. ASSUME NEW i \in 1 .. n
      PROVE  /\ entries[i] \in [1 .. w -> Nat]
             /\ \A m \in 1 .. AddressLen : entries[i][m] = list[i].address[m]
             /\ entries[i][w] = list[i].sequence
  <2>1. entries[i] = Append(list[i].address, list[i].sequence)
    BY <1>2
  <2>2. list[i].address \in Strings(AddressLen) /\ list[i].sequence \in 0 .. Base - 1
    BY <1>3
  <2> DEFINE e == Append(list[i].address, list[i].sequence)
  <2>3. /\ e \in [1 .. w -> Nat]
        /\ \A m \in 1 .. AddressLen : e[m] = list[i].address[m]
        /\ e[w] = list[i].sequence
    BY <2>2, EntryIs, Zenon
  <2> HIDE DEF entries, e
  <2>4. entries[i] = e
    BY <2>1 DEF e
  <2> QED BY <2>3, <2>4, Zenon
<1>5. entries \in [1 .. n -> [1 .. w -> Nat]] /\ Len(entries) = n
  <2>1. entries \in [1 .. n -> [1 .. w -> Nat]]
    BY <1>2, <1>4
  <2> HIDE DEF entries, w
  <2> QED BY <2>1
<1>6. MarshallBlockValue(index) = v
  <2>1. MarshallBlockValue(index) = x \o y \o
          [j \in 1 .. Len(entries) * w |-> entries[((j - 1) \div w) + 1][((j - 1) % w) + 1]]
    BY Zenon DEF MarshallBlockValue, list
  <2> HIDE DEF entries, w, x, y
  <2> QED BY <1>5, <2>1, Zenon DEF Spread
<1>7. /\ z \in Seq(Nat) /\ Len(z) = n * w
      /\ \A i \in 1 .. n, m \in 1 .. w : z[(i - 1) * w + m] = entries[i][m]
  <2> HIDE DEF entries, w
  <2> QED BY <1>1, <1>5, SpreadIs, Zenon
<1> HIDE DEF z, entries
<1>8. /\ x = Bytes(index.createdAt) /\ y = Bytes(index.time)
      /\ x \in Strings(TimeLen) /\ y \in Strings(TimeLen)
  BY TimeFieldIs
<1>9. x \in Seq(Nat) /\ y \in Seq(Nat) /\ Len(x) = TimeLen /\ Len(y) = TimeLen
  <2>1. x \in [1 .. TimeLen -> Nat] /\ y \in [1 .. TimeLen -> Nat]
    BY <1>1, <1>8 DEF Strings
  <2> HIDE DEF x, y
  <2> QED BY <1>1, <2>1
<1> HIDE DEF x, y
<1>10. /\ SubSeq(v, 1, TimeLen) = x /\ SubSeq(v, TimeLen + 1, 2 * TimeLen) = y
       /\ SubSeq(v, 2 * TimeLen + 1, Len(v)) = z
  <2>1. TimeLen \in Nat /\ z \in Seq(Nat)
    BY <1>1, <1>7
  <2>2. Parted(v, x, y, z, TimeLen)
    BY <1>9, <2>1, ThreeParts, Zenon
  <2> HIDE DEF v
  <2> QED BY <2>2, Zenon DEF Parted
<1> HIDE DEF v
<1> DEFINE read == UnmarshallBlockValue(v)
           fields == [i \in 1 .. Len(z) \div w |->
                        [address  |-> SubSeq(z, (i - 1) * w + 1, i * w - 1),
                         sequence |-> z[i * w]]]
<1>11. read = [createdAt |-> Number(x), time |-> Number(y), addresses |-> fields]
  <2> HIDE DEF w
  <2> QED BY <1>10, Zenon DEF UnmarshallBlockValue, w
<1>12. read.time = index.time /\ read.createdAt = index.createdAt /\ read.addresses = fields
  <2>1. Number(x) = index.createdAt /\ Number(y) = index.time
    BY <1>8, TimeRead
  <2> HIDE DEF read, fields
  <2> QED BY <1>11, <2>1
<1>13. Len(z) \div w = n
  <2> HIDE DEF w
  <2> QED BY <1>1, <1>7, Grid
<1>14. ASSUME NEW i \in 1 .. n
       PROVE  /\ SubSeq(z, (i - 1) * w + 1, i * w - 1) = list[i].address
              /\ z[i * w] = list[i].sequence
  <2> DEFINE s == SubSeq(z, (i - 1) * w + 1, i * w - 1)
             a == list[i].address
  <2>1. (i - 1) * w \in Nat /\ i * w = (i - 1) * w + w /\ i * w <= n * w
    BY <1>1, Grid
  <2>2. PICK p \in Nat : p = (i - 1) * w
    BY <2>1
  <2>3. i * w = p + w /\ (p + w) - 1 = p + AddressLen /\ Len(z) \in Nat /\ p + w <= Len(z)
    BY <1>1, <1>7, <2>1, <2>2
  <2>4. \A m \in 1 .. w : z[p + m] = entries[i][m]
    BY <1>7, <2>2
  <2>5. s = SubSeq(z, p + 1, p + AddressLen)
    BY <2>2, <2>3
  <2>6. a \in Seq(Nat) /\ Len(a) = AddressLen
    <3>1. a \in [1 .. AddressLen -> Nat]
      BY <1>1, <1>3 DEF Strings
    <3> HIDE DEF a
    <3> QED BY <1>1, <3>1
  <2>7. \A m \in 1 .. AddressLen : m \in 1 .. w
    BY <1>1
  <2>8. \A m \in 1 .. AddressLen : z[p + m] = a[m]
    BY <1>4, <2>4, <2>7
  <2> HIDE DEF a, s
  <2>9. /\ Len(a) = ((p + AddressLen) - (p + 1)) + 1
        /\ \A m \in 1 .. Len(a) : z[((p + 1) - 1) + m] = a[m]
    <3>1. (p + 1) - 1 = p /\ AddressLen = ((p + AddressLen) - (p + 1)) + 1
      BY <1>1
    <3> QED BY <2>6, <2>8, <3>1, Zenon
  <2>10. s = a
    <3>1. p + 1 \in Nat \ {0} /\ p + AddressLen \in Nat /\ p + AddressLen <= Len(z) /\ z \in Seq(Nat)
      BY <1>1, <1>7, <2>3
    <3> QED BY <2>5, <2>6, <2>9, <3>1, CutOut, Zenon
  <2>11. w \in 1 .. w
    BY <1>1
  <2>12. z[i * w] = list[i].sequence
    BY <1>4, <2>3, <2>4, <2>11
  <2> QED BY <2>10, <2>12 DEF s, a
<1>15. fields = list
  <2>1. \A i \in 1 .. n : fields[i] = list[i]
    <3> SUFFICES ASSUME NEW i \in 1 .. n PROVE fields[i] = list[i]
      OBVIOUS
    <3>1. fields[i] = [address |-> list[i].address, sequence |-> list[i].sequence]
      <4> HIDE DEF w
      <4> QED BY <1>13, <1>14
    <3>2. list[i] = [address |-> list[i].address, sequence |-> list[i].sequence]
      BY <1>2
    <3> QED BY <3>1, <3>2
  <2>2. fields = [i \in 1 .. n |-> fields[i]] /\ list = [i \in 1 .. n |-> list[i]]
    BY <1>2, <1>13
  <2> HIDE DEF fields
  <2> QED BY <2>1, <2>2
<1> HIDE DEF read, fields
<1> QED BY <1>6, <1>12, <1>15 DEF read, list
=============================================================================

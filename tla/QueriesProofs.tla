--------------------------- MODULE QueriesProofs ----------------------------
(***************************************************************************)
(* The pages of the http server are right, for every number of rows, of    *)
(* accounts and of blocks, and every width of a byte string: the order and *)
(* the ranges of keys are those of the rows they stand for, so a page is a *)
(* cut of the answer, and rows that come only move what is on later pages. *)
(* The inductive invariant says what is stored and what a client has got.  *)
(***************************************************************************)
EXTENDS Queries, EncodingProofs

\* A row of the address database: what CreateIndexData makes of a transaction.
Rows == [address : Addresses, time : Blocks, seq : 1 .. Base - 1]

\* The time of a block has TimeLen bytes.
LEMMA BlocksAreTimes ==
  \A t \in Blocks : IsTime(t) /\ t # NoTime
<1>1. TimeLen - 1 \in Nat /\ TimeLen \in Nat /\ Base \in Nat \ {0}
  BY EncodingAssumption
<1>2. Power(Base, TimeLen) \in Nat
  BY <1>1, PowerType
<1>3. ASSUME NEW t \in Blocks
      PROVE  IsTime(t) /\ t # NoTime
  <2>1. t \in Nat /\ t # NoTime
    BY TimesAssumption DEF NoTime
  <2>2. Power(Base, TimeLen - 1) <= t /\ t + 1 < Power(Base, TimeLen)
    BY <2>1, TimesAssumption
  <2> QED BY <1>2, <2>1, <2>2 DEF IsTime
<1> QED BY <1>3

\* A byte string is a sequence of numbers.
LEMMA StringsAreSeqs ==
  ASSUME NEW l \in Nat, NEW s \in Strings(l)
  PROVE  s \in Seq(Nat) /\ Len(s) = l
<1>1. Base \in Nat
  BY EncodingAssumption
<1>2. s \in [1 .. l -> Nat]
  BY <1>1 DEF Strings
<1>3. s \in UNION {[1 .. n -> Nat] : n \in Nat}
  BY <1>2
<1>4. s \in Seq(Nat)
  BY <1>3, SeqDef
<1> QED BY <1>2, <1>4, LenProperties

\* Putting strings together, in whatever order.
LEMMA Associative ==
  ASSUME NEW s \in Seq(Nat), NEW t \in Seq(Nat), NEW u \in Seq(Nat)
  PROVE  /\ (s \o t) \o u = s \o (t \o u)
         /\ s \o t \in Seq(Nat) /\ Len(s \o t) = Len(s) + Len(t)
<1>1. (s \o t) \o u = s \o (t \o u)
  OBVIOUS
<1>2. s \o t \in Seq(Nat) /\ Len(s \o t) = Len(s) + Len(t)
  BY ConcatProperties, Zenon
<1> QED BY <1>1, <1>2

\* A key is the address, the bytes of the time and the sequence, each of its width.
LEMMA KeyParts ==
  ASSUME NEW r \in Rows
  PROVE  /\ r.address \in Strings(AddressLen) /\ r.address \in Seq(Nat) /\ Len(r.address) = AddressLen
         /\ Bytes(r.time) \in Seq(Nat) /\ Len(Bytes(r.time)) = TimeLen
         /\ <<r.seq>> \in Seq(Nat) /\ Len(<<r.seq>>) = 1
         /\ Bytes(r.time) \o <<r.seq>> \in Seq(Nat)
         /\ KeyOf(r) = r.address \o (Bytes(r.time) \o <<r.seq>>)
         /\ KeyOf(r) \in Seq(Nat) /\ Len(KeyOf(r)) = AddressLen + TimeLen + 1
<1>1. r.address \in Addresses /\ r.time \in Blocks /\ r.seq \in 1 .. Base - 1
  BY DEF Rows
<1>2. AddressLen \in Nat /\ TimeLen \in Nat /\ Base \in Nat
  BY EncodingAssumption
<1>3. r.address \in Strings(AddressLen)
  BY <1>1, AddressesAssumption DEF Strings
<1>4. r.address \in Seq(Nat) /\ Len(r.address) = AddressLen
  BY <1>2, <1>3, StringsAreSeqs
<1>5. Bytes(r.time) \in Strings(TimeLen) /\ MarshallTime(r.time) = Bytes(r.time)
  BY <1>1, BlocksAreTimes, TimeBytes
<1>6. Bytes(r.time) \in Seq(Nat) /\ Len(Bytes(r.time)) = TimeLen
  BY <1>2, <1>5, StringsAreSeqs
<1>7. r.seq \in Nat
  BY <1>1, <1>2
<1>8. <<r.seq>> \in Seq(Nat) /\ Len(<<r.seq>>) = 1
  BY <1>7
<1>9. KeyOf(r) = (r.address \o Bytes(r.time)) \o <<r.seq>>
  BY <1>5 DEF KeyOf, MarshallAddressKey
<1>10. KeyOf(r) = r.address \o (Bytes(r.time) \o <<r.seq>>)
  <2>1. (r.address \o Bytes(r.time)) \o <<r.seq>> = r.address \o (Bytes(r.time) \o <<r.seq>>)
    BY <1>4, <1>6, <1>8, Associative, Zenon
  <2> QED BY <1>9, <2>1, Zenon
<1>11. Bytes(r.time) \o <<r.seq>> \in Seq(Nat) /\ Len(Bytes(r.time) \o <<r.seq>>) = TimeLen + 1
  BY <1>2, <1>6, <1>8, ConcatProperties
<1>12. KeyOf(r) \in Seq(Nat) /\ Len(KeyOf(r)) = AddressLen + TimeLen + 1
  <2>1. /\ r.address \o (Bytes(r.time) \o <<r.seq>>) \in Seq(Nat)
        /\ Len(r.address \o (Bytes(r.time) \o <<r.seq>>)) =
             Len(r.address) + Len(Bytes(r.time) \o <<r.seq>>)
    BY <1>4, <1>11, Associative, Zenon
  <2>2. Len(KeyOf(r)) = AddressLen + (TimeLen + 1)
    BY <1>4, <1>10, <1>11, <2>1, Zenon
  <2>3. AddressLen + (TimeLen + 1) = AddressLen + TimeLen + 1
    BY <1>2
  <2> QED BY <1>10, <2>1, <2>2, <2>3, Zenon
<1> QED BY <1>3, <1>4, <1>6, <1>8, <1>10, <1>11, <1>12

\* The bytes of times are in the order of the times.
LEMMA TimesBefore ==
  ASSUME NEW s, NEW t, IsTime(s), IsTime(t)
  PROVE  /\ Before(Bytes(s), Bytes(t)) <=> s < t
         /\ Bytes(s) = Bytes(t) <=> s = t
         /\ Bytes(s) \in Seq(Nat) /\ Len(Bytes(s)) = TimeLen /\ Bytes(t) \in Seq(Nat) /\ Len(Bytes(t)) = TimeLen
<1>1. TimeLen \in Nat /\ s \in Nat /\ t \in Nat
  BY EncodingAssumption DEF IsTime
<1>2. /\ Bytes(s) \in Seq(Nat) /\ Len(Bytes(s)) = TimeLen
      /\ Bytes(t) \in Seq(Nat) /\ Len(Bytes(t)) = TimeLen
  BY <1>1, TimeBytes, StringsAreSeqs
<1>3. ASSUME NEW u, NEW v, IsTime(u), IsTime(v), u < v,
             Bytes(u) \in Seq(Nat), Bytes(v) \in Seq(Nat), Len(Bytes(u)) = TimeLen, Len(Bytes(v)) = TimeLen
      PROVE  Before(Bytes(u), Bytes(v))
  <2>1. PICK i \in 1 .. TimeLen : /\ Bytes(u)[i] < Bytes(v)[i]
                                  /\ \A j \in 1 .. i - 1 : Bytes(u)[j] = Bytes(v)[j]
    BY <1>3, TimesInOrder
  <2>2. i \in 1 .. Len(Bytes(u)) /\ i <= Len(Bytes(v))
    BY <1>1, <1>3, <2>1
  <2> QED BY <1>3, <2>1, <2>2, BeforeIs
<1>4. s < t => Before(Bytes(s), Bytes(t))
  BY <1>2, <1>3
<1>5. t < s => Before(Bytes(t), Bytes(s))
  BY <1>2, <1>3
<1>6. Before(Bytes(s), Bytes(t)) => ~Before(Bytes(t), Bytes(s)) /\ Bytes(s) # Bytes(t)
  BY <1>2, BeforeAntisymmetric
<1>7. Before(Bytes(t), Bytes(s)) => ~Before(Bytes(s), Bytes(t)) /\ Bytes(s) # Bytes(t)
  BY <1>2, BeforeAntisymmetric
<1>8. s = t => Bytes(s) = Bytes(t) /\ ~Before(Bytes(s), Bytes(t))
  BY <1>2, BeforeIrreflexive
<1>9. s < t \/ s = t \/ t < s
  BY <1>1
<1> QED BY <1>1, <1>2, <1>4, <1>5, <1>6, <1>7, <1>8, <1>9

\* Strings of one byte are in the order of that byte.
LEMMA OneByte ==
  ASSUME NEW m \in Nat, NEW n \in Nat
  PROVE  /\ <<m>> \in Seq(Nat) /\ <<n>> \in Seq(Nat) /\ <<>> \in Seq(Nat)
         /\ Before(<<m>>, <<n>>) <=> m < n
         /\ ~Before(<<m>>, <<>>)
<1>1. <<m>> \in Seq(Nat) /\ <<n>> \in Seq(Nat) /\ <<>> \in Seq(Nat)
  OBVIOUS
<1>2. Len(<<m>>) = 1 /\ Len(<<n>>) = 1 /\ Len(<<>>) = 0
  OBVIOUS
<1>3. Before(<<m>>, <<n>>) <=>
        \/ Len(<<m>>) < Len(<<n>>) /\ \A i \in 1 .. Len(<<m>>) : <<m>>[i] = <<n>>[i]
        \/ \E i \in 1 .. Len(<<m>>) : /\ i <= Len(<<n>>) /\ <<m>>[i] < <<n>>[i]
                                      /\ \A j \in 1 .. i - 1 : <<m>>[j] = <<n>>[j]
  BY <1>1, BeforeIs
<1>4. Before(<<m>>, <<n>>) <=> m < n
  <2>1. <<m>>[1] = m /\ <<n>>[1] = n
    OBVIOUS
  <2>2. 1 .. Len(<<m>>) = {1} /\ 1 .. Len(<<n>>) = {1} /\ ~(Len(<<m>>) < Len(<<n>>)) /\ 1 <= Len(<<n>>)
    BY <1>2
  <2>3. 1 .. 1 - 1 = {}
    OBVIOUS
  <2> QED BY <1>3, <2>1, <2>2, <2>3, Zenon
<1>5. Before(<<m>>, <<>>) <=>
        \/ Len(<<m>>) < Len(<<>>) /\ \A i \in 1 .. Len(<<m>>) : <<m>>[i] = <<>>[i]
        \/ \E i \in 1 .. Len(<<m>>) : /\ i <= Len(<<>>) /\ <<m>>[i] < <<>>[i]
                                      /\ \A j \in 1 .. i - 1 : <<m>>[j] = <<>>[j]
  BY <1>1, BeforeIs
<1>6. ~Before(<<m>>, <<>>)
  BY <1>2, <1>5
<1> QED BY <1>1, <1>4, <1>6

\* The order of the rows of an account.
Older(r, s) == r.time < s.time \/ (r.time = s.time /\ r.seq < s.seq)

\* Keys are in the order of the rows they stand for: by account, then by time, then by
\* sequence.
LEMMA KeysBefore ==
  ASSUME NEW r \in Rows, NEW s \in Rows
  PROVE  Before(KeyOf(r), KeyOf(s)) <=>
           Before(r.address, s.address) \/ (r.address = s.address /\ Older(r, s))
<1>1. r.time \in Blocks /\ s.time \in Blocks /\ r.seq \in Nat /\ s.seq \in Nat
  BY EncodingAssumption DEF Rows
<1>2. IsTime(r.time) /\ IsTime(s.time) /\ r.time \in Nat /\ s.time \in Nat
  BY <1>1, BlocksAreTimes DEF IsTime
<1> DEFINE x == Bytes(r.time)
           y == Bytes(s.time)
           m == <<r.seq>>
           n == <<s.seq>>
           p == r.address
           q == s.address
           u == x \o m
           v == y \o n
<1>3. /\ Before(x, y) <=> r.time < s.time
      /\ x = y <=> r.time = s.time
      /\ Before(m, n) <=> r.seq < s.seq
  BY <1>1, <1>2, TimesBefore, OneByte, Zenon
<1>4. x \in Seq(Nat) /\ y \in Seq(Nat) /\ Len(x) = Len(y) /\ m \in Seq(Nat) /\ n \in Seq(Nat)
  BY KeyParts, Zenon
<1>5. /\ p \in Seq(Nat) /\ q \in Seq(Nat) /\ Len(p) = Len(q) /\ u \in Seq(Nat) /\ v \in Seq(Nat)
      /\ KeyOf(r) = p \o u /\ KeyOf(s) = q \o v
  BY KeyParts, Zenon
<1> HIDE DEF x, y, m, n
<1>6. Before(x \o m, y \o n) <=> Before(x, y) \/ (x = y /\ Before(m, n))
  BY <1>4, BeforeConcat, Zenon
<1>7. Before(u, v) <=> Older(r, s)
  BY <1>3, <1>6, Zenon DEF Older
<1> HIDE DEF p, q, u, v
<1>8. Before(p \o u, q \o v) <=> Before(p, q) \/ (p = q /\ Before(u, v))
  BY <1>5, BeforeConcat, Zenon
<1>9. Before(KeyOf(r), KeyOf(s)) <=> Before(p, q) \/ (p = q /\ Older(r, s))
  BY <1>5, <1>7, <1>8, Zenon
<1> QED BY <1>9 DEF p, q

\* Two rows never have the same key.
LEMMA KeyNamesRow ==
  ASSUME NEW r \in Rows, NEW s \in Rows, KeyOf(r) = KeyOf(s)
  PROVE  r = s
<1>1. r.address \in Seq(Nat) /\ s.address \in Seq(Nat) /\ KeyOf(r) \in Seq(Nat)
  BY KeyParts
<1>2. ~Before(KeyOf(r), KeyOf(s)) /\ ~Before(KeyOf(s), KeyOf(r))
  BY <1>1, BeforeIrreflexive, Zenon
<1>3. ~Before(r.address, s.address) /\ ~Before(s.address, r.address)
  BY <1>2, KeysBefore, Zenon
<1>4. r.address = s.address
  BY <1>1, <1>3, BeforeTotal, Zenon
<1>5. ~Older(r, s) /\ ~Older(s, r)
  BY <1>2, <1>4, KeysBefore, Zenon
<1>6. r.time \in Nat /\ s.time \in Nat /\ r.seq \in Nat /\ s.seq \in Nat
  BY EncodingAssumption, BlocksAreTimes DEF Rows, IsTime
<1>7. r.time = s.time /\ r.seq = s.seq
  BY <1>5, <1>6 DEF Older
<1> QED BY <1>4, <1>7 DEF Rows

-----------------------------------------------------------------------------
(* The ranges of keys that queries ask for.                                *)

\* Strings of the same length are compared at the first place where they differ.
LEMMA SameLength ==
  ASSUME NEW l \in Nat, NEW a \in Strings(l), NEW b \in Strings(l)
  PROVE  Before(a, b) <=> \E i \in 1 .. l : a[i] < b[i] /\ \A j \in 1 .. i - 1 : a[j] = b[j]
<1>1. a \in Seq(Nat) /\ b \in Seq(Nat) /\ Len(a) = l /\ Len(b) = l
  BY StringsAreSeqs
<1>2. ~(l < l) /\ \A i \in 1 .. l : i <= l
  OBVIOUS
<1> QED BY <1>1, <1>2, BeforeIs, Zenon

\* A set of places that is not empty has a last one.
LEMMA LastOfSome ==
  ASSUME NEW l \in Nat, NEW S, S \subseteq 1 .. l, S # {}
  PROVE  \E i \in S : \A j \in S : j <= i
<1> DEFINE T == {l - i : i \in S}
<1>1. T \subseteq Nat /\ T # {}
  <2>1. \A i \in S : l - i \in Nat
    OBVIOUS
  <2> QED BY <2>1, Zenon
<1>2. PICK n \in T : \A m \in T : n <= m
  BY <1>1, LeastNumber, Zenon
<1>3. PICK i \in S : n = l - i
  BY <1>2
<1>4. ASSUME NEW j \in S
      PROVE  j <= i
  <2>1. n <= l - j
    BY <1>2
  <2> QED BY <1>3, <2>1
<1> QED BY <1>4

\* The bytes of the limit that BytesPrefix computes.
LEMMA LimitBytes ==
  ASSUME NEW l \in Nat, NEW a \in Strings(l), NEW k \in 1 .. l
  PROVE  LET limit == Append(SubSeq(a, 1, k - 1), a[k] + 1)
         IN  /\ limit \in Seq(Nat) /\ Len(limit) = k /\ limit # <<>>
             /\ \A j \in 1 .. k - 1 : limit[j] = a[j]
             /\ limit[k] = a[k] + 1
<1>1. a \in Seq(Nat) /\ Len(a) = l
  BY StringsAreSeqs
<1>2. a[k] \in Nat /\ a[k] + 1 \in Nat
  BY <1>1
<1> DEFINE s == SubSeq(a, 1, k - 1)
<1>3. s \in Seq(Nat) /\ Len(s) = k - 1 /\ \A j \in 1 .. k - 1 : s[j] = a[j]
  BY <1>1
<1> HIDE DEF s
<1>4. /\ Append(s, a[k] + 1) \in Seq(Nat) /\ Len(Append(s, a[k] + 1)) = k
      /\ \A j \in 1 .. k - 1 : Append(s, a[k] + 1)[j] = s[j]
      /\ Append(s, a[k] + 1)[k] = a[k] + 1
  BY <1>2, <1>3
<1>5. Append(s, a[k] + 1) # <<>>
  BY <1>4
<1> QED BY <1>3, <1>4, <1>5 DEF s

\* A key with an address in front is below the limit of a prefix exactly if its
\* address does not come after that prefix: the limit shuts out the next address,
\* also if the prefix ends with the largest byte.
LEMMA PrefixLimit ==
  ASSUME NEW a \in Strings(AddressLen), NEW b \in Strings(AddressLen), NEW z \in Seq(Nat)
  PROVE  BytesPrefix(a).limit = <<>> \/ Before(b \o z, BytesPrefix(a).limit) <=> ~Before(a, b)
<1> DEFINE l == AddressLen
           small == {i \in 1 .. Len(a) : a[i] < Base - 1}
           last == CHOOSE i \in small : \A j \in small : j <= i
           limit == Append(SubSeq(a, 1, last - 1), a[last] + 1)
<1>1. l \in Nat /\ Base \in Nat \ {0}
  BY EncodingAssumption
<1>2. /\ a \in Seq(Nat) /\ b \in Seq(Nat) /\ Len(a) = l /\ Len(b) = l
      /\ \A i \in 1 .. l : a[i] \in 0 .. Base - 1 /\ b[i] \in 0 .. Base - 1
  BY <1>1, StringsAreSeqs DEF Strings
<1>3. BytesPrefix(a).limit = IF small = {} THEN <<>> ELSE limit
  BY DEF BytesPrefix
<1>4. small \subseteq 1 .. l /\ \A i \in 1 .. l : i \notin small => a[i] = Base - 1
  <2>1. ASSUME NEW i \in 1 .. l
        PROVE  i \in 1 .. Len(a) /\ (~(a[i] < Base - 1) => a[i] = Base - 1)
    <3>1. a[i] \in 0 .. Base - 1 /\ Len(a) = l
      BY <1>2
    <3> QED BY <1>1, <3>1
  <2>2. small \subseteq 1 .. l
    BY <1>2
  <2> QED BY <2>1, <2>2
<1>5. Before(a, b) <=> \E i \in 1 .. l : a[i] < b[i] /\ \A j \in 1 .. i - 1 : a[j] = b[j]
  BY <1>1, SameLength
<1>6. Before(b, a) <=> \E i \in 1 .. l : b[i] < a[i] /\ \A j \in 1 .. i - 1 : b[j] = a[j]
  BY <1>1, SameLength
<1>7. CASE small = {}
  <2> HIDE DEF small
  <2>1. ASSUME NEW i \in 1 .. l
        PROVE  ~(a[i] < b[i])
    <3>1. a[i] = Base - 1
      BY <1>4, <1>7
    <3>2. b[i] \in 0 .. Base - 1
      BY <1>2
    <3> QED BY <1>1, <3>1, <3>2
  <2> QED BY <1>3, <1>5, <1>7, <2>1
<1>8. CASE small # {}
  <2>1. last \in small /\ \A j \in small : j <= last
    BY <1>1, <1>4, <1>8, LastOfSome
  <2> HIDE DEF small, last
  <2>2. last \in 1 .. l
    BY <1>4, <2>1
  <2>3. /\ limit \in Seq(Nat) /\ Len(limit) = last /\ limit # <<>>
        /\ \A j \in 1 .. last - 1 : limit[j] = a[j]
        /\ limit[last] = a[last] + 1
    BY <1>1, <2>2, LimitBytes
  <2> DEFINE key == b \o z
  <2>4. /\ key \in Seq(Nat) /\ Len(key) \in Nat /\ Len(key) >= l
        /\ \A i \in 1 .. l : key[i] = b[i]
    BY <1>2, Concatenated
  <2> HIDE DEF limit, key
  <2>5. Before(key, limit) <=>
          \/ Len(key) < Len(limit) /\ \A i \in 1 .. Len(key) : key[i] = limit[i]
          \/ \E i \in 1 .. Len(key) : /\ i <= Len(limit) /\ key[i] < limit[i]
                                      /\ \A j \in 1 .. i - 1 : key[j] = limit[j]
    BY <2>3, <2>4, BeforeIs
  <2>6. Before(key, limit) <=> \E i \in 1 .. last : b[i] < limit[i] /\ \A j \in 1 .. i - 1 : b[j] = limit[j]
    <3>1. ~(Len(key) < Len(limit))
      BY <1>1, <2>2, <2>3, <2>4
    <3>2. ASSUME NEW i \in 1 .. last
          PROVE  /\ i \in 1 .. Len(key) /\ i <= Len(limit) /\ key[i] = b[i]
                 /\ \A j \in 1 .. i - 1 : key[j] = b[j]
      BY <1>1, <2>2, <2>3, <2>4
    <3>3. ASSUME NEW i \in 1 .. Len(key), i <= Len(limit)
          PROVE  i \in 1 .. last
      BY <2>2, <2>3, <2>4, <3>3
    <3>4. ASSUME NEW i \in 1 .. last
          PROVE  (key[i] < limit[i] /\ \A j \in 1 .. i - 1 : key[j] = limit[j]) <=>
                   (b[i] < limit[i] /\ \A j \in 1 .. i - 1 : b[j] = limit[j])
      BY <3>2, Zenon
    <3> QED BY <2>5, <3>1, <3>2, <3>3, <3>4, Zenon
  <2>7. ASSUME ~Before(a, b)
        PROVE  Before(key, limit)
    <3>1. CASE a = b
      <4>1. b[last] < limit[last] /\ \A j \in 1 .. last - 1 : b[j] = limit[j]
        BY <1>2, <2>2, <2>3, <3>1
      <4> QED BY <2>2, <2>6, <4>1
    <3>2. CASE a # b
      <4>1. PICK i \in 1 .. l : b[i] < a[i] /\ \A j \in 1 .. i - 1 : b[j] = a[j]
        BY <1>2, <1>6, <2>7, <3>2, BeforeTotal
      <4>2. CASE i < last
        BY <2>2, <2>3, <2>6, <4>1, <4>2
      <4>3. CASE i >= last
        <5>1. b[last] < a[last] + 1
          <6>1. a[last] \in Nat /\ b[last] \in Nat
            BY <1>1, <1>2, <2>2
          <6>2. CASE i = last
            BY <4>1, <6>1, <6>2
          <6>3. CASE i # last
            <7>1. last \in 1 .. i - 1
              BY <2>2, <4>3, <6>3
            <7>2. b[last] = a[last]
              BY <4>1, <7>1
            <7> QED BY <6>1, <7>2
          <6> QED BY <6>2, <6>3
        <5>2. \A j \in 1 .. last - 1 : b[j] = a[j]
          BY <2>2, <4>1, <4>3
        <5> QED BY <2>2, <2>3, <2>6, <5>1, <5>2
      <4> QED BY <2>2, <4>2, <4>3
    <3> QED BY <3>1, <3>2
  <2>8. ASSUME Before(key, limit), Before(a, b)
        PROVE  FALSE
    <3>1. PICK i \in 1 .. last : b[i] < limit[i] /\ \A j \in 1 .. i - 1 : b[j] = limit[j]
      BY <2>6, <2>8
    <3>2. PICK k \in 1 .. l : a[k] < b[k] /\ \A j \in 1 .. k - 1 : a[j] = b[j]
      BY <1>5, <2>8
    <3>3. \A j \in 1 .. i - 1 : b[j] = a[j]
      BY <2>2, <2>3, <3>1
    <3>4. k >= i
      BY <1>2, <2>2, <3>1, <3>2, <3>3
    <3>5. i = last
      <4>1. ASSUME i # last PROVE FALSE
        <5>1. i \in 1 .. last - 1 /\ limit[i] = a[i]
          BY <2>2, <2>3, <3>1, <4>1
        <5>2. a[i] \in Nat /\ b[i] \in Nat /\ b[i] < a[i]
          BY <1>2, <2>2, <3>1, <5>1
        <5>3. CASE k = i
          BY <3>2, <5>2, <5>3
        <5>4. CASE k # i
          <6>1. i \in 1 .. k - 1
            BY <2>2, <3>1, <3>4, <5>4
          <6> QED BY <3>2, <5>2, <6>1
        <5> QED BY <5>3, <5>4
      <4> QED BY <4>1
    <3>6. b[last] < a[last] + 1
      BY <2>3, <3>1, <3>5
    <3>7. k > last
      BY <1>2, <2>2, <3>2, <3>4, <3>5, <3>6
    <3>8. a[k] < Base - 1
      BY <1>1, <1>2, <3>2
    <3>9. k \in small
      BY <1>2, <3>8 DEF small
    <3> QED BY <2>1, <2>2, <3>7, <3>9
  <2> QED BY <1>3, <1>8, <2>3, <2>7, <2>8 DEF key
<1> QED BY <1>7, <1>8

\* The requests of a client for the transactions of a known account.
AccountRequests ==
  [what : {"account"}, account : Addresses, from : QueryTimes, to : QueryTimes]

\* The row is one the request is about.
Asked(q, r) ==
  /\ r.address = q.account
  /\ q.from = NoTime \/ q.from <= r.time
  /\ q.to = NoTime \/ r.time <= q.to

\* A time that a client gives, and the second after it, have TimeLen bytes.
LEMMA QueryTimesAreTimes ==
  ASSUME NEW t \in QueryTimes, t # NoTime
  PROVE  t \in Nat /\ IsTime(t) /\ t + 1 \in Nat /\ IsTime(t + 1)
<1>1. TimeLen - 1 \in Nat /\ TimeLen \in Nat /\ Base \in Nat \ {0}
  BY EncodingAssumption
<1>2. Power(Base, TimeLen) \in Nat /\ Power(Base, TimeLen - 1) \in Nat
  BY <1>1, PowerType
<1>3. t \in Nat
  BY TimesAssumption
<1>4. Power(Base, TimeLen - 1) <= t /\ t + 1 < Power(Base, TimeLen)
  BY TimesAssumption
<1> QED BY <1>2, <1>3, <1>4 DEF IsTime

\* A row is before an account and a time if its account is, or its time is earlier.
LEMMA TimedKeyBefore ==
  ASSUME NEW a \in Strings(AddressLen), NEW t, IsTime(t), NEW r \in Rows
  PROVE  /\ Before(KeyOf(r), a \o Bytes(t)) <=>
              Before(r.address, a) \/ (r.address = a /\ r.time < t)
         /\ a \o Bytes(t) # <<>>
<1> DEFINE x == Bytes(r.time)
           y == Bytes(t)
           m == <<r.seq>>
           p == r.address
           u == x \o m
<1>1. /\ p \in Seq(Nat) /\ Len(p) = AddressLen /\ x \in Seq(Nat) /\ Len(x) = TimeLen
      /\ m \in Seq(Nat) /\ u \in Seq(Nat) /\ KeyOf(r) = p \o u
  BY KeyParts, Zenon
<1>2. a \in Seq(Nat) /\ Len(a) = AddressLen
  BY EncodingAssumption, StringsAreSeqs
<1>3. IsTime(r.time) /\ r.seq \in Nat
  BY EncodingAssumption, BlocksAreTimes DEF Rows
<1>4. /\ Before(x, y) <=> r.time < t
      /\ y \in Seq(Nat) /\ Len(y) = TimeLen
  BY <1>3, TimesBefore, Zenon
<1>5. ~Before(m, <<>>) /\ <<>> \in Seq(Nat)
  BY <1>3, OneByte, Zenon
<1> HIDE DEF x, y, m
<1>6. y \o <<>> = y
  BY <1>4
<1>7. Before(x \o m, y \o <<>>) <=> Before(x, y) \/ (x = y /\ Before(m, <<>>))
  BY <1>1, <1>4, <1>5, BeforeConcat, Zenon
<1>8. Before(u, y) <=> r.time < t
  BY <1>4, <1>5, <1>6, <1>7, Zenon
<1> HIDE DEF p, u
<1>9. Before(p \o u, a \o y) <=> Before(p, a) \/ (p = a /\ Before(u, y))
  BY <1>1, <1>2, <1>4, BeforeConcat, Zenon
<1>10. Before(KeyOf(r), a \o y) <=> Before(p, a) \/ (p = a /\ r.time < t)
  BY <1>1, <1>8, <1>9, Zenon
<1>11. a \o y # <<>>
  BY <1>2, <1>4, EncodingAssumption
<1> QED BY <1>10, <1>11 DEF p, y

\* A row is before a bare account if its account is.
LEMMA AccountKeyBefore ==
  ASSUME NEW a \in Strings(AddressLen), NEW r \in Rows
  PROVE  Before(KeyOf(r), a) <=> Before(r.address, a)
<1> DEFINE p == r.address
           u == Bytes(r.time) \o <<r.seq>>
<1>1. /\ p \in Seq(Nat) /\ Len(p) = AddressLen /\ u \in Seq(Nat) /\ KeyOf(r) = p \o u
  BY KeyParts, Zenon
<1>2. a \in Seq(Nat) /\ Len(a) = AddressLen
  BY EncodingAssumption, StringsAreSeqs
<1> HIDE DEF p, u
<1>3. Len(<<>>) = 0 /\ <<>> \in Seq(Nat)
  OBVIOUS
<1>4. Len(u) \in Nat /\ ~(Len(u) < 0) /\ \A i \in 1 .. Len(u) : ~(i <= 0)
  BY <1>1
<1>5. ~Before(u, <<>>)
  <2>1. Before(u, <<>>) <=>
          \/ Len(u) < Len(<<>>) /\ \A i \in 1 .. Len(u) : u[i] = <<>>[i]
          \/ \E i \in 1 .. Len(u) : /\ i <= Len(<<>>) /\ u[i] < <<>>[i]
                                    /\ \A j \in 1 .. i - 1 : u[j] = <<>>[j]
    BY <1>1, <1>3, BeforeIs, Zenon
  <2> QED BY <1>3, <1>4, <2>1, Zenon
<1>6. a \o <<>> = a
  BY <1>2
<1>7. Before(p \o u, a \o <<>>) <=> Before(p, a) \/ (p = a /\ Before(u, <<>>))
  BY <1>1, <1>2, <1>3, BeforeConcat, Zenon
<1>8. Before(KeyOf(r), a) <=> Before(p, a)
  BY <1>1, <1>5, <1>6, <1>7, Zenon
<1> QED BY <1>8 DEF p

\* The range of keys of a request holds the key of a row exactly if the request is
\* about that row: from and to are both included, and no other account is.
LEMMA InRangeIs ==
  ASSUME NEW q \in AccountRequests, NEW r \in Rows
  PROVE  InRange(KeyOf(r), KeyRange(q)) <=> Asked(q, r)
<1> DEFINE a == q.account
           p == r.address
           rg == KeyRange(q)
<1>1. a \in Strings(AddressLen) /\ q.from \in QueryTimes /\ q.to \in QueryTimes
  BY AddressesAssumption DEF AccountRequests, Strings
<1>2. p \in Strings(AddressLen) /\ r.time \in Nat
  BY KeyParts, BlocksAreTimes DEF Rows, IsTime
<1>3. a \in Seq(Nat) /\ p \in Seq(Nat)
  BY <1>1, <1>2, EncodingAssumption, StringsAreSeqs
<1>4. /\ Before(a, p) => ~Before(p, a) /\ a # p
      /\ Before(p, a) => ~Before(a, p) /\ a # p
      /\ Before(a, p) \/ Before(p, a) \/ a = p
  BY <1>3, BeforeAntisymmetric, BeforeTotal, Zenon
<1>5. /\ rg.start = IF q.from = NoTime THEN a ELSE a \o Bytes(q.from)
      /\ rg.limit = IF q.to = NoTime THEN BytesPrefix(a).limit ELSE a \o Bytes(q.to + 1)
  BY DEF KeyRange, HasTimes, BytesPrefix, MarshallAddressKeyPrefix3
<1>6. InRange(KeyOf(r), rg) <=>
        ~Before(KeyOf(r), rg.start) /\ (rg.limit = <<>> \/ Before(KeyOf(r), rg.limit))
  BY DEF InRange
<1>7. Asked(q, r) <=> /\ p = a
                      /\ q.from = NoTime \/ q.from <= r.time
                      /\ q.to = NoTime \/ r.time <= q.to
  BY DEF Asked
<1> HIDE DEF a, p, rg
<1>8. ~Before(KeyOf(r), rg.start) <=>
        ~Before(p, a) /\ (p = a => q.from = NoTime \/ q.from <= r.time)
  <2>1. CASE q.from = NoTime
    <3>1. Before(KeyOf(r), a) <=> Before(p, a)
      BY <1>1, AccountKeyBefore DEF p
    <3> QED BY <1>5, <2>1, <3>1, Zenon
  <2>2. CASE q.from # NoTime
    <3>1. q.from \in Nat /\ IsTime(q.from)
      BY <1>1, <2>2, QueryTimesAreTimes, Zenon
    <3>2. Before(KeyOf(r), a \o Bytes(q.from)) <=> Before(p, a) \/ (p = a /\ r.time < q.from)
      BY <1>1, <3>1, TimedKeyBefore, Zenon DEF p
    <3>3. r.time < q.from <=> ~(q.from <= r.time)
      BY <1>2, <3>1
    <3> QED BY <1>5, <2>2, <3>2, <3>3, Zenon
  <2> QED BY <2>1, <2>2
<1>9. (rg.limit = <<>> \/ Before(KeyOf(r), rg.limit)) <=>
        ~Before(a, p) /\ (p = a => q.to = NoTime \/ r.time <= q.to)
  <2>1. CASE q.to = NoTime
    <3> DEFINE u == Bytes(r.time) \o <<r.seq>>
    <3>1. u \in Seq(Nat) /\ KeyOf(r) = p \o u
      BY KeyParts, Zenon DEF p
    <3> HIDE DEF u
    <3>2. (BytesPrefix(a).limit = <<>> \/ Before(p \o u, BytesPrefix(a).limit)) <=> ~Before(a, p)
      BY <1>1, <1>2, <3>1, PrefixLimit, Zenon
    <3> QED BY <1>5, <2>1, <3>1, <3>2, Zenon
  <2>2. CASE q.to # NoTime
    <3>1. q.to \in Nat /\ q.to + 1 \in Nat /\ IsTime(q.to + 1)
      BY <1>1, <2>2, QueryTimesAreTimes, Zenon
    <3>2. /\ Before(KeyOf(r), a \o Bytes(q.to + 1)) <=> Before(p, a) \/ (p = a /\ r.time < q.to + 1)
          /\ a \o Bytes(q.to + 1) # <<>>
      BY <1>1, <3>1, TimedKeyBefore, Zenon DEF p
    <3>3. r.time < q.to + 1 <=> r.time <= q.to
      BY <1>2, <3>1
    <3> QED BY <1>4, <1>5, <2>2, <3>2, <3>3, Zenon
  <2> QED BY <2>1, <2>2
<1>10. InRange(KeyOf(r), rg) <=> Asked(q, r)
  BY <1>4, <1>6, <1>7, <1>8, <1>9, Zenon
<1> QED BY <1>10 DEF rg

-----------------------------------------------------------------------------
(* A page of a walk.                                                       *)

\* The total of n rows: counting stops after NumMaxTransaction.
Counted(n) == IF n <= NumMaxTransaction THEN n ELSE NumMaxTransaction + 1

\* How far a walk is counted, forwards and backwards.
LEMMA VisitedIs ==
  ASSUME NEW S, NEW n \in Nat, NEW walk \in [1 .. n -> S], NEW asc \in BOOLEAN
  PROVE  /\ walk \in Seq(S) /\ Len(walk) = n
         /\ Visited(walk, asc) = Counted(n)
         /\ Counted(n) \in 0 .. n
<1> DEFINE max == NumMaxTransaction
           first == IF asc \/ walk = <<>> THEN 0 ELSE 1
           Ends(turns) == \/ first + turns = Len(walk)
                          \/ turns > 0 /\ first + turns > max
           Final(turns) == Ends(turns) /\ \A t \in 0 .. turns - 1 : ~Ends(t)
           all == Counted(n) - first
<1>1. walk \in Seq(S) /\ Len(walk) = n /\ (walk = <<>> <=> n = 0)
  BY EmptySeq
<1>2. max \in Nat \ {0}
  BY NumMaxAssumption
<1>3. Counted(n) \in 0 .. n /\ first \in 0 .. 1 /\ (first = 1 => n > 0)
  BY <1>1, <1>2 DEF Counted
<1> HIDE DEF first, max
<1>4. all \in 0 .. n
  BY <1>2, <1>3 DEF Counted, max
<1>5. Final(all)
  <2>1. Ends(all)
    BY <1>1, <1>2, <1>3 DEF Counted, max
  <2>2. ASSUME NEW t \in 0 .. all - 1
        PROVE  ~Ends(t)
    BY <1>1, <1>2, <1>3 DEF Counted, max
  <2> QED BY <2>1, <2>2
<1>6. ASSUME NEW t \in 0 .. n, Final(t)
      PROVE  t = all
  <2> HIDE DEF Ends, all
  <2>1. t < all \/ t = all \/ all < t
    BY <1>4
  <2>2. ~(t < all)
    BY <1>4, <1>5, <1>6
  <2>3. ~(all < t)
    BY <1>4, <1>5, <1>6
  <2> QED BY <2>1, <2>2, <2>3
<1>7. (CHOOSE t \in 0 .. n : Final(t)) = all
  <2> HIDE DEF Final, all
  <2> QED BY <1>4, <1>5, <1>6
<1>8. Visited(walk, asc) = first + (CHOOSE t \in 0 .. n : Final(t))
  BY <1>1 DEF Visited, first, max
<1>9. first + all = Counted(n)
  BY <1>3
<1> QED BY <1>1, <1>3, <1>7, <1>8, <1>9

\* How many rows a page has from the one at start on.
PageLength(total, rows, start) ==
  IF start + rows < total THEN rows ELSE IF start < total THEN total - start ELSE 0

\* The reply has the page at start of a walk along elements of S.
CutFrom(reply, walk, S, rows, start) ==
  LET total == Counted(Len(walk))
  IN  /\ reply = [total |-> total, page |-> reply.page]
      /\ reply.page \in Seq(S) /\ Len(reply.page) = PageLength(total, rows, start)
      /\ \A i \in 1 .. Len(reply.page) : start + i \in 1 .. total /\ reply.page[i] = walk[start + i]

\* FindByKeyPrefix cuts its page out of the walk.
LEMMA PageIs ==
  ASSUME NEW S, NEW n \in Nat, NEW walk \in [1 .. n -> S], NEW asc \in BOOLEAN,
         NEW rows \in Nat, NEW start \in Nat
  PROVE  CutFrom(FindByKeyPrefix(walk, asc, rows, start), walk, S, rows, start)
<1> DEFINE total == Counted(n)
           last == IF start + rows < total THEN start + rows ELSE total
           page == SubSeq(walk, start + 1, last)
<1>1. walk \in Seq(S) /\ Len(walk) = n /\ total \in 0 .. n
  BY VisitedIs
<1>2. FindByKeyPrefix(walk, asc, rows, start) = [total |-> total, page |-> page]
  <2>1. ~(start < 0) /\ (IF start < 0 THEN 0 ELSE start) = start
    OBVIOUS
  <2>2. Visited(walk, asc) = total
    BY VisitedIs
  <2> HIDE DEF total
  <2> QED BY <2>1, <2>2, Zenon DEF FindByKeyPrefix
<1>0. Counted(Len(walk)) = total
  BY <1>1
<1> HIDE DEF total
<1>3. last \in 0 .. n /\ last <= total
  BY <1>1
<1>4. last <= start => Len(page) = 0 /\ page \in Seq(S)
  BY <1>1, <1>3
<1>5. last > start => Len(page) = last - start /\ page \in Seq(S)
  BY <1>1, <1>3
<1>6. Len(page) = IF start + rows < total THEN rows
                  ELSE IF start < total THEN total - start ELSE 0
  BY <1>1, <1>3, <1>4, <1>5
<1>7. ASSUME NEW i \in 1 .. Len(page)
      PROVE  start + i \in 1 .. total /\ page[i] = walk[start + i]
  <2> HIDE DEF page, last
  <2>0. ~(last <= start)
    BY <1>4
  <2>1. last > start /\ i \in 1 .. last - start
    BY <1>3, <1>5, <2>0
  <2> USE DEF page
  <2>2. start + i \in 1 .. total
    BY <1>1, <1>3, <2>1
  <2>3. page[i] = walk[(start + 1) + i - 1]
    BY <1>1, <1>3, <2>1
  <2>4. (start + 1) + i - 1 = start + i
    BY <2>1
  <2> QED BY <2>2, <2>3, <2>4
<1>8. page \in Seq(S)
  BY <1>3, <1>4, <1>5
<1> HIDE DEF last, page
<1>9. Len(page) = PageLength(total, rows, start)
  BY <1>6 DEF PageLength
<1> DEFINE reply == FindByKeyPrefix(walk, asc, rows, start)
<1>10. reply = [total |-> total, page |-> page]
  BY <1>2
<1> HIDE DEF reply
<1>11. reply.page = page /\ reply = [total |-> total, page |-> reply.page]
  BY <1>10
<1>12. CutFrom(reply, walk, S, rows, start)
  <2>1. /\ reply = [total |-> total, page |-> reply.page]
        /\ reply.page \in Seq(S) /\ Len(reply.page) = PageLength(total, rows, start)
        /\ \A i \in 1 .. Len(reply.page) :
             start + i \in 1 .. total /\ reply.page[i] = walk[start + i]
    BY <1>7, <1>8, <1>9, <1>11
  <2> QED BY <1>0, <2>1, Zenon DEF CutFrom
<1> QED BY <1>12 DEF reply

\* walk goes along the elements of S in their order.
Listing(walk, S, R) ==
  /\ walk \in [1 .. Cardinality(S) -> S]
  /\ \A i \in 1 .. Cardinality(S) : Rank(walk[i], S, R) = i - 1

\* The order turned round.
Converse(R) == {<<e[2], e[1]>> : e \in R}

\* It is a total order as well.
LEMMA ConverseOrders ==
  ASSUME NEW S, NEW R, R \subseteq S \X S, Orders(R, S)
  PROVE  /\ Orders(Converse(R), S) /\ Converse(R) \subseteq S \X S
         /\ \A x, y \in S : <<x, y>> \in Converse(R) <=> <<y, x>> \in R
<1>1. ASSUME NEW x \in S, NEW y \in S
      PROVE  <<x, y>> \in Converse(R) <=> <<y, x>> \in R
  <2>1. ASSUME <<x, y>> \in Converse(R)
        PROVE  <<y, x>> \in R
    <3>1. PICK e \in R : <<x, y>> = <<e[2], e[1]>>
      BY <2>1 DEF Converse
    <3>2. e = <<e[1], e[2]>> /\ x = e[2] /\ y = e[1]
      BY <3>1
    <3> QED BY <3>1, <3>2
  <2>2. ASSUME <<y, x>> \in R
        PROVE  <<x, y>> \in Converse(R)
    <3> DEFINE e == <<y, x>>
    <3>1. e \in R /\ <<x, y>> = <<e[2], e[1]>>
      BY <2>2
    <3> QED BY <3>1 DEF Converse
  <2> QED BY <2>1, <2>2
<1>2. Converse(R) \subseteq S \X S
  BY DEF Converse
<1>3. Orders(Converse(R), S)
  BY <1>1, Zenon DEF Orders
<1> QED BY <1>1, <1>2, <1>3

\* Ranks count from the other end in it.
LEMMA ConverseRank ==
  ASSUME NEW S, IsFiniteSet(S), NEW R, R \subseteq S \X S, Orders(R, S), NEW x \in S
  PROVE  Rank(x, S, Converse(R)) = Cardinality(S) - 1 - Rank(x, S, R)
<1> DEFINE A == Below(x, S, R)
           B == Below(x, S, Converse(R))
<1>1. \A y \in S : <<y, x>> \in Converse(R) <=> <<x, y>> \in R
  BY ConverseOrders, Zenon
<1>2. A \subseteq S /\ B \subseteq S /\ A \cap B = {} /\ x \notin A /\ x \notin B
  BY <1>1 DEF Below, Orders
<1>3. S = (A \cup B) \cup {x}
  BY <1>1 DEF Below, Orders
<1>4. IsFiniteSet(A) /\ IsFiniteSet(B) /\ Cardinality(A) \in Nat /\ Cardinality(B) \in Nat
  BY <1>2, FS_Subset, FS_CardinalityType
<1> HIDE DEF A, B
<1>5. IsFiniteSet(A \cup B) /\ Cardinality(A \cup B) = Cardinality(A) + Cardinality(B) - Cardinality(A \cap B)
  BY <1>4, FS_Union
<1>6. Cardinality(A \cap B) = 0
  BY <1>2, FS_EmptySet
<1>7. x \notin A \cup B
  BY <1>2
<1>8. Cardinality(S) = Cardinality(A \cup B) + 1
  BY <1>3, <1>5, <1>7, FS_AddElement
<1> QED BY <1>4, <1>5, <1>6, <1>8 DEF Rank, A, B

\* A walk backwards lists the converse order.
LEMMA ListingReversed ==
  ASSUME NEW S, IsFiniteSet(S), NEW R, R \subseteq S \X S, Orders(R, S),
         NEW walk, Listing(walk, S, R)
  PROVE  Listing(Reverse(walk), S, Converse(R))
<1> DEFINE n == Cardinality(S)
           back == Reverse(walk)
<1>1. n \in Nat
  BY FS_CardinalityType
<1>2. walk \in [1 .. n -> S] /\ \A i \in 1 .. n : Rank(walk[i], S, R) = i - 1
  BY DEF Listing
<1> HIDE DEF n
<1>3. Len(walk) = n
  BY <1>1, <1>2
<1>4. back = [i \in 1 .. n |-> walk[(n - i) + 1]]
  BY <1>3 DEF Reverse
<1>5. ASSUME NEW i \in 1 .. n
      PROVE  back[i] \in S /\ Rank(back[i], S, Converse(R)) = i - 1
  <2> DEFINE j == (n - i) + 1
  <2>1. j \in 1 .. n /\ j - 1 = n - i
    BY <1>1
  <2>4. back[i] = walk[j]
    BY <1>4
  <2> HIDE DEF j
  <2>2. back[i] \in S /\ Rank(back[i], S, R) = n - i
    BY <1>2, <2>1, <2>4
  <2>3. Rank(back[i], S, Converse(R)) = n - 1 - Rank(back[i], S, R)
    BY <2>2, ConverseRank DEF n
  <2> QED BY <1>1, <2>2, <2>3
<1>6. back \in [1 .. n -> S]
  BY <1>4, <1>5
<1> HIDE DEF back
<1> QED BY <1>5, <1>6 DEF Listing, n, back

\* f takes the elements of M, in their order, to those of S.
TakesTo(f, M, P, S, R) ==
  /\ f \in Bijection(M, S)
  /\ \A x, y \in M : <<x, y>> \in P <=> <<f[x], f[y]>> \in R

\* Sets that f takes to one another have the same size.
LEMMA SizeTransferred ==
  ASSUME NEW S, IsFiniteSet(S), NEW R, NEW M, NEW P, NEW f, TakesTo(f, M, P, S, R)
  PROVE  IsFiniteSet(M) /\ Cardinality(M) = Cardinality(S)
<1>1. IsFiniteSet(M)
  BY FS_Injection DEF TakesTo, Bijection
<1> QED BY <1>1, FS_Bijection DEF TakesTo, ExistsBijection

\* And their elements the same ranks.
LEMMA RankTransferred ==
  ASSUME NEW S, IsFiniteSet(S), NEW R, NEW M, NEW P, NEW f, TakesTo(f, M, P, S, R), NEW x \in M
  PROVE  Rank(x, M, P) = Rank(f[x], S, R)
<1> DEFINE A == Below(x, M, P)
           B == Below(f[x], S, R)
           g == [y \in A |-> f[y]]
<1>1. /\ f \in [M -> S] /\ (\A y, z \in M : f[y] = f[z] => y = z) /\ \A z \in S : \E y \in M : f[y] = z
      /\ \A y, z \in M : <<y, z>> \in P <=> <<f[y], f[z]>> \in R
  BY DEF TakesTo, Bijection, Injection, Surjection, IsInjective
<1>2. A \subseteq M /\ \A y \in A : f[y] \in B
  BY <1>1 DEF Below
<1>3. \A z \in B : \E y \in A : f[y] = z
  BY <1>1 DEF Below
<1>4. IsFiniteSet(A)
  BY <1>2, SizeTransferred, FS_Subset
<1> HIDE DEF A, B
<1>5. g \in [A -> B] /\ (\A y, z \in A : g[y] = g[z] => y = z) /\ \A z \in B : \E y \in A : g[y] = z
  BY <1>1, <1>2, <1>3
<1>6. g \in Bijection(A, B)
  BY <1>5 DEF Bijection, Injection, Surjection, IsInjective
<1>7. Cardinality(A) = Cardinality(B)
  BY <1>4, <1>6, FS_Bijection DEF ExistsBijection
<1> QED BY <1>7 DEF Rank, A, B

\* list goes along the elements that f takes to those of walk.
Along(list, f, walk, M, n) ==
  list \in [1 .. n -> M] /\ \A i \in 1 .. n : f[list[i]] = walk[i]

\* So a list of one set, taken back by f, is a list of the other.
LEMMA ListingTransferred ==
  ASSUME NEW S, IsFiniteSet(S), NEW R, Orders(R, S), NEW M, NEW P, NEW f, TakesTo(f, M, P, S, R),
         NEW walk, Listing(walk, S, R), NEW list, Along(list, f, walk, M, Cardinality(S))
  PROVE  /\ IsFiniteSet(M) /\ Cardinality(M) = Cardinality(S)
         /\ Orders(P, M) /\ Listing(list, M, P)
<1>1. /\ IsFiniteSet(M) /\ Cardinality(M) = Cardinality(S)
      /\ \A x \in M : Rank(x, M, P) = Rank(f[x], S, R)
  <2>1. IsFiniteSet(M) /\ Cardinality(M) = Cardinality(S)
    BY SizeTransferred
  <2>2. ASSUME NEW x \in M
        PROVE  Rank(x, M, P) = Rank(f[x], S, R)
    BY RankTransferred
  <2> QED BY <2>1, <2>2
<1> f \in Bijection(M, S) /\ \A x, y \in M : <<x, y>> \in P <=> <<f[x], f[y]>> \in R
  BY DEF TakesTo
<1> list \in [1 .. Cardinality(S) -> M] /\ \A i \in 1 .. Cardinality(S) : f[list[i]] = walk[i]
  BY DEF Along
<1>2. f \in [M -> S] /\ \A x, y \in M : f[x] = f[y] => x = y
  BY DEF Bijection, Injection, IsInjective
<1>3. Orders(P, M)
  <2>1. \A x \in M : <<x, x>> \notin P
    BY <1>2 DEF Orders
  <2>2. \A x, y \in M : x # y => <<x, y>> \in P \/ <<y, x>> \in P
    BY <1>2 DEF Orders
  <2>3. \A x, y, z \in M : <<x, y>> \in P /\ <<y, z>> \in P => <<x, z>> \in P
    <3>1. ASSUME NEW x \in M, NEW y \in M, NEW z \in M, <<x, y>> \in P, <<y, z>> \in P
          PROVE  <<x, z>> \in P
      <4>1. f[x] \in S /\ f[y] \in S /\ f[z] \in S
        BY <1>2
      <4>2. <<f[x], f[y]>> \in R /\ <<f[y], f[z]>> \in R
        BY <3>1
      <4>3. <<f[x], f[z]>> \in R
        BY <4>1, <4>2, Zenon DEF Orders
      <4> QED BY <4>3
    <3> QED BY <3>1
  <2> QED BY <2>1, <2>2, <2>3 DEF Orders
<1>4. ASSUME NEW i \in 1 .. Cardinality(S)
      PROVE  Rank(list[i], M, P) = i - 1
  <2>1. list[i] \in M /\ f[list[i]] = walk[i]
    OBVIOUS
  <2>2. Rank(walk[i], S, R) = i - 1
    BY DEF Listing
  <2> QED BY <1>1, <2>1, <2>2
<1> QED BY <1>1, <1>3, <1>4 DEF Listing

-----------------------------------------------------------------------------
(* What the databases hold.                                                *)

\* Every row is stored under its own key, with its own value, and the records
\* are those of blocks.
Stored ==
  /\ IsFiniteSet(DOMAIN addressDB)
  /\ \A k \in DOMAIN addressDB :
       LET r == addressDB[k].tx
       IN  r \in Rows /\ k = KeyOf(r) /\ addressDB[k] = MarshallAddressValue(r, Value(r))
  /\ IsFiniteSet(DOMAIN blockDB) /\ DOMAIN blockDB \subseteq Blocks

\* What Stored says of one key.
LEMMA StoredKeys ==
  ASSUME Stored, NEW k \in DOMAIN addressDB
  PROVE  /\ addressDB[k].tx \in Rows /\ k = KeyOf(addressDB[k].tx)
         /\ addressDB[k] = MarshallAddressValue(addressDB[k].tx, Value(addressDB[k].tx))
         /\ k \in Seq(Nat)
<1>1. /\ addressDB[k].tx \in Rows /\ k = KeyOf(addressDB[k].tx)
      /\ addressDB[k] = MarshallAddressValue(addressDB[k].tx, Value(addressDB[k].tx))
  BY DEF Stored
<1>2. KeyOf(addressDB[k].tx) \in Seq(Nat)
  BY <1>1, KeyParts
<1> QED BY <1>1, <1>2

\* The keys of the rows a request is about, and the order of its answer.
KeysFor(q) == {k \in DOMAIN addressDB : InRange(k, KeyRange(q))}

\* The pairs of rows, or of blocks, in the order of the answer to q.
Answer(q) ==
  IF q.what = "blocks" THEN {e \in Matching(q) \X Matching(q) : KeyBefore(e[2], e[1])}
  ELSE {e \in Matching(q) \X Matching(q) : Precedes(q, e[1], e[2])}

\* The rows a request is about are those of the keys in its range, one each.
LEMMA MatchingIs ==
  ASSUME Stored, NEW q \in AccountRequests
  PROVE  /\ \A r : r \in Matching(q) <=>
              r \in Rows /\ Asked(q, r) /\ KeyOf(r) \in DOMAIN addressDB /\ addressDB[KeyOf(r)].tx = r
         /\ \A k \in KeysFor(q) : addressDB[k].tx \in Matching(q) /\ KeyOf(addressDB[k].tx) = k
         /\ \A r \in Matching(q) : KeyOf(r) \in KeysFor(q)
<1>1. q.what = "account"
  BY DEF AccountRequests
<1>2. Matching(q) = {r \in {addressDB[k].tx : k \in DOMAIN addressDB} : Asked(q, r)}
  BY <1>1 DEF Matching, Asked
<1>3. ASSUME NEW r
      PROVE  r \in Matching(q) <=>
               r \in Rows /\ Asked(q, r) /\ KeyOf(r) \in DOMAIN addressDB /\ addressDB[KeyOf(r)].tx = r
  <2>1. ASSUME r \in Matching(q)
        PROVE  r \in Rows /\ Asked(q, r) /\ KeyOf(r) \in DOMAIN addressDB /\ addressDB[KeyOf(r)].tx = r
    <3>1. Asked(q, r) /\ \E k \in DOMAIN addressDB : r = addressDB[k].tx
      BY <1>2, <2>1
    <3>2. PICK k \in DOMAIN addressDB : r = addressDB[k].tx
      BY <3>1
    <3> QED BY <3>1, <3>2, StoredKeys
  <2>2. ASSUME r \in Rows, Asked(q, r), KeyOf(r) \in DOMAIN addressDB, addressDB[KeyOf(r)].tx = r
        PROVE  r \in Matching(q)
    BY <1>2, <2>2
  <2> QED BY <2>1, <2>2
<1>4. ASSUME NEW k \in KeysFor(q)
      PROVE  addressDB[k].tx \in Matching(q) /\ KeyOf(addressDB[k].tx) = k
  <2>1. k \in DOMAIN addressDB /\ InRange(k, KeyRange(q))
    BY DEF KeysFor
  <2>2. addressDB[k].tx \in Rows /\ k = KeyOf(addressDB[k].tx)
    BY <2>1, StoredKeys
  <2>3. Asked(q, addressDB[k].tx)
    BY <2>1, <2>2, InRangeIs, Zenon
  <2> QED BY <1>3, <2>1, <2>2, <2>3
<1>5. ASSUME NEW r \in Matching(q)
      PROVE  KeyOf(r) \in KeysFor(q)
  BY <1>3, InRangeIs DEF KeysFor
<1> QED BY <1>3, <1>4, <1>5

\* The walk over the range of a request lists its keys, forwards or backwards.
LEMMA WalkLists ==
  ASSUME Stored, NEW q \in AccountRequests
  PROVE  LET S == KeysFor(q)
             R == IF HasTimes(q) THEN Earlier(S) ELSE Converse(Earlier(S))
         IN  /\ IsFiniteSet(S) /\ Orders(R, S)
             /\ Listing(Walk(KeyRange(q), HasTimes(q)), S, R)
             /\ \A x, y \in S : <<x, y>> \in R <=> IF HasTimes(q) THEN Before(x, y) ELSE Before(y, x)
<1> DEFINE S == KeysFor(q)
           E == Earlier(S)
           R == IF HasTimes(q) THEN E ELSE Converse(E)
           walk == InOrder(S, Before)
<1>1. S \subseteq DOMAIN addressDB /\ S \subseteq Seq(Nat)
  BY StoredKeys DEF KeysFor
<1>2. IsFiniteSet(S)
  BY <1>1, FS_Subset DEF Stored
<1>3. E \subseteq S \X S /\ \A x, y \in S : <<x, y>> \in E <=> Before(x, y)
  BY DEF Earlier
<1>4. Walk(KeyRange(q), HasTimes(q)) = IF HasTimes(q) THEN walk ELSE Reverse(walk)
  BY DEF Walk, KeysFor
<1>5. Orders(E, S) /\ \A x \in S : Rank(x, S, E) = Cardinality({y \in S : Before(y, x)})
  BY <1>1, EarlierOrders DEF Rank
<1>6. /\ walk \in [1 .. Cardinality(S) -> S]
      /\ \A i \in 1 .. Cardinality(S) : Cardinality({y \in S : Before(y, walk[i])}) = i - 1
  BY <1>1, <1>2, KeysInOrder
<1> HIDE DEF S, walk, E
<1>7. Listing(walk, S, E)
  BY <1>5, <1>6 DEF Listing
<1>8. /\ Orders(Converse(E), S) /\ \A x, y \in S : <<x, y>> \in Converse(E) <=> <<y, x>> \in E
      /\ Listing(Reverse(walk), S, Converse(E))
  BY <1>2, <1>3, <1>5, <1>7, ConverseOrders, ListingReversed
<1>9. /\ Orders(R, S) /\ Listing(Walk(KeyRange(q), HasTimes(q)), S, R)
      /\ \A x, y \in S : <<x, y>> \in R <=> IF HasTimes(q) THEN Before(x, y) ELSE Before(y, x)
  BY <1>3, <1>4, <1>5, <1>7, <1>8
<1> QED BY <1>2, <1>9 DEF S, E

\* So the rows of that walk are the rows the request is about, in the order of its
\* answer.
LEMMA AccountListing ==
  ASSUME Stored, NEW q \in AccountRequests
  PROVE  LET M == Matching(q)
             walk == Walk(KeyRange(q), HasTimes(q))
             n == Cardinality(M)
         IN  /\ IsFiniteSet(M) /\ n \in Nat /\ n = Cardinality(KeysFor(q)) /\ Orders(Answer(q), M)
             /\ walk \in [1 .. n -> KeysFor(q)]
             /\ Listing([i \in 1 .. n |-> addressDB[walk[i]].tx], M, Answer(q))
<1> DEFINE M == Matching(q)
           S == KeysFor(q)
           P == Answer(q)
           R == IF HasTimes(q) THEN Earlier(S) ELSE Converse(Earlier(S))
           walk == Walk(KeyRange(q), HasTimes(q))
           f == [r \in M |-> KeyOf(r)]
           list == [i \in 1 .. Cardinality(S) |-> addressDB[walk[i]].tx]
<1>1. /\ IsFiniteSet(S) /\ Orders(R, S) /\ Listing(walk, S, R)
      /\ \A x, y \in S : <<x, y>> \in R <=> IF HasTimes(q) THEN Before(x, y) ELSE Before(y, x)
  BY WalkLists
<1>2. /\ \A r \in M : r \in Rows /\ Asked(q, r)
      /\ \A k \in S : addressDB[k].tx \in M /\ KeyOf(addressDB[k].tx) = k
      /\ \A r \in M : KeyOf(r) \in S
  BY MatchingIs
<1>3. P = {e \in M \X M : Precedes(q, e[1], e[2])}
  BY DEF Answer, AccountRequests
<1>4. \A r, s \in M : <<r, s>> \in P <=> Precedes(q, r, s)
  BY <1>3
<1>5. walk \in [1 .. Cardinality(S) -> S]
  BY <1>1 DEF Listing
<1> HIDE DEF M, S, P, R, walk
<1>6. f \in [M -> S] /\ \A r \in M : f[r] = KeyOf(r)
  BY <1>2
<1>7. \A r, s \in M : f[r] = f[s] => r = s
  BY <1>2, <1>6, KeyNamesRow
<1>8. \A k \in S : \E r \in M : f[r] = k
  BY <1>2, <1>6
<1> HIDE DEF f
<1>9. f \in Bijection(M, S)
  BY <1>6, <1>7, <1>8 DEF Bijection, Injection, Surjection, IsInjective
<1>10. ASSUME NEW r \in M, NEW s \in M
       PROVE  <<r, s>> \in P <=> <<f[r], f[s]>> \in R
  <2>1. r \in Rows /\ s \in Rows /\ r.address = s.address
    BY <1>2 DEF Asked
  <2>2. r.address \in Seq(Nat) /\ ~Before(r.address, r.address)
    BY <2>1, KeyParts, BeforeIrreflexive
  <2>3. (Before(KeyOf(r), KeyOf(s)) <=> Older(r, s)) /\ (Before(KeyOf(s), KeyOf(r)) <=> Older(s, r))
    BY <2>1, <2>2, KeysBefore, Zenon
  <2>4. <<f[r], f[s]>> \in R <=> IF HasTimes(q) THEN Older(r, s) ELSE Older(s, r)
    BY <1>1, <1>6, <2>3
  <2>5. Precedes(q, r, s) <=> IF HasTimes(q) THEN Older(r, s) ELSE r # s /\ ~Older(r, s)
    BY DEF Precedes, Older
  <2>6. r.time \in Nat /\ s.time \in Nat /\ r.seq \in Nat /\ s.seq \in Nat
    BY <2>1, EncodingAssumption, BlocksAreTimes DEF Rows, IsTime
  <2>7. r = s <=> r.time = s.time /\ r.seq = s.seq
    BY <2>1 DEF Rows
  <2>8. Older(s, r) <=> r # s /\ ~Older(r, s)
    BY <2>6, <2>7 DEF Older
  <2> QED BY <1>4, <2>4, <2>5, <2>8, Zenon
<1>11. list \in [1 .. Cardinality(S) -> M] /\ \A i \in 1 .. Cardinality(S) : f[list[i]] = walk[i]
  BY <1>2, <1>5, <1>6
<1> HIDE DEF list
<1>12. IsFiniteSet(M) /\ Cardinality(M) = Cardinality(S) /\ Orders(P, M) /\ Listing(list, M, P)
  <2>1. TakesTo(f, M, P, S, R)
    BY <1>9, <1>10 DEF TakesTo
  <2>2. Listing(walk, S, R) /\ Orders(R, S) /\ IsFiniteSet(S)
    BY <1>1
  <2>3. Along(list, f, walk, M, Cardinality(S))
    BY <1>11 DEF Along
  <2> QED BY <2>1, <2>2, <2>3, ListingTransferred, Zenon
<1>13. list = [i \in 1 .. Cardinality(M) |-> addressDB[walk[i]].tx]
  BY <1>12 DEF list
<1>14. Cardinality(M) \in Nat
  BY <1>12, FS_CardinalityType
<1> QED BY <1>5, <1>12, <1>13, <1>14 DEF M, S, P, walk

\* The walk backwards over the block database lists all blocks, the last one first.
LEMMA BlocksListing ==
  ASSUME Stored, NEW q, q.what = "blocks"
  PROVE  LET M == Matching(q)
             walk == Reverse(InOrder(DOMAIN blockDB, KeyBefore))
         IN  /\ M = DOMAIN blockDB /\ IsFiniteSet(M) /\ Cardinality(M) \in Nat
             /\ Orders(Answer(q), M) /\ Listing(walk, M, Answer(q))
<1> DEFINE M == Matching(q)
           R == Later(M)
           walk == InOrder(M, KeyBefore)
<1>1. M = DOMAIN blockDB
  BY DEF Matching
<1>2. IsFiniteSet(M) /\ M \subseteq Nat /\ Cardinality(M) \in Nat
  BY <1>1, TimesAssumption, FS_CardinalityType DEF Stored
<1>3. R \subseteq M \X M /\ \A x, y \in M : <<x, y>> \in R <=> KeyBefore(x, y)
  BY DEF Later
<1>4. Orders(R, M) /\ \A x \in M : Rank(x, M, R) = Cardinality({y \in M : KeyBefore(y, x)})
  BY <1>2, KeyBeforeOrders DEF Rank
<1>5. /\ walk \in [1 .. Cardinality(M) -> M]
      /\ \A i \in 1 .. Cardinality(M) : Cardinality({y \in M : KeyBefore(y, walk[i])}) = i - 1
  BY <1>2, BlocksInOrder
<1>6. Answer(q) = {e \in M \X M : KeyBefore(e[2], e[1])}
  BY DEF Answer
<1> HIDE DEF M, walk, R
<1>7. Listing(walk, M, R)
  BY <1>4, <1>5 DEF Listing
<1>8. /\ Orders(Converse(R), M) /\ \A x, y \in M : <<x, y>> \in Converse(R) <=> <<y, x>> \in R
      /\ Converse(R) \subseteq M \X M /\ Listing(Reverse(walk), M, Converse(R))
  BY <1>2, <1>3, <1>4, <1>7, ConverseOrders, ListingReversed
<1>9. Answer(q) = Converse(R)
  <2>1. \A x, y \in M : <<x, y>> \in Answer(q) <=> <<x, y>> \in Converse(R)
    BY <1>3, <1>6, <1>8
  <2>2. Answer(q) \subseteq M \X M
    BY <1>6
  <2> QED BY <1>8, <2>1, <2>2
<1> QED BY <1>1, <1>2, <1>8, <1>9 DEF M, walk

\* UnmarshallAddressKey reads the address and the time that are in a key.
LEMMA KeyRead ==
  ASSUME NEW r \in Rows
  PROVE  UnmarshallAddressKey(KeyOf(r)) = [address |-> r.address, time |-> r.time]
<1> DEFINE p == r.address
           x == Bytes(r.time)
           m == <<r.seq>>
           key == KeyOf(r)
<1>1. /\ p \in Seq(Nat) /\ Len(p) = AddressLen /\ x \in Seq(Nat) /\ Len(x) = TimeLen
      /\ m \in Seq(Nat) /\ Len(m) = 1 /\ x \o m \in Seq(Nat) /\ key = p \o (x \o m)
      /\ key \in Seq(Nat) /\ Len(key) = AddressLen + TimeLen + 1
  BY KeyParts, Zenon
<1>2. AddressLen \in Nat \ {0} /\ TimeLen \in Nat \ {0}
  BY EncodingAssumption
<1>3. Number(x) = r.time
  BY BlocksAreTimes, TimeRead DEF Rows
<1> HIDE DEF p, x, m, key
<1>4. /\ \A i \in 1 .. AddressLen : key[i] = p[i]
      /\ \A i \in 1 .. TimeLen : key[AddressLen + i] = (x \o m)[i]
  <2> DEFINE y == x \o m
  <2>1. Len(y) = TimeLen + 1
    BY <1>1, <1>2, Concatenated
  <2>2. y \in Seq(Nat) /\ key = p \o y
    BY <1>1
  <2> HIDE DEF y
  <2>3. /\ \A i \in 1 .. Len(p) : (p \o y)[i] = p[i]
        /\ \A i \in 1 .. Len(y) : (p \o y)[Len(p) + i] = y[i]
    BY <1>1, <2>2, Concatenated
  <2>4. \A i \in 1 .. TimeLen : i \in 1 .. Len(y)
    BY <1>2, <2>1
  <2>5. \A i \in 1 .. TimeLen : key[AddressLen + i] = y[i]
    BY <1>1, <2>2, <2>3, <2>4
  <2> QED BY <1>1, <2>2, <2>3, <2>5 DEF y
<1>5. \A i \in 1 .. TimeLen : (x \o m)[i] = x[i]
  BY <1>1, Concatenated
<1>6. SubSeq(key, 1, AddressLen) = p
  <2>1. /\ Len(p) = (AddressLen - 1) + 1 /\ AddressLen \in Nat
        /\ \A i \in 1 .. Len(p) : key[(1 - 1) + i] = p[i]
    BY <1>1, <1>2, <1>4
  <2>2. key \in Seq(Nat) /\ p \in Seq(Nat) /\ AddressLen <= Len(key) /\ 1 \in Nat \ {0}
    BY <1>1, <1>2
  <2> QED BY <2>1, <2>2, CutOut, Zenon
<1>7. SubSeq(key, AddressLen + 1, AddressLen + TimeLen) = x
  <2>1. /\ Len(x) = ((AddressLen + TimeLen) - (AddressLen + 1)) + 1
        /\ \A i \in 1 .. Len(x) : key[((AddressLen + 1) - 1) + i] = x[i]
    <3>1. (AddressLen + 1) - 1 = AddressLen /\ TimeLen = ((AddressLen + TimeLen) - (AddressLen + 1)) + 1
      BY <1>2
    <3> QED BY <1>1, <1>4, <1>5, <3>1, Zenon
  <2>2. /\ key \in Seq(Nat) /\ x \in Seq(Nat) /\ AddressLen + 1 \in Nat \ {0}
        /\ AddressLen + TimeLen \in Nat /\ AddressLen + TimeLen <= Len(key)
    BY <1>1, <1>2
  <2> QED BY <2>1, <2>2, CutOut, Zenon
<1> QED BY <1>3, <1>6, <1>7, Zenon DEF UnmarshallAddressKey, p, key

\* A row is shown with its own address, time and transaction, and its amount.
LEMMA RowRead ==
  ASSUME Stored, NEW k \in DOMAIN addressDB
  PROVE  LET row == AddressIndexOf(k)
             tx == addressDB[k].tx
         IN  /\ row.tx = tx /\ row.address = tx.address /\ row.time = tx.time
             /\ row.value \in {Value(tx), -Value(tx)}
<1> DEFINE tx == addressDB[k].tx
           u == [address |-> tx.address, time |-> tx.time]
           v == [tx |-> tx, value |-> Number(Bytes(Value(tx)))]
<1>1. tx \in Rows /\ k = KeyOf(tx) /\ addressDB[k] = MarshallAddressValue(tx, Value(tx))
  BY StoredKeys
<1>2. UnmarshallAddressKey(k) = u
  BY <1>1, KeyRead, Zenon
<1>3. UnmarshallAddressValue(addressDB[k]) = v
  <2>1. addressDB[k].value = Bytes(Value(tx))
    BY <1>1 DEF MarshallAddressValue
  <2> QED BY <2>1 DEF UnmarshallAddressValue
<1>4. AddressIndexOf(k) = [address |-> u.address, time |-> u.time, tx |-> v.tx, value |-> v.value]
  BY <1>2, <1>3, Zenon DEF AddressIndexOf
<1>5. tx.time \in Nat /\ IsTime(tx.time)
  BY <1>1, BlocksAreTimes DEF Rows, IsTime
<1>6. Number(Bytes(Value(tx))) = tx.time
  BY <1>5, TimeRead, NoSign DEF Value
<1>7. tx.time \in {Value(tx), -Value(tx)}
  BY <1>5 DEF Value
<1> HIDE DEF tx
<1> QED BY <1>4, <1>6, <1>7 DEF tx

-----------------------------------------------------------------------------
(* What a page has of the answer to a request.                             *)

\* What of an entry of a page a client takes down.
Item(q, x) == IF q.what = "blocks" THEN x ELSE x.tx

\* Where x is in the answer to q.
Place(q, x) == Rank(x, Matching(q), Answer(q))

\* The page at start has what list has there.
HasPage(q, reply, rows, start, list) ==
  LET total == Counted(Cardinality(Matching(q)))
      len   == PageLength(total, rows, start)
  IN  /\ reply.total = total
      /\ DOMAIN reply.page = 1 .. len /\ Len(reply.page) = len
      /\ \A i \in 1 .. len : start + i \in 1 .. total /\ Item(q, reply.page[i]) = list[start + i]

\* The reply is a page of the whole answer to q.
Answered(q, reply, rows, start) ==
  /\ IsFiniteSet(Matching(q)) /\ Cardinality(Matching(q)) \in Nat /\ Orders(Answer(q), Matching(q))
  /\ \E list : Listing(list, Matching(q), Answer(q)) /\ HasPage(q, reply, rows, start, list)

\* The number of rows of a page is not negative.
LEMMA RowsAreNumbers ==
  ASSUME NEW p \in RowsParams
  PROVE  Atoi(p, DefaultRows) \in Nat
<1> QED BY RowsAssumption, NumMaxAssumption DEF Atoi

\* Which places a page has, and which it has if it is not full.
LEMMA PageLengthIs ==
  ASSUME NEW n \in Nat, NEW rows \in Nat, NEW start \in Nat
  PROVE  LET total == Counted(n)
             len == PageLength(total, rows, start)
         IN  /\ total \in Nat /\ total <= n /\ total <= NumMaxTransaction + 1
             /\ len \in 0 .. rows /\ (len > 0 => start + len <= total)
             /\ \A k \in 0 .. n - 1 : k \in start .. start + rows - 1 /\ k <= NumMaxTransaction =>
                                        k - start + 1 \in 1 .. len
             /\ len < rows /\ n <= NumMaxTransaction =>
                  \A k \in 0 .. n - 1 : k >= start => k - start + 1 \in 1 .. len
<1>1. NumMaxTransaction \in Nat
  BY NumMaxAssumption
<1> DEFINE total == Counted(n)
           len == PageLength(total, rows, start)
<1>2. /\ total \in Nat /\ total <= n /\ total <= NumMaxTransaction + 1
      /\ total < n => total = NumMaxTransaction + 1
      /\ n <= NumMaxTransaction => total = n
  BY <1>1 DEF Counted
<1> HIDE DEF total
<1>3. /\ len \in 0 .. rows /\ (len > 0 => start + len <= total)
      /\ len < rows => start + len = total \/ (len = 0 /\ start >= total)
  BY <1>2 DEF PageLength
<1> HIDE DEF len
<1>4. ASSUME NEW k \in 0 .. n - 1, k \in start .. start + rows - 1, k <= NumMaxTransaction
      PROVE  k - start + 1 \in 1 .. len
  <2>1. k < total
    BY <1>1, <1>2, <1>4
  <2> QED BY <1>2, <1>3, <1>4, <2>1
<1>5. ASSUME len < rows, n <= NumMaxTransaction, NEW k \in 0 .. n - 1, k >= start
      PROVE  k - start + 1 \in 1 .. len
  BY <1>2, <1>3, <1>5
<1> QED BY <1>2, <1>3, <1>4, <1>5 DEF total, len

\* GetTransactionByAddress replies with a page of the answer, every entry of which is
\* made of a row.
LEMMA AccountAnswered ==
  ASSUME Stored, NEW q \in AccountRequests, NEW p \in RowsParams, NEW start \in Nat
  PROVE  LET rows == Atoi(p, DefaultRows)
             reply == Reply(q, p, start)
         IN  /\ Answered(q, reply, rows, start)
             /\ \A i \in DOMAIN reply.page : \E k \in DOMAIN addressDB : reply.page[i] = AddressIndexOf(k)
<1> DEFINE rows == Atoi(p, DefaultRows)
           M == Matching(q)
           n == Cardinality(M)
           walk == Walk(KeyRange(q), HasTimes(q))
           list == [i \in 1 .. n |-> addressDB[walk[i]].tx]
           found == FindByKeyPrefix(walk, HasTimes(q), rows, start)
           page == [i \in DOMAIN found.page |-> AddressIndexOf(found.page[i])]
           total == Counted(n)
           len == PageLength(total, rows, start)
           reply == Reply(q, p, start)
<1>1. /\ IsFiniteSet(M) /\ n \in Nat /\ Orders(Answer(q), M)
      /\ walk \in [1 .. n -> KeysFor(q)] /\ Listing(list, M, Answer(q))
  BY AccountListing
<1>2. rows \in Nat
  BY RowsAreNumbers
<1>3. q.what = "account" /\ ~BadAddress(q)
  <2>1. q.what = "account" /\ q.account \in Strings(AddressLen)
    BY AddressesAssumption DEF AccountRequests, Strings
  <2>2. q.account # <<>>
    BY <2>1, EncodingAssumption, StringsAreSeqs
  <2> QED BY <2>1, <2>2 DEF BadAddress
<1> HIDE DEF rows, walk, n
<1>4. Counted(Len(walk)) = total
  BY <1>1
<1>5. /\ found = [total |-> total, page |-> found.page] /\ found.page \in Seq(KeysFor(q))
      /\ Len(found.page) = len
      /\ \A i \in 1 .. len : start + i \in 1 .. total /\ found.page[i] = walk[start + i]
  <2>1. CutFrom(found, walk, KeysFor(q), rows, start)
    <3>1. HasTimes(q) \in BOOLEAN
      BY DEF HasTimes
    <3> QED BY <1>1, <1>2, <3>1, PageIs
  <2> HIDE DEF found, total
  <2> QED BY <1>4, <2>1 DEF CutFrom
<1>6. reply = [total |-> total, page |-> page]
  <2>1. reply = [found EXCEPT !.page = page]
    <3> HIDE DEF AddressIndexOf, found, page
    <3>1. reply = GetTransactionByAddress(q, rows, start)
      BY <1>3 DEF Reply, rows
    <3> QED BY <1>3, <3>1 DEF GetTransactionByAddress, found, page, walk
  <2> HIDE DEF found, page, total
  <2> QED BY <1>5, <2>1
<1> HIDE DEF found, reply, M
<1>7. total \in Nat /\ total <= n /\ len \in Nat
  <2>1. total \in Nat /\ total <= n /\ len \in 0 .. rows
    BY <1>1, <1>2, PageLengthIs, Zenon
  <2> HIDE DEF len, total
  <2> QED BY <1>2, <2>1
<1>8. DOMAIN page = 1 .. len /\ Len(page) = len
  <2> HIDE DEF len
  <2> QED BY <1>5, <1>7
<1>9. ASSUME NEW i \in 1 .. len
      PROVE  /\ start + i \in 1 .. total /\ page[i].tx = list[start + i]
             /\ \E k \in DOMAIN addressDB : page[i] = AddressIndexOf(k)
  <2> HIDE DEF len, total
  <2>1. start + i \in 1 .. total /\ start + i \in 1 .. n /\ found.page[i] = walk[start + i]
    BY <1>1, <1>5, <1>7
  <2>2. walk[start + i] \in KeysFor(q) /\ walk[start + i] \in DOMAIN addressDB
    BY <1>1, <2>1 DEF KeysFor
  <2>3. page[i] = AddressIndexOf(walk[start + i])
    BY <1>8, <2>1
  <2>4. AddressIndexOf(walk[start + i]).tx = addressDB[walk[start + i]].tx
    BY <2>2, RowRead, Zenon
  <2>5. list[start + i] = addressDB[walk[start + i]].tx
    BY <2>1
  <2> HIDE DEF page, list
  <2> QED BY <2>1, <2>2, <2>3, <2>4, <2>5, Zenon
<1>10. reply.total = total /\ reply.page = page /\ \A x : Item(q, x) = x.tx
  BY <1>3, <1>6 DEF Item
<1> HIDE DEF page, list, len, total
<1>11. /\ DOMAIN reply.page = 1 .. len /\ Len(reply.page) = len /\ reply.total = total
       /\ \A i \in 1 .. len : start + i \in 1 .. total /\ Item(q, reply.page[i]) = list[start + i]
       /\ \A i \in DOMAIN reply.page : \E k \in DOMAIN addressDB : reply.page[i] = AddressIndexOf(k)
  BY <1>8, <1>9, <1>10, Zenon
<1>12. HasPage(q, reply, rows, start, list)
  BY <1>11, Zenon DEF HasPage, len, total, n, M
<1>13. Answered(q, reply, rows, start)
  BY <1>1, <1>12, Zenon DEF Answered, n, M
<1> QED BY <1>11, <1>13, Zenon DEF reply, rows

\* GetBlocks replies with a page of the answer.
LEMMA BlocksAnswered ==
  ASSUME Stored, NEW q, q.what = "blocks", NEW p \in RowsParams, NEW start \in Nat
  PROVE  Answered(q, Reply(q, p, start), Atoi(p, DefaultRows), start)
<1> DEFINE rows == Atoi(p, DefaultRows)
           M == Matching(q)
           n == Cardinality(M)
           walk == Reverse(InOrder(DOMAIN blockDB, KeyBefore))
           total == Counted(n)
           len == PageLength(total, rows, start)
           reply == Reply(q, p, start)
<1>1. /\ IsFiniteSet(M) /\ n \in Nat /\ Orders(Answer(q), M) /\ Listing(walk, M, Answer(q))
  BY BlocksListing
<1>2. rows \in Nat
  BY RowsAreNumbers
<1>3. reply = FindByKeyPrefix(walk, FALSE, rows, start)
  BY DEF Reply, GetBlocks
<1>4. walk \in [1 .. n -> M]
  BY <1>1 DEF Listing
<1> HIDE DEF rows, walk, n, reply, M
<1>5. Counted(Len(walk)) = total
  BY <1>1, <1>4
<1>6. CutFrom(reply, walk, M, rows, start)
  BY <1>1, <1>2, <1>3, <1>4, PageIs
<1> HIDE DEF total
<1>7. /\ reply.page \in Seq(M) /\ Len(reply.page) = len /\ reply.total = total
      /\ \A i \in 1 .. len : start + i \in 1 .. total /\ reply.page[i] = walk[start + i]
  BY <1>5, <1>6 DEF CutFrom
<1>8. DOMAIN reply.page = 1 .. len
  BY <1>7
<1>9. \A x : Item(q, x) = x
  BY DEF Item
<1> HIDE DEF len
<1>10. HasPage(q, reply, rows, start, walk)
  BY <1>7, <1>8, <1>9, Zenon DEF HasPage, len, total, n, M
<1>11. Answered(q, reply, rows, start)
  BY <1>1, <1>10, Zenon DEF Answered, n, M
<1> QED BY <1>11 DEF reply, rows

\* Where the items of a page are in the answer, and that none is left out.
Covers(q, reply, rows, start) ==
  LET M == Matching(q)
      n == Cardinality(M)
      page == reply.page
  IN  /\ IsFiniteSet(M) /\ n \in Nat /\ reply.total = Counted(n)
      /\ Len(page) \in 0 .. rows /\ DOMAIN page = 1 .. Len(page)
      /\ \A i \in DOMAIN page : /\ Item(q, page[i]) \in M
                                /\ Place(q, Item(q, page[i])) = start + i - 1
                                /\ start + i - 1 <= NumMaxTransaction
      /\ \A x \in M : /\ Place(q, x) \in 0 .. n - 1
                      /\ Place(q, x) \in start .. start + rows - 1 /\ Place(q, x) <= NumMaxTransaction =>
                           \E i \in DOMAIN page : Item(q, page[i]) = x
                      /\ Len(page) < rows /\ n <= NumMaxTransaction /\ Place(q, x) >= start =>
                           \E i \in DOMAIN page : Item(q, page[i]) = x

\* A page of the answer has what is at its places, and nothing else.
LEMMA PageItems ==
  ASSUME NEW q, NEW reply, NEW rows \in Nat, NEW start \in Nat, Answered(q, reply, rows, start)
  PROVE  Covers(q, reply, rows, start)
<1> DEFINE M == Matching(q)
           n == Cardinality(M)
           page == reply.page
           total == Counted(n)
           len == PageLength(total, rows, start)
<1>1. PICK list : Listing(list, M, Answer(q)) /\ HasPage(q, reply, rows, start, list)
  BY DEF Answered
<1>2. IsFiniteSet(M) /\ n \in Nat /\ Orders(Answer(q), M)
  BY DEF Answered
<1>3. /\ reply.total = total /\ DOMAIN page = 1 .. len /\ Len(page) = len
      /\ \A i \in 1 .. len : start + i \in 1 .. total /\ Item(q, page[i]) = list[start + i]
  BY <1>1, Zenon DEF HasPage
<1>4. /\ list \in [1 .. n -> M]
      /\ \A i \in 1 .. n : Place(q, list[i]) = i - 1
  BY <1>1 DEF Listing, Place
<1>5. NumMaxTransaction \in Nat
  BY NumMaxAssumption
<1>6. /\ total \in Nat /\ total <= n /\ total <= NumMaxTransaction + 1
      /\ len \in 0 .. rows
      /\ \A k \in 0 .. n - 1 : k \in start .. start + rows - 1 /\ k <= NumMaxTransaction =>
                                 k - start + 1 \in 1 .. len
      /\ len < rows /\ n <= NumMaxTransaction =>
           \A k \in 0 .. n - 1 : k >= start => k - start + 1 \in 1 .. len
  BY <1>2, PageLengthIs, Zenon
<1>7. ASSUME NEW x \in M
      PROVE  Place(q, x) \in 0 .. n - 1 /\ list[Place(q, x) + 1] = x
  <2>1. \A i \in 1 .. Cardinality(M) : Rank(list[i], M, Answer(q)) = i - 1
    BY <1>1 DEF Listing
  <2> QED BY <1>2, <1>4, <2>1, RankIsIndex, Zenon DEF Place
<1> HIDE DEF M, n, page, total, len
<1>8. ASSUME NEW i \in DOMAIN page
      PROVE  /\ Item(q, page[i]) \in M /\ Place(q, Item(q, page[i])) = start + i - 1
             /\ start + i - 1 <= NumMaxTransaction
  <2>1. i \in 1 .. len /\ start + i \in 1 .. total /\ Item(q, page[i]) = list[start + i]
    BY <1>3
  <2>2. start + i \in 1 .. n /\ start + i - 1 <= NumMaxTransaction
    BY <1>2, <1>5, <1>6, <2>1
  <2> QED BY <1>4, <2>1, <2>2
<1>9. ASSUME NEW x \in M, Place(q, x) - start + 1 \in 1 .. len
      PROVE  \E i \in DOMAIN page : Item(q, page[i]) = x
  <2>1. Place(q, x) \in 0 .. n - 1 /\ list[Place(q, x) + 1] = x
    BY <1>7
  <2> DEFINE i == Place(q, x) - start + 1
  <2>2. i \in DOMAIN page /\ start + i = Place(q, x) + 1 /\ Item(q, page[i]) = list[start + i]
    BY <1>2, <1>3, <1>9, <2>1
  <2> QED BY <2>1, <2>2
<1>10. ASSUME NEW x \in M
       PROVE  /\ Place(q, x) \in 0 .. n - 1
              /\ Place(q, x) \in start .. start + rows - 1 /\ Place(q, x) <= NumMaxTransaction =>
                   \E i \in DOMAIN page : Item(q, page[i]) = x
              /\ Len(page) < rows /\ n <= NumMaxTransaction /\ Place(q, x) >= start =>
                   \E i \in DOMAIN page : Item(q, page[i]) = x
  <2>1. Place(q, x) \in 0 .. n - 1
    BY <1>7
  <2>2. Place(q, x) \in Nat
    BY <1>2, <2>1
  <2> QED BY <1>3, <1>6, <1>9, <2>1, <2>2, Zenon
<1> QED BY <1>2, <1>3, <1>6, <1>8, <1>10, Zenon DEF M, n, page, total, Covers

-----------------------------------------------------------------------------
(* What is stored stays so.                                                *)

\* How many rows a block may have at most for each address.
Sizes == [Addresses -> 0 .. Base - 1]

\* The rows of a block are finitely many rows, with that block's time.
LEMMA RowsOfBlock ==
  ASSUME NEW n \in Blocks, NEW shape \in Sizes
  PROVE  /\ RowsOf(n, shape) \subseteq Rows /\ \A r \in RowsOf(n, shape) : r.time = n
         /\ \A r \in Rows : r \in RowsOf(n, shape) <=> r.time = n /\ r.seq <= shape[r.address]
         /\ IsFiniteSet(RowsOf(n, shape)) /\ IsFiniteSet({KeyOf(r) : r \in RowsOf(n, shape)})
<1> DEFINE S == RowsOf(n, shape)
           T == Addresses \X (0 .. Base - 1)
           f == [r \in S |-> <<r.address, r.seq>>]
           K == {KeyOf(r) : r \in S}
           g == [r \in S |-> KeyOf(r)]
<1>1. Base \in Nat /\ \A a \in Addresses : shape[a] \in 0 .. Base - 1
  BY EncodingAssumption DEF Sizes
<1>2. \A r : r \in S <=> \E a \in Addresses : \E s \in 1 .. shape[a] :
                           r = [address |-> a, time |-> n, seq |-> s]
  BY DEF RowsOf
<1>3. ASSUME NEW r \in S
      PROVE  /\ r \in Rows /\ r.time = n /\ r.seq \in 1 .. shape[r.address]
             /\ r = [address |-> r.address, time |-> n, seq |-> r.seq]
  <2>1. PICK a \in Addresses : \E s \in 1 .. shape[a] : r = [address |-> a, time |-> n, seq |-> s]
    BY <1>2
  <2>2. PICK s \in 1 .. shape[a] : r = [address |-> a, time |-> n, seq |-> s]
    BY <2>1
  <2>3. s \in 1 .. Base - 1
    BY <1>1, <2>1
  <2> QED BY <2>2, <2>3 DEF Rows
<1>4. ASSUME NEW r \in Rows, r.time = n, r.seq <= shape[r.address]
      PROVE  r \in S
  <2>1. r.address \in Addresses /\ r.seq \in 1 .. Base - 1 /\ r = [address |-> r.address, time |-> n, seq |-> r.seq]
    BY <1>4 DEF Rows
  <2>2. r.seq \in 1 .. shape[r.address]
    BY <1>1, <1>4, <2>1
  <2> QED BY <1>2, <2>1, <2>2
<1>5. ASSUME NEW r \in S
      PROVE  r.seq <= shape[r.address]
  BY <1>1, <1>3 DEF Rows
<1> HIDE DEF S
<1>6. IsFiniteSet(S)
  <2>1. IsFiniteSet(T)
    <3>1. 0 \in Int /\ Base - 1 \in Int
      BY <1>1
    <3>2. IsFiniteSet(0 .. Base - 1)
      BY <3>1, FS_Interval, Zenon
    <3> QED BY <3>2, AddressesAssumption, FS_Product, Zenon
  <2>2. \A r \in S : r.address \in Addresses /\ r.seq \in 0 .. Base - 1
    BY <1>1, <1>3 DEF Rows
  <2>3. f \in [S -> T]
    BY <2>2
  <2>4. \A r, s \in S : f[r] = f[s] => r = s
    BY <1>3
  <2> HIDE DEF f, T
  <2>5. f \in Injection(S, T)
    BY <2>3, <2>4 DEF Injection, IsInjective
  <2> QED BY <2>1, <2>5, FS_Injection
<1>7. IsFiniteSet(K)
  <2>1. g \in [S -> K] /\ \A k \in K : \E r \in S : g[r] = k
    OBVIOUS
  <2> HIDE DEF g, K
  <2>2. g \in Surjection(S, K)
    BY <2>1 DEF Surjection
  <2> QED BY <1>6, <2>2, FS_Surjection
<1> QED BY <1>3, <1>4, <1>5, <1>6, <1>7 DEF S, K

\* db holds rows under their keys.
Holds(db) ==
  /\ IsFiniteSet(DOMAIN db)
  /\ \A k \in DOMAIN db : LET r == db[k].tx
                          IN  r \in Rows /\ k = KeyOf(r) /\ db[k] = MarshallAddressValue(r, Value(r))

\* Stored, as a statement about each database.
LEMMA StoredIs ==
  Stored <=> Holds(addressDB) /\ IsFiniteSet(DOMAIN blockDB) /\ DOMAIN blockDB \subseteq Blocks
<1> QED BY DEF Stored, Holds

\* What is left of a database after some rows are deleted.
LEMMA HoldsPart ==
  ASSUME NEW db, Holds(db), NEW S, S \subseteq DOMAIN db
  PROVE  Holds(Restrict(db, S))
<1> DEFINE part == Restrict(db, S)
<1>1. DOMAIN part = S /\ \A k \in S : part[k] = db[k]
  BY DEF Restrict
<1>2. IsFiniteSet(S)
  BY FS_Subset DEF Holds
<1> HIDE DEF part
<1>3. Holds(part)
  BY <1>1, <1>2 DEF Holds
<1> QED BY <1>3 DEF part

\* What a batch of writes does.
LEMMA PutIs ==
  ASSUME NEW db, NEW new
  PROVE  /\ DOMAIN Put(db, new) = DOMAIN new \cup DOMAIN db
         /\ \A k \in DOMAIN new : Put(db, new)[k] = new[k]
         /\ \A k \in DOMAIN db \ DOMAIN new : Put(db, new)[k] = db[k]
<1> QED BY DEF Put

\* The entries of the rows of a block.
Entries(n, shape) ==
  LET rows == RowsOf(n, shape)
  IN  [k \in {KeyOf(r) : r \in rows} |->
         LET r == CHOOSE r \in rows : KeyOf(r) = k IN MarshallAddressValue(r, Value(r))]

\* What SaveAddressIndex writes are the rows of the block under their keys.
LEMMA EntriesHold ==
  ASSUME NEW n \in Blocks, NEW shape \in Shapes
  PROVE  LET new == Entries(n, shape)
         IN  /\ Holds(new) /\ DOMAIN new = {KeyOf(r) : r \in RowsOf(n, shape)}
             /\ \A r \in RowsOf(n, shape) : KeyOf(r) \in DOMAIN new /\ new[KeyOf(r)].tx = r
             /\ \A k \in DOMAIN new : new[k].tx \in RowsOf(n, shape) /\ new[k].tx.time = n
<1> DEFINE S == RowsOf(n, shape)
           K == {KeyOf(r) : r \in S}
           new == Entries(n, shape)
           named(k) == CHOOSE r \in S : KeyOf(r) = k
<1>1. S \subseteq Rows /\ IsFiniteSet(K) /\ \A r \in S : r.time = n
  <2>1. shape \in Sizes
    BY ShapesAssumption DEF Sizes
  <2> QED BY <2>1, RowsOfBlock, Zenon
<1>2. new = [k \in K |-> MarshallAddressValue(named(k), Value(named(k)))]
  BY Zenon DEF Entries
<1>3. \A k \in K : named(k) \in S /\ KeyOf(named(k)) = k
  OBVIOUS
<1> HIDE DEF S, named, new
<1>4. DOMAIN new = K /\ \A k \in K : new[k] = MarshallAddressValue(named(k), Value(named(k)))
  BY <1>2
<1>5. \A k \in K : new[k].tx = named(k)
  <2>1. \A r : MarshallAddressValue(r, Value(r)).tx = r
    BY DEF MarshallAddressValue
  <2> QED BY <1>4, <2>1, Zenon
<1>6. Holds(new)
  <2>1. ASSUME NEW k \in K
        PROVE  new[k].tx \in Rows /\ k = KeyOf(new[k].tx) /\ new[k] = MarshallAddressValue(new[k].tx, Value(new[k].tx))
    BY <1>1, <1>3, <1>4, <1>5
  <2> HIDE DEF K
  <2> QED BY <1>1, <1>4, <2>1, Zenon DEF Holds
<1>7. ASSUME NEW r \in S
      PROVE  KeyOf(r) \in K /\ new[KeyOf(r)].tx = r
  <2>1. KeyOf(r) \in K
    OBVIOUS
  <2>2. named(KeyOf(r)) \in Rows /\ r \in Rows /\ KeyOf(named(KeyOf(r))) = KeyOf(r)
    BY <1>1, <1>3, <2>1
  <2> QED BY <1>5, <2>1, <2>2, KeyNamesRow
<1>8. \A k \in K : new[k].tx \in S /\ new[k].tx.time = n
  BY <1>1, <1>3, <1>5
<1> QED BY <1>4, <1>6, <1>7, <1>8, Zenon DEF S, new

\* What was in the database and what is written.
LEMMA HoldsBoth ==
  ASSUME NEW db, NEW new, Holds(db), Holds(new)
  PROVE  Holds(Put(db, new))
<1> DEFINE both == Put(db, new)
<1>1. /\ DOMAIN both = DOMAIN new \cup DOMAIN db
      /\ \A k \in DOMAIN new : both[k] = new[k]
      /\ \A k \in DOMAIN db \ DOMAIN new : both[k] = db[k]
  BY PutIs, Zenon
<1> HIDE DEF both
<1>2. IsFiniteSet(DOMAIN both)
  <2>1. IsFiniteSet(DOMAIN new) /\ IsFiniteSet(DOMAIN db)
    BY DEF Holds
  <2>2. IsFiniteSet(DOMAIN new \cup DOMAIN db)
    BY <2>1, FS_Union, Zenon
  <2> QED BY <1>1, <2>2
<1>3. ASSUME NEW k \in DOMAIN both
      PROVE  /\ both[k].tx \in Rows /\ k = KeyOf(both[k].tx)
             /\ both[k] = MarshallAddressValue(both[k].tx, Value(both[k].tx))
  <2>1. CASE k \in DOMAIN new
    BY <1>1, <2>1, Zenon DEF Holds
  <2>2. CASE k \notin DOMAIN new
    BY <1>1, <2>2, Zenon DEF Holds
  <2> QED BY <2>1, <2>2
<1>4. Holds(both)
  BY <1>2, <1>3 DEF Holds
<1> QED BY <1>4 DEF both

\* SaveAddressIndex writes those entries.
LEMMA SaveIs ==
  ASSUME NEW n \in Blocks, SaveAddressIndex(n)
  PROVE  /\ \E shape \in Shapes : addressDB' = Put(addressDB, Entries(n, shape))
         /\ KeysAt(n) = {} /\ UNCHANGED <<blockDB, client>>
<1> QED BY Zenon DEF SaveAddressIndex, Entries

\* No step stores a row under a key that is not its own, or a record of no block.
LEMMA StoredStep ==
  ASSUME Stored, [Next]_vars
  PROVE  Stored'
<1>1. Holds(addressDB) /\ IsFiniteSet(DOMAIN blockDB) /\ DOMAIN blockDB \subseteq Blocks
  BY StoredIs
<1> SUFFICES Holds(addressDB') /\ IsFiniteSet(DOMAIN blockDB') /\ DOMAIN blockDB' \subseteq Blocks
  BY DEF Stored, Holds
<1>2. ASSUME NEW n \in Blocks, SaveAddressIndex(n)
      PROVE  Holds(addressDB') /\ IsFiniteSet(DOMAIN blockDB') /\ DOMAIN blockDB' \subseteq Blocks
  <2>1. PICK shape \in Shapes : addressDB' = Put(addressDB, Entries(n, shape))
    BY <1>2, SaveIs
  <2>2. Holds(Entries(n, shape))
    BY EntriesHold
  <2>3. Holds(addressDB')
    BY <1>1, <2>1, <2>2, HoldsBoth
  <2> QED BY <1>1, <1>2, <2>3 DEF SaveAddressIndex
<1>3. ASSUME NEW n \in Blocks, SaveBlockIndex(n)
      PROVE  Holds(addressDB') /\ IsFiniteSet(DOMAIN blockDB') /\ DOMAIN blockDB' \subseteq Blocks
  <2>1. addressDB' = addressDB /\ blockDB' = Put(blockDB, [m \in {n} |-> MarshallBlockValue(BlockIndexOf(n))])
    BY <1>3 DEF SaveBlockIndex
  <2>2. DOMAIN blockDB' = {n} \cup DOMAIN blockDB
    BY <2>1, PutIs
  <2>3. IsFiniteSet({n} \cup DOMAIN blockDB)
    BY <1>1, FS_Singleton, FS_Union
  <2> QED BY <1>1, <2>1, <2>2, <2>3
<1>4. ASSUME NEW n \in Blocks, HandleReorg(n)
      PROVE  Holds(addressDB') /\ IsFiniteSet(DOMAIN blockDB') /\ DOMAIN blockDB' \subseteq Blocks
  <2>1. addressDB' = Restrict(addressDB, DOMAIN addressDB \ ReorgKeys(n)) /\ blockDB' = blockDB
    BY <1>4 DEF HandleReorg
  <2>2. DOMAIN addressDB \ ReorgKeys(n) \subseteq DOMAIN addressDB
    OBVIOUS
  <2>3. Holds(addressDB')
    BY <1>1, <2>1, <2>2, HoldsPart, Zenon
  <2> QED BY <1>1, <2>1, <2>3
<1>5. ASSUME DeleteOldBlocks
      PROVE  Holds(addressDB') /\ IsFiniteSet(DOMAIN blockDB') /\ DOMAIN blockDB' \subseteq Blocks
  <2>1. addressDB' = addressDB /\ \E gone : blockDB' = Restrict(blockDB, DOMAIN blockDB \ gone)
    BY <1>5, Zenon DEF DeleteOldBlocks
  <2>2. PICK gone : blockDB' = Restrict(blockDB, DOMAIN blockDB \ gone)
    BY <2>1
  <2>3. DOMAIN blockDB' = DOMAIN blockDB \ gone
    BY <2>2 DEF Restrict
  <2>4. IsFiniteSet(DOMAIN blockDB \ gone)
    BY <1>1, FS_Difference
  <2> QED BY <1>1, <2>1, <2>3, <2>4
<1>6. CASE Ask \/ NextPage \/ Leave
  BY <1>1, <1>6 DEF Ask, NextPage, Leave
<1>7. CASE UNCHANGED vars
  BY <1>1, <1>7 DEF vars
<1> QED BY <1>2, <1>3, <1>4, <1>5, <1>6, <1>7 DEF Next

-----------------------------------------------------------------------------
(* The rows of a block and the record of it.                               *)

\* The rows that are stored of a block.
TxAt(n) == {addressDB[k].tx : k \in KeysAt(n)}

\* Of every block, the first so many rows of each address are stored.
Whole == \A n \in Blocks : \E shape \in Sizes : TxAt(n) = RowsOf(n, shape)

\* How many rows of an address are stored of a block.
Count(n, a) == Cardinality({k \in KeysAt(n) : addressDB[k].tx.address = a})

\* A row of a block, and its key.
LEMMA RowIs ==
  ASSUME NEW n \in Blocks, NEW shape \in Sizes, NEW a \in Addresses, NEW s \in 1 .. shape[a]
  PROVE  LET r == [address |-> a, time |-> n, seq |-> s] IN
         /\ r \in Rows /\ r \in RowsOf(n, shape)
         /\ KeyOf(r) = MarshallAddressKey(a, n, s)
<1> DEFINE r == [address |-> a, time |-> n, seq |-> s]
<1>1. Base \in Nat /\ shape[a] \in 0 .. Base - 1
  BY EncodingAssumption DEF Sizes
<1>2. r \in Rows
  BY <1>1 DEF Rows
<1>3. r.time = n /\ r.seq <= shape[r.address]
  BY <1>1
<1>4. KeyOf(r) = MarshallAddressKey(a, n, s)
  BY DEF KeyOf
<1>5. r \in RowsOf(n, shape)
  <2> HIDE DEF r
  <2> QED BY <1>2, <1>3, RowsOfBlock
<1> QED BY <1>2, <1>4, <1>5

\* If the rows of a block are as in a shape, its keys are theirs.
LEMMA KeysOfRows ==
  ASSUME Stored, NEW n \in Blocks, NEW shape \in Sizes, TxAt(n) = RowsOf(n, shape)
  PROVE  /\ \A r \in RowsOf(n, shape) : KeyOf(r) \in KeysAt(n) /\ addressDB[KeyOf(r)].tx = r
         /\ \A k \in KeysAt(n) : /\ addressDB[k].tx \in RowsOf(n, shape) /\ KeyOf(addressDB[k].tx) = k
                                 /\ addressDB[k].tx.seq \in 1 .. shape[addressDB[k].tx.address]
                                 /\ addressDB[k].tx \in Rows /\ addressDB[k].tx.time = n
<1>1. ASSUME NEW r \in RowsOf(n, shape)
      PROVE  KeyOf(r) \in KeysAt(n) /\ addressDB[KeyOf(r)].tx = r
  <2>1. PICK k \in KeysAt(n) : addressDB[k].tx = r
    BY DEF TxAt
  <2>2. k = KeyOf(r)
    BY <2>1, StoredKeys DEF KeysAt
  <2> QED BY <2>1, <2>2
<1>2. ASSUME NEW k \in KeysAt(n)
      PROVE  /\ addressDB[k].tx \in RowsOf(n, shape) /\ KeyOf(addressDB[k].tx) = k
             /\ addressDB[k].tx.seq \in 1 .. shape[addressDB[k].tx.address]
             /\ addressDB[k].tx \in Rows /\ addressDB[k].tx.time = n
  <2> DEFINE r == addressDB[k].tx
  <2>1. r \in RowsOf(n, shape)
    BY DEF TxAt
  <2>2. k = KeyOf(r) /\ r \in Rows /\ r.time = n
    BY StoredKeys DEF KeysAt
  <2> HIDE DEF r
  <2>3. r.seq <= shape[r.address]
    BY <2>1, <2>2, RowsOfBlock
  <2>4. r.seq \in 1 .. Base - 1 /\ shape[r.address] \in 0 .. Base - 1 /\ Base \in Nat
    BY <2>2, EncodingAssumption DEF Rows, Sizes
  <2>5. r.seq \in 1 .. shape[r.address]
    BY <2>3, <2>4
  <2> QED BY <2>1, <2>2, <2>5 DEF r
<1> QED BY <1>1, <1>2

\* And then CreateIndexData counts as many for each address.
LEMMA CountIs ==
  ASSUME Stored, NEW n \in Blocks, NEW shape \in Sizes, TxAt(n) = RowsOf(n, shape), NEW a \in Addresses
  PROVE  Count(n, a) = shape[a]
<1> DEFINE C == {k \in KeysAt(n) : addressDB[k].tx.address = a}
           row(s) == [address |-> a, time |-> n, seq |-> s]
           f == [s \in 1 .. shape[a] |-> KeyOf(row(s))]
<1>1. \A s \in 1 .. shape[a] : row(s) \in Rows /\ row(s) \in RowsOf(n, shape)
  BY RowIs
<1>2. \A s \in 1 .. shape[a] : row(s).address = a /\ row(s).seq = s
  OBVIOUS
<1>3. \A r \in Rows : r.address = a /\ r.time = n => r = row(r.seq)
  BY DEF Rows
<1> HIDE DEF row
<1>4. \A s \in 1 .. shape[a] : KeyOf(row(s)) \in C
  BY <1>1, <1>2, KeysOfRows
<1>5. \A k \in C : \E s \in 1 .. shape[a] : KeyOf(row(s)) = k
  <2>1. ASSUME NEW k \in C
        PROVE  \E s \in 1 .. shape[a] : KeyOf(row(s)) = k
    <3>1. k \in KeysAt(n) /\ addressDB[k].tx.address = a
      OBVIOUS
    <3>2. /\ KeyOf(addressDB[k].tx) = k /\ addressDB[k].tx.seq \in 1 .. shape[a]
          /\ addressDB[k].tx \in Rows /\ addressDB[k].tx.time = n
      BY <3>1, KeysOfRows
    <3>3. addressDB[k].tx = row(addressDB[k].tx.seq)
      BY <1>3, <3>1, <3>2
    <3> QED BY <3>2, <3>3
  <2> QED BY <2>1
<1>6. \A s, t \in 1 .. shape[a] : KeyOf(row(s)) = KeyOf(row(t)) => s = t
  <2>1. ASSUME NEW s \in 1 .. shape[a], NEW t \in 1 .. shape[a], KeyOf(row(s)) = KeyOf(row(t))
        PROVE  s = t
    <3>1. row(s) = row(t)
      BY <1>1, <2>1, KeyNamesRow
    <3> QED BY <1>2, <3>1
  <2> QED BY <2>1
<1> HIDE DEF C
<1>7. f \in [1 .. shape[a] -> C]
  BY <1>4
<1>8. f \in Injection(1 .. shape[a], C) /\ f \in Surjection(1 .. shape[a], C)
  <2>1. \A s, t \in 1 .. shape[a] : f[s] = f[t] => s = t
    BY <1>6
  <2>2. \A k \in C : \E s \in 1 .. shape[a] : f[s] = k
    BY <1>5
  <2> HIDE DEF f
  <2> QED BY <1>7, <2>1, <2>2 DEF Injection, IsInjective, Surjection
<1>9. shape[a] \in Nat
  BY EncodingAssumption DEF Sizes
<1>10. IsFiniteSet(1 .. shape[a]) /\ Cardinality(1 .. shape[a]) = shape[a]
  <2>1. Cardinality(1 .. shape[a]) = IF 1 > shape[a] THEN 0 ELSE shape[a] - 1 + 1
    BY <1>9, FS_Interval
  <2>2. IsFiniteSet(1 .. shape[a])
    BY <1>9, FS_Interval
  <2> QED BY <1>9, <2>1, <2>2
<1> HIDE DEF f
<1>11. Cardinality(C) = shape[a]
  BY <1>8, <1>10, FS_Surjection
<1> QED BY <1>11 DEF C, Count

-----------------------------------------------------------------------------
(* The client between two pages.                                           *)

\* A database holds finitely many rows.
LEMMA RowsFinite ==
  ASSUME NEW db, Holds(db)
  PROVE  IsFiniteSet({db[k].tx : k \in DOMAIN db})
<1> DEFINE T == {db[k].tx : k \in DOMAIN db}
           f == [k \in DOMAIN db |-> db[k].tx]
<1>1. f \in [DOMAIN db -> T] /\ \A r \in T : \E k \in DOMAIN db : f[k] = r
  OBVIOUS
<1> HIDE DEF f, T
<1>2. f \in Surjection(DOMAIN db, T)
  BY <1>1 DEF Surjection
<1>3. IsFiniteSet(T)
  BY <1>2, FS_Surjection DEF Holds
<1> QED BY <1>3 DEF T

\* A request is about finitely many rows, and each has its place.
LEMMA MatchingFinite ==
  ASSUME Stored, NEW q
  PROVE  IsFiniteSet(Matching(q)) /\ \A x \in Matching(q) : Place(q, x) \in Nat
<1>1. Holds(addressDB) /\ IsFiniteSet(DOMAIN blockDB)
  BY StoredIs
<1>2. IsFiniteSet(Matching(q))
  <2>1. CASE q.what = "blocks"
    BY <1>1, <2>1 DEF Matching
  <2>2. CASE q.what # "blocks"
    <3>1. Matching(q) \subseteq {addressDB[k].tx : k \in DOMAIN addressDB}
      BY <2>2 DEF Matching
    <3>2. IsFiniteSet({addressDB[k].tx : k \in DOMAIN addressDB})
      BY <1>1, RowsFinite
    <3> QED BY <3>1, <3>2, FS_Subset
  <2> QED BY <2>1, <2>2
<1>3. ASSUME NEW x \in Matching(q)
      PROVE  Place(q, x) \in Nat
  <2>1. Below(x, Matching(q), Answer(q)) \subseteq Matching(q)
    BY DEF Below
  <2>2. IsFiniteSet(Below(x, Matching(q), Answer(q)))
    BY <1>2, <2>1, FS_Subset
  <2> QED BY <2>2, FS_CardinalityType DEF Place, Rank
<1> QED BY <1>2, <1>3

\* In a larger set, an element has more before it.
LEMMA RankGrows ==
  ASSUME NEW S, NEW T, IsFiniteSet(T), S \subseteq T, NEW R, NEW Q, NEW x,
         \A y \in S : <<y, x>> \in R => <<y, x>> \in Q
  PROVE  Rank(x, S, R) \in Nat /\ Rank(x, T, Q) \in Nat /\ Rank(x, S, R) <= Rank(x, T, Q)
<1>1. Below(x, S, R) \subseteq Below(x, T, Q) /\ Below(x, T, Q) \subseteq T
  BY DEF Below
<1>2. IsFiniteSet(Below(x, T, Q))
  BY <1>1, FS_Subset
<1>3. IsFiniteSet(Below(x, S, R)) /\ Cardinality(Below(x, S, R)) <= Cardinality(Below(x, T, Q))
  BY <1>1, <1>2, FS_Subset
<1> QED BY <1>2, <1>3, FS_CardinalityType DEF Rank

\* Rows that come do not move another one to an earlier page.
LEMMA PlaceGrows ==
  ASSUME Stored', NEW q, Matching(q) \subseteq Matching(q)', NEW x \in Matching(q)
  PROVE  Place(q, x) \in Nat /\ Place(q, x)' \in Nat /\ Place(q, x) <= Place(q, x)'
<1> DEFINE M == Matching(q)
           A == Answer(q)
<1>1. IsFiniteSet(M')
  <2>1. Holds(addressDB') /\ IsFiniteSet(DOMAIN blockDB')
    BY DEF Stored, Holds
  <2>2. CASE q.what = "blocks"
    BY <2>1, <2>2 DEF Matching
  <2>3. CASE q.what # "blocks"
    <3>1. M' \subseteq {addressDB'[k].tx : k \in DOMAIN addressDB'}
      BY <2>3 DEF Matching
    <3>2. IsFiniteSet({addressDB'[k].tx : k \in DOMAIN addressDB'})
      BY <2>1, RowsFinite
    <3> QED BY <3>1, <3>2, FS_Subset
  <2> QED BY <2>2, <2>3
<1>2. \A y \in M : <<y, x>> \in A => <<y, x>> \in A'
  <2>1. ASSUME NEW y \in M, <<y, x>> \in A
        PROVE  <<y, x>> \in A'
    <3>1. y \in M' /\ x \in M'
      OBVIOUS
    <3>2. CASE q.what = "blocks"
      BY <2>1, <3>1, <3>2 DEF Answer
    <3>3. CASE q.what # "blocks"
      <4>1. Precedes(q, y, x)
        BY <2>1, <3>3 DEF Answer
      <4>2. Precedes(q, y, x)'
        BY <4>1 DEF Precedes, HasTimes
      <4> QED BY <3>1, <3>3, <4>2 DEF Answer
    <3> QED BY <3>2, <3>3
  <2> QED BY <2>1
<1> HIDE DEF M, A
<1>3. M \subseteq M'
  BY DEF M
<1>4. Rank(x, M, A) \in Nat /\ Rank(x, M', A') \in Nat /\ Rank(x, M, A) <= Rank(x, M', A')
  BY <1>1, <1>2, <1>3, RankGrows
<1> QED BY <1>4 DEF Place, M, A, Rank, Below

\* A client that waits for a page has got all that comes before it.
Paging ==
  /\ client = [pc |-> "paging", request |-> client.request, rows |-> client.rows,
               start |-> client.start, missing |-> client.missing]
  /\ client.request \in Requests /\ client.rows \in RowsParams /\ client.start \in Nat
  /\ \A x \in client.missing : x \in Matching(client.request) /\ Place(client.request, x) >= client.start

\* A client that waits for nothing misses nothing.
ClientOK == client = NoClient \/ client = [pc |-> "done", missing |-> {}] \/ Paging

\* What ClientOK says of each state of a client.
LEMMA PcIs ==
  ASSUME ClientOK
  PROVE  /\ client.pc \in {"idle", "paging", "done"}
         /\ client.pc = "paging" => Paging
         /\ client.pc = "done" => client = [pc |-> "done", missing |-> {}]
         /\ client.pc = "idle" => client = NoClient
<1> QED BY DEF ClientOK, NoClient, Paging

\* A client that is told to expect nothing more is as good as before.
LEMMA NothingMissing ==
  ASSUME ClientOK, client' = [client EXCEPT !.missing = {}]
  PROVE  ClientOK'
<1>1. CASE client = NoClient
  BY <1>1 DEF ClientOK, NoClient
<1>2. CASE client = [pc |-> "done", missing |-> {}]
  BY <1>2 DEF ClientOK
<1>3. CASE Paging
  <2>1. client' = [pc |-> "paging", request |-> client.request, rows |-> client.rows,
                   start |-> client.start, missing |-> {}]
    BY <1>3 DEF Paging
  <2>2. /\ client'.request = client.request /\ client'.rows = client.rows /\ client'.start = client.start
        /\ client'.missing = {}
    BY <2>1
  <2>3. Paging'
    BY <1>3, <2>1, <2>2 DEF Paging, Requests
  <2> QED BY <2>3 DEF ClientOK
<1> QED BY <1>1, <1>2, <1>3 DEF ClientOK

\* A client is not hurt by rows that come.
LEMMA NothingElseMissing ==
  ASSUME ClientOK, Stored', UNCHANGED client, \A q : Matching(q) \subseteq Matching(q)'
  PROVE  ClientOK'
<1>1. CASE client = NoClient \/ client = [pc |-> "done", missing |-> {}]
  BY <1>1 DEF ClientOK, NoClient
<1>2. CASE Paging
  <2>1. PICK q : q = client.request
    OBVIOUS
  <2>2. client'.request = q /\ client' = client
    BY <2>1
  <2>3. ASSUME NEW x \in client.missing
        PROVE  x \in Matching(q)' /\ Place(q, x)' >= client.start
    <3>1. x \in Matching(q) /\ Place(q, x) >= client.start /\ client.start \in Nat
      BY <1>2, <2>1 DEF Paging
    <3>2. Matching(q) \subseteq Matching(q)'
      OBVIOUS
    <3>3. Place(q, x) \in Nat /\ Place(q, x)' \in Nat /\ Place(q, x) <= Place(q, x)'
      BY <3>1, <3>2, PlaceGrows
    <3> QED BY <3>1, <3>2, <3>3
  <2>4. \A x \in client'.missing : x \in Matching(client.request)' /\ Place(client.request, x)' >= client'.start
    BY <2>1, <2>2, <2>3
  <2>5. Paging'
    BY <1>2, <2>2, <2>4 DEF Paging, Requests
  <2> QED BY <2>5 DEF ClientOK
<1> QED BY <1>1, <1>2 DEF ClientOK

\* SaveAddressIndex changes no row that is stored.
LEMMA RowsStay ==
  ASSUME Stored, NEW n \in Blocks, SaveAddressIndex(n)
  PROVE  /\ DOMAIN addressDB \subseteq DOMAIN addressDB'
         /\ \A k \in DOMAIN addressDB : addressDB'[k] = addressDB[k]
<1>1. PICK shape \in Shapes : addressDB' = Put(addressDB, Entries(n, shape))
  BY SaveIs
<1> DEFINE new == Entries(n, shape)
<1>2. /\ DOMAIN addressDB' = DOMAIN new \cup DOMAIN addressDB
      /\ \A k \in DOMAIN addressDB \ DOMAIN new : addressDB'[k] = addressDB[k]
  <2> HIDE DEF new
  <2>1. addressDB' = Put(addressDB, new)
    BY <1>1 DEF new
  <2> QED BY <2>1 DEF Put
<1>3. ASSUME NEW k \in DOMAIN addressDB, k \in DOMAIN new
      PROVE  FALSE
  <2>1. Holds(new) /\ new[k].tx.time = n
    BY <1>3, EntriesHold, Zenon
  <2>2. new[k].tx \in Rows /\ KeyOf(new[k].tx) = k
    BY <1>3, <2>1, Zenon DEF Holds
  <2>3. addressDB[k].tx \in Rows /\ KeyOf(addressDB[k].tx) = k
    BY StoredKeys
  <2>4. addressDB[k].tx = new[k].tx
    BY <2>2, <2>3, KeyNamesRow
  <2>5. k \in KeysAt(n)
    BY <2>1, <2>4 DEF KeysAt
  <2> QED BY <2>5, SaveIs
<1> HIDE DEF new
<1> QED BY <1>2, <1>3

\* If no row goes, a request is about no fewer rows.
LEMMA MatchingGrows ==
  ASSUME DOMAIN addressDB \subseteq DOMAIN addressDB', \A k \in DOMAIN addressDB : addressDB'[k] = addressDB[k],
         DOMAIN blockDB \subseteq DOMAIN blockDB', NEW q
  PROVE  Matching(q) \subseteq Matching(q)'
<1>1. CASE q.what = "blocks"
  BY <1>1 DEF Matching
<1>2. CASE q.what # "blocks"
  <2>1. {addressDB[k].tx : k \in DOMAIN addressDB} \subseteq {addressDB'[k].tx : k \in DOMAIN addressDB'}
    OBVIOUS
  <2> QED BY <1>2, <2>1 DEF Matching
<1> QED BY <1>1, <1>2

\* After a page, a client has got all that comes before the next one, and all there
\* is if the page was not full.
LEMMA PageTaken ==
  ASSUME Stored, ClientOK, NextPage
  PROVE  ClientOK'
<1> DEFINE q == client.request
           start == client.start
           rows == Atoi(client.rows, DefaultRows)
           reply == Reply(q, client.rows, start)
           page == reply.page
           missing == IF reply.total > NumMaxTransaction THEN {}
                      ELSE client.missing \ Items(q, page)
           M == Matching(q)
<1>1. /\ client.pc = "paging" /\ addressDB' = addressDB /\ blockDB' = blockDB
      /\ client' = IF Len(page) < rows THEN [pc |-> "done", missing |-> missing]
                   ELSE [client EXCEPT !.start = @ + rows, !.missing = missing]
  BY Zenon DEF NextPage
<1>2. /\ client = [pc |-> "paging", request |-> q, rows |-> client.rows,
                   start |-> start, missing |-> client.missing]
      /\ q \in Requests /\ client.rows \in RowsParams /\ start \in Nat
      /\ \A x \in client.missing : x \in M /\ Place(q, x) >= start
  BY <1>1, PcIs DEF Paging
<1>3. rows \in Nat
  BY <1>2, RowsAreNumbers
<1>4. /\ Len(page) < rows => missing = {}
      /\ ~(Len(page) < rows) => \A x \in missing : x \in M /\ Place(q, x) >= start + rows
  <2>1. CASE q \in AccountRequests \/ q.what = "blocks"
    <3>1. Answered(q, reply, rows, start)
      BY <1>2, <2>1, AccountAnswered, BlocksAnswered, Zenon
    <3> DEFINE n == Cardinality(M)
    <3>2. /\ n \in Nat /\ reply.total = Counted(n)
          /\ Len(page) \in 0 .. rows /\ DOMAIN page = 1 .. Len(page)
          /\ \A x \in M : /\ Place(q, x) \in 0 .. n - 1
                          /\ Place(q, x) \in start .. start + rows - 1 /\ Place(q, x) <= NumMaxTransaction =>
                               \E i \in DOMAIN page : Item(q, page[i]) = x
                          /\ Len(page) < rows /\ n <= NumMaxTransaction /\ Place(q, x) >= start =>
                               \E i \in DOMAIN page : Item(q, page[i]) = x
      <4>1. Covers(q, reply, rows, start)
        BY <1>2, <1>3, <3>1, PageItems
      <4> HIDE DEF q, reply, rows, start
      <4> QED BY <4>1, Zenon DEF Covers
    <3>3. \A x : (\E i \in DOMAIN page : Item(q, page[i]) = x) => x \in Items(q, page)
      <4>1. CASE q.what = "blocks"
        BY <4>1 DEF Items, Item, Range
      <4>2. CASE q.what # "blocks"
        BY <4>2 DEF Items, Item
      <4> QED BY <4>1, <4>2
    <3> HIDE DEF M, n, page, reply, rows, q, start
    <3>4. NumMaxTransaction \in Nat
      BY NumMaxAssumption
    <3>5. CASE reply.total > NumMaxTransaction
      BY <3>5
    <3>6. CASE ~(reply.total > NumMaxTransaction)
      <4>1. n <= NumMaxTransaction
        BY <3>2, <3>4, <3>6 DEF Counted
      <4>2. missing = client.missing \ Items(q, page)
        BY <3>6
      <4>3. ASSUME NEW x \in missing
            PROVE  /\ x \in M /\ Place(q, x) \in 0 .. n - 1 /\ Place(q, x) >= start
                   /\ ~(Len(page) < rows) /\ Place(q, x) \notin start .. start + rows - 1
        <5>1. x \in M /\ Place(q, x) >= start /\ x \notin Items(q, page)
          BY <1>2, <4>2, <4>3
        <5>2. Place(q, x) \in 0 .. n - 1 /\ Place(q, x) <= NumMaxTransaction
          BY <3>2, <3>4, <4>1, <5>1
        <5> QED BY <3>2, <3>3, <4>1, <5>1, <5>2
      <4>4. ASSUME NEW x \in missing
            PROVE  Place(q, x) >= start + rows
        BY <1>2, <1>3, <3>2, <4>3
      <4> QED BY <4>3, <4>4
    <3> QED BY <3>5, <3>6
  <2>2. CASE ~(q \in AccountRequests \/ q.what = "blocks")
    <3>1. q.what = "account" /\ q.account = <<>>
      BY <1>2, <2>2 DEF Requests, AccountRequests
    <3>2. M = {}
      <4>1. \A k \in DOMAIN addressDB : addressDB[k].tx.address # <<>>
        <5>1. ASSUME NEW k \in DOMAIN addressDB
              PROVE  addressDB[k].tx.address # <<>>
          <6>1. Len(addressDB[k].tx.address) = AddressLen
            BY StoredKeys, KeyParts
          <6> QED BY <6>1, EncodingAssumption
        <5> QED BY <5>1
      <4> QED BY <3>1, <4>1 DEF Matching
    <3>3. client.missing = {}
      BY <1>2, <3>2
    <3> QED BY <3>3
  <2> QED BY <2>1, <2>2
<1> HIDE DEF q, start, rows, page, missing
<1>5. CASE Len(page) < rows
  BY <1>1, <1>4, <1>5 DEF ClientOK
<1>6. CASE ~(Len(page) < rows)
  <2>1. client' = [pc |-> "paging", request |-> q, rows |-> client.rows,
                   start |-> start + rows, missing |-> missing]
    <3>1. client' = [client EXCEPT !.start = start + rows, !.missing = missing]
      BY <1>1, <1>6, Zenon DEF start
    <3>2. client' = [pc |-> "paging", request |-> q, rows |-> client.rows,
                     start |-> start + rows, missing |-> missing]
      <4>1. client = [pc |-> "paging", request |-> q, rows |-> client.rows,
                      start |-> start, missing |-> client.missing]
        BY <1>2
      <4> DEFINE c1 == [client EXCEPT !.start = start + rows]
                 c2 == [c1 EXCEPT !.missing = missing]
      <4>2. c1 = [pc |-> "paging", request |-> q, rows |-> client.rows,
                  start |-> start + rows, missing |-> client.missing]
        BY <4>1
      <4>3. c2 = [pc |-> "paging", request |-> q, rows |-> client.rows,
                  start |-> start + rows, missing |-> missing]
        <5> HIDE DEF c1
        <5> QED BY <4>2
      <4>4. client' = c2
        BY <3>1
      <4> HIDE DEF c2
      <4> QED BY <4>3, <4>4
    <3> QED BY <3>2
  <2>2. /\ client'.request = q /\ client'.rows = client.rows /\ client'.start = start + rows
        /\ client'.missing = missing /\ start + rows \in Nat
    BY <1>2, <1>3, <2>1
  <2>3. PICK p : p = q
    OBVIOUS
  <2>4. Matching(p)' = Matching(p) /\ \A x : Place(p, x)' = Place(p, x)
    BY <1>1 DEF Place, Rank, Below, Answer, Matching, Precedes, HasTimes
  <2>5. client'.request = p /\ \A x \in missing : x \in Matching(p) /\ Place(p, x) >= start + rows
    BY <1>4, <1>6, <2>2, <2>3
  <2>6. \A x \in client'.missing : x \in Matching(client.request)' /\ Place(client.request, x)' >= client'.start
    BY <2>2, <2>4, <2>5
  <2>7. Paging'
    BY <1>2, <2>1, <2>2, <2>6 DEF Paging, Requests, q
  <2> QED BY <2>7 DEF ClientOK
<1> QED BY <1>5, <1>6

\* No step makes a client miss a row.
LEMMA ClientStep ==
  ASSUME Stored, Stored', ClientOK, [Next]_vars
  PROVE  ClientOK'
<1>1. ASSUME NEW n \in Blocks, SaveAddressIndex(n)
      PROVE  ClientOK'
  <2>1. /\ DOMAIN addressDB \subseteq DOMAIN addressDB'
        /\ \A k \in DOMAIN addressDB : addressDB'[k] = addressDB[k]
        /\ DOMAIN blockDB \subseteq DOMAIN blockDB' /\ UNCHANGED client
    BY <1>1, RowsStay DEF SaveAddressIndex
  <2>2. \A q : Matching(q) \subseteq Matching(q)'
    BY <2>1, MatchingGrows
  <2> QED BY <2>1, <2>2, NothingElseMissing
<1>2. ASSUME NEW n \in Blocks, SaveBlockIndex(n)
      PROVE  ClientOK'
  <2>1. /\ blockDB' = Put(blockDB, [m \in {n} |-> MarshallBlockValue(BlockIndexOf(n))])
        /\ UNCHANGED <<addressDB, client>>
    BY <1>2 DEF SaveBlockIndex
  <2>2. DOMAIN blockDB \subseteq DOMAIN blockDB'
    BY <2>1 DEF Put
  <2>3. \A q : Matching(q) \subseteq Matching(q)'
    BY <2>1, <2>2, MatchingGrows
  <2> QED BY <2>1, <2>3, NothingElseMissing
<1>3. ASSUME NEW n \in Blocks, HandleReorg(n)
      PROVE  ClientOK'
  BY <1>3, NothingMissing DEF HandleReorg, RowsGo
<1>4. CASE DeleteOldBlocks
  BY <1>4, NothingMissing DEF DeleteOldBlocks, RowsGo
<1>5. CASE Ask
  <2>1. PICK q \in Requests, rows \in RowsParams :
          client' = [pc |-> "paging", request |-> q, rows |-> rows, start |-> 0, missing |-> Matching(q)]
    BY <1>5 DEF Ask
  <2>2. addressDB' = addressDB /\ blockDB' = blockDB
    BY <1>5 DEF Ask
  <2>3. /\ client'.request = q /\ client'.rows = rows /\ client'.start = 0 /\ client'.missing = Matching(q)
    BY <2>1
  <2>4. Matching(q)' = Matching(q) /\ \A x : Place(q, x)' = Place(q, x)
    BY <2>2 DEF Place, Rank, Below, Answer, Matching, Precedes, HasTimes
  <2>5. \A x \in Matching(q) : Place(q, x) \in Nat /\ Place(q, x) >= 0
    BY MatchingFinite
  <2>6. \A x \in client'.missing : x \in Matching(client.request)' /\ Place(client.request, x)' >= client'.start
    BY <2>3, <2>4, <2>5
  <2>7. Paging'
    BY <2>1, <2>3, <2>6 DEF Paging, Requests
  <2> QED BY <2>7 DEF ClientOK
<1>6. CASE NextPage
  BY <1>6, PageTaken
<1>7. CASE Leave
  BY <1>7 DEF Leave, ClientOK, NoClient
<1>8. CASE UNCHANGED vars
  <2>1. \A q : Matching(q) \subseteq Matching(q)'
    BY <1>8, MatchingGrows DEF vars
  <2> QED BY <1>8, <2>1, NothingElseMissing DEF vars
<1> QED BY <1>1, <1>2, <1>3, <1>4, <1>5, <1>6, <1>7, <1>8 DEF Next

-----------------------------------------------------------------------------
(* The record of a block and the reorganisation that reads it.             *)

\* SetToSeq lists every element of a finite set.
LEMMA SetAsSequence ==
  ASSUME NEW S, IsFiniteSet(S)
  PROVE  /\ Cardinality(S) \in Nat /\ SetToSeq(S) \in [1 .. Cardinality(S) -> S]
         /\ Range(SetToSeq(S)) = S
<1> DEFINE n == Cardinality(S)
           list == SetToSeq(S)
<1>1. n \in Nat /\ ExistsBijection(1 .. n, S)
  BY FS_CardinalityType
<1>2. \E f \in [1 .. n -> S] : IsInjective(f)
  <2>1. PICK f \in Bijection(1 .. n, S) : TRUE
    BY <1>1 DEF ExistsBijection
  <2> QED BY <2>1 DEF Bijection, Injection
<1>3. list \in [1 .. n -> S] /\ IsInjective(list)
  BY <1>2, Zenon DEF SetToSeq
<1> HIDE DEF list
<1>4. list \in Injection(1 .. n, S)
  BY <1>3 DEF Injection
<1>5. Cardinality(1 .. n) = n
  <2>1. Cardinality(1 .. n) = IF 1 > n THEN 0 ELSE n - 1 + 1
    BY <1>1, FS_Interval
  <2> QED BY <1>1, <2>1
<1>6. list \in Surjection(1 .. n, S)
  BY <1>4, <1>5, FS_Injection
<1>7. Range(list) = S
  BY <1>6 DEF Surjection, Range
<1> QED BY <1>1, <1>3, <1>7 DEF list

\* The addresses of the record of a block, each with its last sequence.
AddressesAt(n) ==
  {[address |-> a, sequence |-> Count(n, a)] : a \in {b \in Addresses : Count(n, b) > 0}}

\* The record that CreateIndexData makes names those addresses.
LEMMA BlockIndexIs ==
  ASSUME NEW n
  PROVE  BlockIndexOf(n) = [time |-> n, createdAt |-> n + 1, addresses |-> SetToSeq(AddressesAt(n))]
<1> QED BY Zenon DEF BlockIndexOf, AddressesAt, Count

\* And UnmarshallBlockValue reads them out of the record.
LEMMA RecordOfBlock ==
  ASSUME Stored, NEW n \in Blocks, NEW shape \in Sizes, TxAt(n) = RowsOf(n, shape)
  PROVE  LET read == UnmarshallBlockValue(MarshallBlockValue(BlockIndexOf(n)))
         IN  read.time = n /\ Range(read.addresses) = AddressesAt(n)
<1> DEFINE index == BlockIndexOf(n)
           S == AddressesAt(n)
           B == {b \in Addresses : Count(n, b) > 0}
           f == [a \in B |-> [address |-> a, sequence |-> Count(n, a)]]
<1>1. IsFiniteSet(S)
  <2>1. IsFiniteSet(B)
    BY AddressesAssumption, FS_Subset
  <2>2. f \in [B -> S] /\ \A x \in S : \E a \in B : f[a] = x
    BY DEF AddressesAt
  <2> HIDE DEF f, B, S
  <2>3. f \in Surjection(B, S)
    BY <2>2 DEF Surjection
  <2> QED BY <2>1, <2>3, FS_Surjection
<1>2. S \subseteq [address : Strings(AddressLen), sequence : 0 .. Base - 1]
  <2>1. \A a \in Addresses : Count(n, a) \in 0 .. Base - 1
    BY CountIs DEF Sizes
  <2> QED BY <2>1, AddressesAssumption DEF AddressesAt, Strings
<1>3. index.time = n /\ index.createdAt = n + 1 /\ index.addresses = SetToSeq(S)
  BY BlockIndexIs
<1> HIDE DEF index, S
<1>4. /\ Cardinality(S) \in Nat /\ SetToSeq(S) \in [1 .. Cardinality(S) -> S]
      /\ Range(SetToSeq(S)) = S
  BY <1>1, SetAsSequence
<1>5. index.addresses \in Named(Cardinality(S))
  BY <1>2, <1>3, <1>4 DEF Named
<1>6. IsTime(n) /\ IsTime(n + 1)
  <2>1. n \in Nat /\ n # NoTime /\ IsTime(n)
    BY BlocksAreTimes DEF IsTime
  <2>2. n + 1 < Power(Base, TimeLen)
    BY <2>1, TimesAssumption
  <2>3. Power(Base, TimeLen - 1) \in Nat
    BY EncodingAssumption, PowerType
  <2> QED BY <2>1, <2>2, <2>3 DEF IsTime
<1> DEFINE read == UnmarshallBlockValue(MarshallBlockValue(index))
<1>7. read.time = index.time /\ read.addresses = index.addresses
  <2>1. IsTime(index.time) /\ IsTime(index.createdAt) /\ Cardinality(S) \in Nat
    BY <1>3, <1>4, <1>6
  <2> QED BY <1>5, <2>1, RecordRead, Zenon
<1> HIDE DEF read
<1>8. read.time = n /\ Range(read.addresses) = S
  BY <1>3, <1>4, <1>7
<1> QED BY <1>8 DEF read, index, S

\* The keys that the record of a block names are those of its rows.
LEMMA ReorgKeysAre ==
  ASSUME Stored, Whole, NEW n \in DOMAIN blockDB, n \in Blocks, ~StoreUnderWay
  PROVE  ReorgKeys(n) = KeysAt(n)
<1> DEFINE index == UnmarshallBlockValue(blockDB[n])
<1>1. PICK shape \in Sizes : TxAt(n) = RowsOf(n, shape)
  BY DEF Whole
<1>2. blockDB[n] = MarshallBlockValue(BlockIndexOf(n))
  BY DEF StoreUnderWay
<1>3. index.time = n /\ Range(index.addresses) = AddressesAt(n)
  BY <1>1, <1>2, RecordOfBlock
<1>4. ReorgKeys(n) = UNION {{MarshallAddressKey(a.address, index.time, s) : s \in 1 .. a.sequence} :
                            a \in Range(index.addresses)}
  BY Zenon DEF ReorgKeys
<1> HIDE DEF index
<1>5. \A k : k \in ReorgKeys(n) <=> \E x \in AddressesAt(n) : \E s \in 1 .. x.sequence :
                                      k = MarshallAddressKey(x.address, n, s)
  BY <1>3, <1>4
<1>6. \A a \in Addresses : Count(n, a) = shape[a] /\ shape[a] \in Nat
  BY <1>1, CountIs, EncodingAssumption DEF Sizes
<1>7. ASSUME NEW k \in ReorgKeys(n)
      PROVE  k \in KeysAt(n)
  <2>1. PICK x \in AddressesAt(n) : \E s \in 1 .. x.sequence : k = MarshallAddressKey(x.address, n, s)
    BY <1>5
  <2>2. PICK a \in Addresses : x = [address |-> a, sequence |-> Count(n, a)]
    BY DEF AddressesAt
  <2>3. PICK s \in 1 .. shape[a] : k = MarshallAddressKey(a, n, s)
    BY <1>6, <2>1, <2>2
  <2> DEFINE r == [address |-> a, time |-> n, seq |-> s]
  <2>4. r \in RowsOf(n, shape) /\ KeyOf(r) = k
    BY <2>3, RowIs
  <2> HIDE DEF r
  <2> QED BY <1>1, <2>4, KeysOfRows
<1>8. ASSUME NEW k \in KeysAt(n)
      PROVE  k \in ReorgKeys(n)
  <2> DEFINE r == addressDB[k].tx
  <2>1. KeyOf(r) = k /\ r.seq \in 1 .. shape[r.address] /\ r \in Rows /\ r.time = n
    BY <1>1, KeysOfRows
  <2> HIDE DEF r
  <2>2. r.address \in Addresses /\ k = MarshallAddressKey(r.address, n, r.seq)
    BY <2>1 DEF Rows, KeyOf
  <2>3. Count(n, r.address) = shape[r.address] /\ Count(n, r.address) > 0
    <3>1. Count(n, r.address) = shape[r.address] /\ shape[r.address] \in Nat
      BY <1>6, <2>2
    <3> QED BY <2>1, <3>1
  <2> DEFINE x == [address |-> r.address, sequence |-> Count(n, r.address)]
  <2>4. x \in AddressesAt(n)
    BY <2>2, <2>3 DEF AddressesAt
  <2>5. x.address = r.address /\ r.seq \in 1 .. x.sequence
    BY <2>1, <2>3
  <2> HIDE DEF x
  <2> QED BY <1>5, <2>2, <2>4, <2>5
<1> QED BY <1>7, <1>8

\* The rows of a block come and go together.
LEMMA WholeStep ==
  ASSUME Stored, Stored', Whole, [Next]_vars
  PROVE  Whole'
<1>1. ASSUME NEW n \in Blocks, SaveAddressIndex(n)
      PROVE  Whole'
  <2>1. PICK shape \in Shapes : addressDB' = Put(addressDB, Entries(n, shape))
    BY <1>1, SaveIs
  <2>2. KeysAt(n) = {} /\ shape \in Sizes
    BY <1>1, SaveIs, ShapesAssumption DEF Sizes
  <2> DEFINE new == Entries(n, shape)
  <2>3. /\ DOMAIN new = {KeyOf(r) : r \in RowsOf(n, shape)}
        /\ \A r \in RowsOf(n, shape) : KeyOf(r) \in DOMAIN new /\ new[KeyOf(r)].tx = r
        /\ \A k \in DOMAIN new : new[k].tx \in RowsOf(n, shape) /\ new[k].tx.time = n
    BY EntriesHold
  <2>4. /\ DOMAIN addressDB' = DOMAIN new \cup DOMAIN addressDB
        /\ \A k \in DOMAIN new : addressDB'[k] = new[k]
        /\ \A k \in DOMAIN addressDB \ DOMAIN new : addressDB'[k] = addressDB[k]
    <3> DEFINE both == Put(addressDB, new)
    <3> HIDE DEF new
    <3>1. /\ DOMAIN both = DOMAIN new \cup DOMAIN addressDB
          /\ \A k \in DOMAIN new : both[k] = new[k]
          /\ \A k \in DOMAIN addressDB \ DOMAIN new : both[k] = addressDB[k]
      BY PutIs
    <3>2. addressDB' = both
      BY <2>1 DEF new
    <3> HIDE DEF both
    <3> QED BY <3>1, <3>2
  <2>5. \A k \in DOMAIN addressDB : addressDB'[k] = addressDB[k]
    BY <1>1, RowsStay
  <2> HIDE DEF new
  <2>6. KeysAt(n)' = DOMAIN new
    BY <2>2, <2>3, <2>4 DEF KeysAt
  <2>7. TxAt(n)' = RowsOf(n, shape)
    <3>1. TxAt(n)' = {new[k].tx : k \in DOMAIN new}
      BY <2>4, <2>6 DEF TxAt
    <3> QED BY <2>3, <3>1
  <2>8. ASSUME NEW m \in Blocks, m # n
        PROVE  TxAt(m)' = TxAt(m)
    <3>1. KeysAt(m)' = KeysAt(m)
      BY <2>3, <2>4, <2>5, <2>8 DEF KeysAt
    <3>2. \A k \in KeysAt(m) : addressDB'[k] = addressDB[k]
      BY <2>5 DEF KeysAt
    <3> QED BY <3>1, <3>2 DEF TxAt
  <2>9. ASSUME NEW m \in Blocks
        PROVE  \E sh \in Sizes : TxAt(m)' = RowsOf(m, sh)
    <3>1. CASE m = n
      BY <2>2, <2>7, <3>1
    <3>2. CASE m # n
      BY <2>8, <3>2 DEF Whole
    <3> QED BY <3>1, <3>2
  <2> QED BY <2>9 DEF Whole, RowsOf
<1>2. ASSUME NEW n \in Blocks, HandleReorg(n)
      PROVE  Whole'
  <2>1. addressDB' = Restrict(addressDB, DOMAIN addressDB \ KeysAt(n))
    <3>1. ReorgKeys(n) = KeysAt(n)
      BY <1>2, ReorgKeysAre DEF HandleReorg
    <3> QED BY <1>2, <3>1 DEF HandleReorg
  <2>2. /\ DOMAIN addressDB' = DOMAIN addressDB \ KeysAt(n)
        /\ \A k \in DOMAIN addressDB' : addressDB'[k] = addressDB[k]
    BY <2>1 DEF Restrict
  <2>3. ASSUME NEW m \in Blocks
        PROVE  \E sh \in Sizes : TxAt(m)' = RowsOf(m, sh)
    <3>1. CASE m = n
      <4>1. KeysAt(n)' = {}
        BY <2>2 DEF KeysAt
      <4>2. TxAt(n)' = {}
        BY <4>1 DEF TxAt
      <4> DEFINE none == [a \in Addresses |-> 0]
      <4>3. none \in Sizes
        BY EncodingAssumption DEF Sizes
      <4>4. RowsOf(n, none) = {}
        BY DEF RowsOf
      <4> HIDE DEF none
      <4> QED BY <3>1, <4>2, <4>3, <4>4
    <3>2. CASE m # n
      <4>1. KeysAt(m)' = KeysAt(m)
        BY <2>2, <3>2 DEF KeysAt
      <4>2. \A k \in KeysAt(m) : addressDB'[k] = addressDB[k]
        BY <2>2, <3>2 DEF KeysAt
      <4>3. TxAt(m)' = TxAt(m)
        BY <4>1, <4>2 DEF TxAt
      <4> QED BY <4>3 DEF Whole
    <3> QED BY <3>1, <3>2
  <2> QED BY <2>3 DEF Whole, RowsOf
<1>3. ASSUME UNCHANGED addressDB
      PROVE  Whole'
  BY <1>3 DEF Whole, TxAt, KeysAt, RowsOf
<1>4. ASSUME NEW n \in Blocks, SaveBlockIndex(n)
      PROVE  UNCHANGED addressDB
  BY <1>4 DEF SaveBlockIndex
<1>5. DeleteOldBlocks \/ Ask \/ NextPage \/ Leave \/ UNCHANGED vars => UNCHANGED addressDB
  BY DEF DeleteOldBlocks, Ask, NextPage, Leave, vars
<1> QED BY <1>1, <1>2, <1>3, <1>4, <1>5 DEF Next

-----------------------------------------------------------------------------
(* Theorems.                                                               *)

\* The inductive invariant.
IInv == Stored /\ Whole /\ ClientOK

\* What is stored and what a client waits for fit together, in every state.
THEOREM Inductive == Spec => []IInv
<1>1. Init => IInv
  <2>1. SUFFICES ASSUME Init PROVE IInv
    OBVIOUS
  <2>2. DOMAIN addressDB = {} /\ DOMAIN blockDB = {} /\ client = NoClient
    BY <2>1 DEF Init
  <2>3. Stored
    BY <2>2, FS_EmptySet DEF Stored
  <2>4. Whole
    <3> DEFINE none == [a \in Addresses |-> 0]
    <3>1. none \in Sizes
      BY EncodingAssumption DEF Sizes
    <3>2. \A n \in Blocks : TxAt(n) = {} /\ RowsOf(n, none) = {}
      BY <2>2 DEF TxAt, KeysAt, RowsOf
    <3> HIDE DEF none
    <3> QED BY <3>1, <3>2 DEF Whole
  <2> QED BY <2>2, <2>3, <2>4 DEF IInv, ClientOK
<1>2. IInv /\ [Next]_vars => IInv'
  <2>1. SUFFICES ASSUME IInv, [Next]_vars PROVE IInv'
    OBVIOUS
  <2>2. Stored'
    BY <2>1, StoredStep DEF IInv
  <2>3. Whole'
    BY <2>1, <2>2, WholeStep DEF IInv
  <2> QED BY <2>1, <2>2, <2>3, ClientStep DEF IInv
<1> QED BY <1>1, <1>2, PTL DEF Spec

\* Every key of the address database has the width that UnmarshallAddressKey cuts it
\* by, the rows and records are those of known accounts and blocks, and a client that
\* waits for a page has a legal request.
THEOREM TypeCorrect == Spec => []TypeOK
<1>1. IInv => TypeOK
  <2>1. SUFFICES ASSUME IInv PROVE TypeOK
    OBVIOUS
  <2>2. Stored /\ ClientOK
    BY <2>1 DEF IInv
  <2>3. ASSUME NEW k \in DOMAIN addressDB
        PROVE  /\ Len(k) = AddressLen + TimeLen + 1
               /\ addressDB[k].tx.address \in Addresses /\ addressDB[k].tx.time \in Blocks
    <3>1. addressDB[k].tx \in Rows /\ k = KeyOf(addressDB[k].tx)
      BY <2>2, StoredKeys
    <3>2. Len(KeyOf(addressDB[k].tx)) = AddressLen + TimeLen + 1
      BY <3>1, KeyParts
    <3> QED BY <3>1, <3>2 DEF Rows
  <2>4. DOMAIN blockDB \subseteq Blocks
    BY <2>2 DEF Stored
  <2>5. /\ client.pc \in {"idle", "paging", "done"}
        /\ client.pc = "paging" => client.request \in Requests /\ client.start \in Nat
    BY <2>2, PcIs DEF Paging
  <2> QED BY <2>3, <2>4, <2>5 DEF TypeOK
<1> QED BY <1>1, Inductive, PTL

\* A client that asks for page after page, while blocks are stored by batches and by
\* newHead, has got every row that was there when it began: FindByKeyPrefix counts
\* each page from the first row, and rows that come never move another one to a page
\* the client has already had.
THEOREM NothingIsMissed == Spec => []PagesComplete
<1>1. IInv => PagesComplete
  BY PcIs DEF IInv, PagesComplete
<1> QED BY <1>1, Inductive, PTL

\* What the replies to a request for an account have.
LEMMA ForAccountIs ==
  ASSUME IInv, ForAccount
  PROVE  /\ Stored /\ client.request \in AccountRequests /\ client.rows \in RowsParams /\ client.start \in Nat
         /\ Covers(client.request, Reply(client.request, client.rows, client.start),
                   Atoi(client.rows, DefaultRows), client.start)
<1>1. Stored /\ ClientOK /\ client.pc = "paging" /\ client.request.what = "account"
      /\ client.request.account \in Addresses
  BY DEF IInv, ForAccount
<1>2. client.request \in Requests /\ client.rows \in RowsParams /\ client.start \in Nat
  BY <1>1, PcIs DEF Paging
<1>3. client.request \in AccountRequests
  BY <1>1, <1>2 DEF Requests, AccountRequests
<1>4. Answered(client.request, Reply(client.request, client.rows, client.start),
               Atoi(client.rows, DefaultRows), client.start)
  BY <1>1, <1>2, <1>3, AccountAnswered, Zenon
<1>5. Atoi(client.rows, DefaultRows) \in Nat
  BY <1>2, RowsAreNumbers
<1>6. Covers(client.request, Reply(client.request, client.rows, client.start),
             Atoi(client.rows, DefaultRows), client.start)
  BY <1>2, <1>4, <1>5, PageItems, Zenon
<1> QED BY <1>1, <1>2, <1>3, <1>6

\* The total of getTransactionsByAccount, which stops counting after
\* NumMaxTransaction, and the one of getTotalByAccount agree.
THEOREM TotalsAreOne == Spec => []TotalsAgree
<1>1. ASSUME IInv, ForAccount
      PROVE  LET shown == Reply(client.request, client.rows, client.start).total
                 all   == GetTotalTransaction(client.request)
             IN  /\ shown > NumMaxTransaction <=> all > NumMaxTransaction
                 /\ all <= NumMaxTransaction => shown = all
  <2> DEFINE q == client.request
             n == Cardinality(Matching(q))
             shown == Reply(q, client.rows, client.start).total
  <2>1. Stored /\ q \in AccountRequests /\ n \in Nat /\ shown = Counted(n)
    BY <1>1, ForAccountIs, Zenon DEF Covers
  <2>2. n = Cardinality(KeysFor(q))
    BY <2>1, AccountListing
  <2>3. ~BadAddress(q)
    <3>1. q.account \in Strings(AddressLen)
      BY <2>1, AddressesAssumption DEF AccountRequests, Strings
    <3>2. q.account # <<>>
      BY <3>1, EncodingAssumption, StringsAreSeqs
    <3> QED BY <3>2 DEF BadAddress
  <2>4. GetTotalTransaction(q) = n
    <3>1. TotalRange(q) = KeyRange(q)
      BY DEF TotalRange, KeyRange
    <3> QED BY <2>2, <2>3, <3>1 DEF GetTotalTransaction, KeysFor
  <2>5. NumMaxTransaction \in Nat
    BY NumMaxAssumption
  <2> HIDE DEF n, shown, q
  <2>6. /\ shown > NumMaxTransaction <=> n > NumMaxTransaction
        /\ n <= NumMaxTransaction => shown = n
    BY <2>1, <2>5 DEF Counted
  <2> QED BY <2>4, <2>6 DEF q, shown
<1>2. IInv => TotalsAgree
  BY <1>1 DEF TotalsAgree
<1> QED BY <1>2, Inductive, PTL

\* Every page of getTransactionsByAccount has exactly the transactions between from
\* and to that belong on it, in the order of their times, each one shown with its own
\* address, time and amount: for every width of an address and of a time, and
\* whatever is stored.
THEOREM PagesAreRight == Spec => []PageCorrect
<1>1. ASSUME IInv, ForAccount
      PROVE  PageCorrect
  <2> DEFINE q == client.request
             rows == Atoi(client.rows, DefaultRows)
             start == client.start
             reply == Reply(q, client.rows, start)
             page == reply.page
             M == Matching(q)
             place(tx) == Cardinality({r \in M : Precedes(q, r, tx)})
             last == start + rows - 1
  <2>1. Stored /\ q \in AccountRequests /\ client.rows \in RowsParams /\ start \in Nat /\ Covers(q, reply, rows, start)
    BY <1>1, ForAccountIs, Zenon
  <2>2. q.what = "account"
    BY <2>1 DEF AccountRequests
  <2>3. \A tx \in M : place(tx) = Place(q, tx)
    <3>1. \A tx \in M : Below(tx, M, Answer(q)) = {r \in M : Precedes(q, r, tx)}
      BY <2>2 DEF Below, Answer
    <3> QED BY <3>1 DEF Place, Rank
  <2>4. \A x : Item(q, x) = x.tx
    BY <2>2 DEF Item
  <2>5. \A i \in DOMAIN page : \E k \in DOMAIN addressDB : page[i] = AddressIndexOf(k)
    BY <2>1, AccountAnswered, Zenon
  <2>6. rows \in Nat
    BY <2>1, RowsAreNumbers
  <2> HIDE DEF place, q, rows, start, reply, M
  <2>7. /\ DOMAIN page = 1 .. Len(page) /\ Cardinality(M) \in Nat
        /\ \A i \in DOMAIN page : /\ page[i].tx \in M /\ Place(q, page[i].tx) = start + i - 1
                                  /\ start + i - 1 <= NumMaxTransaction
        /\ Len(page) \in 0 .. rows
        /\ \A x \in M : /\ Place(q, x) \in 0 .. Cardinality(M) - 1
                        /\ Place(q, x) \in start .. start + rows - 1 /\ Place(q, x) <= NumMaxTransaction =>
                             \E i \in DOMAIN page : page[i].tx = x
    BY <2>1, <2>4, Zenon DEF Covers, M
  <2> HIDE DEF page
  <2>8. ASSUME NEW i \in DOMAIN page
        PROVE  /\ page[i].tx \in M /\ place(page[i].tx) = start + i - 1
               /\ place(page[i].tx) \in start .. last /\ place(page[i].tx) <= NumMaxTransaction
    <3>1. i \in 1 .. Len(page) /\ page[i].tx \in M /\ place(page[i].tx) = start + i - 1
          /\ start + i - 1 <= NumMaxTransaction
      BY <2>3, <2>7
    <3>2. start + i - 1 \in start .. last
      BY <2>1, <2>6, <2>7, <3>1
    <3> QED BY <3>1, <3>2
  <2>9. {page[i].tx : i \in DOMAIN page} =
          {tx \in M : place(tx) \in start .. last /\ place(tx) <= NumMaxTransaction}
    <3>1. ASSUME NEW tx \in M, place(tx) \in start .. last, place(tx) <= NumMaxTransaction
          PROVE  \E i \in DOMAIN page : page[i].tx = tx
      BY <2>3, <2>7, <3>1
    <3> QED BY <2>8, <3>1
  <2>10. ASSUME NEW i \in DOMAIN page
         PROVE  LET row == page[i] IN
                /\ row.address = row.tx.address /\ row.time = row.tx.time
                /\ row.value \in {Value(row.tx), -Value(row.tx)}
                /\ place(row.tx) = start + i - 1
    <3>1. PICK k \in DOMAIN addressDB : page[i] = AddressIndexOf(k)
      BY <2>5
    <3>2. LET row == AddressIndexOf(k)
              tx == addressDB[k].tx
          IN  /\ row.tx = tx /\ row.address = tx.address /\ row.time = tx.time
              /\ row.value \in {Value(tx), -Value(tx)}
      BY <2>1, RowRead
    <3> QED BY <2>8, <3>1, <3>2, Zenon
  <2> QED BY <2>9, <2>10, Zenon DEF PageCorrect, q, rows, start, reply, page, M, place
<1>2. IInv => PageCorrect
  BY <1>1 DEF PageCorrect
<1> QED BY <1>2, Inductive, PTL

\* HandleReorg, which knows the rows of a block only from the bytes of its record,
\* deletes all of them and none of another block or account.
THEOREM ReorgsAreExact == Spec => ReorgByRecord
<1>1. ASSUME IInv, NEW n \in Blocks, HandleReorg(n)
      PROVE  DOMAIN addressDB' = DOMAIN addressDB \ KeysAt(n)
  <2>1. n \in DOMAIN blockDB /\ ~StoreUnderWay
        /\ addressDB' = Restrict(addressDB, DOMAIN addressDB \ ReorgKeys(n))
    BY <1>1 DEF HandleReorg
  <2>2. ReorgKeys(n) = KeysAt(n)
    BY <1>1, <2>1, ReorgKeysAre DEF IInv
  <2> QED BY <2>1, <2>2 DEF Restrict
<1>2. IInv /\ [Next]_vars =>
        [\A n \in Blocks : HandleReorg(n) => DOMAIN addressDB' = DOMAIN addressDB \ KeysAt(n)]_vars
  BY <1>1
<1> QED BY <1>2, Inductive, PTL DEF Spec, ReorgByRecord
=============================================================================

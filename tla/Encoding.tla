------------------------------ MODULE Encoding ------------------------------
(***************************************************************************)
(* The keys of the address database as LevelDB orders them, and the values *)
(* of both databases that are cut into fields again: byte strings          *)
(* (repository/keyvalue/marshal/byte_marshaller.go, common/datetime.go).   *)
(* A byte string is a sequence of digits below Base.                       *)
(***************************************************************************)
EXTENDS BlockKey, SequencesExt, FiniteSets

CONSTANTS
  Base,       \* 2^8
  AddressLen, \* gethcommon.AddressLength, 20 bytes
  TimeLen,    \* TimestampByteLength, 4 bytes
  TimeDigits  \* decimal digits of a time that are kept, 10

ASSUME EncodingAssumption ==
  Base \in Nat \ {0, 1} /\ {AddressLen, TimeLen, TimeDigits} \subseteq Nat \ {0}
\* No digit of a time that fits into its bytes is cut off.
ASSUME DigitsAssumption == Power(Base, TimeLen) <= Power(10, TimeDigits)

\* big.Int.Bytes(): big-endian, without leading zeros, without the sign.
Bytes(n) ==
  LET abs == IF n < 0 THEN -n ELSE n
      len == CHOOSE l \in 0 .. abs : abs < Power(Base, l) /\ (l = 0 \/ abs >= Power(Base, l - 1))
  IN  [i \in 1 .. len |-> (abs \div Power(Base, len - i)) % Base]

\* big.Int.SetBytes().
Number(bytes) ==
  LET upTo[i \in 0 .. Len(bytes)] == IF i = 0 THEN 0 ELSE Base * upTo[i - 1] + bytes[i]
  IN  upTo[Len(bytes)]

\* The order of LevelDB keys.
Before(s, t) ==
  \/ IsStrictPrefix(s, t)
  \/ \E i \in 1 .. Len(s) : /\ i <= Len(t) /\ s[i] < t[i]
                            /\ \A j \in 1 .. i - 1 : s[j] = t[j]

\* The elements of S in the order of op, which LevelDB keeps its keys in.
InOrder(S, op(_, _)) ==
  [i \in 1 .. Cardinality(S) |-> CHOOSE x \in S : Cardinality({y \in S : op(y, x)}) = i - 1]

\* MarshallTime of a block's time: only its first ten decimal digits count.
MarshallTime(time) ==
  Bytes(IF NumDigits(time) <= TimeDigits THEN time
        ELSE time \div Power(10, NumDigits(time) - TimeDigits))

\* Mutant of MarshallAddressKey: the key ends with the time.
MarshallAddressKeyNoSequence(address, time, seq) == address \o MarshallTime(time)

\* MarshallAddressKeyStr.
MarshallAddressKey(address, time, seq) == address \o MarshallTime(time) \o <<seq>>

\* MarshallAddressKeyPrefix3: the time of a query is not cut to ten digits.
MarshallAddressKeyPrefix3(address, time) == address \o Bytes(time)

\* UnmarshallAddressKey.
UnmarshallAddressKey(key) ==
  [address |-> SubSeq(key, 1, AddressLen),
   time    |-> Number(SubSeq(key, AddressLen + 1, AddressLen + TimeLen))]

\* MarshallAddressValue: hash and address have a fixed width, the value is the rest.
MarshallAddressValue(tx, value) == [tx |-> tx, value |-> Bytes(value)]

\* UnmarshallAddressValue.
UnmarshallAddressValue(v) == [tx |-> v.tx, value |-> Number(v.value)]

\* A field of TimeLen bytes: a shorter time is copied to its beginning.
TimeField(time) ==
  MarshallTime(time) \o [i \in 1 .. TimeLen - Len(MarshallTime(time)) |-> 0]

\* MarshallBlockValue: CreatedAt, time, then each address with its last sequence.
MarshallBlockValue(index) ==
  LET entries == [i \in DOMAIN index.addresses |->
                    Append(index.addresses[i].address, index.addresses[i].sequence)]
      width   == AddressLen + 1
  IN  TimeField(index.createdAt) \o TimeField(index.time) \o
        [j \in 1 .. Len(entries) * width |->
           entries[((j - 1) \div width) + 1][((j - 1) % width) + 1]]

\* Mutant of UnmarshallBlockValue: the two times are taken for one another.
UnmarshallBlockValueSwapped(value) ==
  LET rest  == SubSeq(value, 2 * TimeLen + 1, Len(value))
      width == AddressLen + 1
  IN  [time      |-> Number(SubSeq(value, 1, TimeLen)),
       createdAt |-> Number(SubSeq(value, TimeLen + 1, 2 * TimeLen)),
       addresses |-> [i \in 1 .. Len(rest) \div width |->
                        [address  |-> SubSeq(rest, (i - 1) * width + 1, i * width - 1),
                         sequence |-> rest[i * width]]]]

\* UnmarshallBlockValue.
UnmarshallBlockValue(value) ==
  LET rest  == SubSeq(value, 2 * TimeLen + 1, Len(value))
      width == AddressLen + 1
  IN  [createdAt |-> Number(SubSeq(value, 1, TimeLen)),
       time      |-> Number(SubSeq(value, TimeLen + 1, 2 * TimeLen)),
       addresses |-> [i \in 1 .. Len(rest) \div width |->
                        [address  |-> SubSeq(rest, (i - 1) * width + 1, i * width - 1),
                         sequence |-> rest[i * width]]]]

-----------------------------------------------------------------------------
(* Ranges of keys (goleveldb's util.Range); an empty limit is no limit.    *)

InRange(key, rg) ==
  ~Before(key, rg.start) /\ (rg.limit = <<>> \/ Before(key, rg.limit))

\* util.BytesPrefix: the limit is the prefix with its last byte that is not
\* the largest one incremented.
BytesPrefix(prefix) ==
  LET small == {i \in 1 .. Len(prefix) : prefix[i] < Base - 1}
      last  == CHOOSE i \in small : \A j \in small : j <= i
  IN  [start |-> prefix,
       limit |-> IF small = {} THEN <<>>
                 ELSE Append(SubSeq(prefix, 1, last - 1), prefix[last] + 1)]
=============================================================================

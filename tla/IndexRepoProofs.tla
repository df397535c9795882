-------------------------- MODULE IndexRepoProofs --------------------------
(***************************************************************************)
(* Facts about the rows of one block, for all addresses, shapes and        *)
(* sequences: they hold while no address has as many rows in a block as a  *)
(* sequence has values.  Then the types of IndexRepo's state, in every     *)
(* behaviour.  Then that no row of the chain is lost, for every number of  *)
(* accounts and blocks: reorganisations, the cleaner and reruns take none  *)
(* away for good and, when a reorganisation replaces at most one block, a  *)
(* restart brings back what a crash left out, but for the blocks that      *)
(* "missed" names.                                                         *)
(***************************************************************************)
EXTENDS IndexRepo, SequenceTheorems, WellFoundedInduction, TLAPS

\* The sequence of every row of b is its place: sequenceMap does not overflow.
Fits(b) == \A a \in Addresses : b.rows[a] \in Nat /\ b.rows[a] < SeqModulus

LEMMA SequenceIsPlace ==
  ASSUME NEW b \in Blocks, Fits(b), NEW a \in Addresses, NEW i \in 1 .. b.rows[a]
  PROVE  Sequence(i) = i
<1>1. i \in Nat /\ i < SeqModulus /\ SeqModulus \in Nat \ {0}
  BY SeqAssumption DEF Fits
<1>2. i % SeqModulus = i
  BY <1>1
<1> QED BY <1>2 DEF Sequence

\* CreateIndexData loses no row: every row of a block has a key of its own, and
\* SaveAddressIndex stores it there.
THEOREM EveryRowHasItsKey ==
  ASSUME NEW b \in Blocks, Fits(b), NEW a \in Addresses, NEW i \in 1 .. b.rows[a]
  PROVE  /\ <<a, b.time, i>> \in DOMAIN AddressIndex(b)
         /\ AddressIndex(b)[<<a, b.time, i>>] =
              [number |-> b.number, version |-> b.version, row |-> i]
<1> DEFINE k == <<a, b.time, i>>
           Last == CHOOSE j \in 1 .. b.rows[k[1]] :
                     /\ Sequence(j) = k[3]
                     /\ \A l \in j + 1 .. b.rows[k[1]] : Sequence(l) # k[3]
<1>1. b.rows[a] \in Nat /\ i \in Nat /\ k[1] = a /\ k[3] = i
  BY DEF Fits
<1>2. \A j \in 1 .. b.rows[a] : Sequence(j) = j
  BY SequenceIsPlace
<1>3. k \in DOMAIN AddressIndex(b)
  BY <1>2 DEF AddressIndex
<1>4. \A l \in i + 1 .. b.rows[a] : Sequence(l) # i
  BY <1>1, <1>2
<1>5. \A j \in 1 .. b.rows[a] : Sequence(j) = i => j = i
  BY <1>2
<1>6. Last = i
  BY <1>1, <1>2, <1>4, <1>5
<1>7. AddressIndex(b)[k] = [number |-> b.number, version |-> b.version, row |-> Last]
  BY <1>3 DEF AddressIndex
<1> QED BY <1>3, <1>6, <1>7

\* HandleReorg deletes exactly the rows that were saved for the block whose
\* record it finds: it leaves none behind and takes no other block's.
THEOREM ReorgDeletesExactly ==
  ASSUME NEW b \in Blocks, Fits(b), NEW createdAt
  PROVE  ReorgKeys(BlockIndex(b, createdAt)) = DOMAIN AddressIndex(b)
<1> DEFINE record == BlockIndex(b, createdAt)
<1>1. /\ record.time = b.time
      /\ DOMAIN record.addresses = {x \in Addresses : b.rows[x] > 0}
  BY DEF BlockIndex
<1>2. ASSUME NEW a \in Addresses, b.rows[a] > 0
      PROVE  record.addresses[a] = b.rows[a]
  <2>1. b.rows[a] \in Nat /\ b.rows[a] \in 1 .. b.rows[a]
    BY <1>2 DEF Fits
  <2>2. Sequence(b.rows[a]) = b.rows[a]
    BY <2>1, SequenceIsPlace
  <2> QED BY <1>2, <2>2 DEF BlockIndex
<1>3. ReorgKeys(record) =
        UNION {{<<a, b.time, i>> : i \in 1 .. b.rows[a]} : a \in {x \in Addresses : b.rows[x] > 0}}
  BY <1>1, <1>2 DEF ReorgKeys
<1>4. DOMAIN AddressIndex(b) =
        UNION {{<<a, b.time, i>> : i \in 1 .. b.rows[a]} : a \in Addresses}
  <2>1. \A a \in Addresses : {<<a, b.time, Sequence(i)>> : i \in 1 .. b.rows[a]}
                               = {<<a, b.time, i>> : i \in 1 .. b.rows[a]}
    BY SequenceIsPlace
  <2> QED BY <2>1 DEF AddressIndex
<1>5. \A a \in Addresses : ~(b.rows[a] > 0) => 1 .. b.rows[a] = {}
  BY DEF Fits
<1> HIDE DEF record
<1>6. UNION {{<<a, b.time, i>> : i \in 1 .. b.rows[a]} : a \in {x \in Addresses : b.rows[x] > 0}}
        = UNION {{<<a, b.time, i>> : i \in 1 .. b.rows[a]} : a \in Addresses}
  BY <1>5
<1> QED BY <1>3, <1>4, <1>6 DEF record

-----------------------------------------------------------------------------
(* The types.                                                              *)

\* A set of natural numbers that is not empty has a least one.
LEMMA LeastNumber ==
  ASSUME NEW S, S \subseteq Nat, S # {}
  PROVE  \E n \in S : \A m \in S : n <= m
<1> DEFINE less == {p \in Nat \X Nat : p[1] < p[2]}
<1>1. OpToRel(<, Nat) = less
  BY Zenon DEF OpToRel
<1>2. IsWellFoundedOn(less, Nat)
  BY <1>1, NatLessThanWellFounded
<1> HIDE DEF less
<1>3. PICK n \in S : \A m \in S : ~(<<m, n>> \in less)
  BY <1>2, WFMin
<1>4. \A m \in S : ~(m < n)
  BY <1>3 DEF less
<1> QED BY <1>4

\* Of the rows with one key there is a last one, however many there are: what
\* AddressIndex chooses exists.
LEMMA LastRowExists ==
  ASSUME NEW m \in Nat, NEW s, NEW i \in 1 .. m, Sequence(i) = s
  PROVE  \E l \in 1 .. m : /\ Sequence(l) = s
                           /\ \A j \in l + 1 .. m : Sequence(j) # s
<1> DEFINE S == {d \in 0 .. m : m - d \in 1 .. m /\ Sequence(m - d) = s}
<1>1. m - i \in S
  <2>1. m - (m - i) = i /\ m - i \in 0 .. m
    OBVIOUS
  <2> QED BY <2>1
<1>2. S \subseteq Nat
  OBVIOUS
<1>3. PICK d \in S : \A e \in S : d <= e
  <2> HIDE DEF S
  <2> QED BY <1>1, <1>2, LeastNumber
<1>4. ASSUME NEW j \in m - d + 1 .. m, Sequence(j) = s
      PROVE  FALSE
  <2>1. m - (m - j) = j /\ m - j \in 0 .. m /\ j \in 1 .. m /\ m - j < d
    OBVIOUS
  <2> QED BY <1>3, <1>4, <2>1
<1> QED BY <1>4

LEMMA ShapesAreNumbers ==
  ASSUME NEW rows \in Shapes, NEW a \in Addresses
  PROVE  rows[a] \in Nat
BY ShapesAssumption

\* What Store writes to the address database, whatever the block.
LEMMA AddressIndexType ==
  ASSUME NEW b \in Blocks, NEW k \in DOMAIN AddressIndex(b)
  PROVE  /\ k \in Addresses \X Nat \X (0 .. SeqModulus - 1)
         /\ k[2] = b.time
         /\ AddressIndex(b)[k] \in [number : Nat, version : Nat, row : Nat]
         /\ AddressIndex(b)[k].number = b.number
         /\ AddressIndex(b)[k].version = b.version
<1>1. PICK a \in Addresses : \E i \in 1 .. b.rows[a] : k = <<a, b.time, Sequence(i)>>
  BY DEF AddressIndex
<1>7. PICK i \in 1 .. b.rows[a] : k = <<a, b.time, Sequence(i)>>
  BY <1>1
<1>2. b.rows[a] \in Nat /\ b.time \in Nat /\ b.number \in Nat /\ b.version \in Nat
  BY ShapesAreNumbers DEF Blocks
<1>3. Sequence(i) \in 0 .. SeqModulus - 1
  <2>1. i \in Nat /\ SeqModulus \in Nat /\ SeqModulus > 0
    BY <1>2, SeqAssumption
  <2>2. i % SeqModulus \in 0 .. SeqModulus - 1
    BY <2>1
  <2> QED BY <2>2 DEF Sequence
<1> DEFINE m == b.rows[k[1]]
           s == k[3]
           Last == CHOOSE l \in 1 .. m :
                     Sequence(l) = s /\ \A j \in l + 1 .. m : Sequence(j) # s
<1>4. Last \in Nat
  <2>1. m \in Nat /\ i \in 1 .. m /\ Sequence(i) = s
    BY <1>7, <1>2
  <2> HIDE DEF m, s
  <2>2. \E l \in 1 .. m : Sequence(l) = s /\ \A j \in l + 1 .. m : Sequence(j) # s
    BY <2>1, LastRowExists
  <2>3. Last \in 1 .. m
    BY <2>2
  <2> QED BY <2>1, <2>3
<1>5. AddressIndex(b)[k] = [number |-> b.number, version |-> b.version, row |-> Last]
  BY DEF AddressIndex
<1> HIDE DEF Last
<1> QED BY <1>7, <1>2, <1>3, <1>4, <1>5

\* The goroutines hold blocks of the node: HandleReorg and the two writes of
\* Store are about a block that was fetched.
InHand ==
  /\ rt.pc # "idle" => rt.block \in Blocks /\ rt.block.number \in 1 .. Len(chain)
  /\ again.pc # "idle" => again.block \in Blocks /\ again.block.number \in 1 .. Len(chain)
  /\ \A k \in DOMAIN worker : worker[k].block # Nil =>
       worker[k].block \in Blocks /\ worker[k].block.number \in 1 .. Len(chain)

Typed == TypeOK /\ InHand

LEMMA NewTimesType ==
  ASSUME NEW parent, parent.time \in Nat, mined \in Nat, NEW len \in Nat,
         NEW times \in NewTimes(parent, len), NEW i \in 1 .. len
  PROVE  /\ times[i] \in Nat \ {0}
         /\ ~SharedTimes => times[i] = mined + i
<1>1. CASE SharedTimes
  <2>1. times[i] \in parent.time + 1 .. parent.time + 2 * len
    BY <1>1 DEF NewTimes
  <2> QED BY <1>1, <2>1
<1>2. CASE ~SharedTimes
  BY <1>2 DEF NewTimes
<1> QED BY <1>1, <1>2

\* What a new branch leaves alone, and what is new in it.
LEMMA BranchReplaces ==
  ASSUME Typed, NEW depth \in 0 .. MaxDepth, NewBranch(depth)
  PROVE  /\ Len(chain) \in Nat /\ depth \in 0 .. Len(chain)
         /\ chain' \in Seq(Blocks) /\ Len(chain') = Len(chain) + 1
         /\ \A n \in 1 .. Len(chain') : chain'[n].number = n
         /\ \A n \in 1 .. Len(chain) - depth : chain'[n] = chain[n]
         /\ \A n \in Len(chain) - depth + 1 .. Len(chain') :
              /\ chain'[n].version = mined + (n - (Len(chain) - depth))
              /\ ~SharedTimes => chain'[n].time = chain'[n].version
<1> DEFINE fork == Len(chain) - depth
           parent == Tip(SubSeq(chain, 1, fork))
<1>1. Len(chain) \in Nat /\ depth \in 0 .. Len(chain) /\ fork \in 0 .. Len(chain)
      /\ mined \in Nat /\ chain \in Seq(Blocks)
  <2>1. chain \in Seq(Blocks) /\ mined \in Nat
    BY DEF Typed, TypeOK
  <2>2. Len(chain) \in Nat
    BY <2>1, LenProperties
  <2>3. depth <= Len(chain)
    BY DEF NewBranch
  <2> QED BY <2>1, <2>2, <2>3
<1>2. parent.time \in Nat
  <2>1. /\ SubSeq(chain, 1, fork) \in Seq(Blocks)
        /\ Len(SubSeq(chain, 1, fork)) = fork
    <3>1. \A i \in 1 .. fork : chain[i] \in Blocks
      BY <1>1, ElementOfSeq
    <3> QED BY <1>1, <3>1, SubSeqProperties
  <2>2. CASE SubSeq(chain, 1, fork) = <<>>
    BY <2>2 DEF Tip, Genesis
  <2>3. CASE SubSeq(chain, 1, fork) # <<>>
    <3>1. Len(SubSeq(chain, 1, fork)) \in Nat \ {0}
      BY <2>1, <2>3, EmptySeq
    <3>2. SubSeq(chain, 1, fork)[Len(SubSeq(chain, 1, fork))] \in Blocks
      BY <2>1, <3>1, ElementOfSeq
    <3> QED BY <2>3, <3>2 DEF Tip, Blocks
  <2> QED BY <2>2, <2>3
<1>3. PICK times \in NewTimes(parent, depth + 1), rows \in [1 .. depth + 1 -> Shapes] :
        chain' = [n \in 1 .. Len(chain) + 1 |->
                    IF n <= fork THEN chain[n]
                    ELSE [number |-> n, version |-> mined + (n - fork),
                          time |-> times[n - fork], rows |-> rows[n - fork]]]
  BY DEF NewBranch
<1> HIDE DEF parent
<1>4. \A i \in 1 .. depth + 1 : times[i] \in Nat \ {0} /\ (~SharedTimes => times[i] = mined + i)
  BY <1>1, <1>2, NewTimesType
<1>5. \A n \in 1 .. fork : chain'[n] = chain[n] /\ chain[n] \in Blocks /\ chain[n].number = n
  BY <1>1, <1>3, ElementOfSeq DEF Typed, TypeOK
<1>6. ASSUME NEW n \in fork + 1 .. Len(chain) + 1
      PROVE  /\ chain'[n] \in Blocks /\ chain'[n].number = n
             /\ chain'[n].version = mined + (n - fork)
             /\ ~SharedTimes => chain'[n].time = chain'[n].version
  <2>1. n - fork \in 1 .. depth + 1 /\ n \in Nat \ {0} /\ mined + (n - fork) \in Nat \ {0}
    BY <1>1
  <2>2. chain'[n] = [number |-> n, version |-> mined + (n - fork),
                     time |-> times[n - fork], rows |-> rows[n - fork]]
    BY <1>1, <1>3, <2>1
  <2>3. times[n - fork] \in Nat \ {0} /\ rows[n - fork] \in Shapes
    BY <1>4, <2>1
  <2>4. ~SharedTimes => times[n - fork] = mined + (n - fork)
    BY <1>4, <2>1
  <2> QED BY <2>1, <2>2, <2>3, <2>4 DEF Blocks
<1>7. chain' \in [1 .. Len(chain) + 1 -> Blocks]
  <2>1. \A n \in 1 .. Len(chain) + 1 : chain'[n] \in Blocks
    BY <1>1, <1>5, <1>6
  <2> QED BY <1>3, <2>1
<1>8. chain' \in Seq(Blocks) /\ Len(chain') = Len(chain) + 1
  <2>1. Len(chain) + 1 \in Nat
    BY <1>1
  <2> QED BY <1>7, <2>1
<1>9. ASSUME NEW n \in 1 .. Len(chain')
      PROVE  chain'[n].number = n
  <2>1. n \in 1 .. fork \/ n \in fork + 1 .. Len(chain) + 1
    BY <1>1, <1>8
  <2> QED BY <1>5, <1>6, <2>1
<1> QED BY <1>1, <1>5, <1>6, <1>8, <1>9

\* The headers that newHead announces of it, behind those that wait.
LEMMA BranchAnnounced ==
  ASSUME Typed, NEW depth \in 0 .. MaxDepth, NewBranch(depth), index.pc = "listen"
  PROVE  /\ Len(announced) \in Nat
         /\ announced' \in Seq(1 .. Len(chain')) /\ Len(announced') <= MaxLag
         /\ Len(announced') = Len(announced) + depth + 1
         /\ \A p \in 1 .. Len(announced) : announced'[p] = announced[p]
         /\ \A p \in Len(announced) + 1 .. Len(announced') :
              announced'[p] = Len(chain) - depth + (p - Len(announced))
<1> DEFINE fork == Len(chain) - depth
           more == [i \in 1 .. depth + 1 |-> fork + i]
           S == 1 .. Len(chain) + 1
<1>1. Len(chain) \in Nat /\ depth \in 0 .. Len(chain) /\ Len(chain') = Len(chain) + 1
  BY BranchReplaces
<1>2. announced \in Seq(S)
  <2>1. 1 .. Len(chain) \subseteq S
    BY <1>1
  <2> QED BY <2>1, SeqMonotonic DEF Typed, TypeOK
<1>3. more \in Seq(S) /\ Len(more) = depth + 1
  <2>1. \A i \in 1 .. depth + 1 : fork + i \in S
    BY <1>1
  <2>2. depth + 1 \in Nat /\ more \in [1 .. depth + 1 -> S]
    BY <1>1, <2>1
  <2> QED BY <2>2
<1>4. announced' = announced \o more /\ Len(announced') <= MaxLag
  BY DEF NewBranch
<1>5. \A i \in 1 .. depth + 1 : more[i] = fork + i
  OBVIOUS
<1> HIDE DEF more
<1>6. /\ announced' \in Seq(S) /\ Len(announced') = Len(announced) + (depth + 1)
      /\ Len(announced) \in Nat
      /\ \A p \in 1 .. Len(announced) + (depth + 1) :
           announced'[p] = IF p <= Len(announced) THEN announced[p] ELSE more[p - Len(announced)]
  <2>1. Len(announced) \in Nat
    BY <1>2, LenProperties
  <2>2. /\ announced \o more \in Seq(S) /\ Len(announced \o more) = Len(announced) + Len(more)
        /\ \A p \in 1 .. Len(announced) + Len(more) :
             (announced \o more)[p] =
               IF p <= Len(announced) THEN announced[p] ELSE more[p - Len(announced)]
    <3> HIDE DEF S
    <3> QED BY <1>2, <1>3, ConcatProperties
  <2> QED BY <1>3, <1>4, <2>1, <2>2
<1>7. \A p \in 1 .. Len(announced) : announced'[p] = announced[p]
  BY <1>1, <1>6
<1>8. ASSUME NEW p \in Len(announced) + 1 .. Len(announced')
      PROVE  announced'[p] = fork + (p - Len(announced))
  <2>1. p - Len(announced) \in 1 .. depth + 1 /\ ~(p <= Len(announced))
        /\ p \in 1 .. Len(announced) + (depth + 1)
    BY <1>1, <1>6
  <2> QED BY <1>5, <1>6, <2>1
<1> QED BY <1>1, <1>4, <1>6, <1>7, <1>8

\* The block that is fetched for the first header that waits.
LEMMA FetchTakesHead ==
  ASSUME Typed, RtFetch
  PROVE  /\ Len(announced) \in Nat \ {0}
         /\ announced[1] \in 1 .. Len(chain)
         /\ rt' = [pc |-> "reorg", block |-> chain[announced[1]], createdAt |-> mined]
         /\ chain[announced[1]] \in Blocks /\ chain[announced[1]].number = announced[1]
         /\ announced' \in Seq(1 .. Len(chain)) /\ Len(announced') = Len(announced) - 1
         /\ \A p \in 1 .. Len(announced') : announced'[p] = announced[p + 1]
<1>1. /\ announced \in Seq(1 .. Len(chain)) /\ announced # <<>> /\ announced' = Tail(announced)
      /\ chain \in Seq(Blocks) /\ \A n \in 1 .. Len(chain) : chain[n].number = n
  BY DEF Typed, TypeOK, RtFetch
<1>2. Len(announced) \in Nat \ {0} /\ Head(announced) = announced[1]
  BY <1>1, EmptySeq
<1>3. announced[1] \in 1 .. Len(chain)
  BY <1>1, <1>2, ElementOfSeq
<1>4. chain[announced[1]] \in Blocks
  BY <1>1, <1>3, ElementOfSeq
<1>5. /\ announced' \in Seq(1 .. Len(chain)) /\ Len(announced') = Len(announced) - 1
      /\ \A p \in 1 .. Len(announced') : announced'[p] = announced[p + 1]
  BY <1>1, HeadTailProperties
<1> QED BY <1>1, <1>2, <1>3, <1>4, <1>5 DEF RtFetch

\* A block that a batch or a rerun fetches is one of the chain.
LEMMA ChainBlock ==
  ASSUME Typed, NEW n \in 1 .. Len(chain)
  PROVE  chain[n] \in Blocks /\ chain[n].number = n
BY ElementOfSeq DEF Typed, TypeOK

\* UpdateBatch writes the batch under its own key.
LEMMA BatchKeyType ==
  ASSUME NEW b \in Batches
  PROVE  /\ BatchKey(b) \in BatchKeys
         /\ BatchOf(BatchKey(b), b.current) = b
BY DEF Batches, BatchKey, BatchKeys, BatchOf

LEMMA BatchOfType ==
  ASSUME NEW k \in BatchKeys, NEW current \in Nat \cup {NoBlock}
  PROVE  BatchOf(k, current) \in Batches
BY DEF BatchOf, BatchKeys, Batches

\* ReplaceBatch asks for no rows, so it replaces nothing.
LEMMA ReplacesNothing ==
  ASSUME NEW db, NEW from, NEW newTo
  PROVE  ReplaceBatch(db, from, newTo) = db
BY DEF ReplaceBatch, FindByFrom

LEMMA AdvanceType ==
  ASSUME NEW b \in Batches
  PROVE  /\ NextBlock(b) \in Nat
         /\ Advance(b) \in Batches /\ Advance(b).current = NextBlock(b)
         /\ Advance(b).from = b.from /\ Advance(b).to = b.to /\ Advance(b).step = b.step
<1>1. /\ b.from \in Nat /\ b.step \in Nat /\ (b.current # NoBlock => b.current \in Nat)
  BY DEF Batches
<1>2. NextBlock(b) \in Nat
  BY <1>1 DEF NextBlock
<1> QED BY <1>2 DEF Advance, Batches

\* The last block record, or 0.
LEMMA LastBlockType ==
  ASSUME Typed, NEW last \in LastBlockNums
  PROVE  /\ last \in Nat
         /\ last # 0 => last \in DOMAIN blockDB
         /\ DOMAIN blockDB # {} => last \in DOMAIN blockDB
         /\ \A m \in Nat : (\A n \in DOMAIN blockDB : n <= m) => last <= m
<1>1. \A n \in DOMAIN blockDB : n \in Nat
  BY DEF Typed, TypeOK
<1>2. CASE DOMAIN blockDB = {}
  BY <1>2 DEF LastBlockNums
<1>3. CASE DOMAIN blockDB # {}
  <2>1. last \in DOMAIN blockDB
    BY <1>3 DEF LastBlockNums, LastKeys
  <2> QED BY <1>1, <2>1
<1> QED BY <1>2, <1>3

\* What a record is resumed as.
LEMMA ResumedType ==
  ASSUME Typed, NEW k \in DOMAIN batchDB, NEW last, NEW latest \in Nat
  PROVE  /\ StoredBatch(batchDB, k) \in Batches
         /\ Resumed(k, last, latest) \in Batches
         /\ Resumed(k, last, latest).from = k.from /\ Resumed(k, last, latest).step = k.step
         /\ Resumed(k, last, latest).current = batchDB[k]
         /\ Resumed(k, last, latest).to = IF k.from = last THEN latest ELSE k.to
<1>1. k \in BatchKeys /\ batchDB[k] \in Nat
  BY DEF Typed, TypeOK
<1>2. StoredBatch(batchDB, k) \in Batches
  BY <1>1, BatchOfType DEF StoredBatch
<1> QED BY <1>1, <1>2 DEF Resumed, StoredBatch, BatchOf, Batches

\* The goroutines that a restart begins: one for each uncompleted batch, and one
\* more if none of them starts at the last block.
LEMMA LaunchMakes ==
  ASSUME Typed, Launch
  PROVE  /\ batchDB' = batchDB
         /\ index.pc = "latest" /\ index' = [index EXCEPT !.pc = "subscribe"]
         /\ index.latest \in 0 .. Len(chain)
         /\ \E last \in LastBlockNums :
              LET key == CatchUpKey(last, index.latest) IN
              /\ key \in BatchKeys
              /\ DOMAIN worker' = IF Found(last) THEN Undone ELSE Undone \cup {key}
              /\ \A k \in DOMAIN worker' :
                   /\ worker'[k].block = Nil
                   /\ k \in Undone => worker'[k].batch = Resumed(k, last, index.latest)
                   /\ k \notin Undone => worker'[k].batch = BatchOf(k, NoBlock)
<1>1. PICK last \in LastBlockNums :
        LET keys == IF Found(last) THEN Undone
                    ELSE Undone \cup {CatchUpKey(last, index.latest)}
        IN  /\ worker' = [k \in keys |->
                            [batch |-> IF k \in Undone THEN Resumed(k, last, index.latest)
                                       ELSE BatchOf(k, NoBlock),
                             block |-> Nil]]
            /\ batchDB' = IF Found(last) THEN ReplaceBatch(batchDB, last, index.latest)
                          ELSE batchDB
  BY DEF Launch
<1>2. batchDB' = batchDB
  BY <1>1, ReplacesNothing
<1>3. index.pc = "latest" /\ index' = [index EXCEPT !.pc = "subscribe"]
      /\ index.latest \in 0 .. Len(chain) /\ crashes \in Nat
  BY BoundAssumption DEF Launch, Typed, TypeOK
<1>4. CatchUpKey(last, index.latest) \in BatchKeys
  <2>1. last \in Nat /\ index.latest \in Nat
    BY <1>3, LastBlockType
  <2> QED BY <1>3, <2>1 DEF CatchUpKey, BatchKeys
<1> QED BY <1>1, <1>2, <1>3, <1>4

\* Every goroutine that a restart begins has a batch.
LEMMA LaunchType ==
  ASSUME Typed, Launch, NEW k \in DOMAIN worker'
  PROVE  worker'[k].batch \in Batches /\ worker'[k].block = Nil
<1>1. PICK last \in LastBlockNums :
        LET key == CatchUpKey(last, index.latest) IN
        /\ key \in BatchKeys
        /\ DOMAIN worker' = IF Found(last) THEN Undone ELSE Undone \cup {key}
        /\ \A l \in DOMAIN worker' :
             /\ worker'[l].block = Nil
             /\ l \in Undone => worker'[l].batch = Resumed(l, last, index.latest)
             /\ l \notin Undone => worker'[l].batch = BatchOf(l, NoBlock)
  BY LaunchMakes
<1>2. CASE k \in Undone
  <2>1. k \in DOMAIN batchDB /\ index.latest \in Nat
    BY <1>2 DEF Undone, Typed, TypeOK
  <2> QED BY <1>1, <1>2, <2>1, ResumedType
<1>3. CASE k \notin Undone
  <2>1. k \in BatchKeys
    BY <1>1, <1>3
  <2> QED BY <1>1, <1>3, <2>1, BatchOfType
<1> QED BY <1>2, <1>3

\* A goroutine records a block as taken: its own batch, and the record of it.
LEMMA TookIs ==
  ASSUME Typed, NEW k \in DOMAIN worker, Took(k)
  PROVE  LET b == Advance(worker[k].batch) IN
         /\ b \in Batches /\ BatchKey(b) \in BatchKeys /\ b.current \in Nat
         /\ DOMAIN worker' = DOMAIN worker
         /\ worker'[k] = [batch |-> b, block |-> Nil]
         /\ \A l \in DOMAIN worker \ {k} : worker'[l] = worker[l]
         /\ DOMAIN batchDB' = DOMAIN batchDB \cup {BatchKey(b)}
         /\ batchDB'[BatchKey(b)] = b.current
         /\ \A l \in DOMAIN batchDB \ {BatchKey(b)} : batchDB'[l] = batchDB[l]
<1>1. worker[k].batch \in Batches
  BY DEF Typed, TypeOK
<1>2. LET b == Advance(worker[k].batch) IN
      b \in Batches /\ BatchKey(b) \in BatchKeys /\ b.current \in Nat
  BY <1>1, AdvanceType, BatchKeyType
<1> QED BY <1>2 DEF Took, UpdateBatch, Put

LEMMA TypedInit == Init => Typed
<1> SUFFICES ASSUME Init PROVE Typed
  OBVIOUS
<1>1. \A S : <<>> \in Seq(S) /\ Len(<<>>) = 0
  OBVIOUS
<1>2. MaxLag \in Nat /\ MaxReruns \in Nat /\ MaxCrashes \in Nat
  BY BoundAssumption
<1>3. 0 \in 0 .. Len(<<>>)
  BY <1>1
<1> QED BY <1>1, <1>2, <1>3 DEF Init, Typed, TypeOK, InHand, EmptyDB, NoRt, NoRerun, NoWorker, Nil

LEMMA TypedNext == Typed /\ [Next]_vars => Typed'
<1> SUFFICES ASSUME Typed, [Next]_vars PROVE Typed'
  OBVIOUS
<1> USE DEF Typed
<1>1. ASSUME NEW depth \in 0 .. MaxDepth, NewBranch(depth)
      PROVE  Typed'
  <2>1. /\ Len(chain) \in Nat /\ chain' \in Seq(Blocks) /\ Len(chain') = Len(chain) + 1
        /\ \A n \in 1 .. Len(chain') : chain'[n].number = n
    BY <1>1, BranchReplaces
  <2>2. 1 .. Len(chain) \subseteq 1 .. Len(chain')
    BY <2>1
  <2>3. announced' \in Seq(1 .. Len(chain')) /\ Len(announced') <= MaxLag
    <3>1. CASE index.pc = "listen"
      BY <1>1, <3>1, BranchAnnounced
    <3>2. CASE index.pc # "listen"
      <4>1. announced' = announced
        BY <1>1, <3>2 DEF NewBranch
      <4> QED BY <2>2, <4>1, SeqMonotonic DEF TypeOK
    <3> QED BY <3>1, <3>2
  <2>4. mined' \in Nat /\ missed' \subseteq Nat
    <3>1. mined \in Nat /\ depth \in Nat /\ missed \subseteq Nat
      BY <2>1, BoundAssumption DEF TypeOK
    <3>2. \A i \in 1 .. depth + 1 : mined + i \in Nat
      BY <3>1
    <3>3. mined' = mined + depth + 1
          /\ (missed' = missed \/ missed' = missed \cup {mined + i : i \in 1 .. depth + 1})
      BY <1>1 DEF NewBranch
    <3>4. {mined + i : i \in 1 .. depth + 1} \subseteq Nat
      BY <3>2
    <3>5. missed' \subseteq Nat
      BY <3>1, <3>3, <3>4
    <3> QED BY <3>1, <3>3, <3>5
  <2>5. UNCHANGED <<addressDB, blockDB, batchDB, index, worker, rt, again, asked,
                    cleaner, reruns, crashes>>
    BY <1>1 DEF NewBranch
  <2>8. index.latest \in 0 .. Len(chain')
    BY <2>1 DEF TypeOK
  <2>6. TypeOK'
    BY <2>1, <2>2, <2>3, <2>4, <2>5, <2>8 DEF TypeOK
  <2>7. InHand'
    BY <2>2, <2>5 DEF InHand, sched
  <2> QED BY <2>6, <2>7
<1>2. CASE RtFetch
  <2>1. /\ announced' \in Seq(1 .. Len(chain)) /\ Len(announced') <= MaxLag
        /\ rt' = [pc |-> "reorg", block |-> chain[announced[1]], createdAt |-> mined]
        /\ announced[1] \in 1 .. Len(chain)
        /\ chain[announced[1]] \in Blocks /\ chain[announced[1]].number = announced[1]
    <3>1. Len(announced') = Len(announced) - 1 /\ Len(announced) \in Nat
      BY <1>2, FetchTakesHead
    <3>2. Len(announced) <= MaxLag /\ MaxLag \in Nat
      BY BoundAssumption DEF TypeOK
    <3> QED BY <1>2, <3>1, <3>2, FetchTakesHead
  <2>2. UNCHANGED <<chain, mined, addressDB, blockDB, sched, again, asked, cleaner, reruns, crashes>>
    BY <1>2 DEF RtFetch
  <2>3. TypeOK'
    BY <2>1, <2>2 DEF TypeOK, sched
  <2>4. InHand'
    BY <2>1, <2>2 DEF InHand, sched
  <2> QED BY <2>3, <2>4
<1>3. CASE RtReorg
  <2>1. DOMAIN addressDB' \subseteq DOMAIN addressDB
        /\ \A k \in DOMAIN addressDB' : addressDB'[k] = addressDB[k]
    BY <1>3 DEF RtReorg, BatchDelete
  <2>2. \E pc \in {"address", "loops"} : rt' = [rt EXCEPT !.pc = pc]
    BY <1>3 DEF RtReorg, SetRt
  <2>3. rt.pc = "reorg"
        /\ UNCHANGED <<chain, mined, announced, blockDB, sched, again, asked, cleaner, reruns, crashes>>
    BY <1>3 DEF RtReorg
  <2>4. TypeOK'
    BY <2>1, <2>2, <2>3 DEF TypeOK, sched
  <2>5. InHand'
    BY <2>2, <2>3 DEF InHand, TypeOK, sched
  <2> QED BY <2>4, <2>5
<1>4. CASE RtStoreAddress
  <2>1. /\ rt.pc = "address" /\ rt' = [rt EXCEPT !.pc = "block"]
        /\ addressDB' = BatchPut(addressDB, AddressIndex(rt.block))
        /\ UNCHANGED <<chain, mined, announced, blockDB, sched, again, asked, cleaner, reruns, crashes>>
    BY <1>4 DEF RtStoreAddress, SetRt
  <2>2. \A k \in DOMAIN addressDB' :
          /\ k \in Addresses \X Nat \X (0 .. SeqModulus - 1)
          /\ addressDB'[k] \in [number : Nat, version : Nat, row : Nat]
    <3>1. rt.block \in Blocks
      BY <2>1 DEF InHand, sched
    <3> QED BY <2>1, <3>1, AddressIndexType DEF BatchPut, TypeOK
  <2>3. TypeOK'
    BY <2>1, <2>2 DEF TypeOK, sched
  <2>4. InHand'
    BY <2>1 DEF InHand, TypeOK, sched
  <2> QED BY <2>3, <2>4
<1>5. CASE RtStoreBlock
  <2>1. /\ rt.pc = "block" /\ rt' = NoRt
        /\ blockDB' = Put(blockDB, rt.block.number, BlockIndex(rt.block, rt.createdAt))
        /\ UNCHANGED <<chain, mined, announced, addressDB, sched, again, asked, cleaner, reruns, crashes>>
    BY <1>5 DEF RtStoreBlock
  <2>2. \A n \in DOMAIN blockDB' :
          /\ n \in 1 .. Len(chain)
          /\ blockDB'[n].time \in Nat /\ blockDB'[n].createdAt \in Nat
    <3>1. rt.block \in Blocks /\ rt.block.number \in 1 .. Len(chain) /\ rt.createdAt \in Nat
      BY <2>1 DEF InHand, TypeOK, sched
    <3>2. BlockIndex(rt.block, rt.createdAt).time \in Nat
          /\ BlockIndex(rt.block, rt.createdAt).createdAt \in Nat
      BY <3>1 DEF BlockIndex, Blocks
    <3> QED BY <2>1, <3>1, <3>2 DEF Put, TypeOK
  <2>3. TypeOK'
    BY <2>1, <2>2 DEF TypeOK, sched, NoRt
  <2>4. InHand'
    BY <2>1 DEF InHand, sched, NoRt
  <2> QED BY <2>3, <2>4
<1>6. CASE Rerun
  <2>1. /\ \E n \in 1 .. Len(chain) : asked' = asked \cup {n}
        /\ reruns < MaxReruns /\ reruns' = reruns + 1
        /\ UNCHANGED <<chain, mined, announced, addressDB, blockDB, batchDB, index, worker,
                       missed, rt, again, cleaner, crashes>>
    BY <1>6 DEF Rerun, sched
  <2>2. reruns' \in 0 .. MaxReruns
    BY <2>1, BoundAssumption DEF TypeOK
  <2>3. asked' \subseteq 1 .. Len(chain)
    BY <2>1 DEF TypeOK
  <2>4. TypeOK'
    BY <2>1, <2>2, <2>3 DEF TypeOK
  <2>5. InHand'
    BY <2>1 DEF InHand
  <2> QED BY <2>4, <2>5
<1>7. CASE RerunFetch
  <2>1. PICK n \in 1 .. Len(chain) : again' = [pc |-> "address", block |-> chain[n]]
    BY <1>7 DEF RerunFetch, TypeOK
  <2>2. UNCHANGED <<chain, mined, announced, addressDB, blockDB, sched, rt, asked, cleaner,
                    reruns, crashes>>
    BY <1>7 DEF RerunFetch
  <2>3. chain[n] \in Blocks /\ chain[n].number = n
    BY ChainBlock
  <2>4. TypeOK'
    BY <2>1, <2>2, <2>3 DEF TypeOK, sched
  <2>5. InHand'
    BY <2>1, <2>2, <2>3 DEF InHand, sched
  <2> QED BY <2>4, <2>5
<1>8. CASE RerunStore
  <2>1. /\ again.pc = "address" /\ again' = NoRerun
        /\ addressDB' = BatchPut(addressDB, AddressIndex(again.block))
        /\ asked' \subseteq asked
        /\ UNCHANGED <<chain, mined, announced, blockDB, sched, rt, cleaner, reruns, crashes>>
    BY <1>8 DEF RerunStore
  <2>2. \A k \in DOMAIN addressDB' :
          /\ k \in Addresses \X Nat \X (0 .. SeqModulus - 1)
          /\ addressDB'[k] \in [number : Nat, version : Nat, row : Nat]
    <3>1. again.block \in Blocks
      BY <2>1 DEF InHand
    <3> QED BY <2>1, <3>1, AddressIndexType DEF BatchPut, TypeOK
  <2>3. TypeOK'
    BY <2>1, <2>2 DEF TypeOK, NoRerun, sched
  <2>4. InHand'
    BY <2>1 DEF InHand, NoRerun, sched
  <2> QED BY <2>3, <2>4
<1>9. CASE CleanScan
  <2>1. cleaner' \subseteq DOMAIN blockDB
        /\ UNCHANGED <<chain, mined, announced, addressDB, blockDB, sched, rt, again, asked,
                       reruns, crashes>>
    BY <1>9 DEF CleanScan, OldBlocks
  <2>2. TypeOK'
    BY <2>1 DEF TypeOK, sched
  <2>3. InHand'
    BY <1>9 DEF CleanScan, InHand, sched
  <2> QED BY <2>2, <2>3
<1>10. CASE CleanDelete
  <2>1. /\ DOMAIN blockDB' \subseteq DOMAIN blockDB
        /\ \A n \in DOMAIN blockDB' : blockDB'[n] = blockDB[n]
        /\ cleaner' = {}
        /\ UNCHANGED <<chain, mined, announced, addressDB, sched, rt, again, asked, reruns,
                       crashes>>
    BY <1>10 DEF CleanDelete, BatchDelete
  <2>2. \A n \in DOMAIN blockDB' :
          /\ n \in 1 .. Len(chain)
          /\ blockDB'[n].time \in Nat /\ blockDB'[n].createdAt \in Nat
    BY <2>1 DEF TypeOK
  <2>3. TypeOK'
    BY <2>1, <2>2 DEF TypeOK, sched
  <2>4. InHand'
    BY <2>1 DEF InHand, sched
  <2> QED BY <2>3, <2>4
<1>11. CASE Crash
  <2>1. /\ announced' = <<>> /\ rt' = NoRt /\ worker' = NoWorker
        /\ again' = NoRerun /\ asked' = {} /\ cleaner' = {}
        /\ crashes' \in 0 .. MaxCrashes
        /\ index' = [index EXCEPT !.pc = "down"]
        /\ UNCHANGED <<chain, mined, addressDB, blockDB, batchDB, reruns>>
    BY <1>11, BoundAssumption DEF Crash, TypeOK
  <2>2. announced' \in Seq(1 .. Len(chain)) /\ Len(announced') <= MaxLag
    BY <2>1, BoundAssumption
  <2>3. missed' \subseteq Nat
    <3>1. \A n \in Forgotten : chain[n].version \in Nat
      BY ChainBlock DEF Forgotten, Blocks
    <3> QED BY <1>11, <3>1 DEF Crash, TypeOK
  <2>4. TypeOK'
    BY <2>1, <2>2, <2>3 DEF TypeOK, NoRt, NoRerun, NoWorker
  <2>5. InHand'
    BY <2>1 DEF InHand, NoRt, NoRerun, NoWorker
  <2> QED BY <2>4, <2>5
<1>12. CASE UNCHANGED vars
  BY <1>12 DEF vars, sched, TypeOK, InHand
<1>13. CASE IndexBegin
  <2>1. /\ index' = [pc |-> "latest", latest |-> Len(chain)] /\ missed' \subseteq missed
        /\ UNCHANGED <<chain, mined, announced, addressDB, blockDB, batchDB, worker, rt,
                       again, asked, cleaner, reruns, crashes>>
    BY <1>13 DEF IndexBegin
  <2>2. Len(chain) \in 0 .. Len(chain)
    <3>1. Len(chain) \in Nat
      BY LenProperties DEF TypeOK
    <3> QED BY <3>1
  <2>3. TypeOK'
    BY <2>1, <2>2 DEF TypeOK
  <2>4. InHand'
    BY <2>1 DEF InHand
  <2> QED BY <2>3, <2>4
<1>14. CASE Launch
  <2>1. /\ index' = [index EXCEPT !.pc = "subscribe"] /\ batchDB' = batchDB
        /\ UNCHANGED <<chain, mined, announced, addressDB, blockDB, missed, rt, again,
                       asked, cleaner, reruns, crashes>>
    BY <1>14, LaunchMakes DEF Launch
  <2>2. \A k \in DOMAIN worker' : /\ worker'[k].block = Nil
                                  /\ worker'[k] \in [batch : Batches, block : Blocks \cup {Nil}]
    <3>1. \A k \in DOMAIN worker' : worker'[k] = [batch |-> worker'[k].batch, block |-> worker'[k].block]
      BY <1>14 DEF Launch
    <3> QED BY <1>14, <3>1, LaunchType
  <2>3. TypeOK'
    BY <2>1, <2>2 DEF TypeOK
  <2>4. InHand'
    BY <2>1, <2>2 DEF InHand
  <2> QED BY <2>3, <2>4
<1>15. CASE RtSubscribe
  <2>1. /\ index' = [index EXCEPT !.pc = "listen"]
        /\ UNCHANGED <<chain, mined, announced, addressDB, blockDB, batchDB, worker, missed, rt,
                       again, asked, cleaner, reruns, crashes>>
    BY <1>15 DEF RtSubscribe
  <2> QED BY <2>1 DEF TypeOK, InHand
<1>16. ASSUME NEW k \in DOMAIN worker, WorkerFetch(k)
       PROVE  Typed'
  <2> DEFINE b == chain[NextBlock(worker[k].batch)]
  <2>1. b \in Blocks /\ b.number \in 1 .. Len(chain)
    BY <1>16, ChainBlock DEF WorkerFetch
  <2>2. /\ worker' = [worker EXCEPT ![k].block = b]
        /\ UNCHANGED <<chain, mined, announced, addressDB, blockDB, batchDB, index, missed,
                       rt, again, asked, cleaner, reruns, crashes>>
    BY <1>16 DEF WorkerFetch
  <2> HIDE DEF b
  <2>3. TypeOK'
    BY <2>1, <2>2 DEF TypeOK
  <2>4. InHand'
    BY <2>1, <2>2 DEF InHand, TypeOK
  <2> QED BY <2>3, <2>4
<1>17. ASSUME NEW k \in DOMAIN worker, WorkerStore(k) \/ WorkerGenesis(k)
       PROVE  Typed'
  <2>1. /\ Took(k)
        /\ UNCHANGED <<chain, mined, announced, blockDB, index, missed, rt, again, asked,
                       cleaner, reruns, crashes>>
    BY <1>17 DEF WorkerStore, WorkerGenesis
  <2>2. \A x \in DOMAIN addressDB' :
          /\ x \in Addresses \X Nat \X (0 .. SeqModulus - 1)
          /\ addressDB'[x] \in [number : Nat, version : Nat, row : Nat]
    <3>1. CASE WorkerStore(k)
      <4>1. worker[k].block \in Blocks
        BY <3>1 DEF InHand, WorkerStore
      <4> QED BY <3>1, <4>1, AddressIndexType DEF WorkerStore, BatchPut, TypeOK
    <3>2. CASE WorkerGenesis(k)
      BY <3>2 DEF WorkerGenesis, TypeOK
    <3> QED BY <1>17, <3>1, <3>2
  <2> DEFINE b == Advance(worker[k].batch)
  <2>3. /\ b \in Batches /\ BatchKey(b) \in BatchKeys /\ b.current \in Nat
        /\ DOMAIN worker' = DOMAIN worker
        /\ worker'[k] = [batch |-> b, block |-> Nil]
        /\ \A l \in DOMAIN worker \ {k} : worker'[l] = worker[l]
        /\ DOMAIN batchDB' = DOMAIN batchDB \cup {BatchKey(b)}
        /\ batchDB'[BatchKey(b)] = b.current
        /\ \A l \in DOMAIN batchDB \ {BatchKey(b)} : batchDB'[l] = batchDB[l]
    BY <2>1, TookIs
  <2> HIDE DEF b
  <2>4. TypeOK'
    BY <2>1, <2>2, <2>3 DEF TypeOK
  <2>5. InHand'
    BY <2>1, <2>3 DEF InHand
  <2> QED BY <2>4, <2>5
<1> QED BY <1>1, <1>2, <1>3, <1>4, <1>5, <1>6, <1>7, <1>8, <1>9, <1>10, <1>11, <1>12, <1>13,
           <1>14, <1>15, <1>16, <1>17 DEF Next, Realtime

LEMMA TypedAlways == Spec => []Typed
BY TypedInit, TypedNext, PTL DEF Spec

\* For every set of accounts, every shape of the blocks and every bound: the
\* databases hold rows under the keys of Store and records under numbers of
\* existing blocks, and only existing blocks are announced, in hand or to be
\* taken, whatever is reorganised, run again or lost in a crash.
THEOREM TypeCorrect == Spec => []TypeOK
BY TypedAlways, PTL DEF Typed

-----------------------------------------------------------------------------
\* No row of the chain is lost.

\* No address has as many rows in a block as a sequence has values.
AllFit == \A rows \in Shapes, a \in Addresses : rows[a] < SeqModulus

\* b is a block the node has mined, on whichever branch: no other block has its
\* version or, then, its time.
Known(b) ==
  /\ b \in Blocks /\ b.number \in 1 .. Len(chain)
  /\ b.time = b.version /\ b.version <= mined
  /\ \A n \in 1 .. Len(chain) : chain[n].version = b.version => chain[n] = b

\* Every row of b is in the address database, as a row of b.
Stored(b) ==
  \A a \in Addresses : \A i \in 1 .. b.rows[a] :
    /\ <<a, b.time, i>> \in DOMAIN addressDB
    /\ addressDB[<<a, b.time, i>>] = [number |-> b.number, version |-> b.version, row |-> i]

\* Everything the goroutines and the block database know is known.
BlocksKnown ==
  /\ \A n \in 1 .. Len(chain) : Known(chain[n])
  /\ rt.pc # "idle" => Known(rt.block)
  /\ again.pc # "idle" => Known(again.block)
  /\ \A k \in DOMAIN worker : worker[k].block # Nil => Known(worker[k].block)
  /\ \A n \in DOMAIN blockDB : \E b \in Blocks :
       Known(b) /\ b.number = n /\ blockDB[n] = BlockIndex(b, blockDB[n].createdAt)

\* The batches that goroutines run and those that are on record.
InUse == {StoredBatch(batchDB, k) : k \in DOMAIN batchDB}
           \cup {worker[k].batch : k \in DOMAIN worker}

\* A catch-up batch still has block n to take.
Takes(b, n) == b.from <= n /\ n <= b.to /\ b.current < n

\* Goroutine k is to take block n, and if it has fetched it, it was this one.
WorkerTakes(k, n) ==
  /\ Takes(worker[k].batch, n)
  /\ worker[k].block # Nil /\ worker[k].block.number = n => worker[k].block = chain[n]

\* A restart that is under way makes a batch, if it finds none, that takes n.
RestartTo == IF index.pc = "down" THEN Len(chain) ELSE index.latest

RestartTakes(n) ==
  /\ index.pc \in {"down", "latest"} /\ n <= RestartTo
  /\ \A m \in DOMAIN blockDB : m <= n

\* Block n of the chain is stored, or somebody is yet to store it, or nobody was
\* told of it.  A batch only counts if it goes on beyond block t.
Covered(n, t) ==
  \/ Stored(chain[n])
  \/ \E p \in 1 .. Len(announced) : announced[p] = n
  \/ rt.pc \in {"reorg", "loops", "address"} /\ rt.block = chain[n]
  \/ chain[n].version \in missed
  \/ \E k \in DOMAIN worker : worker[k].batch.to > t /\ WorkerTakes(k, n)
  \/ /\ index.pc \in {"down", "latest"}
     /\ \E k \in DOMAIN batchDB : k.to > t /\ Takes(StoredBatch(batchDB, k), n)
  \/ RestartTakes(n) /\ RestartTo > t

AllCovered == \A n \in 1 .. Len(chain) : Covered(n, n - 1)

\* The last block of the chain is, or was, to be announced.
TipAhead ==
  announced # <<>> \/ rt.pc # "idle" \/ (chain # <<>> /\ chain[Len(chain)].version \in missed)

\* Nobody is told of blocks during a restart, which knows of all records there
\* are; without crashes there is none, and no catch-up batch.
Restarting ==
  /\ index.pc # "listen" => announced = <<>> /\ rt.pc = "idle"
  /\ index.pc \in {"down", "latest"} => DOMAIN worker = {}
  /\ index.pc = "latest" =>
       /\ \A m \in DOMAIN blockDB : m <= index.latest
       /\ \A k \in DOMAIN batchDB : k.to <= index.latest
       /\ TipAhead => index.latest < Len(chain)
  /\ MaxCrashes = 0 => index.pc = "listen" /\ DOMAIN worker = {} /\ DOMAIN batchDB = {}

\* A catch-up batch takes every block of its part of the chain, and its goroutine
\* has the next one in hand.
BatchesFit ==
  /\ \A b \in InUse : /\ b \in Batches /\ b.step = 1
                      /\ b.from <= b.to /\ b.current <= b.to /\ b.to <= Len(chain)
  /\ \A k \in DOMAIN worker : worker[k].block # Nil =>
       /\ worker[k].block.number = NextBlock(worker[k].batch)
       /\ NextBlock(worker[k].batch) <= worker[k].batch.to

\* What is announced is not before the end of a batch: it was mined later.
HeadersAhead ==
  \A b \in InUse :
    /\ \A p \in 1 .. Len(announced) : b.to <= announced[p]
    /\ rt.pc # "idle" => b.to <= rt.block.number
    /\ TipAhead => b.to < Len(chain)

\* What a batch took is stored.  Only the last block of a batch can have been
\* replaced since, and then it is covered by something else.
TakenCovered ==
  \A b \in InUse : \A n \in 1 .. Len(chain) :
    b.from <= n /\ n <= b.current =>
      IF n < b.to THEN Stored(chain[n]) ELSE Covered(n, n)

\* The same of the block that a batch is about to store.
HandsCovered ==
  \A k \in DOMAIN worker : worker[k].block # Nil =>
    LET n == worker[k].block.number IN
    worker[k].block = chain[n] \/ (n = worker[k].batch.to /\ Covered(n, n))

\* If the record that HandleReorg finds is the one of the chain's block, that
\* is the block to be stored again: what it deletes comes back.
ReorgOwnRows ==
  LET n == rt.block.number IN
  rt.pc # "idle" /\ n \in DOMAIN blockDB /\ blockDB[n].time = chain[n].version
    => rt.block = chain[n]

\* The blocks of newHead are stored in the order of their numbers, so that a
\* restart which takes those from the last record on leaves out none.
StoredInOrder ==
  /\ \A p, q \in 1 .. Len(announced) : p <= q => announced[p] <= announced[q]
  /\ rt.pc # "idle" =>
       \A p \in 1 .. Len(announced) : rt.block.number <= announced[p]
  /\ \A n \in DOMAIN blockDB :
       /\ rt.pc # "idle" => n <= rt.block.number
       /\ \A p \in 1 .. Len(announced) : n <= announced[p]

NoneLost ==
  /\ BlocksKnown /\ AllCovered /\ ReorgOwnRows
  /\ Restarting /\ BatchesFit /\ HeadersAhead /\ TakenCovered /\ HandsCovered
  /\ MaxDepth <= 1 => StoredInOrder

-----------------------------------------------------------------------------
(* The rows of one block.                                                  *)

LEMMA BlockFits ==
  ASSUME AllFit, NEW b \in Blocks
  PROVE  Fits(b)
BY ShapesAreNumbers DEF AllFit, Fits, Blocks

\* Storing a block stores all its rows.
LEMMA StoringStores ==
  ASSUME AllFit, NEW b \in Blocks, addressDB' = BatchPut(addressDB, AddressIndex(b))
  PROVE  Stored(b)'
<1>1. Fits(b)
  BY BlockFits
<1>2. ASSUME NEW a \in Addresses, NEW i \in 1 .. b.rows[a]
      PROVE  /\ <<a, b.time, i>> \in DOMAIN addressDB'
             /\ addressDB'[<<a, b.time, i>>] =
                  [number |-> b.number, version |-> b.version, row |-> i]
  <2>1. <<a, b.time, i>> \in DOMAIN AddressIndex(b)
        /\ AddressIndex(b)[<<a, b.time, i>>] =
             [number |-> b.number, version |-> b.version, row |-> i]
    BY <1>1, EveryRowHasItsKey
  <2> QED BY <2>1 DEF BatchPut
<1> QED BY <1>2 DEF Stored

\* Storing another block takes none of them.
LEMMA StoringKeeps ==
  ASSUME AllFit, NEW b \in Blocks, NEW c \in Blocks, c.time = b.time => c = b, Stored(b),
         addressDB' = BatchPut(addressDB, AddressIndex(c))
  PROVE  Stored(b)'
<1>1. CASE c = b
  BY <1>1, StoringStores
<1>2. CASE c # b
  <2>1. \A k \in DOMAIN AddressIndex(c) : k[2] # b.time
    BY <1>2, AddressIndexType
  <2>2. \A a, i : <<a, b.time, i>> \notin DOMAIN AddressIndex(c)
    BY <2>1
  <2> QED BY <2>2 DEF Stored, BatchPut
<1> QED BY <1>1, <1>2

\* Nor does the removal of a block of another time.
LEMMA RemovingKeeps ==
  ASSUME AllFit, NEW b \in Blocks, NEW c \in Blocks, c.time # b.time, NEW createdAt, Stored(b),
         addressDB' = BatchDelete(addressDB, ReorgKeys(BlockIndex(c, createdAt)))
  PROVE  Stored(b)'
<1>1. ReorgKeys(BlockIndex(c, createdAt)) = DOMAIN AddressIndex(c)
  BY BlockFits, ReorgDeletesExactly
<1>2. \A k \in DOMAIN AddressIndex(c) : k[2] # b.time
  BY AddressIndexType
<1>3. \A a, i : <<a, b.time, i>> \notin DOMAIN AddressIndex(c)
  BY <1>2
<1> QED BY <1>1, <1>3 DEF Stored, BatchDelete

-----------------------------------------------------------------------------
(* What is known.                                                          *)

LEMMA OnlyBranches ==
  ASSUME [Next]_vars, ~(\E depth \in 0 .. MaxDepth : NewBranch(depth))
  PROVE  UNCHANGED <<chain, mined>>
BY DEF Next, Realtime, vars, RtFetch, RtReorg, RtStoreAddress, RtStoreBlock, IndexBegin, Launch,
       RtSubscribe, WorkerFetch, WorkerStore, WorkerGenesis, Rerun, RerunFetch, RerunStore,
       CleanScan, CleanDelete, Crash

\* A new branch takes nothing from what is known: its versions are new.
LEMMA KnownStays ==
  ASSUME Typed, ~SharedTimes, [Next]_vars, NEW b, Known(b)
  PROVE  Known(b)'
<1>1. ASSUME NEW depth \in 0 .. MaxDepth, NewBranch(depth)
      PROVE  Known(b)'
  <2> DEFINE fork == Len(chain) - depth
  <2>1. /\ Len(chain) \in Nat /\ fork \in 0 .. Len(chain) /\ Len(chain') = Len(chain) + 1
        /\ \A n \in 1 .. fork : chain'[n] = chain[n]
        /\ \A n \in fork + 1 .. Len(chain') : chain'[n].version = mined + (n - fork)
    BY <1>1, BranchReplaces
  <2>2. mined \in Nat /\ mined' = mined + depth + 1
    BY <1>1 DEF NewBranch, Typed, TypeOK
  <2>3. b \in Blocks /\ b.number \in 1 .. Len(chain) /\ b.time = b.version
        /\ b.version \in Nat /\ b.version <= mined
    BY DEF Known, Blocks
  <2>4. ASSUME NEW n \in 1 .. Len(chain'), chain'[n].version = b.version
        PROVE  chain'[n] = b
    <3>1. n \in 1 .. fork
      BY <2>1, <2>2, <2>3, <2>4
    <3> QED BY <2>1, <2>4, <3>1 DEF Known
  <2> QED BY <2>1, <2>2, <2>3, <2>4 DEF Known
<1>2. CASE UNCHANGED <<chain, mined>>
  BY <1>2 DEF Known
<1> QED BY <1>1, <1>2, OnlyBranches

LEMMA ChainKnown ==
  ASSUME Typed, ~SharedTimes, BlocksKnown, [Next]_vars, NEW n \in 1 .. Len(chain')
  PROVE  Known(chain[n])'
<1>1. ASSUME NEW depth \in 0 .. MaxDepth, NewBranch(depth)
      PROVE  Known(chain[n])'
  <2> DEFINE fork == Len(chain) - depth
             b == chain'[n]
  <2>1. /\ Len(chain) \in Nat /\ fork \in 0 .. Len(chain) /\ Len(chain') = Len(chain) + 1
        /\ chain' \in Seq(Blocks) /\ \A m \in 1 .. Len(chain') : chain'[m].number = m
        /\ \A m \in 1 .. fork : chain'[m] = chain[m]
        /\ \A m \in fork + 1 .. Len(chain') :
             chain'[m].version = mined + (m - fork) /\ chain'[m].time = chain'[m].version
    BY <1>1, BranchReplaces
  <2>2. mined \in Nat /\ mined' = mined + depth + 1
    BY <1>1 DEF NewBranch, Typed, TypeOK
  <2>3. \A m \in 1 .. fork : /\ chain[m].version <= mined /\ chain[m].version \in Nat
                              /\ chain[m].time = chain[m].version
    <3>1. \A m \in 1 .. fork : Known(chain[m])
      BY <2>1 DEF BlocksKnown
    <3> QED BY <3>1 DEF Known, Blocks
  <2>4. b \in Blocks /\ b.number = n
    BY <2>1, ElementOfSeq
  <2>5. b.time = b.version /\ b.version <= mined'
    <3>1. CASE n \in 1 .. fork
      <4>1. chain'[n] = chain[n] /\ mined <= mined'
        BY <2>1, <2>2, <3>1
      <4>2. chain[n].version <= mined /\ chain[n].version \in Nat
            /\ chain[n].time = chain[n].version
        BY <2>3, <3>1
      <4> QED BY <2>2, <4>1, <4>2
    <3>2. CASE n \in fork + 1 .. Len(chain')
      <4>1. chain'[n].version = mined + (n - fork) /\ chain'[n].time = chain'[n].version
        BY <2>1, <3>2
      <4> QED BY <2>1, <2>2, <3>2, <4>1
    <3> QED BY <2>1, <3>1, <3>2
  <2>6. ASSUME NEW m \in 1 .. Len(chain'), chain'[m].version = b.version
        PROVE  chain'[m] = b
    <3>1. CASE n \in 1 .. fork /\ m \in 1 .. fork
      <4>1. chain'[n] = chain[n] /\ chain'[m] = chain[m] /\ chain[m].version = chain[n].version
        BY <2>1, <2>6, <3>1
      <4>2. n \in 1 .. Len(chain) /\ m \in 1 .. Len(chain)
        BY <2>1, <3>1
      <4>3. Known(chain[n])
        BY <4>2 DEF BlocksKnown
      <4>4. chain[m] = chain[n]
        BY <4>1, <4>2, <4>3 DEF Known
      <4> QED BY <4>1, <4>4
    <3>2. CASE n \in fork + 1 .. Len(chain') /\ m \in fork + 1 .. Len(chain')
      <4>1. mined + (m - fork) = mined + (n - fork)
        BY <2>1, <2>6, <3>2
      <4>2. m = n
        BY <2>1, <2>2, <3>2, <4>1
      <4> QED BY <4>2
    <3>3. CASE n \in 1 .. fork /\ m \in fork + 1 .. Len(chain')
      BY <2>1, <2>2, <2>3, <2>6, <3>3
    <3>4. CASE n \in fork + 1 .. Len(chain') /\ m \in 1 .. fork
      BY <2>1, <2>2, <2>3, <2>6, <3>4
    <3> QED BY <2>1, <3>1, <3>2, <3>3, <3>4
  <2> QED BY <2>4, <2>5, <2>6 DEF Known
<1>2. CASE UNCHANGED <<chain, mined>>
  BY <1>2 DEF Known, BlocksKnown
<1> QED BY <1>1, <1>2, OnlyBranches

\* What a goroutine has in hand it has from before or from the chain.
LEMMA HandsTake ==
  ASSUME Typed, [Next]_vars
  PROVE  /\ rt'.pc # "idle" =>
              \/ rt.pc # "idle" /\ rt'.block = rt.block
              \/ \E n \in 1 .. Len(chain) : rt'.block = chain[n] /\ UNCHANGED <<chain, mined>>
         /\ again'.pc # "idle" =>
              \/ again.pc # "idle" /\ again'.block = again.block
              \/ \E n \in 1 .. Len(chain) : again'.block = chain[n] /\ UNCHANGED <<chain, mined>>
         /\ \A k \in DOMAIN worker' : worker'[k].block # Nil =>
              \/ k \in DOMAIN worker /\ worker[k].block # Nil /\ worker'[k].block = worker[k].block
              \/ \E n \in 1 .. Len(chain) : worker'[k].block = chain[n] /\ UNCHANGED <<chain, mined>>
<1>1. CASE RtFetch
  BY <1>1, FetchTakesHead DEF RtFetch, sched
<1>2. CASE RerunFetch
  BY <1>2 DEF RerunFetch, Typed, TypeOK, sched
<1>3. CASE RtReorg \/ RtStoreAddress
  BY <1>3 DEF RtReorg, RtStoreAddress, SetRt, Typed, TypeOK, sched
<1>4. CASE RtStoreBlock \/ RerunStore \/ Crash
  BY <1>4 DEF RtStoreBlock, RerunStore, Crash, NoRt, NoRerun, NoWorker, sched
<1>5. CASE UNCHANGED <<rt, again, worker>>
  BY <1>5
<1>6. CASE Launch
  BY <1>6, LaunchType DEF Launch
<1>7. ASSUME NEW k \in DOMAIN worker, WorkerFetch(k)
      PROVE  /\ UNCHANGED <<rt, again, chain, mined>> /\ DOMAIN worker' = DOMAIN worker
             /\ \E n \in 1 .. Len(chain) : worker'[k].block = chain[n]
             /\ \A l \in DOMAIN worker \ {k} : worker'[l] = worker[l]
  <2> DEFINE n == NextBlock(worker[k].batch)
  <2>1. /\ n \in 1 .. Len(chain) /\ worker' = [worker EXCEPT ![k].block = chain[n]]
        /\ UNCHANGED <<rt, again, chain, mined>>
    BY <1>7 DEF WorkerFetch
  <2>2. worker[k] \in [batch : Batches, block : Blocks \cup {Nil}]
    BY DEF Typed, TypeOK
  <2> HIDE DEF n
  <2> QED BY <2>1, <2>2
<1>8. ASSUME NEW k \in DOMAIN worker, WorkerStore(k) \/ WorkerGenesis(k)
      PROVE  /\ UNCHANGED <<rt, again>> /\ DOMAIN worker' = DOMAIN worker
             /\ worker'[k].block = Nil
             /\ \A l \in DOMAIN worker \ {k} : worker'[l] = worker[l]
  <2> DEFINE b == Advance(worker[k].batch)
  <2>1. Took(k) /\ UNCHANGED <<rt, again>>
    BY <1>8 DEF WorkerStore, WorkerGenesis
  <2>2. /\ DOMAIN worker' = DOMAIN worker /\ worker'[k] = [batch |-> b, block |-> Nil]
        /\ \A l \in DOMAIN worker \ {k} : worker'[l] = worker[l]
    BY <2>1, TookIs
  <2> HIDE DEF b
  <2> QED BY <2>1, <2>2
<1>9. CASE \E k \in DOMAIN worker : WorkerFetch(k) \/ WorkerStore(k) \/ WorkerGenesis(k)
  BY <1>7, <1>8, <1>9
<1> QED BY <1>1, <1>2, <1>3, <1>4, <1>5, <1>6, <1>9
        DEF Next, Realtime, NewBranch, IndexBegin, RtSubscribe, Rerun, CleanScan, CleanDelete,
            vars, sched

LEMMA BlocksKnownNext ==
  ASSUME Typed, ~SharedTimes, BlocksKnown, [Next]_vars
  PROVE  BlocksKnown'
<1>1. \A n \in 1 .. Len(chain') : Known(chain[n])'
  BY ChainKnown
<1>2. \A b : Known(b) => Known(b)'
  BY KnownStays
<1>3. (rt.pc # "idle" => Known(rt.block))'
  <2>1. CASE rt.pc # "idle" /\ rt'.block = rt.block
    <3>1. PICK b : b = rt.block /\ Known(b)
      BY <2>1 DEF BlocksKnown
    <3>2. Known(b)'
      BY <1>2, <3>1
    <3> QED BY <2>1, <3>1, <3>2
  <2>2. ASSUME NEW n \in 1 .. Len(chain), rt'.block = chain[n], UNCHANGED <<chain, mined>>
        PROVE  Known(rt.block)'
    <3>1. chain'[n] = rt'.block /\ n \in 1 .. Len(chain')
      BY <2>2
    <3> QED BY <1>1, <3>1
  <2> QED BY <2>1, <2>2, HandsTake
<1>4. (again.pc # "idle" => Known(again.block))'
  <2>1. CASE again.pc # "idle" /\ again'.block = again.block
    <3>1. PICK b : b = again.block /\ Known(b)
      BY <2>1 DEF BlocksKnown
    <3>2. Known(b)'
      BY <1>2, <3>1
    <3> QED BY <2>1, <3>1, <3>2
  <2>2. ASSUME NEW n \in 1 .. Len(chain), again'.block = chain[n], UNCHANGED <<chain, mined>>
        PROVE  Known(again.block)'
    <3>1. chain'[n] = again'.block /\ n \in 1 .. Len(chain')
      BY <2>2
    <3> QED BY <1>1, <3>1
  <2> QED BY <2>1, <2>2, HandsTake
<1>6. ASSUME NEW k \in DOMAIN worker', worker'[k].block # Nil
      PROVE  Known(worker[k].block)'
  <2>1. CASE k \in DOMAIN worker /\ worker[k].block # Nil /\ worker'[k].block = worker[k].block
    <3>1. PICK b : b = worker[k].block /\ Known(b)
      BY <2>1 DEF BlocksKnown
    <3>2. Known(b)'
      BY <1>2, <3>1
    <3> QED BY <2>1, <3>1, <3>2
  <2>2. ASSUME NEW n \in 1 .. Len(chain), worker'[k].block = chain[n], UNCHANGED <<chain, mined>>
        PROVE  Known(worker[k].block)'
    <3>1. chain'[n] = worker'[k].block /\ n \in 1 .. Len(chain')
      BY <2>2
    <3> QED BY <1>1, <3>1
  <2> QED BY <1>6, <2>1, <2>2, HandsTake
<1>5. (\A n \in DOMAIN blockDB : \E b \in Blocks :
         Known(b) /\ b.number = n /\ blockDB[n] = BlockIndex(b, blockDB[n].createdAt))'
  <2>1. ASSUME NEW n \in DOMAIN blockDB
        PROVE  \E b \in Blocks : /\ Known(b)' /\ b.number = n
                                 /\ blockDB[n] = BlockIndex(b, blockDB[n].createdAt)
    BY <1>2 DEF BlocksKnown
  <2>2. CASE RtStoreBlock
    <3>1. rt.pc = "block" /\ UNCHANGED <<chain, mined>>
          /\ blockDB' = Put(blockDB, rt.block.number, BlockIndex(rt.block, rt.createdAt))
      BY <2>2 DEF RtStoreBlock
    <3>2. PICK b \in Blocks : b = rt.block /\ Known(b)'
      <4>1. Known(rt.block) /\ rt.block \in Blocks
        BY <3>1 DEF BlocksKnown, Known
      <4> QED BY <1>2, <4>1
    <3>3. BlockIndex(b, rt.createdAt) = BlockIndex(b, BlockIndex(b, rt.createdAt).createdAt)
      BY DEF BlockIndex
    <3> QED BY <2>1, <3>1, <3>2, <3>3 DEF Put
  <2>3. CASE CleanDelete
    BY <2>1, <2>3 DEF CleanDelete, BatchDelete
  <2>4. CASE UNCHANGED blockDB
    BY <2>1, <2>4
  <2> QED BY <2>2, <2>3, <2>4
          DEF Next, Realtime, vars, NewBranch, RtFetch, RtReorg, RtStoreAddress, IndexBegin,
              Launch, RtSubscribe, WorkerFetch, WorkerStore, WorkerGenesis, Rerun, RerunFetch,
              RerunStore, CleanScan, Crash
<1>7. (\A k \in DOMAIN worker : worker[k].block # Nil => Known(worker[k].block))'
  BY <1>6
<1> QED BY <1>1, <1>3, <1>4, <1>5, <1>7 DEF BlocksKnown

-----------------------------------------------------------------------------
(* What is covered.                                                        *)

LEMMA ReorgOwnRowsNext ==
  ASSUME Typed, ~SharedTimes, BlocksKnown, ReorgOwnRows, [Next]_vars
  PROVE  ReorgOwnRows'
<1>1. ASSUME NEW depth \in 0 .. MaxDepth, NewBranch(depth)
      PROVE  ReorgOwnRows'
  <2> DEFINE fork == Len(chain) - depth
             n == rt.block.number
  <2> SUFFICES ASSUME rt.pc # "idle", n \in DOMAIN blockDB, blockDB[n].time = chain'[n].version
               PROVE  rt.block = chain'[n]
    BY <1>1 DEF NewBranch, ReorgOwnRows
  <2>1. /\ Len(chain) \in Nat /\ fork \in 0 .. Len(chain) /\ Len(chain') = Len(chain) + 1
        /\ \A m \in 1 .. fork : chain'[m] = chain[m]
        /\ \A m \in fork + 1 .. Len(chain') : chain'[m].version = mined + (m - fork)
    BY <1>1, BranchReplaces
  <2>2. n \in 1 .. Len(chain) /\ mined \in Nat
    BY DEF Typed, TypeOK, InHand
  <2>3. blockDB[n].time \in Nat /\ blockDB[n].time <= mined
    <3>1. PICK b \in Blocks : Known(b) /\ blockDB[n] = BlockIndex(b, blockDB[n].createdAt)
      BY DEF BlocksKnown
    <3>2. blockDB[n].time = b.time
      BY <3>1 DEF BlockIndex
    <3> QED BY <3>1, <3>2 DEF Known, Blocks
  <2>4. ASSUME n \in fork + 1 .. Len(chain')
        PROVE  FALSE
    <3>1. chain'[n].version = mined + (n - fork)
      BY <2>1, <2>4
    <3>2. mined + (n - fork) > mined
      BY <2>1, <2>2, <2>4
    <3> QED BY <2>2, <2>3, <3>1, <3>2
  <2>5. n \in 1 .. fork
    BY <2>1, <2>2, <2>4
  <2> QED BY <2>1, <2>5 DEF ReorgOwnRows
<1>2. CASE RtFetch
  BY <1>2, FetchTakesHead DEF RtFetch, ReorgOwnRows
<1>3. CASE RtReorg \/ RtStoreAddress
  BY <1>3 DEF RtReorg, RtStoreAddress, SetRt, ReorgOwnRows, Typed, TypeOK
<1>4. CASE RtStoreBlock \/ Crash
  BY <1>4 DEF RtStoreBlock, Crash, ReorgOwnRows, NoRt
<1>5. CASE CleanDelete
  BY <1>5 DEF CleanDelete, BatchDelete, ReorgOwnRows
<1>6. CASE UNCHANGED <<chain, rt, blockDB>>
  BY <1>6 DEF ReorgOwnRows
<1> QED BY <1>1, <1>2, <1>3, <1>4, <1>5, <1>6
        DEF Next, Realtime, IndexBegin, Launch, RtSubscribe, WorkerFetch, WorkerStore,
            WorkerGenesis, Rerun, RerunFetch, RerunStore, CleanScan, vars

\* Blocks are announced in the order of their numbers, when a branch replaces
\* only the last block.
LEMMA StoredInOrderNext ==
  ASSUME Typed, MaxDepth <= 1, StoredInOrder, [Next]_vars
  PROVE  StoredInOrder'
<1>1. ASSUME NEW depth \in 0 .. MaxDepth, NewBranch(depth), index.pc = "listen"
      PROVE  StoredInOrder'
  <2>1. /\ Len(chain) \in Nat /\ depth \in 0 .. Len(chain) /\ depth \in 0 .. 1
    BY <1>1, BranchReplaces, BoundAssumption
  <2>2. /\ Len(announced) \in Nat /\ Len(announced') = Len(announced) + depth + 1
        /\ \A p \in 1 .. Len(announced) : announced'[p] = announced[p]
        /\ \A p \in Len(announced) + 1 .. Len(announced') :
             announced'[p] = Len(chain) - depth + (p - Len(announced))
    BY <1>1, BranchAnnounced
  <2>3. \A p \in 1 .. Len(announced) : announced[p] \in 1 .. Len(chain)
    BY ElementOfSeq DEF Typed, TypeOK
  <2>4. \A p \in Len(announced) + 1 .. Len(announced') :
          announced'[p] \in Nat /\ announced'[p] >= Len(chain)
    BY <2>1, <2>2
  <2>5. UNCHANGED <<rt, blockDB>>
    BY <1>1 DEF NewBranch
  <2>6. rt.pc # "idle" => rt.block.number \in 1 .. Len(chain)
    BY DEF Typed, InHand
  <2>7. \A n \in DOMAIN blockDB : n \in 1 .. Len(chain)
    BY DEF Typed, TypeOK
  <2>8. ASSUME NEW p \in 1 .. Len(announced'), NEW q \in 1 .. Len(announced'), p <= q
        PROVE  announced'[p] <= announced'[q]
    <3>1. CASE q \in 1 .. Len(announced)
      <4>1. p \in 1 .. Len(announced)
        BY <2>2, <2>8, <3>1
      <4> QED BY <2>2, <2>8, <3>1, <4>1 DEF StoredInOrder
    <3>2. CASE p \in 1 .. Len(announced) /\ q \in Len(announced) + 1 .. Len(announced')
      BY <2>1, <2>2, <2>3, <2>4, <3>2
    <3>3. CASE p \in Len(announced) + 1 .. Len(announced')
               /\ q \in Len(announced) + 1 .. Len(announced')
      BY <2>1, <2>2, <2>8, <3>3
    <3> QED BY <2>2, <2>8, <3>1, <3>2, <3>3
  <2>9. ASSUME NEW p \in 1 .. Len(announced')
        PROVE  /\ rt.pc # "idle" => rt.block.number <= announced'[p]
               /\ \A n \in DOMAIN blockDB : n <= announced'[p]
    <3>1. CASE p \in 1 .. Len(announced)
      BY <2>2, <3>1 DEF StoredInOrder
    <3>2. CASE p \in Len(announced) + 1 .. Len(announced')
      BY <2>1, <2>4, <2>6, <2>7, <3>2
    <3> QED BY <2>2, <3>1, <3>2
  <2> QED BY <2>5, <2>8, <2>9 DEF StoredInOrder
<1>2. CASE RtFetch
  <2>1. /\ Len(announced) \in Nat \ {0} /\ Len(announced') = Len(announced) - 1
        /\ rt'.block.number = announced[1]
        /\ \A p \in 1 .. Len(announced') : announced'[p] = announced[p + 1]
    BY <1>2, FetchTakesHead
  <2>2. \A p \in 1 .. Len(announced') : p + 1 \in 1 .. Len(announced)
    BY <2>1
  <2>3. \A p, q \in 1 .. Len(announced') : p <= q => announced'[p] <= announced'[q]
    <3>1. \A p, q \in 1 .. Len(announced') : p <= q => p + 1 <= q + 1
      BY <2>1
    <3> QED BY <2>1, <2>2, <3>1 DEF StoredInOrder
  <2>4. \A p \in 1 .. Len(announced') : announced[1] <= announced'[p]
    <3>1. 1 \in 1 .. Len(announced) /\ \A p \in 1 .. Len(announced') : 1 <= p + 1
      BY <2>1
    <3> QED BY <2>1, <2>2, <3>1 DEF StoredInOrder
  <2>5. \A n \in DOMAIN blockDB : /\ n <= announced[1]
                                  /\ \A p \in 1 .. Len(announced') : n <= announced'[p]
    <3>1. 1 \in 1 .. Len(announced)
      BY <2>1
    <3> QED BY <2>1, <2>2, <3>1 DEF StoredInOrder
  <2>6. blockDB' = blockDB
    BY <1>2 DEF RtFetch
  <2> QED BY <2>1, <2>3, <2>4, <2>5, <2>6 DEF StoredInOrder
<1>3. CASE RtReorg \/ RtStoreAddress
  BY <1>3 DEF RtReorg, RtStoreAddress, SetRt, StoredInOrder, Typed, TypeOK
<1>4. CASE RtStoreBlock
  BY <1>4 DEF RtStoreBlock, Put, StoredInOrder, NoRt
<1>5. CASE CleanDelete
  BY <1>5 DEF CleanDelete, BatchDelete, StoredInOrder
<1>6. CASE Crash
  BY <1>6 DEF Crash, StoredInOrder, NoRt
<1>7. CASE UNCHANGED <<announced, rt, blockDB>>
  BY <1>7 DEF StoredInOrder
<1>8. ASSUME NEW depth \in 0 .. MaxDepth, NewBranch(depth), index.pc # "listen"
      PROVE  UNCHANGED <<announced, rt, blockDB>>
  BY <1>8 DEF NewBranch
<1> QED BY <1>1, <1>2, <1>3, <1>4, <1>5, <1>6, <1>7, <1>8
        DEF Next, Realtime, IndexBegin, Launch, RtSubscribe, WorkerFetch, WorkerStore,
            WorkerGenesis, Rerun, RerunFetch, RerunStore, CleanScan, vars

\* What the records and the goroutines are about to write is a known block.
LEMMA Writes ==
  ASSUME Typed, BlocksKnown,
         RtStoreAddress \/ RerunStore \/ \E k \in DOMAIN worker : WorkerStore(k)
  PROVE  /\ chain' = chain
         /\ \E c \in Blocks : Known(c) /\ addressDB' = BatchPut(addressDB, AddressIndex(c))
<1>1. CASE RtStoreAddress
  <2>1. rt.pc = "address"
    BY <1>1 DEF RtStoreAddress
  <2>2. Known(rt.block) /\ rt.block \in Blocks
    BY <2>1 DEF BlocksKnown, Known
  <2> QED BY <1>1, <2>2 DEF RtStoreAddress
<1>2. CASE RerunStore
  <2>1. again.pc = "address"
    BY <1>2 DEF RerunStore
  <2>2. Known(again.block) /\ again.block \in Blocks
    BY <2>1 DEF BlocksKnown, Known
  <2> QED BY <1>2, <2>2 DEF RerunStore
<1>3. ASSUME NEW k \in DOMAIN worker, WorkerStore(k)
      PROVE  /\ chain' = chain
             /\ \E c \in Blocks : Known(c) /\ addressDB' = BatchPut(addressDB, AddressIndex(c))
  <2>1. worker[k].block # Nil
    BY <1>3 DEF WorkerStore
  <2>2. Known(worker[k].block) /\ worker[k].block \in Blocks
    BY <2>1 DEF BlocksKnown, Known
  <2> QED BY <1>3, <2>2 DEF WorkerStore
<1> QED BY <1>1, <1>2, <1>3

\* A block of the chain that is stored stays so, unless it is being stored again.
LEMMA StoredStays ==
  ASSUME AllFit, Typed, ~SharedTimes, BlocksKnown, ReorgOwnRows, [Next]_vars,
         NEW n \in 1 .. Len(chain), chain'[n] = chain[n], Stored(chain[n]),
         RtReorg => rt.block # chain[n]
  PROVE  Stored(chain[n])'
<1>1. PICK b \in Blocks : b = chain[n] /\ Known(b) /\ Stored(b) /\ b.number = n
  BY ChainBlock DEF BlocksKnown
<1>2. b = chain'[n]
  BY <1>1
<1>3. CASE UNCHANGED addressDB
  BY <1>1, <1>2, <1>3 DEF Stored
<1>4. CASE RtReorg
  <2> DEFINE m == rt.block.number
  <2>1. CASE m \in DOMAIN blockDB /\ addressDB' = BatchDelete(addressDB, ReorgKeys(blockDB[m]))
    <3>1. PICK c \in Blocks : Known(c) /\ c.number = m /\ blockDB[m] = BlockIndex(c, blockDB[m].createdAt)
      BY <2>1 DEF BlocksKnown
    <3>2. blockDB[m].time = c.time
      BY <3>1 DEF BlockIndex
    <3>3. c.time # b.time
      <4> SUFFICES ASSUME c.time = b.time PROVE FALSE
        OBVIOUS
      <4>1. chain[n].version = c.version
        BY <1>1, <3>1 DEF Known
      <4>2. chain[n] = c
        BY <3>1, <4>1 DEF Known
      <4>3. n = m
        BY <1>1, <3>1, <4>2
      <4>4. blockDB[m].time = chain[m].version
        BY <1>1, <3>2, <4>3 DEF Known
      <4>5. rt.pc # "idle"
        BY <1>4 DEF RtReorg
      <4> QED BY <1>4, <2>1, <4>3, <4>4, <4>5 DEF ReorgOwnRows
    <3>4. Stored(b)'
      BY <1>1, <2>1, <3>1, <3>3, RemovingKeeps
    <3> QED BY <1>2, <3>4
  <2> QED BY <1>3, <1>4, <2>1 DEF RtReorg
<1>5. CASE RtStoreAddress \/ RerunStore \/ \E k \in DOMAIN worker : WorkerStore(k)
  <2>1. PICK c \in Blocks : Known(c) /\ addressDB' = BatchPut(addressDB, AddressIndex(c))
    BY <1>5, Writes
  <2>2. c.time = b.time => c = b
    BY <1>1, <2>1 DEF Known
  <2>3. Stored(b)'
    BY <1>1, <2>1, <2>2, StoringKeeps
  <2> QED BY <1>2, <2>3
<1> QED BY <1>3, <1>4, <1>5
        DEF Next, Realtime, vars, NewBranch, RtFetch, RtStoreBlock, IndexBegin, Launch, RtSubscribe,
            WorkerFetch, WorkerGenesis, Rerun, RerunFetch, CleanScan, CleanDelete, Crash

\* A batch that takes block n takes the blocks before it first.
LEMMA NextTakes ==
  ASSUME NEW b \in Batches, b.step = 1, NEW n \in Nat, Takes(b, n)
  PROVE  /\ NextBlock(b) <= n
         /\ n # NextBlock(b) => Takes(Advance(b), n)
<1>1. b.from \in Nat /\ b.to \in Nat /\ (b.current = NoBlock \/ b.current \in Nat)
  BY DEF Batches
<1>2. NextBlock(b) <= n
  BY <1>1 DEF NextBlock, Takes
<1>3. /\ Advance(b).current = NextBlock(b) /\ NextBlock(b) \in Nat
      /\ Advance(b).from = b.from /\ Advance(b).to = b.to
  BY AdvanceType
<1> QED BY <1>1, <1>2, <1>3 DEF Takes

LEMMA CoveredByTook ==
  ASSUME AllFit, Typed, BlocksKnown, Restarting, BatchesFit,
         NEW k \in DOMAIN worker, WorkerStore(k) \/ WorkerGenesis(k),
         NEW n \in 1 .. Len(chain), NEW t, ~Stored(chain[n]), Covered(n, t)
  PROVE  Covered(n, t)'
<1> DEFINE w == worker[k]
           b == Advance(w.batch)
<1>1. Took(k) /\ UNCHANGED <<chain, announced, rt, missed, index>>
  BY DEF WorkerStore, WorkerGenesis
<1>2. /\ DOMAIN worker' = DOMAIN worker /\ worker'[k] = [batch |-> b, block |-> Nil]
      /\ \A l \in DOMAIN worker \ {k} : worker'[l] = worker[l]
  BY <1>1, TookIs
<1>3. w.batch \in Batches /\ w.batch.step = 1
  BY DEF BatchesFit, InUse
<1>4. index.pc \notin {"down", "latest"}
  BY DEF Restarting
<1>5. CASE w.batch.to > t /\ WorkerTakes(k, n)
  <2>1. CASE n = NextBlock(w.batch)
    <3>1. WorkerStore(k)
      BY <2>1 DEF WorkerGenesis
    <3>2. w.block # Nil /\ addressDB' = BatchPut(addressDB, AddressIndex(w.block))
      BY <3>1 DEF WorkerStore
    <3>3. w.block.number = n
      BY <2>1, <3>2 DEF BatchesFit
    <3>4. w.block = chain[n] /\ w.block \in Blocks
      BY <1>5, <3>2, <3>3, ChainBlock DEF WorkerTakes
    <3>5. PICK c \in Blocks : c = chain'[n] /\ addressDB' = BatchPut(addressDB, AddressIndex(c))
      BY <1>1, <3>2, <3>4
    <3>6. Stored(c)'
      BY <3>5, StoringStores
    <3> QED BY <3>5, <3>6 DEF Covered
  <2>2. CASE n # NextBlock(w.batch)
    <3>1. Takes(w.batch, n)
      BY <1>5 DEF WorkerTakes
    <3>2. Takes(b, n)
      BY <1>3, <2>2, <3>1, NextTakes
    <3>3. b.to = w.batch.to
      BY <1>3, AdvanceType
    <3> HIDE DEF b
    <3>4. k \in DOMAIN worker' /\ worker'[k].batch = b /\ worker'[k].block = Nil
      BY <1>2
    <3>5. worker'[k].batch.to > t /\ WorkerTakes(k, n)'
      BY <1>5, <3>2, <3>3, <3>4 DEF WorkerTakes
    <3> QED BY <3>4, <3>5 DEF Covered
  <2> QED BY <2>1, <2>2
<1>6. ASSUME NEW l \in DOMAIN worker, l # k, worker[l].batch.to > t, WorkerTakes(l, n)
      PROVE  Covered(n, t)'
  <2>1. l \in DOMAIN worker' /\ worker'[l] = worker[l]
    BY <1>2, <1>6
  <2>2. worker'[l].batch.to > t /\ WorkerTakes(l, n)'
    BY <1>1, <1>6, <2>1 DEF WorkerTakes
  <2> QED BY <2>1, <2>2 DEF Covered
<1>7. CASE ~\E l \in DOMAIN worker : worker[l].batch.to > t /\ WorkerTakes(l, n)
  BY <1>1, <1>4, <1>7 DEF Covered, RestartTakes
<1> QED BY <1>5, <1>6, <1>7

LEMMA CoveredByRtFetch ==
  ASSUME Typed, Restarting, RtFetch, NEW n \in 1 .. Len(chain), NEW t, Covered(n, t)
  PROVE  Covered(n, t)'
<1>1. UNCHANGED <<chain, addressDB, worker, missed, index>>
  BY DEF RtFetch, sched
<1>2. /\ Len(announced) \in Nat \ {0} /\ Len(announced') = Len(announced) - 1
      /\ \A p \in 1 .. Len(announced') : announced'[p] = announced[p + 1]
      /\ rt' = [pc |-> "reorg", block |-> chain[announced[1]], createdAt |-> mined]
      /\ rt.pc = "idle"
  BY FetchTakesHead DEF RtFetch
<1>3. index.pc \notin {"down", "latest"}
  <2>1. announced # <<>>
    BY DEF RtFetch
  <2> QED BY <2>1 DEF Restarting
<1>4. ASSUME NEW p \in 1 .. Len(announced), announced[p] = n
      PROVE  Covered(n, t)'
  <2>1. CASE p = 1
    BY <1>1, <1>2, <1>4, <2>1 DEF Covered
  <2>2. CASE p # 1
    <3>1. p - 1 \in 1 .. Len(announced') /\ (p - 1) + 1 = p
      BY <1>2, <2>2
    <3>2. announced'[p - 1] = n
      BY <1>2, <1>4, <3>1
    <3> QED BY <3>1, <3>2 DEF Covered
  <2> QED BY <2>1, <2>2
<1>5. CASE Stored(chain[n])
  BY <1>1, <1>5 DEF Covered, Stored
<1>6. CASE \E k \in DOMAIN worker : worker[k].batch.to > t /\ WorkerTakes(k, n)
  BY <1>1, <1>6 DEF Covered, WorkerTakes
<1>7. CASE chain[n].version \in missed
  BY <1>1, <1>7 DEF Covered
<1> QED BY <1>2, <1>3, <1>4, <1>5, <1>6, <1>7 DEF Covered, RestartTakes

LEMMA CoveredByWorkerFetch ==
  ASSUME Typed, Restarting, NEW k \in DOMAIN worker, WorkerFetch(k),
         NEW n \in 1 .. Len(chain), NEW t, Covered(n, t)
  PROVE  Covered(n, t)'
<1> DEFINE m == NextBlock(worker[k].batch)
<1>1. UNCHANGED <<chain, addressDB, announced, rt, missed, index>>
  BY DEF WorkerFetch
<1>2. m \in 1 .. Len(chain) /\ worker' = [worker EXCEPT ![k].block = chain[m]]
  BY DEF WorkerFetch
<1>3. worker[k] \in [batch : Batches, block : Blocks \cup {Nil}] /\ chain[m].number = m
  BY <1>2, ChainBlock DEF Typed, TypeOK
<1> HIDE DEF m
<1>4. index.pc \notin {"down", "latest"}
  BY DEF Restarting
<1>5. ASSUME NEW l \in DOMAIN worker, worker[l].batch.to > t, WorkerTakes(l, n)
      PROVE  Covered(n, t)'
  <2>1. l \in DOMAIN worker' /\ worker'[l].batch = worker[l].batch
        /\ (worker'[l].block = worker[l].block \/ worker'[l].block = chain[m])
    BY <1>2, <1>3
  <2>2. worker'[l].batch.to > t /\ WorkerTakes(l, n)'
    BY <1>1, <1>3, <1>5, <2>1 DEF WorkerTakes
  <2> QED BY <2>1, <2>2 DEF Covered
<1>6. CASE Stored(chain[n])
  BY <1>1, <1>6 DEF Covered, Stored
<1> QED BY <1>1, <1>4, <1>5, <1>6 DEF Covered, RestartTakes

\* Uncompleted is what has a block left.
LEMMA UndoneIs ==
  ASSUME Typed, BatchesFit, NEW k \in DOMAIN batchDB
  PROVE  /\ k \in BatchKeys /\ k.step = 1 /\ k.from <= k.to /\ k.to <= Len(chain)
         /\ batchDB[k] \in Nat /\ batchDB[k] <= k.to
         /\ StoredBatch(batchDB, k).from = k.from /\ StoredBatch(batchDB, k).to = k.to
         /\ StoredBatch(batchDB, k).current = batchDB[k]
         /\ k \in Undone <=> batchDB[k] < k.to
<1>1. StoredBatch(batchDB, k) \in InUse
  BY DEF InUse
<1>2. StoredBatch(batchDB, k) = [from |-> k.from, to |-> k.to, step |-> k.step,
                                 createdAt |-> k.createdAt, current |-> batchDB[k]]
  BY DEF StoredBatch, BatchOf
<1>3. k \in BatchKeys /\ batchDB[k] \in Nat
  BY DEF Typed, TypeOK
<1>4. k.step = 1 /\ k.from <= k.to /\ k.to <= Len(chain) /\ batchDB[k] <= k.to
  BY <1>1, <1>2 DEF BatchesFit
<1>5. k \in Undone <=> batchDB[k] < k.to
  BY <1>2, <1>3, <1>4 DEF Undone, IsDone, NoBlock, BatchKeys
<1> QED BY <1>2, <1>3, <1>4, <1>5

\* A restart takes up what a record has left, and what is not below a block
\* record: an uncompleted batch that begins at the last one took the rest.
LEMMA CoveredByLaunch ==
  ASSUME Typed, Restarting, BatchesFit, TakenCovered, Launch,
         NEW n \in 1 .. Len(chain), NEW t \in Int, Covered(n, t)
  PROVE  Covered(n, t)'
<1>1. /\ UNCHANGED <<chain, addressDB, announced, rt, missed>>
      /\ index.pc = "latest" /\ index.latest \in 0 .. Len(chain)
  BY DEF Launch, Typed, TypeOK
<1>2. PICK last \in LastBlockNums :
        LET key == CatchUpKey(last, index.latest) IN
        /\ key \in BatchKeys
        /\ DOMAIN worker' = IF Found(last) THEN Undone ELSE Undone \cup {key}
        /\ \A k \in DOMAIN worker' :
             /\ worker'[k].block = Nil
             /\ k \in Undone => worker'[k].batch = Resumed(k, last, index.latest)
             /\ k \notin Undone => worker'[k].batch = BatchOf(k, NoBlock)
  BY LaunchMakes
<1>3. DOMAIN worker = {}
  BY <1>1 DEF Restarting
<1>4. ASSUME NEW k \in DOMAIN worker', worker'[k].batch.to > t, Takes(worker'[k].batch, n)
      PROVE  Covered(n, t)'
  <2>1. WorkerTakes(k, n)'
    BY <1>2, <1>4 DEF WorkerTakes
  <2> QED BY <1>4, <2>1 DEF Covered
<1>5. ASSUME NEW k \in DOMAIN batchDB, k.to > t, Takes(StoredBatch(batchDB, k), n)
      PROVE  Covered(n, t)'
  <2>1. /\ k \in BatchKeys /\ batchDB[k] \in Nat /\ k.from <= n /\ n <= k.to /\ batchDB[k] < n
        /\ k.to <= index.latest
    BY <1>1, <1>5, UndoneIs DEF Takes, Restarting
  <2>2. k \in Undone
    BY <1>5, <2>1, UndoneIs DEF BatchKeys
  <2>3. k \in DOMAIN worker' /\ worker'[k].batch = Resumed(k, last, index.latest)
    BY <1>2, <2>2
  <2>4. index.latest \in Nat
    BY <1>1
  <2>5. /\ worker'[k].batch.from = k.from /\ worker'[k].batch.current = batchDB[k]
        /\ worker'[k].batch.to = IF k.from = last THEN index.latest ELSE k.to
    BY <1>5, <2>3, <2>4, ResumedType
  <2>6. k.to \in Nat
    BY <2>1 DEF BatchKeys
  <2>7. worker'[k].batch.to > t /\ Takes(worker'[k].batch, n)
    BY <1>5, <2>1, <2>4, <2>5, <2>6 DEF Takes
  <2> QED BY <1>4, <2>3, <2>7
<1>6. CASE RestartTakes(n) /\ RestartTo > t
  <2>1. /\ n <= index.latest /\ index.latest > t /\ \A m \in DOMAIN blockDB : m <= n
        /\ index.latest \in Nat /\ n \in Nat
    BY <1>1, <1>6 DEF RestartTakes, RestartTo
  <2>2. last \in Nat /\ last <= n
    BY <2>1, LastBlockType
  <2>3. CASE Found(last)
    <3>1. PICK k \in Undone : k.from = last
      BY <2>3 DEF Found
    <3>2. k \in DOMAIN batchDB /\ k \in BatchKeys
      BY <3>1, UndoneIs DEF Undone
    <3>3. batchDB[k] \in Nat /\ batchDB[k] < k.to /\ k.to \in Nat
      BY <3>1, <3>2, UndoneIs DEF BatchKeys
    <3>4. /\ k \in DOMAIN worker' /\ worker'[k].batch.from = last
          /\ worker'[k].batch.current = batchDB[k] /\ worker'[k].batch.to = index.latest
      <4>1. k \in DOMAIN worker' /\ worker'[k].batch = Resumed(k, last, index.latest)
        BY <1>2, <3>1
      <4> QED BY <2>1, <3>1, <3>2, <4>1, ResumedType
    <3>5. CASE batchDB[k] < n
      <4>1. worker'[k].batch.to > t /\ Takes(worker'[k].batch, n)
        BY <2>1, <2>2, <3>4, <3>5 DEF Takes
      <4> QED BY <1>4, <3>4, <4>1
    <3>6. CASE ~(batchDB[k] < n)
      <4>1. n <= batchDB[k] /\ n < k.to
        BY <2>1, <3>3, <3>6
      <4>2. /\ StoredBatch(batchDB, k) \in InUse
            /\ StoredBatch(batchDB, k).from = last /\ StoredBatch(batchDB, k).to = k.to
            /\ StoredBatch(batchDB, k).current = batchDB[k]
        BY <3>1, <3>2, UndoneIs DEF InUse
      <4>3. Stored(chain[n])
        BY <2>2, <4>1, <4>2 DEF TakenCovered
      <4> QED BY <1>1, <4>3 DEF Covered, Stored
    <3> QED BY <3>5, <3>6
  <2>4. CASE ~Found(last)
    <3> DEFINE key == CatchUpKey(last, index.latest)
    <3>1. key \notin Undone
      BY <2>4 DEF Found, CatchUpKey
    <3>2. key \in DOMAIN worker' /\ worker'[key].batch = BatchOf(key, NoBlock)
      BY <1>2, <2>4, <3>1
    <3>3. /\ worker'[key].batch.from = last /\ worker'[key].batch.to = index.latest
          /\ worker'[key].batch.current = -1
      BY <3>2 DEF BatchOf, CatchUpKey, NoBlock
    <3> HIDE DEF key
    <3>4. worker'[key].batch.to > t /\ Takes(worker'[key].batch, n)
      BY <2>1, <2>2, <3>3 DEF Takes
    <3> QED BY <1>4, <3>2, <3>4
  <2> QED BY <2>3, <2>4
<1>7. CASE Stored(chain[n])
  BY <1>1, <1>7 DEF Covered, Stored
<1> QED BY <1>1, <1>3, <1>5, <1>6, <1>7 DEF Covered

\* What is no longer called missed will be taken.
LEMMA CoveredByBegin ==
  ASSUME Typed, BlocksKnown, Restarting, IndexBegin, NEW n \in 1 .. Len(chain), NEW t \in {n - 1, n},
         t < Len(chain) \/ ~TipAhead, Covered(n, t)
  PROVE  Covered(n, t)'
<1>1. /\ UNCHANGED <<chain, addressDB, announced, rt, worker, batchDB, blockDB>>
      /\ index.pc = "down" /\ index' = [pc |-> "latest", latest |-> Len(chain)]
      /\ Len(chain) \in Nat
  BY LenProperties DEF IndexBegin, Typed, TypeOK
<1>2. CASE chain[n].version \in missed /\ chain[n].version \notin missed'
  <2>1. PICK x \in 1 .. Len(chain) : /\ chain[x].version = chain[n].version
                                     /\ \A m \in DOMAIN blockDB : m <= x
    BY <1>2 DEF IndexBegin
  <2>2. chain[x] = chain[n]
    BY <2>1 DEF BlocksKnown, Known
  <2>3. x = n
    BY <2>2, ChainBlock
  <2>4. Len(chain) > t
    <3>1. CASE n = Len(chain)
      <4>1. chain # <<>>
        BY <1>1, <3>1
      <4>2. TipAhead
        BY <1>2, <3>1, <4>1 DEF TipAhead
      <4> QED BY <4>2
    <3> QED BY <1>1, <3>1
  <2>5. RestartTakes(n)' /\ (RestartTo > t)'
    BY <1>1, <2>1, <2>3, <2>4 DEF RestartTakes, RestartTo
  <2> QED BY <2>5 DEF Covered
<1>3. CASE RestartTakes(n) /\ RestartTo > t
  <2>1. RestartTakes(n)' /\ (RestartTo > t)'
    BY <1>1, <1>3 DEF RestartTakes, RestartTo
  <2> QED BY <2>1 DEF Covered
<1>4. CASE Stored(chain[n])
  BY <1>1, <1>4 DEF Covered, Stored
<1>5. DOMAIN worker = {}
  BY <1>1 DEF Restarting
<1> QED BY <1>1, <1>2, <1>3, <1>4, <1>5 DEF Covered

\* A new branch leaves the blocks below the fork as they are covered.
LEMMA CoveredByBranch ==
  ASSUME Typed, NEW depth \in 0 .. MaxDepth, NewBranch(depth),
         NEW n \in 1 .. Len(chain), chain'[n] = chain[n], NEW t \in Int, Covered(n, t)
  PROVE  Covered(n, t)'
<1>1. /\ UNCHANGED <<addressDB, blockDB, batchDB, index, worker, rt>> /\ missed \subseteq missed'
      /\ Len(chain) \in Nat /\ Len(chain') = Len(chain) + 1
      /\ index.latest \in 0 .. Len(chain)
  BY BranchReplaces DEF NewBranch, Typed, TypeOK
<1>2. ASSUME NEW p \in 1 .. Len(announced), announced[p] = n
      PROVE  Covered(n, t)'
  <2>1. CASE index.pc = "listen"
    <3>1. /\ Len(announced) \in Nat /\ Len(announced') = Len(announced) + depth + 1
          /\ depth \in 0 .. Len(chain) /\ announced'[p] = announced[p]
      BY <2>1, BranchAnnounced, BranchReplaces
    <3>2. p \in 1 .. Len(announced')
      BY <1>1, <3>1
    <3> QED BY <1>2, <3>1, <3>2 DEF Covered
  <2>2. CASE index.pc # "listen"
    <3>1. announced' = announced
      BY <2>2 DEF NewBranch
    <3> QED BY <1>2, <3>1 DEF Covered
  <2> QED BY <2>1, <2>2
<1>3. CASE Stored(chain[n])
  BY <1>1, <1>3 DEF Covered, Stored
<1>4. CASE RestartTakes(n) /\ RestartTo > t
  <2>1. /\ index.pc \in {"down", "latest"} /\ n <= RestartTo /\ RestartTo > t
        /\ \A m \in DOMAIN blockDB : m <= n
    BY <1>4 DEF RestartTakes
  <2>2. RestartTo \in Nat /\ (RestartTo)' \in Nat /\ RestartTo <= (RestartTo)'
    BY <1>1, <2>1 DEF RestartTo
  <2>3. RestartTakes(n)' /\ (RestartTo > t)'
    <3>1. n <= (RestartTo)' /\ (RestartTo)' > t
      BY <2>1, <2>2
    <3> QED BY <1>1, <2>1, <3>1 DEF RestartTakes
  <2> QED BY <2>3 DEF Covered
<1>5. CASE \E k \in DOMAIN worker : worker[k].batch.to > t /\ WorkerTakes(k, n)
  BY <1>1, <1>5 DEF Covered, WorkerTakes
<1>6. CASE /\ index.pc \in {"down", "latest"}
           /\ \E k \in DOMAIN batchDB : k.to > t /\ Takes(StoredBatch(batchDB, k), n)
  BY <1>1, <1>6 DEF Covered
<1>7. CASE chain[n].version \in missed
  BY <1>1, <1>7 DEF Covered
<1> QED BY <1>1, <1>2, <1>3, <1>4, <1>5, <1>6, <1>7 DEF Covered

\* The blocks of the branch itself are announced, or missed, or above the last
\* block record.
LEMMA CoveredNew ==
  ASSUME Typed, MaxDepth <= 1 \/ index.pc = "listen", NEW depth \in 0 .. MaxDepth, NewBranch(depth),
         NEW n \in Len(chain) - depth + 1 .. Len(chain'), NEW t \in {n - 1, n}, t < Len(chain')
  PROVE  Covered(n, t)'
<1> DEFINE fork == Len(chain) - depth
<1>1. /\ Len(chain) \in Nat /\ depth \in 0 .. Len(chain) /\ Len(chain') = Len(chain) + 1
      /\ fork \in 0 .. Len(chain) /\ n - fork \in 1 .. depth + 1
      /\ chain'[n].version = mined + (n - fork)
  BY BranchReplaces
<1>2. CASE index.pc = "listen"
  <2>1. /\ Len(announced) \in Nat /\ Len(announced') = Len(announced) + depth + 1
        /\ \A p \in Len(announced) + 1 .. Len(announced') :
             announced'[p] = fork + (p - Len(announced))
    BY <1>2, BranchAnnounced
  <2>2. PICK p \in Int : p = Len(announced) + (n - fork)
    BY <1>1, <2>1
  <2>3. p \in Len(announced) + 1 .. Len(announced') /\ p \in 1 .. Len(announced')
        /\ p - Len(announced) = n - fork
    BY <1>1, <2>1, <2>2
  <2>4. announced'[p] = n
    BY <1>1, <2>1, <2>3
  <2> QED BY <2>3, <2>4 DEF Covered
<1>3. CASE index.pc \in {"latest", "subscribe"}
  <2>1. missed' = missed \cup {mined + i : i \in 1 .. depth + 1}
    BY <1>3 DEF NewBranch
  <2>2. chain'[n].version \in missed'
    BY <1>1, <2>1
  <2> QED BY <2>2 DEF Covered
<1>4. CASE index.pc = "down"
  <2>1. UNCHANGED <<index, blockDB>> /\ depth <= 1 /\ depth \in Nat
    BY <1>1, <1>4, BoundAssumption DEF NewBranch
  <2>2. \A m \in DOMAIN blockDB : m \in 1 .. Len(chain)
    BY DEF Typed, TypeOK
  <2>3. n >= Len(chain) /\ n <= Len(chain')
    BY <1>1, <2>1
  <2>4. \A m \in DOMAIN blockDB : m <= n
    BY <1>1, <2>2, <2>3
  <2>5. RestartTakes(n)' /\ (RestartTo > t)'
    BY <1>4, <2>1, <2>3, <2>4 DEF RestartTakes, RestartTo
  <2> QED BY <2>5 DEF Covered
<1> QED BY <1>2, <1>3, <1>4 DEF Typed, TypeOK

\* The block a goroutine has to take is left of its batch.
LEMMA LeftIs ==
  ASSUME NEW b \in Batches, b.step = 1, NEW n \in Nat
  PROVE  n \in Left(b) <=> Takes(b, n)
<1>1. b.from \in Nat /\ b.to \in Nat
  BY DEF Batches
<1>2. ASSUME b.from <= n, n <= b.to
      PROVE  n \in Share(b)
  <2>1. n - b.from \in 0 .. n /\ n = b.from + (n - b.from) * b.step
    BY <1>1, <1>2
  <2>2. n \in b.from .. b.to
    BY <1>1, <1>2
  <2> QED BY <2>1, <2>2 DEF Share
<1>3. n \in Share(b) => b.from <= n /\ n <= b.to
  BY <1>1 DEF Share
<1>4. b.current \in Int
  BY DEF Batches, NoBlock
<1> QED BY <1>1, <1>2, <1>3, <1>4 DEF Left, Takes

\* What a crash interrupts is on record, or above the last block record, where a
\* restart begins, or is called missed.
LEMMA CoveredByCrash ==
  ASSUME Typed, MaxDepth <= 1, BlocksKnown, Restarting, BatchesFit, HeadersAhead, TakenCovered,
         StoredInOrder, Crash,
         NEW n \in 1 .. Len(chain), NEW t \in {n - 1, n}, t < Len(chain) \/ ~TipAhead, Covered(n, t),
         t = n - 1 /\ (n < Len(chain) \/ ~TipAhead) /\ Covered(n, n) => Covered(n, n)'
  PROVE  Covered(n, t)'
<1>1. /\ UNCHANGED <<chain, addressDB, blockDB, batchDB>>
      /\ index.pc # "down" /\ index' = [index EXCEPT !.pc = "down"] /\ index'.pc = "down"
      /\ missed' = missed \cup {chain[x].version : x \in Forgotten}
      /\ Len(chain) \in Nat /\ index.latest \in 0 .. Len(chain)
  BY LenProperties DEF Crash, Typed, TypeOK
<1>2. ASSUME \A m \in DOMAIN blockDB : m <= n, t < Len(chain)
      PROVE  Covered(n, t)'
  <2>1. RestartTakes(n)' /\ (RestartTo > t)'
    BY <1>1, <1>2 DEF RestartTakes, RestartTo
  <2> QED BY <2>1 DEF Covered
<1>3. CASE Stored(chain[n])
  BY <1>1, <1>3 DEF Covered, Stored
<1>4. ASSUME NEW p \in 1 .. Len(announced), announced[p] = n
      PROVE  Covered(n, t)'
  <2>1. TipAhead
    <3>1. Len(announced) # 0
      BY <1>4
    <3> QED BY <3>1 DEF TipAhead
  <2> QED BY <1>2, <1>4, <2>1 DEF StoredInOrder
<1>5. CASE rt.pc # "idle" /\ rt.block = chain[n]
  <2>1. rt.block.number = n /\ TipAhead
    BY <1>5, ChainBlock DEF TipAhead
  <2> QED BY <1>2, <1>5, <2>1 DEF StoredInOrder
<1>6. CASE chain[n].version \in missed
  BY <1>1, <1>6 DEF Covered
<1>7. ASSUME NEW k \in DOMAIN batchDB, k.to > t, Takes(StoredBatch(batchDB, k), n)
      PROVE  Covered(n, t)'
  BY <1>1, <1>7 DEF Covered
<1>8. CASE RestartTakes(n) /\ RestartTo > t
  <2>1. index.pc = "latest" /\ t < Len(chain) /\ \A m \in DOMAIN blockDB : m <= n
    BY <1>1, <1>8 DEF RestartTakes, RestartTo
  <2> QED BY <1>2, <2>1
<1>9. ASSUME NEW k \in DOMAIN worker, worker[k].batch.to > t, WorkerTakes(k, n)
      PROVE  Covered(n, t)'
  <2> DEFINE b == worker[k].batch
             key == BatchKey(b)
  <2>1. b \in Batches /\ b.step = 1 /\ b.to <= Len(chain) /\ Takes(b, n) /\ b.to > t /\ b.to \in Nat
    BY <1>9 DEF BatchesFit, InUse, WorkerTakes, Batches
  <2>2. CASE key \notin DOMAIN batchDB
    <3>1. CASE \A m \in DOMAIN blockDB : m <= n
      BY <1>1, <1>2, <2>1, <3>1
    <3>2. CASE \E m \in DOMAIN blockDB : ~(m <= n)
      <4>1. \A m \in DOMAIN blockDB : m \in Nat
        BY DEF Typed, TypeOK
      <4>2. n \in Left(b)
        BY <2>1, LeftIs
      <4>3. n \in Forgotten
        BY <1>9, <2>2, <3>2, <4>1, <4>2 DEF Forgotten
      <4>4. chain'[n].version \in missed'
        BY <1>1, <4>3
      <4> QED BY <4>4 DEF Covered
    <3> QED BY <3>1, <3>2
  <2>3. CASE key \in DOMAIN batchDB
    <3> DEFINE r == StoredBatch(batchDB, key)
    <3>1. r.from = b.from /\ r.to = b.to /\ key.to = b.to /\ r.current = batchDB[key] /\ r \in InUse
      BY <2>3 DEF StoredBatch, BatchOf, BatchKey, InUse
    <3>2. batchDB[key] \in Nat
      BY <2>3 DEF Typed, TypeOK
    <3> HIDE DEF b, r, key
    <3>3. CASE batchDB[key] < n
      <4>1. key.to > t /\ Takes(r, n)
        BY <2>1, <3>1, <3>3 DEF Takes
      <4> QED BY <1>7, <2>3, <4>1 DEF r
    <3>4. CASE ~(batchDB[key] < n)
      <4>1. r.from <= n /\ n <= r.current /\ n <= r.to
        BY <2>1, <3>1, <3>2, <3>4 DEF Takes
      <4>2. CASE n < r.to
        <5>1. Stored(chain[n])
          BY <3>1, <4>1, <4>2 DEF TakenCovered
        <5> QED BY <1>3, <5>1
      <4>3. CASE ~(n < r.to)
        <5>1. Covered(n, n)
          BY <3>1, <4>1, <4>3 DEF TakenCovered
        <5>2. t = n - 1 /\ r.to = n
          BY <2>1, <3>1, <4>1, <4>3
        <5>3. Covered(n, n)'
          <6>1. n < Len(chain) \/ ~TipAhead
            BY <3>1, <5>2 DEF HeadersAhead
          <6> QED BY <5>1, <5>2, <6>1
        <5>4. n > t /\ t \in Int
          BY <5>2
        <5>5. Covered(n, t)'
          <6>1. DOMAIN worker' = {}
            BY DEF Crash, NoWorker
          <6>2. \A k2 \in DOMAIN batchDB' : k2 \in BatchKeys
            BY <1>1 DEF Typed, TypeOK
          <6>3. \A x \in Int : x > n => x > t
            BY <5>4
          <6>4. (RestartTo \in Int)'
            BY <1>1 DEF RestartTo
          <6> QED BY <5>3, <6>1, <6>2, <6>3, <6>4 DEF Covered, BatchKeys
        <5> QED BY <5>5
      <4> QED BY <4>2, <4>3
    <3> QED BY <3>3, <3>4
  <2> QED BY <2>2, <2>3
<1> QED BY <1>3, <1>4, <1>5, <1>6, <1>7, <1>8, <1>9 DEF Covered

\* What covers a block goes on to cover it, whatever the step.
LEMMA CoveredStays ==
  ASSUME AllFit, ~SharedTimes, MaxDepth <= 1 \/ MaxCrashes = 0, Typed, NoneLost, [Next]_vars,
         NEW n \in 1 .. Len(chain), chain'[n] = chain[n], NEW t \in {n - 1, n},
         t < Len(chain) \/ ~TipAhead, Covered(n, t)
  PROVE  Covered(n, t)'
<1> USE DEF NoneLost
<1> DEFINE Elsewhere == ~(Stored(chain[n]) /\ (RtReorg => rt.block # chain[n]))
<1>1. CASE ~Elsewhere
  <2>1. Stored(chain[n])'
    BY <1>1, StoredStays
  <2> QED BY <2>1 DEF Covered
<1>2. t \in Int
  OBVIOUS
<1>3. ASSUME NEW depth \in 0 .. MaxDepth, NewBranch(depth)
      PROVE  Covered(n, t)'
  BY <1>2, <1>3, CoveredByBranch
<1>4. CASE RtFetch
  BY <1>4, CoveredByRtFetch
<1>5. CASE RtReorg
  <2>1. /\ UNCHANGED <<chain, announced, blockDB, worker, batchDB, missed, index>>
        /\ rt'.pc \in {"address", "loops"} /\ rt'.block = rt.block /\ rt.pc = "reorg"
    BY <1>5 DEF RtReorg, SetRt, sched, Typed, TypeOK
  <2>2. index.pc \notin {"down", "latest"}
    BY <2>1 DEF Restarting
  <2>3. CASE rt.block = chain[n]
    BY <2>1, <2>3 DEF Covered
  <2>4. CASE rt.block # chain[n] /\ ~Stored(chain[n])
    BY <2>1, <2>2, <2>4 DEF Covered, WorkerTakes, RestartTakes
  <2> QED BY <1>1, <2>3, <2>4
<1>6. CASE RtStoreAddress /\ ~Stored(chain[n])
  <2>1. /\ UNCHANGED <<chain, announced, blockDB, worker, batchDB, missed, index>>
        /\ addressDB' = BatchPut(addressDB, AddressIndex(rt.block)) /\ rt.pc = "address"
    BY <1>6 DEF RtStoreAddress, sched
  <2>2. index.pc \notin {"down", "latest"}
    BY <2>1 DEF Restarting
  <2>3. CASE rt.block = chain[n]
    <3>1. PICK c \in Blocks : c = chain'[n] /\ addressDB' = BatchPut(addressDB, AddressIndex(c))
      BY <2>1, <2>3, ChainBlock
    <3>2. Stored(c)'
      BY <3>1, StoringStores
    <3> QED BY <3>1, <3>2 DEF Covered
  <2>4. CASE rt.block # chain[n]
    BY <1>6, <2>1, <2>2, <2>4 DEF Covered, WorkerTakes, RestartTakes
  <2> QED BY <2>3, <2>4
<1>7. CASE RtStoreBlock /\ ~Stored(chain[n])
  <2>1. /\ UNCHANGED <<chain, announced, addressDB, worker, batchDB, missed, index>>
        /\ rt.pc = "block"
    BY <1>7 DEF RtStoreBlock, sched
  <2>2. index.pc \notin {"down", "latest"}
    BY <2>1 DEF Restarting
  <2> QED BY <1>7, <2>1, <2>2 DEF Covered, WorkerTakes, RestartTakes
<1>8. CASE IndexBegin
  BY <1>8, CoveredByBegin
<1>9. CASE Launch
  BY <1>2, <1>9, CoveredByLaunch
<1>10. ASSUME NEW k \in DOMAIN worker, WorkerFetch(k)
       PROVE  Covered(n, t)'
  BY <1>10, CoveredByWorkerFetch
<1>11. ASSUME NEW k \in DOMAIN worker, WorkerStore(k) \/ WorkerGenesis(k), ~Stored(chain[n])
       PROVE  Covered(n, t)'
  BY <1>11, CoveredByTook
<1>12. CASE RerunStore /\ ~Stored(chain[n])
  <2>1. UNCHANGED <<chain, announced, blockDB, rt, worker, batchDB, missed, index>>
    BY <1>12 DEF RerunStore, sched
  <2> QED BY <1>12, <2>1 DEF Covered, WorkerTakes, RestartTakes, RestartTo
<1>13. CASE RtSubscribe \/ Rerun \/ RerunFetch \/ CleanScan \/ UNCHANGED vars
  <2>1. /\ UNCHANGED <<chain, announced, addressDB, blockDB, rt, worker, batchDB, missed>>
        /\ index' = index \/ index.pc = "subscribe"
    BY <1>13 DEF RtSubscribe, Rerun, RerunFetch, CleanScan, vars, sched
  <2> QED BY <2>1 DEF Covered, Stored, WorkerTakes, RestartTakes, RestartTo
<1>14. CASE CleanDelete
  <2>1. /\ UNCHANGED <<chain, announced, addressDB, rt, worker, batchDB, missed, index>>
        /\ DOMAIN blockDB' \subseteq DOMAIN blockDB
    BY <1>14 DEF CleanDelete, BatchDelete, sched
  <2> QED BY <2>1 DEF Covered, Stored, WorkerTakes, RestartTakes, RestartTo
<1>15. CASE Crash
  <2>1. MaxDepth <= 1
    BY <1>15, BoundAssumption DEF Crash, Typed, TypeOK
  <2>2. n < Len(chain) \/ ~TipAhead => (Covered(n, n) => Covered(n, n)')
    BY <1>15, <2>1, CoveredByCrash
  <2> QED BY <1>15, <2>1, <2>2, CoveredByCrash
<1> QED BY <1>1, <1>3, <1>4, <1>5, <1>6, <1>7, <1>8, <1>9, <1>10, <1>11, <1>12, <1>13, <1>14, <1>15
        DEF Next, Realtime

\* After a step every block is covered: of the chain, and of a branch.
LEMMA AllCoveredNext ==
  ASSUME AllFit, ~SharedTimes, MaxDepth <= 1 \/ MaxCrashes = 0, Typed, NoneLost, [Next]_vars
  PROVE  AllCovered'
<1> SUFFICES ASSUME NEW n \in 1 .. Len(chain')
             PROVE  Covered(n, n - 1)'
  BY DEF AllCovered
<1>1. Len(chain) \in Nat
  BY LenProperties DEF Typed, TypeOK
<1>2. CASE n \in 1 .. Len(chain) /\ chain'[n] = chain[n]
  <2>1. Covered(n, n - 1) /\ n - 1 \in {n - 1, n} /\ n - 1 < Len(chain)
    BY <1>1, <1>2 DEF NoneLost, AllCovered
  <2> QED BY <1>2, <2>1, CoveredStays
<1>3. ASSUME NEW depth \in 0 .. MaxDepth, NewBranch(depth), n \in Len(chain) - depth + 1 .. Len(chain')
      PROVE  Covered(n, n - 1)'
  <2>1. n - 1 \in {n - 1, n} /\ n - 1 < Len(chain') /\ (MaxDepth <= 1 \/ index.pc = "listen")
    <3>1. Len(chain') \in Nat
      BY <1>1, <1>3, BranchReplaces
    <3> QED BY <3>1 DEF NoneLost, Restarting
  <2> QED BY <1>3, <2>1, CoveredNew
<1>4. ASSUME NEW depth \in 0 .. MaxDepth, NewBranch(depth), n \in 1 .. Len(chain) - depth
      PROVE  n \in 1 .. Len(chain) /\ chain'[n] = chain[n]
  BY <1>1, <1>4, BranchReplaces
<1>5. ASSUME NEW depth \in 0 .. MaxDepth, NewBranch(depth)
      PROVE  n \in 1 .. Len(chain) - depth \/ n \in Len(chain) - depth + 1 .. Len(chain')
  BY <1>1, <1>5, BranchReplaces
<1> QED BY <1>2, <1>3, <1>4, <1>5, OnlyBranches

-----------------------------------------------------------------------------
(* The batches.                                                            *)

\* Where the batches in use come from.
LEMMA InUseNext ==
  ASSUME Typed, [Next]_vars, NEW b \in InUse'
  PROVE  \/ b \in InUse
         \/ Launch /\ \E k \in DOMAIN worker' : b = worker'[k].batch
         \/ \E k \in DOMAIN worker : /\ WorkerStore(k) \/ WorkerGenesis(k)
                                     /\ b = Advance(worker[k].batch)
<1>1. CASE UNCHANGED <<batchDB, worker>>
  BY <1>1 DEF InUse
<1>2. CASE Crash
  BY <1>2 DEF Crash, InUse, NoWorker
<1>3. CASE Launch
  BY <1>3, LaunchMakes DEF InUse
<1>4. ASSUME NEW k \in DOMAIN worker, WorkerFetch(k)
      PROVE  b \in InUse
  <2> DEFINE c == chain[NextBlock(worker[k].batch)]
  <2>1. worker' = [worker EXCEPT ![k].block = c] /\ batchDB' = batchDB
    BY <1>4 DEF WorkerFetch
  <2>2. worker[k] \in [batch : Batches, block : Blocks \cup {Nil}]
    BY DEF Typed, TypeOK
  <2> HIDE DEF c
  <2>3. \A l \in DOMAIN worker' : l \in DOMAIN worker /\ worker'[l].batch = worker[l].batch
    BY <2>1, <2>2
  <2> QED BY <2>1, <2>3 DEF InUse
<1>5. ASSUME NEW k \in DOMAIN worker, WorkerStore(k) \/ WorkerGenesis(k)
      PROVE  b \in InUse \/ b = Advance(worker[k].batch)
  <2> DEFINE a == Advance(worker[k].batch)
  <2>1. Took(k)
    BY <1>5 DEF WorkerStore, WorkerGenesis
  <2>2. /\ a \in Batches
        /\ DOMAIN worker' = DOMAIN worker /\ worker'[k] = [batch |-> a, block |-> Nil]
        /\ \A l \in DOMAIN worker \ {k} : worker'[l] = worker[l]
        /\ DOMAIN batchDB' = DOMAIN batchDB \cup {BatchKey(a)}
        /\ batchDB'[BatchKey(a)] = a.current
        /\ \A l \in DOMAIN batchDB \ {BatchKey(a)} : batchDB'[l] = batchDB[l]
    BY <2>1, TookIs
  <2> HIDE DEF a
  <2>3. BatchOf(BatchKey(a), a.current) = a
    BY <2>2, BatchKeyType
  <2>4. ASSUME NEW l \in DOMAIN worker', b = worker'[l].batch
        PROVE  b \in InUse \/ b = a
    BY <2>2, <2>4 DEF InUse
  <2>5. ASSUME NEW l \in DOMAIN batchDB', b = BatchOf(l, batchDB'[l])
        PROVE  b \in InUse \/ b = a
    BY <2>2, <2>3, <2>5 DEF InUse, StoredBatch
  <2>6. b \in InUse \/ b = a
    BY <2>4, <2>5 DEF InUse, StoredBatch
  <2> QED BY <2>6 DEF a
<1> QED BY <1>1, <1>2, <1>3, <1>4, <1>5
        DEF Next, Realtime, vars, sched, NewBranch, RtFetch, RtReorg, RtStoreAddress, RtStoreBlock,
            IndexBegin, RtSubscribe, Rerun, RerunFetch, RerunStore, CleanScan, CleanDelete

\* The batches that a restart begins or takes up again.
LEMMA LaunchedFit ==
  ASSUME Typed, Restarting, BatchesFit, Launch, NEW k \in DOMAIN worker'
  PROVE  LET b == worker'[k].batch IN
         /\ b \in Batches /\ b.step = 1 /\ b.from <= b.to /\ b.to <= index.latest
         /\ \/ b.current = -1
            \/ /\ k \in DOMAIN batchDB /\ b.from = k.from /\ b.current = batchDB[k]
               /\ batchDB[k] < k.to /\ k.to <= b.to
<1>1. index.pc = "latest" /\ index.latest \in 0 .. Len(chain)
  BY DEF Launch, Typed, TypeOK
<1>2. PICK last \in LastBlockNums :
        LET key == CatchUpKey(last, index.latest) IN
        /\ key \in BatchKeys
        /\ DOMAIN worker' = IF Found(last) THEN Undone ELSE Undone \cup {key}
        /\ \A l \in DOMAIN worker' :
             /\ worker'[l].block = Nil
             /\ l \in Undone => worker'[l].batch = Resumed(l, last, index.latest)
             /\ l \notin Undone => worker'[l].batch = BatchOf(l, NoBlock)
  BY LaunchMakes
<1>3. worker'[k].batch \in Batches
  BY LaunchType
<1>4. last \in Nat /\ last <= index.latest /\ index.latest \in Nat
  BY <1>1, LastBlockType DEF Restarting
<1>5. CASE k \in Undone
  <2>1. k \in DOMAIN batchDB /\ k.to <= index.latest
    BY <1>1, <1>5 DEF Undone, Restarting
  <2>2. /\ k \in BatchKeys /\ k.step = 1 /\ k.from <= k.to
        /\ batchDB[k] \in Nat /\ batchDB[k] < k.to
    BY <1>5, <2>1, UndoneIs
  <2>3. k.from \in Nat /\ k.to \in Nat
    BY <2>2 DEF BatchKeys
  <2>4. /\ worker'[k].batch.from = k.from /\ worker'[k].batch.step = k.step
        /\ worker'[k].batch.current = batchDB[k]
        /\ worker'[k].batch.to = IF k.from = last THEN index.latest ELSE k.to
    BY <1>2, <1>4, <1>5, <2>1, ResumedType
  <2> QED BY <1>3, <1>4, <2>1, <2>2, <2>3, <2>4
<1>6. CASE k \notin Undone
  <2>1. worker'[k].batch = BatchOf(CatchUpKey(last, index.latest), NoBlock)
    BY <1>2, <1>6
  <2> QED BY <1>3, <1>4, <2>1 DEF BatchOf, CatchUpKey, NoBlock
<1> QED BY <1>5, <1>6

\* A batch that takes a block is not done with it before.
LEMMA TookFits ==
  ASSUME Typed, BatchesFit, NEW k \in DOMAIN worker, WorkerStore(k) \/ WorkerGenesis(k)
  PROVE  LET b == Advance(worker[k].batch) IN
         /\ worker[k].batch \in InUse
         /\ b \in Batches /\ b.step = 1 /\ b.from = worker[k].batch.from /\ b.to = worker[k].batch.to
         /\ b.current = NextBlock(worker[k].batch) /\ b.current <= b.to
<1>1. worker[k].batch \in InUse /\ worker[k].batch \in Batches /\ worker[k].batch.step = 1
  BY DEF InUse, BatchesFit
<1>2. NextBlock(worker[k].batch) <= worker[k].batch.to
  <2>1. CASE WorkerStore(k)
    BY <2>1 DEF WorkerStore, BatchesFit
  <2>2. CASE WorkerGenesis(k)
    BY <1>1, <2>2 DEF WorkerGenesis, Batches
  <2> QED BY <2>1, <2>2
<1> QED BY <1>1, <1>2, AdvanceType

\* A goroutine has in hand what it fetched now or before.
LEMMA FetchGives ==
  ASSUME Typed, NEW k \in DOMAIN worker, WorkerFetch(k)
  PROVE  /\ DOMAIN worker' = DOMAIN worker /\ worker'[k].batch = worker[k].batch
         /\ worker'[k].block = chain[NextBlock(worker[k].batch)]
         /\ \A l \in DOMAIN worker \ {k} : worker'[l] = worker[l]
<1> DEFINE c == chain[NextBlock(worker[k].batch)]
<1>1. worker' = [worker EXCEPT ![k].block = c]
  BY DEF WorkerFetch
<1>2. worker[k] \in [batch : Batches, block : Blocks \cup {Nil}]
  BY DEF Typed, TypeOK
<1> HIDE DEF c
<1>3. /\ DOMAIN worker' = DOMAIN worker /\ worker'[k].batch = worker[k].batch
      /\ worker'[k].block = c /\ \A l \in DOMAIN worker \ {k} : worker'[l] = worker[l]
  BY <1>1, <1>2
<1> QED BY <1>3 DEF c

LEMMA HandsFrom ==
  ASSUME Typed, [Next]_vars, NEW k \in DOMAIN worker', worker'[k].block # Nil
  PROVE  k \in DOMAIN worker /\ (worker'[k] = worker[k] \/ WorkerFetch(k))
<1>1. CASE UNCHANGED worker
  BY <1>1
<1>2. CASE Launch
  BY <1>2, LaunchType
<1>3. CASE Crash
  BY <1>3 DEF Crash, NoWorker
<1>4. ASSUME NEW l \in DOMAIN worker, WorkerStore(l) \/ WorkerGenesis(l)
      PROVE  k \in DOMAIN worker /\ worker'[k] = worker[k]
  <2> DEFINE b == Advance(worker[l].batch)
  <2>1. Took(l)
    BY <1>4 DEF WorkerStore, WorkerGenesis
  <2>2. /\ DOMAIN worker' = DOMAIN worker /\ worker'[l] = [batch |-> b, block |-> Nil]
        /\ \A x \in DOMAIN worker \ {l} : worker'[x] = worker[x]
    BY <2>1, TookIs
  <2> HIDE DEF b
  <2> QED BY <2>2
<1>5. ASSUME NEW l \in DOMAIN worker, WorkerFetch(l)
      PROVE  k \in DOMAIN worker /\ (worker'[k] = worker[k] \/ WorkerFetch(k))
  BY <1>5, FetchGives
<1> QED BY <1>1, <1>2, <1>3, <1>4, <1>5
        DEF Next, Realtime, vars, sched, NewBranch, RtFetch, RtReorg, RtStoreAddress, RtStoreBlock,
            IndexBegin, RtSubscribe, Rerun, RerunFetch, RerunStore, CleanScan, CleanDelete

LEMMA BatchesFitNext ==
  ASSUME Typed, Restarting, BatchesFit, [Next]_vars
  PROVE  BatchesFit'
<1>1. Len(chain) \in Nat /\ Len(chain') \in Nat /\ Len(chain) <= Len(chain')
  <2>1. Len(chain) \in Nat
    BY LenProperties DEF Typed, TypeOK
  <2> QED BY <2>1, BranchReplaces, OnlyBranches
<1>2. ASSUME NEW b \in InUse'
      PROVE  /\ b \in Batches /\ b.step = 1
             /\ b.from <= b.to /\ b.current <= b.to /\ b.to <= Len(chain')
  <2>1. CASE b \in InUse
    <3>1. /\ b \in Batches /\ b.step = 1
          /\ b.from <= b.to /\ b.current <= b.to /\ b.to <= Len(chain)
      BY <2>1 DEF BatchesFit
    <3>2. b.to \in Nat
      BY <3>1 DEF Batches
    <3> QED BY <1>1, <3>1, <3>2
  <2>2. ASSUME Launch, NEW k \in DOMAIN worker', b = worker'[k].batch
        PROVE  /\ b \in Batches /\ b.step = 1
               /\ b.from <= b.to /\ b.current <= b.to /\ b.to <= Len(chain')
    <3>1. /\ b \in Batches /\ b.step = 1 /\ b.from <= b.to /\ b.to <= index.latest
          /\ \/ b.current = -1
             \/ k \in DOMAIN batchDB /\ b.current = batchDB[k] /\ batchDB[k] < k.to /\ k.to <= b.to
      BY <2>2, LaunchedFit
    <3>2. index.latest \in 0 .. Len(chain) /\ b.to \in Nat
      BY <3>1 DEF Typed, TypeOK, Batches
    <3>3. k \in DOMAIN batchDB => k.to \in Nat /\ batchDB[k] \in Nat
      BY UndoneIs DEF BatchKeys
    <3> QED BY <1>1, <3>1, <3>2, <3>3
  <2>3. ASSUME NEW k \in DOMAIN worker, WorkerStore(k) \/ WorkerGenesis(k),
               b = Advance(worker[k].batch)
        PROVE  /\ b \in Batches /\ b.step = 1
               /\ b.from <= b.to /\ b.current <= b.to /\ b.to <= Len(chain')
    <3> DEFINE c == worker[k].batch
    <3>1. /\ c \in InUse /\ b \in Batches /\ b.step = 1 /\ b.from = c.from /\ b.to = c.to
          /\ b.current <= b.to
      BY <2>3, TookFits
    <3>2. c.from <= c.to /\ c.to <= Len(chain) /\ c.to \in Nat
      BY <3>1 DEF BatchesFit, Batches
    <3> QED BY <1>1, <3>1, <3>2
  <2> QED BY <2>1, <2>2, <2>3, InUseNext
<1>3. ASSUME NEW k \in DOMAIN worker', worker'[k].block # Nil
      PROVE  /\ worker'[k].block.number = NextBlock(worker'[k].batch)
             /\ NextBlock(worker'[k].batch) <= worker'[k].batch.to
  <2>1. CASE k \in DOMAIN worker /\ worker'[k] = worker[k]
    BY <1>3, <2>1 DEF BatchesFit
  <2>2. CASE k \in DOMAIN worker /\ WorkerFetch(k)
    <3> DEFINE m == NextBlock(worker[k].batch)
               b == worker[k].batch
    <3>1. /\ ~IsDone(b) /\ m \in 1 .. Len(chain)
          /\ worker'[k].batch = b /\ worker'[k].block = chain[m]
      BY <2>2, FetchGives DEF WorkerFetch
    <3>2. chain[m].number = m
      BY <3>1, ChainBlock
    <3>3. b \in Batches /\ b.step = 1 /\ b.from <= b.to
      BY <2>2 DEF InUse, BatchesFit
    <3>4. m <= b.to
      BY <3>1, <3>3 DEF IsDone, NextBlock, Batches, NoBlock
    <3> QED BY <3>1, <3>2, <3>4
  <2> QED BY <1>3, <2>1, <2>2, HandsFrom
<1>4. (\A b \in InUse : /\ b \in Batches /\ b.step = 1
                        /\ b.from <= b.to /\ b.current <= b.to /\ b.to <= Len(chain))'
  BY <1>2
<1>5. (\A k \in DOMAIN worker : worker[k].block # Nil =>
         /\ worker[k].block.number = NextBlock(worker[k].batch)
         /\ NextBlock(worker[k].batch) <= worker[k].batch.to)'
  BY <1>3
<1> QED BY <1>4, <1>5 DEF BatchesFit

\* The last block of the chain is ahead only by what a new branch does.
LEMMA TipAheadNext ==
  ASSUME Typed, BlocksKnown, [Next]_vars, TipAhead', UNCHANGED <<chain, mined>>
  PROVE  TipAhead
<1>1. Len(chain) \in Nat
  BY LenProperties DEF Typed, TypeOK
<1>2. CASE Crash
  <2>1. announced' = <<>> /\ rt' = NoRt /\ missed' = missed \cup {chain[x].version : x \in Forgotten}
    BY <1>2 DEF Crash
  <2>2. chain # <<>> /\ chain[Len(chain)].version \in missed'
    BY <2>1 DEF TipAhead, NoRt
  <2>3. ASSUME NEW x \in Forgotten, chain[x].version = chain[Len(chain)].version
        PROVE  FALSE
    <3>1. /\ x \in 1 .. Len(chain)
          /\ \E m \in DOMAIN blockDB : x < m
      BY DEF Forgotten
    <3>2. x < Len(chain)
      BY <1>1, <3>1 DEF Typed, TypeOK
    <3>3. Len(chain) \in 1 .. Len(chain)
      BY <1>1, <3>1
    <3>4. chain[x] = chain[Len(chain)]
      BY <2>3, <3>1, <3>3 DEF BlocksKnown, Known
    <3>5. chain[x].number = x /\ chain[Len(chain)].number = Len(chain)
      BY <3>1, <3>3, ChainBlock
    <3> QED BY <1>1, <3>1, <3>2, <3>4, <3>5
  <2>4. chain[Len(chain)].version \in missed
    BY <2>1, <2>2, <2>3
  <2> QED BY <2>2, <2>4 DEF TipAhead
<1>3. CASE RtFetch
  BY <1>3 DEF RtFetch, TipAhead
<1>4. CASE RtReorg \/ RtStoreAddress
  BY <1>4 DEF RtReorg, RtStoreAddress, TipAhead
<1>5. CASE RtStoreBlock
  BY <1>5 DEF RtStoreBlock, TipAhead
<1>6. CASE UNCHANGED <<announced, rt>> /\ missed' \subseteq missed
  BY <1>6 DEF TipAhead
<1>7. ASSUME NEW depth \in 0 .. MaxDepth, NewBranch(depth)
      PROVE  FALSE
  BY <1>1, <1>7, BranchReplaces
<1> QED BY <1>2, <1>3, <1>4, <1>5, <1>6, <1>7
        DEF Next, Realtime, vars, sched, IndexBegin, Launch, RtSubscribe, WorkerFetch, WorkerStore,
            WorkerGenesis, Rerun, RerunFetch, RerunStore, CleanScan, CleanDelete

LEMMA RestartingNext ==
  ASSUME Typed, BlocksKnown, Restarting, BatchesFit, [Next]_vars
  PROVE  Restarting'
<1>1. Len(chain) \in Nat /\ index.latest \in 0 .. Len(chain)
  BY LenProperties DEF Typed, TypeOK
<1>2. ASSUME NEW depth \in 0 .. MaxDepth, NewBranch(depth)
      PROVE  Restarting'
  <2>1. /\ UNCHANGED <<blockDB, batchDB, index, worker, rt>> /\ Len(chain') = Len(chain) + 1
        /\ index.pc # "listen" => announced' = announced
    BY <1>2, BranchReplaces DEF NewBranch
  <2>2. index.latest < Len(chain')
    BY <1>1, <2>1
  <2> QED BY <2>1, <2>2 DEF Restarting
<1>3. CASE IndexBegin
  <2>1. /\ index.pc = "down" /\ index' = [pc |-> "latest", latest |-> Len(chain)]
        /\ UNCHANGED <<chain, announced, blockDB, batchDB, worker, rt>>
        /\ missed' = missed \ {chain[n].version : n \in {x \in 1 .. Len(chain) :
                                              \A m \in DOMAIN blockDB : m <= x}}
    BY <1>3 DEF IndexBegin
  <2>2. \A m \in DOMAIN blockDB : m <= Len(chain)
    BY <1>1 DEF Typed, TypeOK
  <2>3. \A k \in DOMAIN batchDB : k.to <= Len(chain)
    BY UndoneIs
  <2>4. ~TipAhead'
    <3>1. announced' = <<>> /\ rt'.pc = "idle"
      BY <2>1 DEF Restarting
    <3>2. CASE chain # <<>>
      <4>1. Len(chain) \in 1 .. Len(chain)
        BY <1>1, <3>2, EmptySeq DEF Typed, TypeOK
      <4>2. chain[Len(chain)].version \notin missed'
        BY <2>1, <2>2, <4>1
      <4> QED BY <2>1, <3>1, <4>2 DEF TipAhead
    <3>3. CASE chain = <<>>
      BY <2>1, <3>1, <3>3 DEF TipAhead
    <3> QED BY <3>2, <3>3
  <2>5. MaxCrashes # 0
    BY <2>1 DEF Restarting
  <2>6. announced' = <<>> /\ rt'.pc = "idle" /\ DOMAIN worker' = {}
    BY <2>1 DEF Restarting
  <2>7. index'.pc = "latest" /\ index'.latest = Len(chain')
        /\ DOMAIN blockDB' = DOMAIN blockDB /\ DOMAIN batchDB' = DOMAIN batchDB
    BY <2>1
  <2> QED BY <2>1, <2>2, <2>3, <2>4, <2>5, <2>6, <2>7 DEF Restarting
<1>4. CASE Launch
  <2>1. /\ index.pc = "latest" /\ index' = [index EXCEPT !.pc = "subscribe"]
        /\ UNCHANGED <<announced, rt>>
    BY <1>4 DEF Launch
  <2>2. index'.pc = "subscribe" /\ MaxCrashes # 0 /\ announced' = <<>> /\ rt'.pc = "idle"
    BY <2>1 DEF Restarting, Typed, TypeOK
  <2> QED BY <2>2 DEF Restarting
<1>5. CASE RtSubscribe
  <2>1. index'.pc = "listen" /\ MaxCrashes # 0
    BY <1>5 DEF RtSubscribe, Restarting, Typed, TypeOK
  <2> QED BY <2>1 DEF Restarting
<1>6. ASSUME NEW k \in DOMAIN worker, WorkerFetch(k) \/ WorkerStore(k) \/ WorkerGenesis(k)
      PROVE  Restarting'
  <2>1. UNCHANGED <<announced, rt, index>>
    BY <1>6 DEF WorkerFetch, WorkerStore, WorkerGenesis
  <2>2. index.pc \notin {"down", "latest"} /\ MaxCrashes # 0
    BY DEF Restarting
  <2> QED BY <2>1, <2>2 DEF Restarting
<1>7. CASE Crash
  <2>1. MaxCrashes # 0
    BY <1>7, BoundAssumption DEF Crash, Typed, TypeOK
  <2>2. announced' = <<>> /\ rt'.pc = "idle" /\ DOMAIN worker' = {} /\ index'.pc = "down"
    BY <1>7 DEF Crash, NoRt, NoWorker, Typed, TypeOK
  <2> QED BY <2>1, <2>2 DEF Restarting
<1>8. CASE Realtime
  <2>1. announced # <<>> \/ rt.pc # "idle"
    BY <1>8 DEF Realtime, RtFetch, RtReorg, RtStoreAddress, RtStoreBlock
  <2>2. index.pc = "listen" /\ UNCHANGED <<index, batchDB, worker>>
    BY <1>8, <2>1 DEF Restarting, Realtime, RtFetch, RtReorg, RtStoreAddress, RtStoreBlock, sched
  <2> QED BY <2>2 DEF Restarting
<1>9. CASE Rerun \/ RerunFetch \/ RerunStore \/ CleanScan \/ CleanDelete \/ UNCHANGED vars
  <2>1. /\ UNCHANGED <<chain, announced, rt, index, batchDB, worker, missed>>
        /\ DOMAIN blockDB' \subseteq DOMAIN blockDB
    BY <1>9 DEF Rerun, RerunFetch, RerunStore, CleanScan, CleanDelete, BatchDelete, vars, sched
  <2> QED BY <2>1 DEF Restarting, TipAhead
<1> QED BY <1>2, <1>3, <1>4, <1>5, <1>6, <1>7, <1>8, <1>9 DEF Next

LEMMA HeadersAheadNext ==
  ASSUME Typed, MaxDepth <= 1 \/ MaxCrashes = 0, NoneLost, [Next]_vars
  PROVE  HeadersAhead'
<1> USE DEF NoneLost
<1> SUFFICES ASSUME NEW b \in InUse'
             PROVE  /\ \A p \in 1 .. Len(announced') : b.to <= announced'[p]
                    /\ rt'.pc # "idle" => b.to <= rt'.block.number
                    /\ TipAhead' => b.to < Len(chain')
  BY DEF HeadersAhead
<1>1. Len(chain) \in Nat /\ index.latest \in 0 .. Len(chain)
  BY LenProperties DEF Typed, TypeOK
<1>2. ASSUME b \in InUse
      PROVE  /\ \A p \in 1 .. Len(announced) : b.to <= announced[p]
             /\ rt.pc # "idle" => b.to <= rt.block.number
             /\ TipAhead => b.to < Len(chain)
             /\ b.to <= Len(chain) /\ b.to \in Nat /\ MaxDepth <= 1
  <2>1. MaxCrashes # 0
    BY <1>2 DEF Restarting, InUse
  <2> QED BY <1>2, <2>1 DEF HeadersAhead, BatchesFit, Batches
<1>3. ASSUME b \in InUse, NEW depth \in 0 .. MaxDepth, NewBranch(depth)
      PROVE  /\ \A p \in 1 .. Len(announced') : b.to <= announced'[p]
             /\ rt'.pc # "idle" => b.to <= rt'.block.number
             /\ TipAhead' => b.to < Len(chain')
  <2>1. rt' = rt /\ Len(chain') = Len(chain) + 1 /\ depth \in 0 .. 1
    BY <1>2, <1>3, BranchReplaces, BoundAssumption DEF NewBranch
  <2>2. ASSUME NEW p \in 1 .. Len(announced')
        PROVE  b.to <= announced'[p]
    <3>1. CASE index.pc = "listen"
      <4>1. /\ Len(announced) \in Nat /\ Len(announced') = Len(announced) + depth + 1
            /\ \A q \in 1 .. Len(announced) : announced'[q] = announced[q]
            /\ \A q \in Len(announced) + 1 .. Len(announced') :
                 announced'[q] = Len(chain) - depth + (q - Len(announced))
        BY <1>3, <3>1, BranchAnnounced
      <4>2. CASE p \in 1 .. Len(announced)
        BY <1>2, <1>3, <4>1, <4>2
      <4>3. CASE p \in Len(announced) + 1 .. Len(announced')
        BY <1>1, <1>2, <1>3, <2>1, <4>1, <4>3
      <4> QED BY <4>1, <4>2, <4>3
    <3>2. CASE index.pc # "listen"
      <4>1. announced' = announced
        BY <1>3, <3>2 DEF NewBranch
      <4> QED BY <1>2, <1>3, <4>1
    <3> QED BY <3>1, <3>2
  <2>3. b.to < Len(chain')
    BY <1>1, <1>2, <1>3, <2>1
  <2> QED BY <1>2, <1>3, <2>1, <2>2, <2>3
<1>4. ASSUME b \in InUse, UNCHANGED <<chain, mined>>
      PROVE  /\ \A p \in 1 .. Len(announced') : b.to <= announced'[p]
             /\ rt'.pc # "idle" => b.to <= rt'.block.number
             /\ TipAhead' => b.to < Len(chain')
  <2>1. TipAhead' => b.to < Len(chain')
    BY <1>2, <1>4, TipAheadNext
  <2>2. CASE RtFetch
    <3>1. /\ Len(announced) \in Nat \ {0} /\ Len(announced') = Len(announced) - 1
          /\ rt'.block.number = announced[1]
          /\ \A p \in 1 .. Len(announced') : announced'[p] = announced[p + 1]
      BY <2>2, FetchTakesHead
    <3>2. 1 \in 1 .. Len(announced) /\ \A p \in 1 .. Len(announced') : p + 1 \in 1 .. Len(announced)
      BY <3>1
    <3> QED BY <1>2, <1>4, <2>1, <3>1, <3>2
  <2>3. CASE RtReorg \/ RtStoreAddress
    BY <1>2, <1>4, <2>1, <2>3 DEF RtReorg, RtStoreAddress, SetRt, Typed, TypeOK
  <2>4. CASE RtStoreBlock
    BY <1>2, <1>4, <2>1, <2>4 DEF RtStoreBlock, NoRt
  <2>5. CASE Crash
    <3>1. Len(announced') = 0 /\ rt'.pc = "idle"
      BY <2>5 DEF Crash, NoRt
    <3> QED BY <2>1, <3>1
  <2>6. CASE UNCHANGED <<announced, rt>>
    BY <1>2, <1>4, <2>1, <2>6
  <2>7. ASSUME NEW depth \in 0 .. MaxDepth, NewBranch(depth)
        PROVE  FALSE
    BY <1>1, <1>4, <2>7, BranchReplaces
  <2> QED BY <2>2, <2>3, <2>4, <2>5, <2>6, <2>7
          DEF Next, Realtime, vars, IndexBegin, Launch, RtSubscribe, WorkerFetch, WorkerStore,
              WorkerGenesis, Rerun, RerunFetch, RerunStore, CleanScan, CleanDelete
<1>5. ASSUME Launch, NEW k \in DOMAIN worker', b = worker'[k].batch
      PROVE  /\ \A p \in 1 .. Len(announced') : b.to <= announced'[p]
             /\ rt'.pc # "idle" => b.to <= rt'.block.number
             /\ TipAhead' => b.to < Len(chain')
  <2>1. /\ index.pc = "latest" /\ UNCHANGED <<chain, mined, announced, rt, missed>>
        /\ b.to <= index.latest /\ b.to \in Nat
    BY <1>5, LaunchedFit DEF Launch, Batches
  <2>2. Len(announced') = 0 /\ rt'.pc = "idle"
    BY <2>1 DEF Restarting
  <2>3. TipAhead' => index.latest < Len(chain)
    BY <2>1 DEF TipAhead, Restarting
  <2> QED BY <1>1, <2>1, <2>2, <2>3
<1>6. ASSUME NEW k \in DOMAIN worker, WorkerStore(k) \/ WorkerGenesis(k),
             b = Advance(worker[k].batch)
      PROVE  /\ \A p \in 1 .. Len(announced') : b.to <= announced'[p]
             /\ rt'.pc # "idle" => b.to <= rt'.block.number
             /\ TipAhead' => b.to < Len(chain')
  <2>1. UNCHANGED <<chain, announced, rt, missed>>
    BY <1>6 DEF WorkerStore, WorkerGenesis
  <2>2. worker[k].batch \in InUse /\ b.to = worker[k].batch.to
    BY <1>6, TookFits
  <2> QED BY <2>1, <2>2 DEF HeadersAhead, TipAhead
<1> QED BY <1>3, <1>4, <1>5, <1>6, InUseNext, OnlyBranches

\* What a batch took before its last block no branch replaces, since nothing
\* below the end of the batch is announced.
LEMMA TakenStays ==
  ASSUME AllFit, ~SharedTimes, MaxDepth <= 1 \/ MaxCrashes = 0, Typed, NoneLost, [Next]_vars,
         NEW b \in InUse, NEW n \in 1 .. Len(chain), n < b.to, Stored(chain[n])
  PROVE  Stored(chain[n])'
<1> USE DEF NoneLost
<1>1. /\ Len(chain) \in Nat /\ b.to \in Nat /\ b.to <= Len(chain) /\ MaxDepth <= 1
      /\ rt.pc # "idle" => b.to <= rt.block.number
  <2>1. MaxCrashes # 0
    BY DEF Restarting, InUse
  <2> QED BY <2>1, LenProperties DEF Typed, TypeOK, BatchesFit, Batches, HeadersAhead
<1>2. chain'[n] = chain[n]
  <2>1. ASSUME NEW depth \in 0 .. MaxDepth, NewBranch(depth)
        PROVE  chain'[n] = chain[n]
    <3>1. depth \in 0 .. 1
      BY <1>1, BoundAssumption
    <3>2. n \in 1 .. Len(chain) - depth
      BY <1>1, <3>1
    <3> QED BY <2>1, <3>2, BranchReplaces
  <2> QED BY <2>1, OnlyBranches
<1>3. RtReorg => rt.block # chain[n]
  <2>1. chain[n].number = n
    BY ChainBlock
  <2>2. RtReorg => rt.pc # "idle"
    BY DEF RtReorg
  <2> QED BY <1>1, <2>1, <2>2
<1> QED BY <1>2, <1>3, StoredStays

\* The last block of a batch stays covered, or the branch that replaces it is.
LEMMA LastStays ==
  ASSUME AllFit, ~SharedTimes, MaxDepth <= 1 \/ MaxCrashes = 0, Typed, NoneLost, [Next]_vars,
         NEW b \in InUse, NEW n \in 1 .. Len(chain), n = b.to,
         Covered(n, n) \/ chain'[n] # chain[n]
  PROVE  Covered(n, n)'
<1> USE DEF NoneLost
<1>1. Len(chain) \in Nat /\ MaxDepth <= 1 /\ (n < Len(chain) \/ ~TipAhead)
  <2>1. MaxCrashes # 0
    BY DEF Restarting, InUse
  <2> QED BY <2>1, LenProperties DEF Typed, TypeOK, HeadersAhead
<1>2. CASE chain'[n] = chain[n]
  BY <1>1, <1>2, CoveredStays
<1>3. CASE chain'[n] # chain[n]
  <2>1. PICK depth \in 0 .. MaxDepth : NewBranch(depth)
    BY <1>3, OnlyBranches
  <2>2. Len(chain') = Len(chain) + 1 /\ depth \in 0 .. Len(chain)
        /\ ~(n \in 1 .. Len(chain) - depth)
    BY <1>3, <2>1, BranchReplaces
  <2>3. n \in Len(chain) - depth + 1 .. Len(chain') /\ n < Len(chain')
    BY <1>1, <2>2
  <2> QED BY <1>1, <2>1, <2>3, CoveredNew
<1> QED BY <1>2, <1>3

LEMMA TakenCoveredNext ==
  ASSUME AllFit, ~SharedTimes, MaxDepth <= 1 \/ MaxCrashes = 0, Typed, NoneLost, [Next]_vars
  PROVE  TakenCovered'
<1> USE DEF NoneLost
<1> SUFFICES ASSUME NEW b \in InUse', NEW n \in 1 .. Len(chain'), b.from <= n, n <= b.current
             PROVE  IF n < b.to THEN Stored(chain[n])' ELSE Covered(n, n)'
  BY DEF TakenCovered
<1>1. Len(chain) \in Nat
  BY LenProperties DEF Typed, TypeOK
<1>2. CASE b \in InUse
  <2>1. b.to \in Nat /\ b.to <= Len(chain) /\ b.current <= b.to /\ b.current \in Int
    BY <1>2 DEF BatchesFit, Batches, NoBlock
  <2>2. n \in 1 .. Len(chain) /\ n <= b.to
    BY <1>1, <2>1
  <2>3. CASE n < b.to
    BY <1>2, <2>2, <2>3, TakenStays DEF TakenCovered
  <2>4. CASE ~(n < b.to)
    <3>1. n = b.to /\ Covered(n, n)
      BY <1>2, <2>1, <2>2, <2>4 DEF TakenCovered
    <3> QED BY <1>2, <2>2, <2>4, <3>1, LastStays
  <2> QED BY <2>3, <2>4
<1>3. ASSUME Launch, NEW k \in DOMAIN worker', b = worker'[k].batch
      PROVE  n < b.to /\ Stored(chain[n])'
  <2>1. /\ b \in Batches
        /\ \/ b.current = -1
           \/ /\ k \in DOMAIN batchDB /\ b.from = k.from /\ b.current = batchDB[k]
              /\ batchDB[k] < k.to /\ k.to <= b.to
    BY <1>3, LaunchedFit
  <2>2. /\ k \in DOMAIN batchDB /\ b.from = k.from /\ b.current = batchDB[k]
        /\ batchDB[k] < k.to /\ k.to <= b.to
    BY <2>1
  <2>3. /\ k \in BatchKeys /\ batchDB[k] \in Nat
        /\ StoredBatch(batchDB, k).from = k.from /\ StoredBatch(batchDB, k).to = k.to
        /\ StoredBatch(batchDB, k).current = batchDB[k] /\ StoredBatch(batchDB, k) \in InUse
    BY <2>2, UndoneIs DEF InUse
  <2>4. UNCHANGED <<chain, addressDB>> /\ k.to \in Nat /\ b.to \in Nat
    BY <1>3, <2>1, <2>3 DEF Launch, Batches, BatchKeys
  <2>5. n < k.to /\ n < b.to /\ n \in 1 .. Len(chain)
    BY <2>2, <2>3, <2>4
  <2>6. Stored(chain[n])
    BY <2>2, <2>3, <2>5 DEF TakenCovered
  <2> QED BY <2>4, <2>5, <2>6 DEF Stored
<1>4. ASSUME NEW k \in DOMAIN worker, WorkerStore(k) \/ WorkerGenesis(k),
             b = Advance(worker[k].batch)
      PROVE  IF n < b.to THEN Stored(chain[n])' ELSE Covered(n, n)'
  <2> DEFINE c == worker[k].batch
  <2>1. /\ c \in InUse /\ b.from = c.from /\ b.to = c.to
        /\ b.current = NextBlock(c) /\ NextBlock(c) <= c.to /\ chain' = chain
    BY <1>4, TookFits DEF WorkerStore, WorkerGenesis
  <2>2. /\ c.from \in Nat /\ c.to \in Nat /\ c.step = 1
        /\ (c.current = NoBlock \/ c.current \in Nat)
    BY <2>1 DEF BatchesFit, Batches
  <2>3. CASE n = NextBlock(c)
    <3>1. WorkerStore(k)
      BY <1>4, <2>3 DEF WorkerGenesis
    <3>2. worker[k].block # Nil /\ addressDB' = BatchPut(addressDB, AddressIndex(worker[k].block))
      BY <3>1 DEF WorkerStore
    <3>3. worker[k].block.number = n
      BY <2>3, <3>2 DEF BatchesFit
    <3>4. CASE worker[k].block = chain[n]
      <4>1. PICK x \in Blocks : x = chain'[n] /\ addressDB' = BatchPut(addressDB, AddressIndex(x))
        BY <2>1, <3>2, <3>4, ChainBlock
      <4>2. Stored(x)'
        BY <4>1, StoringStores
      <4> QED BY <4>1, <4>2 DEF Covered
    <3>5. CASE n = c.to /\ Covered(n, n)
      <4>1. Covered(n, n)'
        BY <2>1, <3>5, LastStays
      <4> QED BY <2>1, <2>2, <3>5, <4>1
    <3> QED BY <3>2, <3>3, <3>4, <3>5 DEF HandsCovered
  <2>4. CASE n # NextBlock(c)
    <3>1. n <= c.current /\ n < c.to /\ c.from <= n
      BY <2>1, <2>2, <2>4 DEF NextBlock
    <3>2. Stored(chain[n]) /\ n \in 1 .. Len(chain)
      BY <2>1, <3>1 DEF TakenCovered
    <3>3. Stored(chain[n])'
      BY <2>1, <3>1, <3>2, TakenStays
    <3> QED BY <2>1, <3>1, <3>3
  <2> QED BY <2>3, <2>4
<1> QED BY <1>2, <1>3, <1>4, InUseNext

LEMMA HandsCoveredNext ==
  ASSUME AllFit, ~SharedTimes, MaxDepth <= 1 \/ MaxCrashes = 0, Typed, NoneLost, [Next]_vars
  PROVE  HandsCovered'
<1> USE DEF NoneLost
<1> SUFFICES ASSUME NEW k \in DOMAIN worker', worker'[k].block # Nil,
                    NEW n, n = worker'[k].block.number
             PROVE  \/ worker'[k].block = chain'[n]
                    \/ n = worker'[k].batch.to /\ Covered(n, n)'
  BY DEF HandsCovered
<1>1. CASE k \in DOMAIN worker /\ WorkerFetch(k)
  <2>1. /\ NextBlock(worker[k].batch) \in 1 .. Len(chain) /\ chain' = chain
        /\ worker'[k].block = chain[NextBlock(worker[k].batch)]
    BY <1>1, FetchGives DEF WorkerFetch
  <2> QED BY <2>1, ChainBlock
<1>2. CASE k \in DOMAIN worker /\ worker'[k] = worker[k]
  <2> DEFINE b == worker[k].batch
  <2>1. /\ b \in InUse /\ n \in 1 .. Len(chain) /\ Len(chain) \in Nat
        /\ n <= b.to /\ b.to <= Len(chain) /\ b.to \in Nat
    BY <1>2, LenProperties DEF Typed, InHand, TypeOK, InUse, BatchesFit, Batches
  <2>2. CASE worker[k].block = chain[n] /\ chain'[n] = chain[n]
    BY <1>2, <2>2
  <2>3. CASE worker[k].block = chain[n] /\ chain'[n] # chain[n]
    <3>1. PICK depth \in 0 .. MaxDepth : NewBranch(depth)
      BY <2>1, <2>3, OnlyBranches
    <3>2. depth \in 0 .. 1
      <4>1. MaxCrashes # 0
        BY <1>2 DEF Restarting
      <4> QED BY <4>1, BoundAssumption
    <3>3. ~(n \in 1 .. Len(chain) - depth)
      BY <2>3, <3>1, BranchReplaces
    <3>4. n = b.to
      BY <2>1, <3>2, <3>3
    <3>5. Covered(n, n)'
      BY <2>1, <2>3, <3>4, LastStays
    <3> QED BY <1>2, <3>4, <3>5
  <2>4. CASE n = b.to /\ Covered(n, n)
    <3>1. Covered(n, n)'
      BY <2>1, <2>4, LastStays
    <3> QED BY <1>2, <2>4, <3>1
  <2> QED BY <1>2, <2>2, <2>3, <2>4 DEF HandsCovered
<1> QED BY <1>1, <1>2, HandsFrom

-----------------------------------------------------------------------------
(* The theorem.                                                            *)

\* A crash is not to meet a reorganisation that replaces two blocks or more: a
\* restart does not look below the last block record, nor does a batch that it
\* resumes look at what it took.
RestartReachesBack == MaxDepth <= 1 \/ MaxCrashes = 0

LEMMA NoneLostInit == Init => NoneLost
<1> SUFFICES ASSUME Init PROVE NoneLost
  OBVIOUS
<1>1. /\ Len(chain) = 0 /\ Len(announced) = 0 /\ announced = <<>> /\ rt.pc = "idle"
      /\ again.pc = "idle" /\ DOMAIN blockDB = {} /\ DOMAIN batchDB = {} /\ DOMAIN worker = {}
      /\ index.pc = "listen"
  BY DEF Init, NoRt, NoRerun, NoWorker, EmptyDB
<1>2. InUse = {}
  BY <1>1 DEF InUse
<1> QED BY <1>1, <1>2 DEF NoneLost, BlocksKnown, AllCovered, ReorgOwnRows, StoredInOrder, Restarting,
                          BatchesFit, HeadersAhead, TakenCovered, HandsCovered

LEMMA NoneLostNext ==
  ASSUME AllFit, ~SharedTimes, RestartReachesBack, Typed, NoneLost, [Next]_vars
  PROVE  NoneLost'
<1>1. MaxDepth <= 1 \/ MaxCrashes = 0
  BY DEF RestartReachesBack
<1>2. BlocksKnown' /\ ReorgOwnRows' /\ (MaxDepth <= 1 => StoredInOrder')
  BY BlocksKnownNext, ReorgOwnRowsNext, StoredInOrderNext DEF NoneLost
<1>3. AllCovered' /\ TakenCovered' /\ HandsCovered'
  BY <1>1, AllCoveredNext, TakenCoveredNext, HandsCoveredNext
<1>4. Restarting' /\ BatchesFit' /\ HeadersAhead'
  <2>1. HeadersAhead'
    BY <1>1, HeadersAheadNext
  <2> QED BY <2>1, RestartingNext, BatchesFitNext DEF NoneLost
<1> QED BY <1>2, <1>3, <1>4 DEF NoneLost

\* When nothing is left to do, whoever had a block to take has taken it.
LEMMA NoneLostMeans ==
  ASSUME Typed, NoneLost
  PROVE  NoLostRow
<1> SUFFICES ASSUME Quiet, NEW n \in 1 .. Len(chain), chain[n].version \notin missed,
                    NEW a \in Addresses, NEW i \in 1 .. chain[n].rows[a]
             PROVE  \E k \in DOMAIN addressDB :
                      k[1] = a /\ RowIn(k, chain[n]) /\ addressDB[k].row = i
  BY DEF NoLostRow
<1>1. ASSUME NEW k \in DOMAIN worker
      PROVE  ~WorkerTakes(k, n)
  <2> DEFINE b == worker[k].batch
  <2>1. b \in Batches /\ b.step = 1
    BY DEF NoneLost, InUse, BatchesFit
  <2>2. IsDone(b)
    BY DEF Quiet
  <2>3. ~Takes(b, n)
    BY <2>1, <2>2 DEF IsDone, Takes, Batches, NoBlock
  <2> QED BY <2>3 DEF WorkerTakes
<1>2. Stored(chain[n])
  <2>1. Len(announced) = 0 /\ rt.pc = "idle" /\ index.pc = "listen"
    BY DEF Quiet
  <2> QED BY <1>1, <2>1 DEF NoneLost, AllCovered, Covered, RestartTakes
<1> DEFINE k == <<a, chain[n].time, i>>
<1>3. k \in DOMAIN addressDB /\ k[1] = a
      /\ addressDB[k] = [number |-> chain[n].number, version |-> chain[n].version, row |-> i]
  BY <1>2 DEF Stored
<1> QED BY <1>3 DEF RowIn

\* For every number of accounts, blocks, crashes and reruns and every order of
\* the writes: after the first sync, when nothing is left to do, every
\* transaction of the chain has its row, as long as a reorganisation replaces one
\* block at a time or nothing crashes.  No reorganisation's deletes and no other
\* block's writes took it away, and a restart brings back what a crash left out.
\* The exceptions are those of NoLostRow: blocks mined between GetLatestBlock and
\* SubscribeNewHead, and the blocks of a catch-up batch, below the last block
\* record, that had recorded nothing before the next crash.
THEOREM NoRowIsLost ==
  ASSUME AllFit, ~SharedTimes, RestartReachesBack
  PROVE  Spec => []NoLostRow
<1>1. Typed /\ NoneLost /\ [Next]_vars => (Typed /\ NoneLost)'
  BY TypedNext, NoneLostNext
<1>2. Typed /\ NoneLost => NoLostRow
  BY NoneLostMeans
<1> QED BY TypedInit, NoneLostInit, <1>1, <1>2, PTL DEF Spec

=============================================================================

------------------------ MODULE IndexRepoReorgProofs ------------------------
(***************************************************************************)
(* No row of a block that left the chain stays, for every depth of a       *)
(* reorganisation and whatever the cleaner takes from the block database,  *)
(* as long as a record outlives the reorganisations of its block.  A rerun *)
(* or a crash may leave one: neither is among the hypotheses' behaviours.  *)
(***************************************************************************)
EXTENDS IndexRepoProofs

\* The indexer listens, and only blocks of newHead are stored.
NoBatches ==
  index.pc = "listen" /\ DOMAIN worker = {} /\ asked = {} /\ again.pc = "idle"

\* k is a row of block b.
RowOf(k, b) == k \in DOMAIN AddressIndex(b) /\ RowIn(k, b)

\* No reorganisation reaches block n any more, and what is known of it is the
\* block of the chain.
Deep(n) ==
  /\ n \in 1 .. Len(chain) /\ n < Len(chain) - MaxDepth
  /\ n \in DOMAIN blockDB => blockDB[n].time = chain[n].version
  /\ rt.pc # "idle" /\ rt.block.number = n => rt.block = chain[n]

\* Each row is one of a block whose record HandleReorg will find, or of the
\* block that is about to get its record, or of a deep block.
RowsKept ==
  \A k \in DOMAIN addressDB : \E b \in Blocks :
    /\ Known(b) /\ RowOf(k, b)
    /\ \/ b.number \in DOMAIN blockDB
          /\ blockDB[b.number] = BlockIndex(b, blockDB[b.number].createdAt)
       \/ rt.pc = "block" /\ rt.block = b
       \/ b.number \notin DOMAIN blockDB /\ Deep(b.number) /\ b = chain[b.number]

\* Once HandleReorg is done, the rows of the number in hand are the block's.
OnlyOwnRows ==
  rt.pc \in {"address", "block"} =>
    \A k \in DOMAIN addressDB : addressDB[k].number = rt.block.number => RowOf(k, rt.block)

\* The cleaner takes records of deep blocks.
CleanedAreDeep == \A n \in cleaner : Deep(n)

\* How much older than the clock, twice, the block h places below the tip can
\* be: a branch that leaves it there has at most h + 1 blocks.
Ages(h) == h * (h + 1)

\* And a block whose successor has been announced but not yet stored, with
\* behind headers announced after that one.
AgesWaiting(behind) == MaxDepth * (MaxDepth - 1) + 2 + 2 * behind

\* The version v of block n, fetched at the time c, is still on the chain.
OnChain(n, v, c) ==
  v = chain[n].version /\ 2 * (mined - c) <= Ages(Len(chain) - n)

\* Another block took its place, and its header waits.
Waits(n, c) ==
  \E p \in 1 .. Len(announced) :
    announced[p] = n /\ 2 * (mined - c) <= AgesWaiting(Len(announced) - p)

InHandTimely ==
  rt.pc # "idle" =>
    LET n == rt.block.number IN
    /\ rt.createdAt <= mined
    /\ OnChain(n, rt.block.version, rt.createdAt) \/ Waits(n, rt.createdAt)

RecordsTimely ==
  \A n \in DOMAIN blockDB :
    LET c == blockDB[n].createdAt IN
    /\ c <= mined
    /\ \/ OnChain(n, blockDB[n].time, c) \/ Waits(n, c)
       \/ /\ rt.pc # "idle" /\ rt.block.number = n
          /\ 2 * (mined - c) <= AgesWaiting(Len(announced))

NoneStale ==
  /\ BlocksKnown /\ ReorgOwnRows /\ NoBatches
  /\ RowsKept /\ OnlyOwnRows /\ CleanedAreDeep
  /\ InHandTimely /\ RecordsTimely

\* No rerun and no crash: what is stored was announced.
OnlyHeaders == MaxReruns = 0 /\ MaxCrashes = 0

\* A record is kept for longer than it takes until its block is deep, or until
\* the headers that wait are read.
RecordsOutlive ==
  /\ 2 * BlockTTL >= Ages(MaxDepth)
  /\ 2 * BlockTTL >= AgesWaiting(MaxLag)

-----------------------------------------------------------------------------
(* Which steps there are, and what stays.                                  *)

LEMMA HeaderSteps ==
  ASSUME Typed, OnlyHeaders, NoBatches, [Next]_vars
  PROVE  /\ \/ \E depth \in 0 .. MaxDepth : NewBranch(depth)
            \/ RtFetch \/ RtReorg \/ RtStoreAddress \/ RtStoreBlock
            \/ CleanScan \/ CleanDelete \/ UNCHANGED vars
         /\ NoBatches'
<1>1. ~IndexBegin /\ ~Launch /\ ~RtSubscribe /\ ~RerunFetch /\ ~RerunStore /\ DOMAIN worker = {}
  BY DEF NoBatches, IndexBegin, Launch, RtSubscribe, RerunFetch, RerunStore
<1>2. ~Rerun /\ ~Crash
  BY DEF OnlyHeaders, Typed, TypeOK, Rerun, Crash
<1>3. \/ \E depth \in 0 .. MaxDepth : NewBranch(depth)
      \/ RtFetch \/ RtReorg \/ RtStoreAddress \/ RtStoreBlock
      \/ CleanScan \/ CleanDelete \/ UNCHANGED vars
  BY <1>1, <1>2 DEF Next, Realtime
<1>4. UNCHANGED <<index, worker, asked, again>>
  BY <1>3 DEF NewBranch, RtFetch, RtReorg, RtStoreAddress, RtStoreBlock, CleanScan, CleanDelete,
              vars, sched
<1> QED BY <1>3, <1>4 DEF NoBatches

\* A deep block stays deep: it is not replaced, and whoever fetches its number
\* fetches this block.
LEMMA DeepStays ==
  ASSUME Typed, OnlyHeaders, NoBatches, BlocksKnown, [Next]_vars, NEW n, Deep(n)
  PROVE  Deep(n)' /\ chain'[n] = chain[n]
<1>1. Len(chain) \in Nat /\ n \in 1 .. Len(chain) /\ MaxDepth \in Nat
  BY LenProperties, BoundAssumption DEF Typed, TypeOK, Deep
<1>2. ASSUME NEW depth \in 0 .. MaxDepth, NewBranch(depth)
      PROVE  Deep(n)' /\ chain'[n] = chain[n]
  <2>1. /\ depth \in 0 .. Len(chain) /\ Len(chain') = Len(chain) + 1
        /\ \A m \in 1 .. Len(chain) - depth : chain'[m] = chain[m]
    BY <1>2, BranchReplaces
  <2>2. n \in 1 .. Len(chain) - depth /\ n \in 1 .. Len(chain') /\ n < Len(chain') - MaxDepth
    BY <1>1, <1>2, <2>1 DEF Deep
  <2>3. UNCHANGED <<blockDB, rt>>
    BY <1>2 DEF NewBranch
  <2> QED BY <2>1, <2>2, <2>3 DEF Deep
<1>3. CASE RtFetch
  BY <1>3, FetchTakesHead DEF RtFetch, Deep
<1>4. CASE RtReorg \/ RtStoreAddress
  BY <1>4 DEF RtReorg, RtStoreAddress, SetRt, Deep, Typed, TypeOK
<1>5. CASE RtStoreBlock
  <2>1. /\ rt.pc = "block" /\ rt'.pc = "idle" /\ chain' = chain
        /\ blockDB' = Put(blockDB, rt.block.number, BlockIndex(rt.block, rt.createdAt))
    BY <1>5 DEF RtStoreBlock, NoRt
  <2>2. BlockIndex(rt.block, rt.createdAt).time = rt.block.time
    BY DEF BlockIndex
  <2>3. chain[n].time = chain[n].version
    BY <1>1 DEF BlocksKnown, Known
  <2> QED BY <2>1, <2>2, <2>3 DEF Deep, Put
<1>6. CASE CleanScan \/ CleanDelete \/ UNCHANGED vars
  BY <1>6 DEF CleanScan, CleanDelete, BatchDelete, vars, Deep
<1> QED BY <1>2, <1>3, <1>4, <1>5, <1>6, HeaderSteps

-----------------------------------------------------------------------------
(* Whose the rows are.                                                     *)

\* HandleReorg, with the record of the block that has number n: no row of n
\* remains, unless its record is gone and it is the block in hand itself.
LEMMA ReorgLeavesOwn ==
  ASSUME AllFit, Typed, RowsKept, RtReorg, rt'.pc = "address",
         NEW k \in DOMAIN addressDB', addressDB'[k].number = rt.block.number
  PROVE  RowOf(k, rt.block)
<1>1. rt.pc = "reorg" /\ k \in DOMAIN addressDB /\ addressDB'[k] = addressDB[k]
  BY DEF RtReorg, BatchDelete
<1>2. PICK b \in Blocks :
        /\ RowOf(k, b)
        /\ \/ b.number \in DOMAIN blockDB
              /\ blockDB[b.number] = BlockIndex(b, blockDB[b.number].createdAt)
           \/ Deep(b.number) /\ b.number \notin DOMAIN blockDB /\ b = chain[b.number]
  BY <1>1 DEF RowsKept
<1>3. b.number = rt.block.number
  BY <1>1, <1>2 DEF RowOf, RowIn
<1>4. CASE b.number \in DOMAIN blockDB /\ blockDB[b.number] = BlockIndex(b, blockDB[b.number].createdAt)
  <2>1. ReorgKeys(blockDB[b.number]) = DOMAIN AddressIndex(b)
    BY <1>4, BlockFits, ReorgDeletesExactly
  <2>2. addressDB' = BatchDelete(addressDB, ReorgKeys(blockDB[b.number]))
    BY <1>3, <1>4 DEF RtReorg, SetRt, Typed, TypeOK
  <2>3. k \notin DOMAIN AddressIndex(b)
    BY <2>1, <2>2 DEF BatchDelete
  <2> QED BY <1>2, <2>3 DEF RowOf
<1>5. CASE Deep(b.number) /\ b = chain[b.number]
  BY <1>1, <1>2, <1>3, <1>5 DEF Deep
<1> QED BY <1>2, <1>4, <1>5

LEMMA OnlyOwnRowsNext ==
  ASSUME AllFit, Typed, OnlyHeaders, NoBatches, BlocksKnown, RowsKept, OnlyOwnRows, [Next]_vars
  PROVE  OnlyOwnRows'
<1>1. CASE RtReorg
  <2> SUFFICES ASSUME rt'.pc = "address", NEW k \in DOMAIN addressDB',
                      addressDB'[k].number = rt'.block.number
               PROVE  RowOf(k, rt.block)'
    BY <1>1 DEF OnlyOwnRows, RtReorg, SetRt, Typed, TypeOK
  <2>1. rt'.block = rt.block /\ k \in DOMAIN addressDB /\ addressDB'[k] = addressDB[k]
    BY <1>1 DEF RtReorg, SetRt, BatchDelete, Typed, TypeOK
  <2>2. RowOf(k, rt.block)
    BY <1>1, <2>1, ReorgLeavesOwn
  <2> QED BY <2>1, <2>2 DEF RowOf, RowIn
<1>2. CASE RtStoreAddress
  <2>1. /\ rt.pc = "address" /\ rt'.block = rt.block
        /\ addressDB' = BatchPut(addressDB, AddressIndex(rt.block))
    BY <1>2 DEF RtStoreAddress, SetRt, Typed, TypeOK
  <2>2. rt.block \in Blocks
    BY <2>1 DEF Typed, InHand
  <2> SUFFICES ASSUME NEW k \in DOMAIN addressDB', addressDB'[k].number = rt.block.number
               PROVE  RowOf(k, rt.block)'
    BY <2>1 DEF OnlyOwnRows
  <2>3. CASE k \in DOMAIN AddressIndex(rt.block)
    BY <2>1, <2>2, <2>3, AddressIndexType DEF RowOf, RowIn, BatchPut
  <2>4. CASE k \notin DOMAIN AddressIndex(rt.block)
    <3>1. k \in DOMAIN addressDB /\ addressDB'[k] = addressDB[k]
      BY <2>1, <2>4 DEF BatchPut
    <3> QED BY <2>1, <3>1 DEF OnlyOwnRows, RowOf, RowIn
  <2> QED BY <2>3, <2>4
<1>3. CASE RtFetch \/ RtStoreBlock
  BY <1>3, FetchTakesHead DEF RtStoreBlock, NoRt, OnlyOwnRows
<1>4. CASE UNCHANGED <<rt, addressDB>>
  BY <1>4 DEF OnlyOwnRows, RowOf, RowIn
<1> QED BY <1>1, <1>2, <1>3, <1>4, HeaderSteps DEF NewBranch, CleanScan, CleanDelete, vars

LEMMA RowsKeptNext ==
  ASSUME AllFit, ~SharedTimes, Typed, OnlyHeaders, NoBatches, BlocksKnown, RowsKept, OnlyOwnRows,
         CleanedAreDeep, [Next]_vars
  PROVE  RowsKept'
<1> DEFINE Kept(k, b) == \/ b.number \in DOMAIN blockDB
                            /\ blockDB[b.number] = BlockIndex(b, blockDB[b.number].createdAt)
                         \/ rt.pc = "block" /\ rt.block = b
                         \/ b.number \notin DOMAIN blockDB /\ Deep(b.number) /\ b = chain[b.number]
<1> SUFFICES ASSUME NEW k \in DOMAIN addressDB'
             PROVE  \E b \in Blocks : Known(b)' /\ RowOf(k, b)' /\ Kept(k, b)'
  BY DEF RowsKept
<1>1. \A b : Known(b) => Known(b)'
  BY KnownStays
<1>2. \A n : Deep(n) => Deep(n)' /\ chain'[n] = chain[n]
  BY DeepStays
<1>3. ASSUME NEW b \in Blocks, Known(b), RowOf(k, b), Kept(k, b), k \in DOMAIN addressDB,
             addressDB'[k] = addressDB[k], blockDB' = blockDB,
             rt.pc = "block" => rt' = rt
      PROVE  Known(b)' /\ RowOf(k, b)' /\ Kept(k, b)'
  <2>1. Known(b)' /\ RowOf(k, b)'
    BY <1>1, <1>3 DEF RowOf, RowIn
  <2>2. Deep(b.number) => Deep(b.number)' /\ chain'[b.number] = chain[b.number]
    BY <1>2
  <2> QED BY <1>3, <2>1, <2>2
<1>4. ASSUME k \in DOMAIN addressDB
      PROVE  \E b \in Blocks : Known(b) /\ RowOf(k, b) /\ Kept(k, b)
  BY <1>4 DEF RowsKept
<1>5. ASSUME NEW depth \in 0 .. MaxDepth, NewBranch(depth)
      PROVE  \E b \in Blocks : Known(b)' /\ RowOf(k, b)' /\ Kept(k, b)'
  <2>1. UNCHANGED <<addressDB, blockDB, rt>>
    BY <1>5 DEF NewBranch
  <2> HIDE DEF Kept
  <2> QED BY <1>3, <1>4, <2>1
<1>6. CASE RtFetch \/ RtReorg
  <2>1. /\ rt.pc # "block" /\ blockDB' = blockDB
        /\ k \in DOMAIN addressDB /\ addressDB'[k] = addressDB[k]
    BY <1>6 DEF RtFetch, RtReorg, BatchDelete
  <2> HIDE DEF Kept
  <2> QED BY <1>3, <1>4, <2>1
<1>7. CASE RtStoreAddress
  <2>1. /\ rt.pc = "address" /\ rt'.pc = "block" /\ rt'.block = rt.block /\ blockDB' = blockDB
        /\ addressDB' = BatchPut(addressDB, AddressIndex(rt.block))
    BY <1>7 DEF RtStoreAddress, SetRt, Typed, TypeOK
  <2>2. CASE k \in DOMAIN AddressIndex(rt.block)
    <3>1. PICK b \in Blocks : b = rt.block /\ Known(b)
      BY <2>1 DEF BlocksKnown, Known
    <3>2. Known(b)'
      BY <1>1, <3>1
    <3>3. RowOf(k, b)'
      BY <2>1, <2>2, <3>1, AddressIndexType DEF RowOf, RowIn, BatchPut
    <3> QED BY <2>1, <3>1, <3>2, <3>3
  <2>3. CASE k \notin DOMAIN AddressIndex(rt.block)
    <3>1. k \in DOMAIN addressDB /\ addressDB'[k] = addressDB[k] /\ rt.pc # "block"
      BY <2>1, <2>3 DEF BatchPut
    <3> HIDE DEF Kept
    <3> QED BY <1>3, <1>4, <2>1, <3>1
  <2> QED BY <2>2, <2>3
<1>8. CASE RtStoreBlock
  <2> DEFINE n == rt.block.number
  <2>1. /\ rt.pc = "block" /\ rt'.pc = "idle" /\ UNCHANGED <<chain, mined, addressDB>>
        /\ blockDB' = Put(blockDB, n, BlockIndex(rt.block, rt.createdAt))
    BY <1>8 DEF RtStoreBlock, NoRt
  <2>2. CASE addressDB[k].number = n
    <3>1. PICK b \in Blocks : b = rt.block /\ Known(b) /\ RowOf(k, b)
      BY <2>1, <2>2 DEF BlocksKnown, Known, OnlyOwnRows
    <3>2. Known(b)' /\ RowOf(k, b)'
      BY <1>1, <2>1, <3>1 DEF RowOf, RowIn
    <3>3. BlockIndex(b, rt.createdAt) = BlockIndex(b, BlockIndex(b, rt.createdAt).createdAt)
      BY DEF BlockIndex
    <3>4. Kept(k, b)'
      BY <2>1, <3>1, <3>3 DEF Put
    <3> QED BY <3>2, <3>4
  <2>3. CASE addressDB[k].number # n
    <3>1. PICK b \in Blocks : Known(b) /\ RowOf(k, b) /\ Kept(k, b)
      BY <1>4, <2>1
    <3>2. b.number # n
      BY <2>3, <3>1 DEF RowOf, RowIn
    <3>3. Known(b)' /\ RowOf(k, b)'
      BY <1>1, <2>1, <3>1 DEF RowOf, RowIn
    <3>4. Deep(b.number) => Deep(b.number)' /\ chain'[b.number] = chain[b.number]
      BY <1>2
    <3>5. Kept(k, b)'
      BY <2>1, <3>1, <3>2, <3>4 DEF Put
    <3> QED BY <3>3, <3>5
  <2> QED BY <2>2, <2>3
<1>9. CASE CleanDelete
  <2>1. blockDB' = BatchDelete(blockDB, cleaner) /\ UNCHANGED <<chain, mined, addressDB, rt>>
    BY <1>9 DEF CleanDelete
  <2>2. PICK b \in Blocks : Known(b) /\ RowOf(k, b) /\ Kept(k, b)
    BY <1>4, <2>1
  <2>3. Known(b)' /\ RowOf(k, b)'
    BY <1>1, <2>1, <2>2 DEF RowOf, RowIn
  <2>4. Deep(b.number) => Deep(b.number)' /\ chain'[b.number] = chain[b.number]
    BY <1>2
  <2>5. CASE b.number \in cleaner /\ b.number \in DOMAIN blockDB
             /\ blockDB[b.number] = BlockIndex(b, blockDB[b.number].createdAt)
    <3>1. Deep(b.number) /\ blockDB[b.number].time = b.time
      BY <2>5 DEF CleanedAreDeep, BlockIndex
    <3>2. b = chain[b.number]
      BY <2>2, <2>5, <3>1 DEF Deep, Known
    <3>3. Kept(k, b)'
      BY <2>1, <2>4, <2>5, <3>1, <3>2 DEF BatchDelete
    <3> QED BY <2>3, <3>3
  <2>6. CASE ~(b.number \in cleaner /\ b.number \in DOMAIN blockDB
               /\ blockDB[b.number] = BlockIndex(b, blockDB[b.number].createdAt))
    <3>1. Kept(k, b)'
      BY <2>1, <2>2, <2>4, <2>6 DEF BatchDelete
    <3> QED BY <2>3, <3>1
  <2> QED BY <2>5, <2>6
<1>10. CASE CleanScan \/ UNCHANGED vars
  <2>1. UNCHANGED <<addressDB, blockDB, rt>>
    BY <1>10 DEF CleanScan, vars
  <2> HIDE DEF Kept
  <2> QED BY <1>3, <1>4, <2>1
<1> HIDE DEF Kept
<1> QED BY <1>5, <1>6, <1>7, <1>8, <1>9, <1>10, HeaderSteps

-----------------------------------------------------------------------------
(* How old a record can be.                                                *)

LEMMA AgesGrow ==
  ASSUME NEW h \in Nat
  PROVE  /\ Ages(h) \in Nat /\ Ages(h + 1) = Ages(h) + 2 * (h + 1)
         /\ \A d \in Nat : h <= d => Ages(h) <= Ages(d)
<1>1. Ages(h) \in Nat /\ Ages(h + 1) = Ages(h) + 2 * (h + 1)
  BY DEF Ages
<1>2. ASSUME NEW d \in Nat, h <= d
      PROVE  Ages(h) <= Ages(d)
  <2>1. PICK g \in Nat : d = h + g
    <3>1. d - h \in Nat /\ d = h + (d - h)
      BY <1>2
    <3> QED BY <3>1
  <2>2. (h + g) * (h + g + 1) = h * (h + 1) + (g * h + (h + g + 1) * g)
    BY <2>1
  <2>3. g * h \in Nat /\ (h + g + 1) * g \in Nat
    BY <2>1
  <2> QED BY <1>1, <2>1, <2>2, <2>3 DEF Ages
<1> QED BY <1>1, <1>2

LEMMA AgesWaitingGrow ==
  ASSUME NEW m \in Nat
  PROVE  /\ AgesWaiting(m) \in Nat
         /\ \A k \in Nat : AgesWaiting(k) = AgesWaiting(m) + 2 * (k - m)
<1>1. MaxDepth * (MaxDepth - 1) \in Nat
  <2>1. MaxDepth \in Nat
    BY BoundAssumption
  <2>2. CASE MaxDepth = 0
    BY <2>2
  <2>3. CASE MaxDepth # 0
    <3>1. MaxDepth - 1 \in Nat
      BY <2>1, <2>3
    <3> QED BY <2>1, <3>1
  <2> QED BY <2>2, <2>3
<1> DEFINE x == MaxDepth * (MaxDepth - 1)
<1> HIDE DEF x
<1>2. x \in Nat /\ \A n : AgesWaiting(n) = x + 2 + 2 * n
  BY <1>1 DEF x, AgesWaiting
<1> QED BY <1>2

\* The step of a branch that replaces the block h places below the tip.
LEMMA AgesReplaced ==
  ASSUME NEW depth \in 0 .. MaxDepth, NEW h \in Nat, h < depth
  PROVE  Ages(h) + 2 * (depth + 1) <= AgesWaiting(h + 1)
<1>1. MaxDepth \in Nat /\ depth \in Nat /\ depth <= MaxDepth
  BY BoundAssumption
<1>2. PICK g \in Nat : MaxDepth = h + 1 + g
  <2>1. MaxDepth - (h + 1) \in Nat /\ MaxDepth = h + 1 + (MaxDepth - (h + 1))
    BY <1>1
  <2> QED BY <2>1
<1>3. MaxDepth * (MaxDepth - 1) = (h + 1 + g) * (h + g)
  BY <1>2
<1>4. (h + 1 + g) * (h + g) = h * (h + 1) + (2 * (g * h) + g * g + g)
  BY <1>2
<1>5. g * h \in Nat /\ g * g \in Nat /\ g <= g * g
  <2>1. CASE g = 0
    BY <2>1
  <2>2. CASE g # 0
    <3>1. PICK f \in Nat : g = f + 1
      <4>1. g - 1 \in Nat /\ g = (g - 1) + 1
        BY <2>2
      <4> QED BY <4>1
    <3>2. g * g = g * f + g /\ g * f \in Nat
      BY <3>1
    <3> QED BY <3>2
  <2> QED BY <2>1, <2>2
<1>6. ASSUME NEW x \in Nat, NEW y \in Nat, NEW z \in Nat, g <= z
      PROVE  x + 2 * (depth + 1) <= x + (2 * y + z + g) + 2 + 2 * (h + 1)
  BY <1>1, <1>2, <1>6
<1>7. h * (h + 1) \in Nat
  OBVIOUS
<1>8. h * (h + 1) + 2 * (depth + 1)
        <= h * (h + 1) + (2 * (g * h) + g * g + g) + 2 + 2 * (h + 1)
  BY <1>5, <1>6, <1>7
<1> QED BY <1>3, <1>4, <1>8 DEF Ages, AgesWaiting

\* A new branch either leaves a version on the chain or announces another one;
\* what waited goes on waiting.
LEMMA TimelyByBranch ==
  ASSUME Typed, index.pc = "listen", NEW depth \in 0 .. MaxDepth, NewBranch(depth),
         NEW n \in 1 .. Len(chain), NEW v, NEW c \in Nat, c <= mined,
         OnChain(n, v, c) \/ Waits(n, c)
  PROVE  OnChain(n, v, c)' \/ Waits(n, c)'
<1> DEFINE fork == Len(chain) - depth
           h == Len(chain) - n
<1>1. /\ Len(chain) \in Nat /\ depth \in 0 .. Len(chain) /\ Len(chain') = Len(chain) + 1
      /\ \A m \in 1 .. fork : chain'[m] = chain[m]
  BY BranchReplaces
<1>2. /\ Len(announced) \in Nat /\ Len(announced') = Len(announced) + depth + 1
      /\ \A p \in 1 .. Len(announced) : announced'[p] = announced[p]
      /\ \A p \in Len(announced) + 1 .. Len(announced') :
           announced'[p] = fork + (p - Len(announced))
  BY BranchAnnounced
<1>3. /\ mined \in Nat /\ mined' = mined + depth + 1 /\ depth \in Nat
      /\ 2 * (mined' - c) = 2 * (mined - c) + 2 * (depth + 1)
  BY BoundAssumption DEF Typed, TypeOK, NewBranch
<1>4. h \in Nat /\ Ages(h) \in Nat /\ Ages(h + 1) = Ages(h) + 2 * (h + 1)
  <2>1. h \in Nat
    BY <1>1
  <2> QED BY <2>1, AgesGrow
<1>5. ASSUME Waits(n, c)
      PROVE  Waits(n, c)'
  <2>1. PICK p \in 1 .. Len(announced) :
          announced[p] = n /\ 2 * (mined - c) <= AgesWaiting(Len(announced) - p)
    BY <1>5 DEF Waits
  <2>2. p \in 1 .. Len(announced') /\ announced'[p] = n
    BY <1>1, <1>2, <2>1
  <2> DEFINE behind == Len(announced) - p
  <2>3. behind \in Nat /\ Len(announced') - p = behind + (depth + 1)
    BY <1>2, <1>3, <2>1
  <2>4. AgesWaiting(behind) \in Nat
        /\ AgesWaiting(behind + (depth + 1)) = AgesWaiting(behind) + 2 * (depth + 1)
    <3> HIDE DEF behind
    <3>1. behind + (depth + 1) \in Nat /\ (behind + (depth + 1)) - behind = depth + 1
      BY <1>3, <2>3
    <3> QED BY <2>3, <3>1, AgesWaitingGrow
  <2>5. 2 * (mined' - c) <= AgesWaiting(behind + (depth + 1))
    BY <1>3, <2>1, <2>4
  <2> QED BY <2>2, <2>3, <2>5 DEF Waits, AgesWaiting
<1>6. ASSUME OnChain(n, v, c), n \in 1 .. fork
      PROVE  OnChain(n, v, c)'
  <2>1. v = chain'[n].version /\ 2 * (mined - c) <= Ages(h)
    BY <1>1, <1>6 DEF OnChain
  <2>2. depth <= h /\ Len(chain') - n = h + 1
    BY <1>1, <1>6
  <2>3. 2 * (mined' - c) <= Ages(h + 1)
    BY <1>3, <1>4, <2>1, <2>2
  <2> QED BY <2>1, <2>2, <2>3 DEF OnChain, Ages
<1>7. ASSUME OnChain(n, v, c), n \in fork + 1 .. Len(chain)
      PROVE  Waits(n, c)'
  <2> DEFINE p == Len(announced) + (n - fork)
  <2>1. p \in Len(announced) + 1 .. Len(announced') /\ announced'[p] = n
    <3>1. p \in Len(announced) + 1 .. Len(announced') /\ p - Len(announced) = n - fork
      BY <1>1, <1>2, <1>7
    <3> QED BY <1>1, <1>2, <1>7, <3>1
  <2>2. h < depth /\ Len(announced') - p = h + 1
    BY <1>1, <1>2, <1>7
  <2>3. Ages(h) + 2 * (depth + 1) <= AgesWaiting(h + 1) /\ AgesWaiting(h + 1) \in Nat
    BY <1>4, <2>2, AgesReplaced, AgesWaitingGrow
  <2>4. 2 * (mined - c) <= Ages(h)
    BY <1>7 DEF OnChain
  <2>5. 2 * (mined' - c) <= AgesWaiting(h + 1)
    BY <1>3, <1>4, <2>3, <2>4
  <2>6. p \in 1 .. Len(announced')
    BY <1>2, <2>1
  <2> QED BY <2>1, <2>2, <2>5, <2>6 DEF Waits, AgesWaiting
<1>8. n \in 1 .. fork \/ n \in fork + 1 .. Len(chain)
  BY <1>1
<1> QED BY <1>5, <1>6, <1>7, <1>8

\* The header of n that is read was the one that waited, or it is another one
\* and the one that waited moves up.
LEMMA TimelyByFetch ==
  ASSUME Typed, RtFetch, NEW n, NEW v, NEW c \in Nat, c <= mined,
         OnChain(n, v, c) \/ Waits(n, c)
  PROVE  \/ OnChain(n, v, c)' \/ Waits(n, c)'
         \/ /\ rt'.pc # "idle" /\ rt'.block.number = n
            /\ 2 * (mined' - c) <= AgesWaiting(Len(announced'))
<1>1. /\ Len(announced) \in Nat \ {0} /\ Len(announced') = Len(announced) - 1
      /\ \A p \in 1 .. Len(announced') : announced'[p] = announced[p + 1]
      /\ rt'.pc = "reorg" /\ rt'.block.number = announced[1]
  <2>1. /\ Len(announced) \in Nat \ {0} /\ Len(announced') = Len(announced) - 1
        /\ \A p \in 1 .. Len(announced') : announced'[p] = announced[p + 1]
        /\ rt' = [pc |-> "reorg", block |-> chain[announced[1]], createdAt |-> mined]
        /\ chain[announced[1]].number = announced[1]
    BY FetchTakesHead
  <2> QED BY <2>1
<1>2. UNCHANGED <<chain, mined>>
  BY DEF RtFetch
<1>3. CASE OnChain(n, v, c)
  BY <1>2, <1>3 DEF OnChain
<1>4. ASSUME NEW p \in 1 .. Len(announced), announced[p] = n,
             2 * (mined - c) <= AgesWaiting(Len(announced) - p)
      PROVE  \/ Waits(n, c)'
             \/ rt'.block.number = n /\ 2 * (mined' - c) <= AgesWaiting(Len(announced'))
  <2>1. CASE p = 1
    BY <1>1, <1>2, <1>4, <2>1
  <2>2. CASE p # 1
    <3>1. p - 1 \in 1 .. Len(announced') /\ (p - 1) + 1 = p
      BY <1>1, <2>2
    <3>2. announced'[p - 1] = n
      BY <1>1, <1>4, <3>1
    <3>3. Len(announced') - (p - 1) = Len(announced) - p
      BY <1>1
    <3> QED BY <1>2, <1>4, <3>1, <3>2, <3>3 DEF Waits, AgesWaiting
  <2> QED BY <2>1, <2>2
<1> QED BY <1>1, <1>3, <1>4 DEF Waits

LEMMA InHandTimelyNext ==
  ASSUME Typed, OnlyHeaders, NoBatches, InHandTimely, [Next]_vars
  PROVE  InHandTimely'
<1>1. ASSUME NEW depth \in 0 .. MaxDepth, NewBranch(depth)
      PROVE  InHandTimely'
  <2> SUFFICES ASSUME rt.pc # "idle"
               PROVE  LET n == rt.block.number IN
                      /\ rt.createdAt <= mined'
                      /\ OnChain(n, rt.block.version, rt.createdAt)' \/ Waits(n, rt.createdAt)'
    BY <1>1 DEF InHandTimely, NewBranch
  <2>0. rt' = rt /\ mined \in Nat /\ mined' = mined + depth + 1
    BY <1>1 DEF NewBranch, Typed, TypeOK
  <2>1. PICK n, v, c : n = rt.block.number /\ v = rt.block.version /\ c = rt.createdAt
    OBVIOUS
  <2>2. /\ n \in 1 .. Len(chain) /\ c \in Nat /\ c <= mined
        /\ OnChain(n, v, c) \/ Waits(n, c)
    BY <2>1 DEF InHandTimely, Typed, TypeOK, InHand
  <2>3. OnChain(n, v, c)' \/ Waits(n, c)'
    BY <1>1, <2>2, TimelyByBranch DEF NoBatches
  <2> QED BY <2>0, <2>1, <2>2, <2>3
<1>2. CASE RtFetch
  <2>1. /\ announced[1] \in 1 .. Len(chain)
        /\ rt' = [pc |-> "reorg", block |-> chain[announced[1]], createdAt |-> mined]
        /\ chain[announced[1]].number = announced[1] /\ UNCHANGED <<chain, mined>>
    BY <1>2, FetchTakesHead DEF RtFetch
  <2>2. mined \in Nat /\ 2 * (mined - mined) <= Ages(Len(chain) - announced[1])
    <3>1. mined \in Nat /\ Len(chain) - announced[1] \in Nat
      BY <2>1, LenProperties DEF Typed, TypeOK
    <3>2. Ages(Len(chain) - announced[1]) \in Nat
      BY <3>1, AgesGrow
    <3> QED BY <3>1, <3>2
  <2> QED BY <2>1, <2>2 DEF InHandTimely, OnChain, Ages
<1>3. CASE RtReorg \/ RtStoreAddress
  BY <1>3 DEF RtReorg, RtStoreAddress, SetRt, InHandTimely, OnChain, Waits, Ages, AgesWaiting, Typed, TypeOK
<1>4. CASE RtStoreBlock
  BY <1>4 DEF RtStoreBlock, NoRt, InHandTimely
<1>5. CASE CleanScan \/ CleanDelete \/ UNCHANGED vars
  BY <1>5 DEF CleanScan, CleanDelete, vars, InHandTimely, OnChain, Waits, Ages, AgesWaiting
<1> QED BY <1>1, <1>2, <1>3, <1>4, <1>5, HeaderSteps

LEMMA RecordsTimelyNext ==
  ASSUME Typed, OnlyHeaders, NoBatches, BlocksKnown, InHandTimely, RecordsTimely, [Next]_vars
  PROVE  RecordsTimely'
<1> DEFINE Held(n, c) == /\ rt.pc # "idle" /\ rt.block.number = n
                         /\ 2 * (mined - c) <= AgesWaiting(Len(announced))
           Timely(n, v, c) == c <= mined /\ (OnChain(n, v, c) \/ Waits(n, c) \/ Held(n, c))
<1> SUFFICES ASSUME NEW n \in DOMAIN blockDB'
             PROVE  Timely(n, blockDB[n].time, blockDB[n].createdAt)'
  BY DEF RecordsTimely
<1> DEFINE v == blockDB[n].time
           c == blockDB[n].createdAt
<1>0. mined \in Nat /\ MaxDepth \in Nat
  BY BoundAssumption DEF Typed, TypeOK
<1>1. ASSUME n \in DOMAIN blockDB
      PROVE  n \in 1 .. Len(chain) /\ c \in Nat /\ Timely(n, v, c)
  BY <1>1 DEF RecordsTimely, Typed, TypeOK
<1>2. ASSUME NEW depth \in 0 .. MaxDepth, NewBranch(depth)
      PROVE  Timely(n, v, c)'
  <2>1. UNCHANGED <<blockDB, rt>> /\ mined' = mined + depth + 1
    BY <1>2 DEF NewBranch
  <2>2. PICK w, t : w = v /\ t = c
    OBVIOUS
  <2>3. n \in 1 .. Len(chain) /\ t \in Nat /\ Timely(n, w, t)
    BY <1>1, <2>1, <2>2
  <2>4. OnChain(n, w, t) \/ Waits(n, t) => OnChain(n, w, t)' \/ Waits(n, t)'
    BY <1>2, <2>3, TimelyByBranch DEF NoBatches
  <2>5. Held(n, t) => Held(n, t)'
    <3>1. /\ Len(announced) \in Nat /\ depth \in Nat
          /\ Len(announced') = Len(announced) + (depth + 1)
      BY <1>0, <1>2, BranchAnnounced DEF NoBatches
    <3>2. /\ AgesWaiting(Len(announced)) \in Nat
          /\ AgesWaiting(Len(announced')) = AgesWaiting(Len(announced)) + 2 * (depth + 1)
      <4>1. Len(announced') \in Nat /\ Len(announced') - Len(announced) = depth + 1
        BY <3>1
      <4> QED BY <3>1, <4>1, AgesWaitingGrow
    <3>3. 2 * (mined' - t) = 2 * (mined - t) + 2 * (depth + 1)
      BY <1>0, <2>1, <2>3, <3>1
    <3>4. 2 * (mined - t) \in Int /\ 2 * (depth + 1) \in Int
      BY <1>0, <2>3, <3>1
    <3>5. 2 * (mined - t) <= AgesWaiting(Len(announced))
            => 2 * (mined' - t) <= AgesWaiting(Len(announced'))
      BY <3>2, <3>3, <3>4
    <3> QED BY <2>1, <3>5 DEF AgesWaiting
  <2>6. t <= mined'
    BY <1>0, <2>1, <2>3
  <2>7. Timely(n, w, t)'
    BY <2>3, <2>4, <2>5, <2>6
  <2> QED BY <2>1, <2>2, <2>7
<1>3. CASE RtFetch
  <2>1. UNCHANGED <<blockDB, mined>> /\ rt.pc = "idle"
    BY <1>3 DEF RtFetch
  <2>2. PICK w, t : w = v /\ t = c
    OBVIOUS
  <2>3. t \in Nat /\ Timely(n, w, t) /\ ~Held(n, t)
    BY <1>1, <2>1, <2>2
  <2>4. OnChain(n, w, t)' \/ Waits(n, t)' \/ Held(n, t)'
    BY <1>3, <2>3, TimelyByFetch
  <2>5. Timely(n, w, t)'
    BY <2>1, <2>3, <2>4
  <2> QED BY <2>1, <2>2, <2>5
<1>4. CASE RtReorg \/ RtStoreAddress
  <2>1. /\ rt.pc # "idle" /\ rt'.pc # "idle" /\ rt'.block = rt.block
        /\ UNCHANGED <<chain, mined, announced, blockDB>>
    BY <1>4 DEF RtReorg, RtStoreAddress, SetRt, Typed, TypeOK
  <2> QED BY <1>1, <2>1 DEF OnChain, Waits
<1>5. CASE RtStoreBlock
  <2>1. /\ rt.pc = "block" /\ rt'.pc = "idle" /\ UNCHANGED <<chain, mined, announced>>
        /\ blockDB' = Put(blockDB, rt.block.number, BlockIndex(rt.block, rt.createdAt))
    BY <1>5 DEF RtStoreBlock, NoRt
  <2>2. CASE n = rt.block.number
    <3>1. blockDB'[n] = BlockIndex(rt.block, rt.createdAt)
      BY <2>1, <2>2 DEF Put
    <3>2. blockDB'[n].time = rt.block.version /\ blockDB'[n].createdAt = rt.createdAt
      BY <2>1, <3>1 DEF BlockIndex, BlocksKnown, Known
    <3>3. rt.createdAt <= mined
          /\ (OnChain(n, rt.block.version, rt.createdAt) \/ Waits(n, rt.createdAt))
      BY <2>1, <2>2 DEF InHandTimely
    <3> QED BY <2>1, <3>2, <3>3 DEF OnChain, Waits
  <2>3. CASE n # rt.block.number
    <3>1. n \in DOMAIN blockDB /\ blockDB'[n] = blockDB[n]
      BY <2>1, <2>3 DEF Put
    <3>2. Timely(n, v, c) /\ ~Held(n, c)
      BY <1>1, <2>3, <3>1
    <3> QED BY <2>1, <3>1, <3>2 DEF OnChain, Waits
  <2> QED BY <2>2, <2>3
<1>6. CASE CleanScan \/ CleanDelete \/ UNCHANGED vars
  <2>1. /\ n \in DOMAIN blockDB /\ blockDB'[n] = blockDB[n]
        /\ UNCHANGED <<chain, mined, announced, rt>>
    BY <1>6 DEF CleanScan, CleanDelete, BatchDelete, vars
  <2> QED BY <1>1, <2>1 DEF OnChain, Waits
<1> HIDE DEF Timely
<1> QED BY <1>2, <1>3, <1>4, <1>5, <1>6, HeaderSteps

\* What the cleaner lists is older than any record of a block that may change.
LEMMA CleanedAreDeepNext ==
  ASSUME Typed, OnlyHeaders, RecordsOutlive, NoBatches, BlocksKnown, ReorgOwnRows, RecordsTimely,
         CleanedAreDeep, [Next]_vars
  PROVE  CleanedAreDeep'
<1> SUFFICES ASSUME NEW n \in cleaner'
             PROVE  Deep(n)'
  BY DEF CleanedAreDeep
<1>1. CASE n \in cleaner
  BY <1>1, DeepStays DEF CleanedAreDeep
<1>2. CASE CleanScan
  <2> DEFINE c == blockDB[n].createdAt
  <2>1. PICK last \in DOMAIN blockDB : n \in OldBlocks(blockDB[last].createdAt - BlockTTL)
    BY <1>2 DEF CleanScan, LastKeys
  <2>2. n \in DOMAIN blockDB /\ c < blockDB[last].createdAt - BlockTTL
    BY <2>1 DEF OldBlocks
  <2>3. /\ n \in 1 .. Len(chain) /\ c \in Nat /\ blockDB[last].createdAt \in Nat
        /\ blockDB[last].createdAt <= mined /\ mined \in Nat
    BY <2>1, <2>2 DEF Typed, TypeOK, RecordsTimely
  <2>4. /\ BlockTTL \in Nat /\ MaxLag \in Nat /\ MaxDepth \in Nat
        /\ Len(announced) \in Nat /\ Len(announced) <= MaxLag /\ Len(chain) \in Nat
    BY BoundAssumption, LenProperties DEF Typed, TypeOK
  <2>5. 2 * (mined - c) > 2 * BlockTTL
    BY <2>2, <2>3, <2>4
  <2>6. ASSUME NEW behind \in 0 .. MaxLag
        PROVE  ~(2 * (mined - c) <= AgesWaiting(behind))
    <3>1. MaxLag - behind \in Nat /\ behind \in Nat
      BY <2>4
    <3>2. /\ AgesWaiting(behind) \in Nat
          /\ AgesWaiting(MaxLag) = AgesWaiting(behind) + 2 * (MaxLag - behind)
      BY <2>4, <3>1, AgesWaitingGrow
    <3>3. AgesWaiting(behind) <= AgesWaiting(MaxLag)
      BY <3>1, <3>2
    <3>4. AgesWaiting(MaxLag) \in Nat /\ 2 * BlockTTL >= AgesWaiting(MaxLag)
      BY <2>4, AgesWaitingGrow DEF RecordsOutlive
    <3>5. AgesWaiting(behind) <= 2 * BlockTTL
      BY <2>4, <3>2, <3>3, <3>4
    <3> HIDE DEF c
    <3> QED BY <2>3, <2>4, <2>5, <3>2, <3>5
  <2>7. ~Waits(n, c) /\ ~(2 * (mined - c) <= AgesWaiting(Len(announced)))
    <3>1. \A p \in 1 .. Len(announced) : Len(announced) - p \in 0 .. MaxLag
      BY <2>4
    <3> QED BY <2>4, <2>6, <3>1 DEF Waits
  <2>8. OnChain(n, blockDB[n].time, c)
    BY <2>2, <2>7 DEF RecordsTimely
  <2>9. n < Len(chain) - MaxDepth
    <3> SUFFICES ASSUME ~(n < Len(chain) - MaxDepth)
                 PROVE  FALSE
      OBVIOUS
    <3> DEFINE h == Len(chain) - n
    <3>1. h \in Nat /\ h <= MaxDepth
      BY <2>3, <2>4
    <3>2. 2 * (mined - c) <= Ages(h)
      BY <2>8 DEF OnChain
    <3>3. Ages(h) \in Nat /\ Ages(h) <= Ages(MaxDepth) /\ Ages(MaxDepth) \in Nat
      BY <2>4, <3>1, AgesGrow
    <3>4. 2 * BlockTTL >= Ages(MaxDepth)
      BY DEF RecordsOutlive
    <3>5. Ages(h) <= 2 * BlockTTL
      BY <2>4, <3>3, <3>4
    <3> HIDE DEF c, h
    <3> QED BY <2>3, <2>4, <2>5, <3>2, <3>3, <3>5
  <2>10. blockDB[n].time = chain[n].version
    BY <2>8 DEF OnChain
  <2>11. UNCHANGED <<chain, blockDB, rt>>
    BY <1>2 DEF CleanScan
  <2> QED BY <2>2, <2>3, <2>9, <2>10, <2>11 DEF Deep, ReorgOwnRows
<1>3. CASE n \notin cleaner /\ ~CleanScan
  BY <1>3, HeaderSteps DEF NewBranch, RtFetch, RtReorg, RtStoreAddress, RtStoreBlock, CleanDelete, vars
<1> QED BY <1>1, <1>2, <1>3

-----------------------------------------------------------------------------
(* The theorems.                                                           *)

LEMMA NoneStaleInit == Init => NoneStale
<1> SUFFICES ASSUME Init PROVE NoneStale
  OBVIOUS
<1>1. /\ Len(chain) = 0 /\ rt.pc = "idle" /\ again.pc = "idle" /\ DOMAIN worker = {}
      /\ DOMAIN blockDB = {} /\ DOMAIN addressDB = {} /\ cleaner = {} /\ asked = {}
      /\ index.pc = "listen"
  BY DEF Init, NoRt, NoRerun, NoWorker, EmptyDB
<1> QED BY <1>1 DEF NoneStale, BlocksKnown, ReorgOwnRows, NoBatches, RowsKept, OnlyOwnRows,
                    CleanedAreDeep, InHandTimely, RecordsTimely

LEMMA NoneStaleNext ==
  ASSUME AllFit, ~SharedTimes, OnlyHeaders, RecordsOutlive, Typed, NoneStale, [Next]_vars
  PROVE  NoneStale'
<1> USE DEF NoneStale
<1>1. BlocksKnown' /\ ReorgOwnRows'
  BY BlocksKnownNext, ReorgOwnRowsNext
<1>2. NoBatches'
  BY HeaderSteps
<1>3. RowsKept' /\ OnlyOwnRows'
  BY RowsKeptNext, OnlyOwnRowsNext
<1>4. CleanedAreDeep'
  BY CleanedAreDeepNext
<1>5. InHandTimely' /\ RecordsTimely'
  BY InHandTimelyNext, RecordsTimelyNext
<1> QED BY <1>1, <1>2, <1>3, <1>4, <1>5

LEMMA NoneStaleAlways ==
  ASSUME AllFit, ~SharedTimes, OnlyHeaders, RecordsOutlive
  PROVE  Spec => [](Typed /\ NoneStale)
<1>1. Typed /\ NoneStale /\ [Next]_vars => (Typed /\ NoneStale)'
  BY TypedNext, NoneStaleNext
<1> QED BY TypedInit, NoneStaleInit, <1>1, PTL DEF Spec

LEMMA NoneStaleMeansNamed ==
  ASSUME AllFit, NoneStale
  PROVE  RowsNamed
<1> SUFFICES ASSUME NEW k \in DOMAIN addressDB
             PROVE  LET n == addressDB[k].number IN
                    \/ n \in DOMAIN blockDB /\ k \in ReorgKeys(blockDB[n])
                    \/ rt.pc = "block" /\ rt.block.number = n
                    \/ n \notin DOMAIN blockDB /\ n < Len(chain) - MaxDepth
  BY DEF RowsNamed
<1>1. PICK b \in Blocks :
        /\ RowOf(k, b)
        /\ \/ b.number \in DOMAIN blockDB
              /\ blockDB[b.number] = BlockIndex(b, blockDB[b.number].createdAt)
           \/ rt.pc = "block" /\ rt.block = b
           \/ b.number \notin DOMAIN blockDB /\ Deep(b.number)
  BY DEF NoneStale, RowsKept
<1>2. addressDB[k].number = b.number
  BY <1>1 DEF RowOf, RowIn
<1>3. CASE b.number \in DOMAIN blockDB
           /\ blockDB[b.number] = BlockIndex(b, blockDB[b.number].createdAt)
  <2>1. ReorgKeys(blockDB[b.number]) = DOMAIN AddressIndex(b)
    BY <1>3, BlockFits, ReorgDeletesExactly
  <2> QED BY <1>1, <1>2, <1>3, <2>1 DEF RowOf
<1> QED BY <1>1, <1>2, <1>3 DEF Deep

LEMMA NoneStaleMeansCurrent ==
  ASSUME NoneStale
  PROVE  NoStaleRow
<1> SUFFICES ASSUME Quiet, NEW k \in DOMAIN addressDB
             PROVE  \E n \in 1 .. Len(chain) : RowIn(k, chain[n])
  BY DEF NoStaleRow
<1>1. rt.pc = "idle" /\ Len(announced) = 0
  BY DEF Quiet
<1>2. PICK b \in Blocks :
        /\ Known(b) /\ RowOf(k, b)
        /\ \/ b.number \in DOMAIN blockDB
              /\ blockDB[b.number] = BlockIndex(b, blockDB[b.number].createdAt)
           \/ b = chain[b.number]
  BY <1>1 DEF NoneStale, RowsKept
<1>3. b.number \in 1 .. Len(chain)
  BY <1>2 DEF Known
<1>4. b = chain[b.number]
  <2>1. CASE b.number \in DOMAIN blockDB
             /\ blockDB[b.number] = BlockIndex(b, blockDB[b.number].createdAt)
    <3>1. blockDB[b.number].time = b.time
      BY <2>1 DEF BlockIndex
    <3>2. blockDB[b.number].time = chain[b.number].version
      BY <1>1, <2>1 DEF NoneStale, RecordsTimely, OnChain, Waits
    <3> QED BY <1>2, <1>3, <3>1, <3>2 DEF Known
  <2> QED BY <1>2, <2>1
<1> QED BY <1>2, <1>3, <1>4 DEF RowOf

\* For every depth of a reorganisation and any number of headers that wait: a
\* row can be found again by HandleReorg until no reorganisation reaches its
\* block, also while the cleaner deletes the records of old blocks.
THEOREM RowsAreNamed ==
  ASSUME AllFit, ~SharedTimes, OnlyHeaders, RecordsOutlive
  PROVE  Spec => []RowsNamed
<1>1. Typed /\ NoneStale => RowsNamed
  BY NoneStaleMeansNamed
<1> QED BY NoneStaleAlways, <1>1, PTL

\* And when nothing is left to do, no row is there of a block that left the
\* chain: HandleReorg has deleted all of them, in whichever order the branches
\* were announced and the cleaner came by.
THEOREM NoRowIsStale ==
  ASSUME AllFit, ~SharedTimes, OnlyHeaders, RecordsOutlive
  PROVE  Spec => []NoStaleRow
<1>1. Typed /\ NoneStale => NoStaleRow
  BY NoneStaleMeansCurrent
<1> QED BY NoneStaleAlways, <1>1, PTL
=============================================================================

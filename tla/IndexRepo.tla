----------------------------- MODULE IndexRepo -----------------------------
(***************************************************************************)
(* What is stored of a block, and what a reorganisation of the chain does  *)
(* to it (repository/keyvalue/index_repo.go, with CreateIndexData of       *)
(* indexer/indexer.go and the cleaner of watcher/clean_block_db.go).       *)
(*   - The address database has one row per transaction of an address,     *)
(*     under the key address, block time, sequence.                        *)
(*   - The block database keeps, for each block received from newHead, its *)
(*     time and the addresses it has rows for, so that the rows can be     *)
(*     found again when another block of the same number comes.            *)
(* One goroutine stores the announced blocks, others the blocks of the     *)
(* batches and of the rerun API, which never look at the block database.   *)
(*                                                                         *)
(* The first sync is done before a behaviour begins: of the chain up to    *)
(* genesis, with all its batches recorded as done.  What a crash in the    *)
(* first sync loses is the subject of Indexer.  A restart here asks for    *)
(* the latest block, resumes the catch-up batches it finds or makes one,   *)
(* and subscribes, in three steps, while the node goes on.                 *)
(***************************************************************************)
EXTENDS BatchRepo, BlockKey, Sequences, FiniteSets

CONSTANTS
  Addresses,   \* the accounts
  Shapes,      \* how many rows a block may have for each address
  SeqModulus,  \* 2^8: the sequence of a row is a uint8
  MaxDepth,    \* how many blocks a reorganisation may replace
  SharedTimes, \* may two versions of the chain have blocks of the same time?
  BlockTTL,    \* config.BlockTTL, in the unit of mined
  MaxLag,      \* how many announced headers may wait
  MaxMined,    \* bound: blocks ever mined
  MaxReruns,   \* bound: calls of the rerun API
  MaxCrashes   \* bound: crashes of the process

ASSUME ShapesAssumption == Shapes \subseteq [Addresses -> Nat]
ASSUME SeqAssumption    == SeqModulus \in Nat \ {0, 1}
ASSUME TimesAssumption  == SharedTimes \in BOOLEAN
ASSUME BoundAssumption  ==
  {MaxDepth, BlockTTL, MaxLag, MaxMined, MaxReruns, MaxCrashes} \subseteq Nat

VARIABLES
  chain,      \* the node's chain; block n is chain[n]
  mined,      \* blocks mined so far, on every branch; also the clock
  announced,  \* the block numbers in the newHead channel
  addressDB,  \* address database
  blockDB,    \* block database
  batchDB,    \* batch status database, of the catch-up batches
  index,      \* the goroutine of index(): its pc, and latestBlock
  worker,     \* the batch goroutines: key found or made -> batch and block
  missed,     \* history: the versions of the blocks nobody was told of
  rt,         \* realtime goroutine: its pc, the block and its CreatedAt
  again,      \* rerun goroutine: its pc and the block
  asked,      \* the blocks the rerun API still has to take
  cleaner,    \* the keys the cleaner is about to delete
  reruns,     \* calls of the rerun API so far
  crashes     \* crashes so far

\* What index() and its batch goroutines are about.
sched == <<batchDB, index, worker, missed>>

vars == <<chain, mined, announced, addressDB, blockDB, sched, rt, again, asked,
          cleaner, reruns, crashes>>

\* A version of a block: version tells it from all others.
Blocks == [number : Nat \ {0}, version : Nat \ {0}, time : Nat \ {0}, rows : Shapes]

\* No block: what a goroutine that has nothing to do holds.
Nil == [number |-> 0]

NoRerun  == [pc |-> "idle", block |-> Nil]
NoRt     == [pc |-> "idle", block |-> Nil, createdAt |-> 0]
NoWorker == [k \in {} |-> k]

-----------------------------------------------------------------------------
(* CreateIndexData and HandleReorg.                                        *)

\* Mutant of Sequence: every row of an address has the same sequence.
SequenceOne(i) == 1

\* sequenceMap[a]++ on a uint8, for the i-th row of an address.
Sequence(i) == i % SeqModulus

\* SaveAddressIndex's records of block b: of the rows with the same key the
\* last one is kept.  A row is known by its block and its place in it.
AddressIndex(b) ==
  LET keys == UNION {{<<a, b.time, Sequence(i)>> : i \in 1 .. b.rows[a]} : a \in Addresses}
      Last(k) == CHOOSE i \in 1 .. b.rows[k[1]] :
                   /\ Sequence(i) = k[3]
                   /\ \A j \in i + 1 .. b.rows[k[1]] : Sequence(j) # k[3]
  IN  [k \in keys |-> [number |-> b.number, version |-> b.version, row |-> Last(k)]]

\* The record of the block database: each address with its last sequence.
BlockIndex(b, createdAt) ==
  [time |-> b.time, createdAt |-> createdAt,
   addresses |-> [a \in {x \in Addresses : b.rows[x] > 0} |-> Sequence(b.rows[a])]]

\* The keys HandleReorg deletes for a record of the block database.
ReorgKeys(record) ==
  UNION {{<<a, record.time, i>> : i \in 1 .. record.addresses[a]} :
         a \in DOMAIN record.addresses}

\* "for i := uint8(1); i <= Sequence; i++" never ends for the largest uint8.
ReorgLoops(record) ==
  \E a \in DOMAIN record.addresses : record.addresses[a] = SeqModulus - 1

-----------------------------------------------------------------------------
Init ==
  /\ chain = <<>> /\ mined = 0 /\ announced = <<>>
  /\ addressDB = EmptyDB /\ blockDB = EmptyDB
  /\ batchDB = EmptyDB /\ worker = NoWorker /\ missed = {}
  /\ index = [pc |-> "listen", latest |-> 0]
  /\ rt = NoRt /\ again = NoRerun
  /\ asked = {} /\ cleaner = {}
  /\ reruns = 0 /\ crashes = 0

-----------------------------------------------------------------------------
(* The node.                                                               *)

Genesis == [number |-> 0, time |-> 0]

Tip(c) == IF c = <<>> THEN Genesis ELSE c[Len(c)]

\* The times of the blocks of a new branch on top of parent.
NewTimes(parent, len) ==
  IF SharedTimes
  THEN {t \in [1 .. len -> parent.time + 1 .. parent.time + 2 * len] :
          \A i \in 1 .. len : t[i] - (IF i = 1 THEN parent.time ELSE t[i - 1]) \in {1, 2}}
  ELSE {[i \in 1 .. len |-> mined + i]}

\* The last depth blocks, if any, give way to a branch that is one block longer.
\* newHead announces the numbers of the whole branch to a subscription, and a
\* block is fetched when its header is read.  Once a restart has asked for the
\* latest block, and until it subscribes, nobody is told.
NewBranch(depth) ==
  LET fork == Len(chain) - depth IN
  /\ depth <= Len(chain) /\ mined + depth + 1 <= MaxMined
  /\ \E times \in NewTimes(Tip(SubSeq(chain, 1, fork)), depth + 1),
        rows \in [1 .. depth + 1 -> Shapes] :
       chain' = [n \in 1 .. Len(chain) + 1 |->
                   IF n <= fork THEN chain[n]
                   ELSE [number |-> n, version |-> mined + (n - fork),
                         time |-> times[n - fork], rows |-> rows[n - fork]]]
  /\ mined' = mined + depth + 1
  /\ announced' = IF index.pc = "listen"
                  THEN announced \o [i \in 1 .. depth + 1 |-> fork + i]
                  ELSE announced
  /\ Len(announced') <= MaxLag
  /\ missed' = IF index.pc \in {"latest", "subscribe"}
               THEN missed \cup {mined + i : i \in 1 .. depth + 1} ELSE missed
  /\ UNCHANGED <<addressDB, blockDB, batchDB, index, worker, rt, again, asked,
                 cleaner, reruns, crashes>>

-----------------------------------------------------------------------------
(* Store for an announced block (isBatch is false).                        *)

SetRt(pc) == rt' = [rt EXCEPT !.pc = pc]

\* A header is received, the block of its number is fetched and indexed.  If the
\* fetch fails the subscription ends, and the node is switched or the process
\* ends: here that is a Crash.
RtFetch ==
  /\ rt.pc = "idle" /\ announced # <<>>
  /\ rt' = [pc |-> "reorg", block |-> chain[Head(announced)], createdAt |-> mined]
  /\ announced' = Tail(announced)
  /\ UNCHANGED <<chain, mined, addressDB, blockDB, sched, again, asked, cleaner,
                 reruns, crashes>>

\* Mutant of RtReorg: the old record is looked up and its rows are kept.
RtReorgKeepsRows ==
  /\ rt.pc = "reorg"
  /\ SetRt("address")
  /\ UNCHANGED <<chain, mined, announced, addressDB, blockDB, sched, again, asked,
                 cleaner, reruns, crashes>>

\* The number is known: the rows of the block that had it are deleted.  That the
\* delete returns an error, which realtimeIndex drops with the block, is left out.
RtReorg ==
  /\ rt.pc = "reorg"
  /\ LET n == rt.block.number IN
     \/ /\ n \notin DOMAIN blockDB
        /\ SetRt("address") /\ UNCHANGED addressDB
     \/ /\ n \in DOMAIN blockDB /\ ~ReorgLoops(blockDB[n])
        /\ addressDB' = BatchDelete(addressDB, ReorgKeys(blockDB[n]))
        /\ SetRt("address")
     \/ /\ n \in DOMAIN blockDB /\ ReorgLoops(blockDB[n])
        /\ SetRt("loops") /\ UNCHANGED addressDB
  /\ UNCHANGED <<chain, mined, announced, blockDB, sched, again, asked, cleaner,
                 reruns, crashes>>

RtStoreAddress ==
  /\ rt.pc = "address"
  /\ addressDB' = BatchPut(addressDB, AddressIndex(rt.block))
  /\ SetRt("block")
  /\ UNCHANGED <<chain, mined, announced, blockDB, sched, again, asked, cleaner,
                 reruns, crashes>>

\* Mutant of RtStoreBlock: the record is saved under CreatedAt.
RtStoreBlockByTime ==
  /\ rt.pc = "block"
  /\ blockDB' = Put(blockDB, rt.createdAt, BlockIndex(rt.block, rt.createdAt))
  /\ rt' = NoRt
  /\ UNCHANGED <<chain, mined, announced, addressDB, sched, again, asked, cleaner,
                 reruns, crashes>>

\* SaveBlockIndex.
RtStoreBlock ==
  /\ rt.pc = "block"
  /\ blockDB' = Put(blockDB, rt.block.number, BlockIndex(rt.block, rt.createdAt))
  /\ rt' = NoRt
  /\ UNCHANGED <<chain, mined, announced, addressDB, sched, again, asked, cleaner,
                 reruns, crashes>>

-----------------------------------------------------------------------------
(* index() after a restart.                                                *)

\* GetLatestBlock.  What is not below a block record will be taken.
IndexBegin ==
  /\ index.pc = "down"
  /\ index' = [pc |-> "latest", latest |-> Len(chain)]
  /\ missed' = missed \ {chain[n].version : n \in {x \in 1 .. Len(chain) :
                                              \A m \in DOMAIN blockDB : m <= x}}
  /\ UNCHANGED <<chain, mined, announced, addressDB, blockDB, batchDB, worker, rt,
                 again, asked, cleaner, reruns, crashes>>

\* GetLastBlock's number, 0 if the block database is empty.
LastBlockNums == IF DOMAIN blockDB = {} THEN {0} ELSE LastKeys(DOMAIN blockDB)

Undone == {k \in DOMAIN batchDB : ~IsDone(StoredBatch(batchDB, k))}

\* An uncompleted batch starts at the last block ("found").
Found(last) == \E k \in Undone : k.from = last

\* An uncompleted batch, extended to latest if it starts at the last block.
Resumed(k, last, latest) ==
  IF k.from = last THEN [StoredBatch(batchDB, k) EXCEPT !.to = latest]
  ELSE StoredBatch(batchDB, k)

\* Mutant of CatchUpKey: the last block itself is left out.
CatchUpKeyAfter(last, latest) ==
  [from |-> last + 1, to |-> latest, step |-> 1, createdAt |-> crashes]

\* The batch from the last newHead block to the latest block.
CatchUpKey(last, latest) ==
  [from |-> last, to |-> latest, step |-> 1, createdAt |-> crashes]

\* getBatches, and the goroutines of the batches.  ReplaceBatch finds no record
\* to replace, so the one of a batch that is extended stays.
Launch ==
  /\ index.pc = "latest"
  /\ \E last \in LastBlockNums :
       LET keys == IF Found(last) THEN Undone
                   ELSE Undone \cup {CatchUpKey(last, index.latest)}
       IN  /\ worker' = [k \in keys |->
                           [batch |-> IF k \in Undone THEN Resumed(k, last, index.latest)
                                      ELSE BatchOf(k, NoBlock),
                            block |-> Nil]]
           /\ batchDB' = IF Found(last) THEN ReplaceBatch(batchDB, last, index.latest)
                         ELSE batchDB
  /\ index' = [index EXCEPT !.pc = "subscribe"]
  /\ UNCHANGED <<chain, mined, announced, addressDB, blockDB, missed, rt, again,
                 asked, cleaner, reruns, crashes>>

\* SubscribeNewHead.
RtSubscribe ==
  /\ index.pc = "subscribe"
  /\ index' = [index EXCEPT !.pc = "listen"]
  /\ UNCHANGED <<chain, mined, announced, addressDB, blockDB, batchDB, worker,
                 missed, rt, again, asked, cleaner, reruns, crashes>>

-----------------------------------------------------------------------------
(* Store for a block of a batch or of a rerun (isBatch is true).           *)

\* batchIndex fetches the next block of its batch.
WorkerFetch(k) ==
  LET w == worker[k] IN
  /\ w.block = Nil /\ ~IsDone(w.batch)
  /\ NextBlock(w.batch) \in 1 .. Len(chain)
  /\ worker' = [worker EXCEPT ![k].block = chain[NextBlock(w.batch)]]
  /\ UNCHANGED <<chain, mined, announced, addressDB, blockDB, batchDB, index, missed,
                 rt, again, asked, cleaner, reruns, crashes>>

\* The block of worker k is recorded as taken.
Took(k) ==
  LET b == Advance(worker[k].batch) IN
  /\ worker' = [worker EXCEPT ![k] = [batch |-> b, block |-> Nil]]
  /\ batchDB' = UpdateBatch(batchDB, b)

\* Its rows are written and UpdateBatch records it: a crash between the two
\* writes only has the same rows written again.
WorkerStore(k) ==
  /\ worker[k].block # Nil
  /\ addressDB' = BatchPut(addressDB, AddressIndex(worker[k].block))
  /\ Took(k)
  /\ UNCHANGED <<chain, mined, announced, blockDB, index, missed, rt, again, asked,
                 cleaner, reruns, crashes>>

\* The genesis block has no rows.
WorkerGenesis(k) ==
  /\ worker[k].block = Nil /\ ~IsDone(worker[k].batch)
  /\ NextBlock(worker[k].batch) = 0
  /\ Took(k)
  /\ UNCHANGED <<chain, mined, announced, addressDB, blockDB, index, missed, rt,
                 again, asked, cleaner, reruns, crashes>>

\* The rerun API asks for one block.
Rerun ==
  /\ index.pc # "down" /\ reruns < MaxReruns
  /\ \E n \in 1 .. Len(chain) : asked' = asked \cup {n}
  /\ reruns' = reruns + 1
  /\ UNCHANGED <<chain, mined, announced, addressDB, blockDB, sched, rt, again,
                 cleaner, crashes>>

\* FetchAndProcess fetches it.
RerunFetch ==
  /\ again.pc = "idle"
  /\ \E n \in asked : again' = [pc |-> "address", block |-> chain[n]]
  /\ UNCHANGED <<chain, mined, announced, addressDB, blockDB, sched, rt, asked,
                 cleaner, reruns, crashes>>

RerunStore ==
  /\ again.pc = "address"
  /\ addressDB' = BatchPut(addressDB, AddressIndex(again.block))
  /\ asked' = asked \ {again.block.number}
  /\ again' = NoRerun
  /\ UNCHANGED <<chain, mined, announced, blockDB, sched, rt, cleaner, reruns, crashes>>

-----------------------------------------------------------------------------
(* The cleaner.                                                            *)

\* DeleteOldBlocks: from the first key on, the records created before until.
OldBlocks(until) ==
  {n \in DOMAIN blockDB :
     \A m \in DOMAIN blockDB :
       (m = n \/ KeyBefore(m, n)) => blockDB[m].createdAt < until}

\* The last block is read and the old records are listed.
CleanScan ==
  /\ index.pc # "down" /\ cleaner = {}
  /\ \E last \in LastKeys(DOMAIN blockDB) :
       cleaner' = OldBlocks(blockDB[last].createdAt - BlockTTL)
  /\ cleaner' # {}
  /\ UNCHANGED <<chain, mined, announced, addressDB, blockDB, sched, rt, again,
                 asked, reruns, crashes>>

\* The listed records are deleted.
CleanDelete ==
  /\ cleaner # {}
  /\ blockDB' = BatchDelete(blockDB, cleaner)
  /\ cleaner' = {}
  /\ UNCHANGED <<chain, mined, announced, addressDB, sched, rt, again, asked,
                 reruns, crashes>>

-----------------------------------------------------------------------------
(* Crashes.                                                                *)

\* The blocks a batch still has to take.
Left(b) == {n \in Share(b) : n > b.current}

\* The blocks that a crash takes from a batch which has recorded nothing yet,
\* and that a restart will not look at.
Forgotten ==
  {n \in 1 .. Len(chain) :
     /\ \E m \in DOMAIN blockDB : n < m
     /\ \E k \in DOMAIN worker : /\ BatchKey(worker[k].batch) \notin DOMAIN batchDB
                                 /\ n \in Left(worker[k].batch)}

\* The process ends between any two writes: only the databases are left.
Crash ==
  /\ index.pc # "down" /\ crashes < MaxCrashes
  /\ crashes' = crashes + 1
  /\ index' = [index EXCEPT !.pc = "down"]
  /\ missed' = missed \cup {chain[n].version : n \in Forgotten}
  /\ announced' = <<>> /\ rt' = NoRt /\ worker' = NoWorker
  /\ again' = NoRerun /\ asked' = {} /\ cleaner' = {}
  /\ UNCHANGED <<chain, mined, addressDB, blockDB, batchDB, reruns>>

-----------------------------------------------------------------------------
Realtime == RtFetch \/ RtReorg \/ RtStoreAddress \/ RtStoreBlock

Next ==
  \/ \E depth \in 0 .. MaxDepth : NewBranch(depth)
  \/ Realtime
  \/ IndexBegin \/ Launch \/ RtSubscribe
  \/ \E k \in DOMAIN worker : WorkerFetch(k) \/ WorkerStore(k) \/ WorkerGenesis(k)
  \/ Rerun \/ RerunFetch \/ RerunStore
  \/ CleanScan \/ CleanDelete
  \/ Crash

Spec == Init /\ [][Next]_vars

\* The goroutines of a process that does not crash are scheduled, and the node
\* answers.
FairSpec == Spec /\ WF_vars(Realtime) /\ WF_vars(RerunFetch) /\ WF_vars(RerunStore)

-----------------------------------------------------------------------------
(* Properties.                                                             *)

TypeOK ==
  /\ chain \in Seq(Blocks) /\ \A n \in 1 .. Len(chain) : chain[n].number = n
  /\ mined \in Nat
  /\ announced \in Seq(1 .. Len(chain)) /\ Len(announced) <= MaxLag
  /\ \A k \in DOMAIN addressDB :
       /\ k \in Addresses \X Nat \X (0 .. SeqModulus - 1)
       /\ addressDB[k] \in [number : Nat, version : Nat, row : Nat]
  /\ \A n \in DOMAIN blockDB :
       /\ n \in 1 .. Len(chain)
       /\ blockDB[n].time \in Nat /\ blockDB[n].createdAt \in Nat
  /\ rt \in [pc : {"idle", "reorg", "loops", "address", "block"},
             block : Blocks \cup {Nil}, createdAt : Nat]
  /\ again \in [pc : {"idle", "address"}, block : Blocks \cup {Nil}]
  /\ asked \subseteq 1 .. Len(chain) /\ cleaner \subseteq Nat
  /\ index \in [pc : {"down", "latest", "subscribe", "listen"}, latest : 0 .. Len(chain)]
  /\ DOMAIN batchDB \subseteq BatchKeys
  /\ \A k \in DOMAIN batchDB : batchDB[k] \in Nat
  /\ \A k \in DOMAIN worker : worker[k] \in [batch : Batches, block : Blocks \cup {Nil}]
  /\ missed \subseteq Nat
  /\ reruns \in 0 .. MaxReruns /\ crashes \in 0 .. MaxCrashes

\* The indexer listens, nothing is announced, and no goroutine has a block to take.
Quiet ==
  /\ index.pc = "listen" /\ announced = <<>> /\ rt.pc = "idle"
  /\ again.pc = "idle" /\ asked = {}
  /\ \A k \in DOMAIN worker : IsDone(worker[k].batch)

RowIn(k, b) == addressDB[k].number = b.number /\ addressDB[k].version = b.version

\* When nothing is left to do, every row belongs to a block of the chain: the
\* rows of a block that a reorganisation removed are gone (HandleReorg).
NoStaleRow ==
  Quiet => \A k \in DOMAIN addressDB : \E n \in 1 .. Len(chain) : RowIn(k, chain[n])

\* After the first sync, when nothing is left to do, every transaction of the
\* chain has its row, at the address it belongs to: no other block's deletes or
\* writes removed it, and no crash left it out (Store, getBatches).  Excepted are
\* the blocks mined between GetLatestBlock and SubscribeNewHead, and those below
\* the last block record of a batch that had recorded nothing when it crashed.
NoLostRow ==
  Quiet => \A n \in 1 .. Len(chain) :
             \/ chain[n].version \in missed
             \/ \A a \in Addresses : \A i \in 1 .. chain[n].rows[a] :
                  \E k \in DOMAIN addressDB :
                    k[1] = a /\ RowIn(k, chain[n]) /\ addressDB[k].row = i

\* While blocks come and go, a row always can be found again: the block
\* database, or the goroutine that is at the block, names its key.
RowsNamed ==
  \A k \in DOMAIN addressDB :
    LET n == addressDB[k].number IN
    \/ n \in DOMAIN blockDB /\ k \in ReorgKeys(blockDB[n])
    \/ rt.pc = "block" /\ rt.block.number = n
    \/ n \notin DOMAIN blockDB /\ n < Len(chain) - MaxDepth

\* Once the node's chain settles the goroutines come to rest with exactly the
\* rows of the chain.
Settles == <>[](Quiet /\ NoStaleRow /\ NoLostRow)
=============================================================================

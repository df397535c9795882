--------------------------- MODULE IndexerProofs ---------------------------
(***************************************************************************)
(* Proofs about Indexer, for every number of batches and nodes and every   *)
(* bound: the type invariant, and that neither database ever claims a      *)
(* block whose rows are not stored.                                        *)
(***************************************************************************)
EXTENDS Indexer, TLAPS

-----------------------------------------------------------------------------
(* Batches.                                                                *)

\* Current is one of the batch's own blocks, or there is none yet.
OnStride(b) ==
  b.current = NoBlock \/ \E k \in Nat : b.current = b.from + k * b.step

\* A multiple of a positive step is not below its factor.
LEMMA FactorBound ==
  ASSUME NEW k \in Nat, NEW s \in Nat \ {0}
  PROVE  k * s \in Nat /\ k <= k * s
<1>1. k * s = k + k * (s - 1)
  OBVIOUS
<1>2. s - 1 \in Nat
  OBVIOUS
<1>3. \A x, y \in Nat : x * y \in Nat
  OBVIOUS
<1> QED BY <1>1, <1>2, <1>3

\* Multiples of a positive step are ordered as their factors: between two
\* consecutive ones there is none.
LEMMA FactorOrder ==
  ASSUME NEW k \in Nat, NEW m \in Nat, NEW s \in Nat \ {0}, k * s < m * s + s
  PROVE  k <= m
<1>1. SUFFICES ASSUME k > m PROVE FALSE
  OBVIOUS
<1>2. k - (m + 1) \in Nat
  BY <1>1
<1>3. k * s = (m + 1) * s + (k - (m + 1)) * s
  OBVIOUS
<1>4. (m + 1) * s = m * s + s
  OBVIOUS
<1>5. (k - (m + 1)) * s \in Nat
  BY <1>2, FactorBound
<1>6. m * s \in Nat
  BY FactorBound
<1> QED BY <1>3, <1>4, <1>5, <1>6

\* Next() takes the block after Current and no other.
LEMMA AdvanceTakes ==
  ASSUME NEW b \in Batches, OnStride(b)
  PROVE  /\ Advance(b) \in Batches
         /\ Advance(b).current = NextBlock(b)
         /\ NextBlock(b) \in Nat
         /\ OnStride(Advance(b))
         /\ Taken(Advance(b)) \subseteq Taken(b) \cup {NextBlock(b)}
<1>1. b.from \in Nat /\ b.step \in Nat \ {0} /\ b.current \in Nat \cup {NoBlock}
  BY DEF Batches
<1>2. NextBlock(b) \in Nat
  BY <1>1 DEF NextBlock, NoBlock
<1>3. /\ Advance(b) \in Batches
      /\ Advance(b).current = NextBlock(b)
      /\ Advance(b).from = b.from /\ Advance(b).step = b.step
  BY <1>2 DEF Advance, Batches
<1>4. CASE b.current = NoBlock
  <2>1. NextBlock(b) = b.from
    BY <1>4 DEF NextBlock
  <2>2. b.from = b.from + 0 * b.step
    BY <1>1
  <2>3. OnStride(Advance(b))
    BY <1>3, <2>1, <2>2 DEF OnStride
  <2>4. Taken(Advance(b)) \subseteq {b.from}
    BY <1>1, <1>3, <2>1 DEF Taken
  <2> QED BY <1>2, <1>3, <2>1, <2>3, <2>4
<1>5. CASE b.current # NoBlock
  <2>1. PICK m \in Nat : b.current = b.from + m * b.step
    BY <1>5 DEF OnStride
  <2>2. NextBlock(b) = b.current + b.step /\ b.current \in Nat
    BY <1>1, <1>5 DEF NextBlock
  <2>3. m * b.step \in Nat /\ (m + 1) * b.step = m * b.step + b.step
    BY <1>1, FactorBound
  <2>4. OnStride(Advance(b))
    BY <1>1, <1>3, <2>1, <2>2, <2>3 DEF OnStride
  <2>5. ASSUME NEW n \in Taken(Advance(b)), n # NextBlock(b)
        PROVE  n \in Taken(b)
    <3>1. n \in b.from .. NextBlock(b)
      BY <1>3 DEF Taken
    <3>2. PICK k \in 0 .. n : n = b.from + k * b.step
      BY <1>3 DEF Taken
    <3>3. n \in Nat /\ k \in Nat /\ k * b.step \in Nat
      BY <1>1, <1>2, <3>1, <3>2, FactorBound
    <3>4. k * b.step < m * b.step + b.step
      BY <1>1, <2>1, <2>2, <2>3, <2>5, <3>1, <3>2, <3>3
    <3>5. k <= m
      BY <1>1, <3>3, <3>4, FactorOrder
    <3>6. m * b.step = k * b.step + (m - k) * b.step
      BY <1>1, <3>3
    <3>7. (m - k) * b.step \in Nat
      BY <1>1, <3>3, <3>5, FactorBound
    <3>8. n <= b.current
      BY <1>1, <2>1, <2>3, <3>2, <3>3, <3>6, <3>7
    <3> QED BY <1>1, <2>2, <3>1, <3>2, <3>3, <3>8 DEF Taken
  <2> QED BY <1>2, <1>3, <2>4, <2>5
<1> QED BY <1>4, <1>5

\* A batch that IsDone has taken its whole share.
LEMMA DoneHasTakenAll ==
  ASSUME NEW b \in Batches, OnStride(b), IsDone(b)
  PROVE  Share(b) \subseteq Taken(b)
<1>1. b.from \in Nat /\ b.to \in Nat /\ b.step \in Nat \ {0} /\ b.current \in Nat
  BY DEF Batches, IsDone
<1>2. PICK m \in Nat : b.current = b.from + m * b.step
  BY DEF OnStride, IsDone
<1>3. m * b.step \in Nat
  BY <1>1, FactorBound
<1>4. ASSUME NEW n \in Share(b)
      PROVE  n \in Taken(b)
  <2>1. n \in b.from .. b.to /\ n \in Nat
    BY <1>1 DEF Share
  <2>2. PICK k \in 0 .. n : n = b.from + k * b.step
    BY DEF Share
  <2>3. k \in Nat /\ k * b.step \in Nat
    BY <1>1, <2>1, <2>2, FactorBound
  <2>4. k * b.step < m * b.step + b.step
    BY <1>1, <1>2, <1>3, <2>1, <2>2, <2>3 DEF IsDone
  <2>5. k <= m
    BY <1>1, <2>3, <2>4, FactorOrder
  <2>6. m * b.step = k * b.step + (m - k) * b.step
    BY <1>1, <2>3
  <2>7. (m - k) * b.step \in Nat
    BY <1>1, <2>3, <2>5, FactorBound
  <2>8. n <= b.current
    BY <1>1, <1>2, <1>3, <2>2, <2>3, <2>6, <2>7
  <2> QED BY <1>1, <2>1, <2>2, <2>8 DEF Taken
<1> QED BY <1>4

-----------------------------------------------------------------------------
(* The inductive invariant.                                                *)

RecordsOnStride == \A k \in DOMAIN batchDB : OnStride(StoredBatch(batchDB, k))

\* The block a batch goroutine has fetched and not stored.
InHand(w) == IF w.pc = "store" THEN {w.batch.current} ELSE {}

\* What a batch goroutine may be given: it has stored all it took, except the
\* block in its hand.
WorkerSound(w, stored) ==
  /\ OnStride(w.batch)
  /\ w.pc \in {"store", "update"} => w.batch.current \in Nat
  /\ Taken(w.batch) \subseteq stored \cup InHand(w)

WorkersSound == \A id \in DOMAIN worker : WorkerSound(worker[id], addressDB)

RealtimeSound == rt.pc = "block" => rt.next \in addressDB

IInv ==
  /\ TypeOK
  /\ RecordsOnStride /\ ProgressSound
  /\ WorkersSound
  /\ BlockRecordBacked /\ RealtimeSound

\* The record of a key is a batch.
LEMMA StoredBatchType ==
  ASSUME TypeOK, NEW k \in DOMAIN batchDB
  PROVE  StoredBatch(batchDB, k) \in Batches
BY DEF TypeOK, StoredBatch, BatchOf, Batches, BatchKeys

\* Taken and OnStride do not depend on To.
LEMMA NewTo ==
  ASSUME NEW b \in Batches, NEW t \in Nat
  PROVE  /\ [b EXCEPT !.to = t] \in Batches
         /\ Taken([b EXCEPT !.to = t]) = Taken(b)
         /\ OnStride(b) => OnStride([b EXCEPT !.to = t])
<1>1. /\ [b EXCEPT !.to = t] \in Batches
      /\ [b EXCEPT !.to = t].from = b.from
      /\ [b EXCEPT !.to = t].step = b.step
      /\ [b EXCEPT !.to = t].current = b.current
  BY DEF Batches
<1>2. Taken([b EXCEPT !.to = t]) = Taken(b)
  BY <1>1 DEF Taken
<1>3. OnStride(b) => OnStride([b EXCEPT !.to = t])
  BY <1>1 DEF OnStride
<1> QED BY <1>1, <1>2, <1>3

\* A batch that never ran has taken nothing.
LEMMA FreshBatch ==
  ASSUME NEW k \in BatchKeys
  PROVE  /\ BatchOf(k, NoBlock) \in Batches
         /\ OnStride(BatchOf(k, NoBlock))
         /\ Taken(BatchOf(k, NoBlock)) = {}
<1>1. k.from \in Nat
  BY DEF BatchKeys
<1>2. /\ BatchOf(k, NoBlock) \in Batches
      /\ BatchOf(k, NoBlock).current = NoBlock
      /\ BatchOf(k, NoBlock).from = k.from
  BY DEF BatchOf, Batches, BatchKeys
<1>3. k.from .. NoBlock = {}
  BY <1>1 DEF NoBlock
<1> QED BY <1>2, <1>3 DEF OnStride, Taken

\* getBatches hands out batches that have stored all they took.
LEMMA GetBatchesSound ==
  ASSUME IInv, NEW last \in Nat, NEW latest \in Nat,
         NEW k \in DOMAIN GetBatches(last, latest)
  PROVE  /\ k \in BatchKeys
         /\ GetBatches(last, latest)[k] \in Batches
         /\ OnStride(GetBatches(last, latest)[k])
         /\ Taken(GetBatches(last, latest)[k]) \subseteq addressDB
<1>1. CASE DOMAIN batchDB = {}
  <2>1. GetBatches(last, latest) = FirstBatches(latest)
    BY <1>1 DEF GetBatches
  <2>2. PICK b \in GetInitBatches(NumBatch, 0, latest, run) : k = BatchKey(b)
    BY <2>1 DEF FirstBatches
  <2>3. k \in BatchKeys
    BY <2>2, NumBatchAssumption
    DEF IInv, TypeOK, GetInitBatches, BatchKey, BatchKeys
  <2>4. GetBatches(last, latest)[k] = BatchOf(k, NoBlock)
    BY <2>1 DEF FirstBatches
  <2> QED BY <2>3, <2>4, FreshBatch
<1>2. CASE DOMAIN batchDB # {} /\ k \in Undone
  <2>1. GetBatches(last, latest)[k] = Resumed(k, last, latest)
    BY <1>2 DEF GetBatches
  <2>2. k \in DOMAIN batchDB
    BY <1>2 DEF Undone
  <2>3. k \in BatchKeys /\ StoredBatch(batchDB, k) \in Batches
    BY <2>2, StoredBatchType DEF IInv, TypeOK
  <2>4. /\ OnStride(StoredBatch(batchDB, k))
        /\ Taken(StoredBatch(batchDB, k)) \subseteq addressDB
    BY <2>2 DEF IInv, RecordsOnStride, ProgressSound
  <2> QED BY <2>1, <2>3, <2>4, NewTo DEF Resumed
<1>3. CASE DOMAIN batchDB # {} /\ k \notin Undone
  <2>1. k = CatchUpKey(last, latest) /\ GetBatches(last, latest)[k] = BatchOf(k, NoBlock)
    BY <1>3 DEF GetBatches
  <2>2. k \in BatchKeys
    BY <2>1 DEF CatchUpKey, BatchKeys, IInv, TypeOK
  <2> QED BY <2>1, <2>2, FreshBatch
<1> QED BY <1>1, <1>2, <1>3

\* One goroutine moves on to w, and rows are only added: the others, and the
\* records, stay sound.
LEMMA WorkerMoves ==
  ASSUME IInv, NEW id \in DOMAIN worker, NEW w,
         w \in [pc : {"loop", "store", "update", "poll"}, batch : Batches, i : Nat],
         worker' = [worker EXCEPT ![id] = w],
         addressDB \subseteq addressDB', WorkerSound(w, addressDB')
  PROVE  /\ DOMAIN worker' = DOMAIN worker
         /\ \A x \in DOMAIN worker' :
              worker'[x] \in [pc : {"loop", "store", "update", "poll"},
                              batch : Batches, i : Nat]
         /\ WorkersSound'
<1>1. \A x \in DOMAIN worker : WorkerSound(worker[x], addressDB')
  BY DEF IInv, WorkersSound, WorkerSound
<1>2. \A x \in DOMAIN worker' : worker'[x] = IF x = id THEN w ELSE worker[x]
  OBVIOUS
<1>3. DOMAIN worker' = DOMAIN worker
  OBVIOUS
<1>4. WorkersSound'
  BY <1>1, <1>2, <1>3 DEF WorkersSound
<1>5. \A x \in DOMAIN worker :
         worker[x] \in [pc : {"loop", "store", "update", "poll"}, batch : Batches, i : Nat]
  BY DEF IInv, TypeOK
<1> QED BY <1>2, <1>3, <1>4, <1>5

\* The empty databases of the first start are sound.
LEMMA InitSound == Init => IInv
<1> SUFFICES ASSUME Init PROVE IInv
  OBVIOUS
<1>1. TypeOK
  BY HeadAssumption DEF Init, TypeOK, EmptyDB, NoIndex, NoRealtime, NoWorker
<1>2. DOMAIN batchDB = {} /\ DOMAIN worker = {} /\ rt.pc = "off" /\ blockDB = {}
  BY DEF Init, EmptyDB, NoWorker, NoRealtime
<1> QED BY <1>1, <1>2 DEF IInv, RecordsOnStride, ProgressSound, WorkersSound,
                          BlockRecordBacked, RealtimeSound

\* index() starts its goroutines on sound batches and rewrites no record.
LEMMA LaunchSound == IInv /\ Launch => IInv'
<1> SUFFICES ASSUME IInv, Launch PROVE IInv'
  OBVIOUS
<1>1. PICK last \in LastBlockNums :
        /\ worker' = StartWorkers(GetBatches(last, index.latest))
        /\ batchDB' = IF DOMAIN batchDB # {} /\ Found(last)
                      THEN ReplaceBatch(batchDB, last, index.latest) ELSE batchDB
  BY DEF Launch
<1>2. last \in Nat
  BY <1>1 DEF LastBlockNums, LastKeys, IInv, TypeOK
<1>3. batchDB' = batchDB
  BY <1>1 DEF ReplaceBatch, FindByFrom
<1>4. UNCHANGED <<head, addressDB, blockDB, run, watching, switchReq, failures, crashes>>
  BY DEF Launch
<1>5. index.latest \in Nat
  BY DEF IInv, TypeOK
<1> DEFINE batches == GetBatches(last, index.latest)
<1>6. \A k \in DOMAIN batches : /\ k \in BatchKeys
                                /\ batches[k] \in Batches
                                /\ OnStride(batches[k])
                                /\ Taken(batches[k]) \subseteq addressDB
  BY <1>2, <1>5, GetBatchesSound
<1>7. ASSUME NEW id \in DOMAIN worker'
      PROVE  /\ id \in WorkerIds
             /\ worker'[id] \in [pc : {"loop", "store", "update", "poll"},
                                 batch : Batches, i : Nat]
             /\ WorkerSound(worker'[id], addressDB)
  <2> HIDE DEF batches
  <2>1. CASE id \in DOMAIN worker
    <3>1. worker'[id] = worker[id]
      BY <1>1, <2>1 DEF StartWorkers, batches
    <3> QED BY <2>1, <3>1 DEF IInv, TypeOK, WorkersSound
  <2>2. CASE id \notin DOMAIN worker
    <3>1. PICK k \in DOMAIN batches : id = [run |-> run, key |-> k]
      BY <1>1, <1>7, <2>2 DEF StartWorkers, batches
    <3>2. id \in WorkerIds /\ id.key = k
      BY <1>6, <3>1 DEF WorkerIds, IInv, TypeOK
    <3>3. worker'[id] = [pc |-> "loop", batch |-> batches[k], i |-> 0]
      BY <1>1, <1>7, <2>2, <3>2 DEF StartWorkers, batches
    <3> QED BY <1>6, <3>2, <3>3 DEF WorkerSound, InHand
  <2> QED BY <2>1, <2>2
<1>8. TypeOK'
  BY <1>3, <1>4, <1>7 DEF IInv, TypeOK, Launch
<1>9. RecordsOnStride' /\ ProgressSound'
  BY <1>3, <1>4 DEF IInv, RecordsOnStride, ProgressSound
<1>10. WorkersSound'
  BY <1>4, <1>7 DEF WorkersSound
<1>11. BlockRecordBacked' /\ RealtimeSound'
  BY <1>4 DEF IInv, BlockRecordBacked, RealtimeSound, Launch, TypeOK
<1> QED BY <1>8, <1>9, <1>10, <1>11 DEF IInv

\* A goroutine that ends takes nothing from the others.
LEMMA WorkerReturnsSound ==
  ASSUME IInv, NEW id \in DOMAIN worker, WorkerReturns(id),
         UNCHANGED <<head, disk, run, index, rt, watching, crashes>>,
         switchReq' \in BOOLEAN, failures' \in Nat
  PROVE  IInv'
<1>1. /\ DOMAIN worker' \subseteq DOMAIN worker
      /\ \A x \in DOMAIN worker' : worker'[x] = worker[x]
  BY DEF WorkerReturns
<1>2. TypeOK'
  BY <1>1 DEF IInv, TypeOK, disk
<1>3. RecordsOnStride' /\ ProgressSound' /\ BlockRecordBacked' /\ RealtimeSound'
  BY DEF IInv, RecordsOnStride, ProgressSound, BlockRecordBacked, RealtimeSound, disk
<1>4. WorkersSound'
  BY <1>1 DEF IInv, WorkersSound, disk
<1> QED BY <1>2, <1>3, <1>4 DEF IInv

\* The block is in the goroutine's hand when Current moves on.
LEMMA WorkerFetchSound ==
  ASSUME IInv, NEW id \in DOMAIN worker, WorkerFetch(id)
  PROVE  IInv'
<1> DEFINE w == worker[id]
           v == [w EXCEPT !.pc = "store", !.batch = Advance(w.batch)]
<1>1. /\ w \in [pc : {"loop", "store", "update", "poll"}, batch : Batches, i : Nat]
      /\ WorkerSound(w, addressDB) /\ w.pc = "loop"
  BY DEF IInv, TypeOK, WorkersSound, WorkerFetch
<1>2. /\ Advance(w.batch) \in Batches
      /\ Advance(w.batch).current = NextBlock(w.batch)
      /\ NextBlock(w.batch) \in Nat
      /\ OnStride(Advance(w.batch))
      /\ Taken(Advance(w.batch)) \subseteq Taken(w.batch) \cup {NextBlock(w.batch)}
  BY <1>1, AdvanceTakes DEF WorkerSound
<1>3. /\ worker' = [worker EXCEPT ![id] = v]
      /\ UNCHANGED <<head, disk, run, index, rt, watching, switchReq, failures, crashes>>
  BY DEF WorkerFetch, SetWorker
<1>4. /\ v \in [pc : {"loop", "store", "update", "poll"}, batch : Batches, i : Nat]
      /\ v.pc = "store" /\ v.batch = Advance(w.batch)
  BY <1>1, <1>2
<1>5. WorkerSound(v, addressDB')
  <2>1. Taken(w.batch) \subseteq addressDB
    BY <1>1 DEF WorkerSound, InHand
  <2>2. InHand(v) = {NextBlock(w.batch)}
    BY <1>2, <1>4 DEF InHand
  <2> HIDE DEF v, w
  <2> QED BY <1>2, <1>3, <1>4, <2>1, <2>2 DEF WorkerSound, disk
<1> HIDE DEF v
<1>6. /\ DOMAIN worker' = DOMAIN worker /\ WorkersSound'
      /\ \A x \in DOMAIN worker' :
           worker'[x] \in [pc : {"loop", "store", "update", "poll"}, batch : Batches, i : Nat]
  BY <1>3, <1>4, <1>5, WorkerMoves DEF disk
<1>7. TypeOK'
  BY <1>3, <1>6 DEF IInv, TypeOK, disk
<1>8. RecordsOnStride' /\ ProgressSound' /\ BlockRecordBacked' /\ RealtimeSound'
  BY <1>3 DEF IInv, RecordsOnStride, ProgressSound, BlockRecordBacked, RealtimeSound, disk
<1> QED BY <1>6, <1>7, <1>8 DEF IInv

\* ProcessBlock puts the block in the goroutine's hand into the address
\* database.
LEMMA WorkerStoreSound ==
  ASSUME IInv, NEW id \in DOMAIN worker, WorkerStore(id)
  PROVE  IInv'
<1> DEFINE w == worker[id]
           v == [w EXCEPT !.pc = "update"]
<1>1. /\ w \in [pc : {"loop", "store", "update", "poll"}, batch : Batches, i : Nat]
      /\ WorkerSound(w, addressDB) /\ w.pc = "store"
  BY DEF IInv, TypeOK, WorkersSound, WorkerStore
<1>2. /\ worker' = [worker EXCEPT ![id] = v]
      /\ addressDB' = addressDB \cup {w.batch.current}
      /\ UNCHANGED <<head, blockDB, batchDB, run, index, rt, watching, switchReq,
                     failures, crashes>>
  BY DEF WorkerStore, SetWorker
<1>3. /\ v \in [pc : {"loop", "store", "update", "poll"}, batch : Batches, i : Nat]
      /\ v.pc = "update" /\ v.batch = w.batch
  BY <1>1
<1>4. w.batch.current \in Nat
  BY <1>1 DEF WorkerSound
<1>5. WorkerSound(v, addressDB')
  <2> HIDE DEF v, w
  <2> QED BY <1>1, <1>2, <1>3 DEF WorkerSound, InHand
<1> HIDE DEF v
<1>6. /\ DOMAIN worker' = DOMAIN worker /\ WorkersSound'
      /\ \A x \in DOMAIN worker' :
           worker'[x] \in [pc : {"loop", "store", "update", "poll"}, batch : Batches, i : Nat]
  BY <1>2, <1>3, <1>5, WorkerMoves
<1>7. TypeOK'
  BY <1>2, <1>4, <1>6 DEF IInv, TypeOK
<1>8. RecordsOnStride' /\ ProgressSound' /\ BlockRecordBacked' /\ RealtimeSound'
  BY <1>2 DEF IInv, RecordsOnStride, ProgressSound, BlockRecordBacked, RealtimeSound
<1> QED BY <1>6, <1>7, <1>8 DEF IInv

\* UpdateBatch records only what the goroutine has stored.
LEMMA WorkerUpdateSound ==
  ASSUME IInv, NEW id \in DOMAIN worker, WorkerUpdate(id)
  PROVE  IInv'
<1> DEFINE w == worker[id]
           i == (w.i + 1) % CheckEvery
           v == [w EXCEPT !.pc = IF i = 0 THEN "poll" ELSE "loop", !.i = i]
           b == w.batch
<1>1. /\ w \in [pc : {"loop", "store", "update", "poll"}, batch : Batches, i : Nat]
      /\ WorkerSound(w, addressDB) /\ w.pc = "update"
  BY DEF IInv, TypeOK, WorkersSound, WorkerUpdate
<1>2. /\ worker' = [worker EXCEPT ![id] = v]
      /\ batchDB' = UpdateBatch(batchDB, b)
      /\ UNCHANGED <<head, addressDB, blockDB, run, index, rt, watching, switchReq,
                     failures, crashes>>
  BY DEF WorkerUpdate, SetWorker
<1>3. i \in Nat
  BY <1>1, CheckEveryAssumption
<1>4. /\ v \in [pc : {"loop", "store", "update", "poll"}, batch : Batches, i : Nat]
      /\ v.pc \in {"poll", "loop"} /\ v.batch = b
  BY <1>1, <1>3
<1>5. /\ b \in Batches /\ b.current \in Nat /\ OnStride(b)
      /\ Taken(b) \subseteq addressDB
  BY <1>1 DEF WorkerSound, InHand
<1>6. WorkerSound(v, addressDB')
  <2> HIDE DEF v, b
  <2> QED BY <1>2, <1>4, <1>5 DEF WorkerSound, InHand
<1> HIDE DEF v, b, i
<1>7. /\ DOMAIN worker' = DOMAIN worker /\ WorkersSound'
      /\ \A x \in DOMAIN worker' :
           worker'[x] \in [pc : {"loop", "store", "update", "poll"}, batch : Batches, i : Nat]
  BY <1>2, <1>4, <1>6, WorkerMoves
<1>8. /\ DOMAIN batchDB' = DOMAIN batchDB \cup {BatchKey(b)}
      /\ \A k \in DOMAIN batchDB' :
           batchDB'[k] = IF k = BatchKey(b) THEN b.current ELSE batchDB[k]
  BY <1>2 DEF UpdateBatch, Put
<1>9. /\ BatchKey(b) \in BatchKeys
      /\ StoredBatch(batchDB', BatchKey(b)) = b
  <2>1. BatchKey(b) \in BatchKeys
    BY <1>5 DEF BatchKey, BatchKeys, Batches
  <2>2. BatchOf(BatchKey(b), b.current) = b
    BY <1>5 DEF BatchKey, BatchOf, Batches
  <2> QED BY <1>8, <2>1, <2>2 DEF StoredBatch
<1>10. ASSUME NEW k \in DOMAIN batchDB', k # BatchKey(b)
       PROVE  k \in DOMAIN batchDB /\ StoredBatch(batchDB', k) = StoredBatch(batchDB, k)
  BY <1>8, <1>10 DEF StoredBatch
<1>11. TypeOK'
  BY <1>2, <1>5, <1>7, <1>8, <1>9 DEF IInv, TypeOK
<1>12. RecordsOnStride' /\ ProgressSound'
  BY <1>2, <1>5, <1>9, <1>10 DEF IInv, RecordsOnStride, ProgressSound
<1>13. BlockRecordBacked' /\ RealtimeSound'
  BY <1>2 DEF IInv, BlockRecordBacked, RealtimeSound
<1> QED BY <1>7, <1>11, <1>12, <1>13 DEF IInv

\* Looking at the stop channel changes no progress.
LEMMA WorkerPollSound ==
  ASSUME IInv, NEW id \in DOMAIN worker, WorkerPoll(id)
  PROVE  IInv'
<1> DEFINE w == worker[id]
           v == [w EXCEPT !.pc = "loop"]
<1>1. /\ w \in [pc : {"loop", "store", "update", "poll"}, batch : Batches, i : Nat]
      /\ WorkerSound(w, addressDB) /\ w.pc = "poll"
  BY DEF IInv, TypeOK, WorkersSound, WorkerPoll
<1>2. /\ worker' = [worker EXCEPT ![id] = v]
      /\ UNCHANGED <<head, disk, run, index, rt, watching, switchReq, failures, crashes>>
  BY DEF WorkerPoll, SetWorker
<1>3. /\ v \in [pc : {"loop", "store", "update", "poll"}, batch : Batches, i : Nat]
      /\ v.pc = "loop" /\ v.batch = w.batch
  BY <1>1
<1>4. WorkerSound(v, addressDB')
  <2> HIDE DEF v, w
  <2> QED BY <1>1, <1>2, <1>3 DEF WorkerSound, InHand, disk
<1> HIDE DEF v
<1>5. /\ DOMAIN worker' = DOMAIN worker /\ WorkersSound'
      /\ \A x \in DOMAIN worker' :
           worker'[x] \in [pc : {"loop", "store", "update", "poll"}, batch : Batches, i : Nat]
  BY <1>2, <1>3, <1>4, WorkerMoves DEF disk
<1>6. TypeOK'
  BY <1>2, <1>5 DEF IInv, TypeOK, disk
<1>7. RecordsOnStride' /\ ProgressSound' /\ BlockRecordBacked' /\ RealtimeSound'
  BY <1>2 DEF IInv, RecordsOnStride, ProgressSound, BlockRecordBacked, RealtimeSound, disk
<1> QED BY <1>5, <1>6, <1>7 DEF IInv

\* Every step of a batch goroutine.
LEMMA WorkersStepSound == IInv /\ Workers => IInv'
<1> SUFFICES ASSUME IInv, NEW id \in DOMAIN worker, Worker(id) \/ WorkerFetchFails(id)
             PROVE  IInv'
  BY DEF Workers
<1>1. CASE WorkerExit(id)
  BY <1>1, WorkerReturnsSound DEF WorkerExit, IInv, TypeOK
<1>2. CASE WorkerFetch(id)
  BY <1>2, WorkerFetchSound
<1>3. CASE WorkerStore(id)
  BY <1>3, WorkerStoreSound
<1>4. CASE WorkerUpdate(id)
  BY <1>4, WorkerUpdateSound
<1>5. CASE WorkerPoll(id)
  BY <1>5, WorkerPollSound
<1>6. CASE WorkerFetchFails(id)
  <2>1. /\ WorkerReturns(id)
        /\ UNCHANGED <<head, disk, run, index, rt, watching, crashes>>
        /\ switchReq' = TRUE
    BY <1>6 DEF WorkerFetchFails, CallFails
  <2>2. failures' \in Nat
    BY <1>6 DEF WorkerFetchFails, CallFails, IInv, TypeOK
  <2> QED BY <2>1, <2>2, WorkerReturnsSound
<1> QED BY <1>1, <1>2, <1>3, <1>4, <1>5, <1>6 DEF Worker

\* A step that leaves the databases and the batch goroutines alone, and does
\* not put the realtime goroutine between its two writes.
LEMMA OthersSound ==
  ASSUME IInv, TypeOK', UNCHANGED disk, worker' = worker \/ worker' = NoWorker,
         rt' = rt \/ rt'.pc # "block"
  PROVE  IInv'
<1>1. RecordsOnStride' /\ ProgressSound' /\ BlockRecordBacked' /\ RealtimeSound'
  BY DEF IInv, RecordsOnStride, ProgressSound, BlockRecordBacked, RealtimeSound, disk
<1>2. WorkersSound'
  BY DEF IInv, WorkersSound, NoWorker, disk
<1> QED BY <1>1, <1>2 DEF IInv

\* The two writes of the realtime goroutine: rows first, then the record.
LEMMA RtStoreSound == IInv /\ (RtStoreAddress \/ RtStoreBlock) => IInv'
<1>1. ASSUME IInv, RtStoreAddress PROVE IInv'
  <2>1. TypeOK'
    BY <1>1 DEF IInv, TypeOK, RtStoreAddress
  <2>2. RecordsOnStride' /\ ProgressSound' /\ BlockRecordBacked'
    BY <1>1 DEF IInv, RecordsOnStride, ProgressSound, BlockRecordBacked, RtStoreAddress
  <2>3. WorkersSound'
    BY <1>1 DEF IInv, WorkersSound, WorkerSound, RtStoreAddress
  <2>4. RealtimeSound'
    BY <1>1 DEF IInv, TypeOK, RealtimeSound, RtStoreAddress
  <2> QED BY <2>1, <2>2, <2>3, <2>4 DEF IInv
<1>2. ASSUME IInv, RtStoreBlock PROVE IInv'
  <2>1. TypeOK'
    <3>1. rt' \in [pc : {"off", "listen"}, next : Nat]
      BY <1>2 DEF IInv, TypeOK, RtStoreBlock
    <3>2. blockDB' \subseteq Nat
      BY <1>2 DEF IInv, TypeOK, RtStoreBlock
    <3>3. rt' \in [pc : {"off", "subscribe", "listen", "address", "block"}, next : Nat]
      BY <3>1
    <3> QED BY <1>2, <3>2, <3>3 DEF IInv, TypeOK, RtStoreBlock
  <2>2. RecordsOnStride' /\ ProgressSound' /\ WorkersSound'
    BY <1>2 DEF IInv, RecordsOnStride, ProgressSound, WorkersSound, RtStoreBlock
  <2>3. BlockRecordBacked' /\ RealtimeSound'
    BY <1>2 DEF IInv, BlockRecordBacked, RealtimeSound, RtStoreBlock
  <2> QED BY <2>1, <2>2, <2>3 DEF IInv
<1> QED BY <1>1, <1>2

\* Every step keeps the inductive invariant.
LEMMA NextSound == IInv /\ [Next]_vars => IInv'
<1> SUFFICES ASSUME IInv, [Next]_vars PROVE IInv'
  OBVIOUS
<1>1. CASE Grow
  <2>1. TypeOK'
    BY <1>1 DEF IInv, TypeOK, Grow, disk
  <2> QED BY <1>1, <2>1, OthersSound DEF Grow
<1>2. CASE IndexBegin
  <2>1. TypeOK'
    BY <1>2 DEF IInv, TypeOK, IndexBegin, disk
  <2> QED BY <1>2, <2>1, OthersSound DEF IndexBegin
<1>3. CASE IndexFails
  <2>1. TypeOK'
    BY <1>3 DEF IInv, TypeOK, IndexFails, CallFails, disk
  <2> QED BY <1>3, <2>1, OthersSound DEF IndexFails
<1>4. CASE Launch
  BY <1>4, LaunchSound
<1>5. CASE BatchesDone
  <2>1. TypeOK'
    BY <1>5 DEF IInv, TypeOK, BatchesDone, disk
  <2> QED BY <1>5, <2>1, OthersSound DEF BatchesDone
<1>6. CASE Workers
  BY <1>6, WorkersStepSound
<1>7. CASE RtSubscribe
  <2>1. TypeOK'
    BY <1>7 DEF IInv, TypeOK, RtSubscribe, disk
  <2> QED BY <1>7, <2>1, OthersSound DEF RtSubscribe
<1>8. CASE RtFetch
  <2>1. TypeOK' /\ rt'.pc = "address"
    BY <1>8 DEF IInv, TypeOK, RtFetch, disk
  <2> QED BY <1>8, <2>1, OthersSound DEF RtFetch
<1>9. CASE RtFails
  <2>1. TypeOK' /\ rt'.pc = "off"
    BY <1>9 DEF IInv, TypeOK, RtFails, CallFails, disk
  <2> QED BY <1>9, <2>1, OthersSound DEF RtFails
<1>10. CASE RtStoreAddress \/ RtStoreBlock
  BY <1>10, RtStoreSound
<1>11. CASE ForceSwitch
  <2>1. TypeOK' /\ (rt' = rt \/ rt'.pc = "off")
    BY <1>11 DEF IInv, TypeOK, ForceSwitch, StopIndex, disk
  <2> QED BY <1>11, <2>1, OthersSound DEF ForceSwitch
<1>12. CASE WatcherSwitch
  <2>1. TypeOK' /\ (rt' = rt \/ rt'.pc = "off")
    BY <1>12 DEF IInv, TypeOK, WatcherSwitch, StopIndex, disk
  <2> QED BY <1>12, <2>1, OthersSound DEF WatcherSwitch
<1>13. CASE Panic \/ Crash
  <2>1. ProcessEnds /\ failures' \in Nat /\ crashes' \in Nat
    BY <1>13 DEF Panic, Crash, IInv, TypeOK
  <2>2. TypeOK'
    BY <2>1 DEF IInv, TypeOK, ProcessEnds, NoIndex, NoWorker, NoRealtime, disk
  <2>3. rt'.pc = "off"
    BY <2>1 DEF ProcessEnds, NoRealtime
  <2> QED BY <2>1, <2>2, <2>3, OthersSound DEF ProcessEnds
<1>14. CASE UNCHANGED vars
  <2>1. TypeOK'
    BY <1>14 DEF IInv, TypeOK, vars, disk
  <2> QED BY <1>14, <2>1, OthersSound DEF vars
<1> QED BY <1>1, <1>2, <1>3, <1>4, <1>5, <1>6, <1>7, <1>8, <1>9, <1>10, <1>11,
           <1>12, <1>13, <1>14 DEF Next

-----------------------------------------------------------------------------
(* The theorems.                                                           *)

\* The inductive invariant holds in every reachable state of index(), its
\* goroutines, the switches and the restarts.
THEOREM Invariance == Spec => []IInv
BY InitSound, NextSound, PTL DEF Spec

\* Every variable keeps its type.
THEOREM TypeCorrect == Spec => []TypeOK
<1>1. IInv => TypeOK
  BY DEF IInv
<1> QED BY <1>1, Invariance, PTL

\* However crashes, failures, switches and the goroutines of several calls of
\* index() interleave, the progress recorded for a batch covers only blocks
\* whose rows are stored: resuming after Current skips nothing.
THEOREM ProgressIsSound == Spec => []ProgressSound
<1>1. IInv => ProgressSound
  BY DEF IInv
<1> QED BY <1>1, Invariance, PTL

\* A batch that the database calls done, and that no restart runs again, has
\* stored the whole of its share.
THEOREM DoneBatchIsCovered == Spec => []DoneBatchCovered
<1>1. IInv => DoneBatchCovered
  BY StoredBatchType, DoneHasTakenAll
  DEF IInv, DoneBatchCovered, RecordsOnStride, ProgressSound
<1> QED BY <1>1, Invariance, PTL

\* The block database names only blocks whose rows are stored, also when the
\* process ends between the two writes of Store.
THEOREM BlockRecordIsBacked == Spec => []BlockRecordBacked
<1>1. IInv => BlockRecordBacked
  BY DEF IInv
<1> QED BY <1>1, Invariance, PTL
=============================================================================

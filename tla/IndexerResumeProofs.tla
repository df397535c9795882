------------------------ MODULE IndexerResumeProofs ------------------------
(***************************************************************************)
(* More proofs about Indexer, on top of its inductive invariant: no block  *)
(* of a recorded batch is left without a goroutine, and the scheduler      *)
(* implements the promise of AccountIndex.                                 *)
(***************************************************************************)
EXTENDS IndexerProofs

WorkerStates == [pc : {"loop", "store", "update", "poll"}, batch : Batches, i : Nat]

-----------------------------------------------------------------------------
(* Shares.                                                                 *)

\* A block of the share up to Current is a block the batch has taken.
LEMMA ShareUpToCurrent ==
  ASSUME NEW b \in Batches, NEW n \in Share(b), n <= b.current
  PROVE  n \in Taken(b)
<1>1. b.from \in Nat /\ b.to \in Nat /\ b.current \in Int
  BY DEF Batches, NoBlock
<1>2. n \in b.from .. b.to /\ \E k \in 0 .. n : n = b.from + k * b.step
  BY DEF Share
<1>3. n \in b.from .. b.current
  BY <1>1, <1>2
<1> QED BY <1>2, <1>3 DEF Taken

\* What is left of the share after Current begins at Next().
LEMMA NothingBetween ==
  ASSUME NEW b \in Batches, OnStride(b), NEW n \in Share(b), n > b.current
  PROVE  n >= NextBlock(b)
<1>1. /\ b.from \in Nat /\ b.to \in Nat /\ b.step \in Nat \ {0}
      /\ b.current \in Nat \cup {NoBlock}
  BY DEF Batches
<1>2. n \in b.from .. b.to /\ n \in Nat
  BY <1>1 DEF Share
<1>3. PICK k \in 0 .. n : n = b.from + k * b.step
  BY DEF Share
<1>4. k \in Nat /\ k * b.step \in Nat
  BY <1>1, <1>2, <1>3, FactorBound
<1>5. CASE b.current = NoBlock
  BY <1>1, <1>2, <1>5 DEF NextBlock
<1>6. CASE b.current # NoBlock
  <2>1. PICK m \in Nat : b.current = b.from + m * b.step
    BY <1>6 DEF OnStride
  <2>2. m * b.step \in Nat /\ (m + 1) * b.step = m * b.step + b.step
    BY <1>1, <2>1, FactorBound
  <2>3. SUFFICES ASSUME n < b.current + b.step PROVE FALSE
    BY <1>1, <1>2, <1>6 DEF NextBlock
  <2>4. k * b.step < m * b.step + b.step
    BY <1>1, <1>3, <1>4, <2>1, <2>2, <2>3
  <2>5. k <= m
    BY <1>1, <1>4, <2>4, FactorOrder
  <2>6. m * b.step = k * b.step + (m - k) * b.step
    BY <1>1, <1>4
  <2>7. (m - k) * b.step \in Nat
    BY <1>1, <1>4, <2>5, FactorBound
  <2> QED BY <1>1, <1>3, <1>4, <2>1, <2>2, <2>6, <2>7
<1> QED BY <1>1, <1>5, <1>6

\* A longer batch has all the blocks of the shorter one in its share.
LEMMA LongerShare ==
  ASSUME NEW b \in Batches, NEW t \in Nat, b.to <= t
  PROVE  Share(b) \subseteq Share([b EXCEPT !.to = t])
<1>1. /\ [b EXCEPT !.to = t].from = b.from
      /\ [b EXCEPT !.to = t].step = b.step
      /\ [b EXCEPT !.to = t].to = t
      /\ b.from \in Nat /\ b.to \in Nat
  BY DEF Batches
<1>2. ASSUME NEW n \in Share(b) PROVE n \in Share([b EXCEPT !.to = t])
  <2>1. n \in b.from .. b.to /\ \E k \in 0 .. n : n = b.from + k * b.step
    BY DEF Share
  <2>2. n \in b.from .. t
    BY <1>1, <2>1
  <2> QED BY <1>1, <2>1, <2>2 DEF Share
<1> QED BY <1>2

-----------------------------------------------------------------------------
(* The invariant of the goroutines of several calls.                       *)

\* No goroutine of this call runs before it launches any.
RunsOrdered ==
  \A id \in DOMAIN worker :
    id.run <= run /\ (index.pc = "latest" => id.run < run)

\* No batch goes beyond the chain, nor beyond the block index() was told of.
TosBounded ==
  /\ index.pc = "latest" => index.latest <= head
  /\ \A k \in DOMAIN batchDB :
       k.to <= head /\ (index.pc = "latest" => k.to <= index.latest)
  /\ \A id \in DOMAIN worker :
       /\ worker[id].batch.to <= head
       /\ index.pc = "latest" => worker[id].batch.to <= index.latest

\* A block that is about to be stored exists.
InHandExists ==
  /\ \A id \in DOMAIN worker :
       worker[id].pc = "store" => worker[id].batch.current <= head
  /\ rt.pc = "address" => rt.next <= head

JInv == RunsOrdered /\ TosBounded /\ InHandExists /\ RecordsResumed

LEMMA InitResumed == Init => JInv
<1> SUFFICES ASSUME Init PROVE JInv
  OBVIOUS
<1>1. /\ DOMAIN worker = {} /\ DOMAIN batchDB = {}
      /\ index.pc = "down" /\ rt.pc = "off"
  BY DEF Init, EmptyDB, NoWorker, NoIndex, NoRealtime
<1> QED BY <1>1 DEF JInv, RunsOrdered, TosBounded, InHandExists, RecordsResumed

-----------------------------------------------------------------------------
(* RecordsResumed, step by step.                                           *)

\* Rows are only added, records and the state of index() stay, and no
\* goroutine drops a block it has not stored: coverage is kept.
LEMMA CoverageKept ==
  ASSUME RecordsResumed, batchDB' = batchDB, addressDB \subseteq addressDB',
         \A n : Covered(n) => Covered(n)',
         index'.pc \in {"wait", "idle"} => index.pc \in {"wait", "idle"},
         ~switchReq' => ~switchReq
  PROVE  RecordsResumed'
BY DEF RecordsResumed

\* A goroutine moves on and keeps what remains to it, but for what is stored.
LEMMA MoveCovers ==
  ASSUME NEW id \in DOMAIN worker, NEW v, worker' = [worker EXCEPT ![id] = v],
         addressDB \subseteq addressDB',
         Remaining(worker[id]) \subseteq Remaining(v) \cup addressDB'
  PROVE  \A n : Covered(n) => Covered(n)'
<1> SUFFICES ASSUME NEW n, Covered(n) PROVE Covered(n)'
  OBVIOUS
<1>1. CASE n \in addressDB
  BY <1>1 DEF Covered
<1>2. CASE n \notin addressDB
  <2>1. PICK x \in DOMAIN worker : n \in Remaining(worker[x])
    BY <1>2 DEF Covered
  <2>2. DOMAIN worker' = DOMAIN worker /\ worker'[id] = v
    OBVIOUS
  <2>3. CASE x = id
    BY <2>1, <2>2, <2>3 DEF Covered, Remaining
  <2>4. CASE x # id
    <3>1. worker'[x] = worker[x]
      BY <2>4
    <3> QED BY <2>1, <2>2, <3>1 DEF Covered, Remaining
  <2> QED BY <2>3, <2>4
<1> QED BY <1>1, <1>2

\* What every step of a batch goroutine leaves alone, and what it moves.
LEMMA WorkerFacts ==
  ASSUME IInv, NEW id \in DOMAIN worker, Worker(id) \/ WorkerFetchFails(id)
  PROVE  /\ UNCHANGED <<head, blockDB, run, index, rt>>
         /\ DOMAIN worker' \subseteq DOMAIN worker
         /\ \A x \in DOMAIN worker' \ {id} : worker'[x] = worker[x]
         /\ id \in DOMAIN worker' =>
              /\ worker'[id].batch.to = worker[id].batch.to
              /\ worker'[id].pc = "store" => worker'[id].batch.current <= head
         /\ DOMAIN batchDB' \subseteq DOMAIN batchDB \cup {BatchKey(worker[id].batch)}
<1>1. worker[id] \in WorkerStates
  BY DEF IInv, TypeOK, WorkerStates
<1>2. CASE WorkerExit(id) \/ WorkerFetchFails(id)
  <2>1. /\ UNCHANGED <<head, blockDB, batchDB, run, index, rt>>
        /\ DOMAIN worker' = DOMAIN worker \ {id}
        /\ \A x \in DOMAIN worker' : worker'[x] = worker[x]
    BY <1>2 DEF WorkerExit, WorkerFetchFails, WorkerReturns, disk
  <2> QED BY <2>1
<1>3. CASE WorkerFetch(id)
  <2>1. /\ Advance(worker[id].batch).to = worker[id].batch.to
        /\ Advance(worker[id].batch).current = NextBlock(worker[id].batch)
    BY <1>1 DEF WorkerStates, Batches, Advance
  <2>2. /\ UNCHANGED <<head, blockDB, batchDB, run, index, rt>>
        /\ DOMAIN worker' = DOMAIN worker
        /\ \A x \in DOMAIN worker \ {id} : worker'[x] = worker[x]
        /\ worker'[id].batch = Advance(worker[id].batch)
        /\ NextBlock(worker[id].batch) <= head
    BY <1>1, <1>3 DEF WorkerFetch, SetWorker, WorkerStates, disk
  <2> QED BY <2>1, <2>2
<1>4. CASE WorkerStore(id) \/ WorkerPoll(id)
  <2>1. /\ UNCHANGED <<head, blockDB, batchDB, run, index, rt>>
        /\ DOMAIN worker' = DOMAIN worker
        /\ \A x \in DOMAIN worker \ {id} : worker'[x] = worker[x]
        /\ worker'[id].batch = worker[id].batch /\ worker'[id].pc # "store"
    BY <1>1, <1>4 DEF WorkerStore, WorkerPoll, SetWorker, WorkerStates, disk
  <2> QED BY <2>1
<1>5. CASE WorkerUpdate(id)
  <2>1. /\ UNCHANGED <<head, blockDB, run, index, rt>>
        /\ DOMAIN worker' = DOMAIN worker
        /\ \A x \in DOMAIN worker \ {id} : worker'[x] = worker[x]
        /\ worker'[id].batch = worker[id].batch /\ worker'[id].pc # "store"
    BY <1>1, <1>5 DEF WorkerUpdate, SetWorker, WorkerStates
  <2>2. DOMAIN batchDB' \subseteq DOMAIN batchDB \cup {BatchKey(worker[id].batch)}
    BY <1>5 DEF WorkerUpdate, UpdateBatch, Put
  <2> QED BY <2>1, <2>2
<1> QED BY <1>2, <1>3, <1>4, <1>5 DEF Worker

\* The goroutines that index() launches, and what it launches them for.
LEMMA LaunchFacts ==
  ASSUME IInv, JInv, Launch
  PROVE  \E last \in Nat :
           LET batches == GetBatches(last, index.latest) IN
           /\ batchDB' = batchDB
           /\ DOMAIN worker' = DOMAIN worker \cup {[run |-> run, key |-> k] : k \in DOMAIN batches}
           /\ \A id \in DOMAIN worker : worker'[id] = worker[id]
           /\ \A k \in DOMAIN batches :
                /\ k \in BatchKeys
                /\ batches[k] \in Batches
                /\ [run |-> run, key |-> k] \notin DOMAIN worker
                /\ worker'[[run |-> run, key |-> k]] = [pc |-> "loop", batch |-> batches[k], i |-> 0]
<1>1. PICK last \in LastBlockNums :
        /\ worker' = StartWorkers(GetBatches(last, index.latest))
        /\ batchDB' = IF DOMAIN batchDB # {} /\ Found(last)
                      THEN ReplaceBatch(batchDB, last, index.latest) ELSE batchDB
  BY DEF Launch
<1>2. last \in Nat
  BY <1>1 DEF LastBlockNums, LastKeys, IInv, TypeOK
<1>3. batchDB' = batchDB
  BY <1>1 DEF ReplaceBatch, FindByFrom
<1>4. index.latest \in Nat /\ run \in Nat
  BY DEF IInv, TypeOK
<1> DEFINE batches == GetBatches(last, index.latest)
<1>5. \A k \in DOMAIN batches : k \in BatchKeys /\ batches[k] \in Batches
  BY <1>2, <1>4, GetBatchesSound
<1> HIDE DEF batches
<1>6. /\ DOMAIN worker' = DOMAIN worker \cup {[run |-> run, key |-> k] : k \in DOMAIN batches}
      /\ \A id \in DOMAIN worker : worker'[id] = worker[id]
      /\ \A id \in DOMAIN worker' \ DOMAIN worker :
           worker'[id] = [pc |-> "loop", batch |-> batches[id.key], i |-> 0]
  BY <1>1 DEF StartWorkers, batches
<1>7. ASSUME NEW k \in DOMAIN batches
      PROVE  [run |-> run, key |-> k] \notin DOMAIN worker
  <2>1. \A id \in DOMAIN worker : id.run < run
    BY DEF JInv, RunsOrdered, Launch
  <2>2. [run |-> run, key |-> k].run = run
    OBVIOUS
  <2> QED BY <1>4, <2>1, <2>2
<1>8. ASSUME NEW k \in DOMAIN batches
      PROVE  worker'[[run |-> run, key |-> k]] = [pc |-> "loop", batch |-> batches[k], i |-> 0]
  <2>1. [run |-> run, key |-> k].key = k
    OBVIOUS
  <2> QED BY <1>6, <1>7, <2>1
<1> QED BY <1>2, <1>3, <1>5, <1>6, <1>7, <1>8 DEF batches

\* How far a batch goes that getBatches hands out.
LEMMA LaunchedTos ==
  ASSUME IInv, NEW last \in Nat, NEW latest \in Nat,
         NEW k \in DOMAIN GetBatches(last, latest)
  PROVE  \/ GetBatches(last, latest)[k].to = latest
         \/ k \in DOMAIN batchDB /\ GetBatches(last, latest)[k].to = k.to
<1>1. CASE DOMAIN batchDB = {}
  <2>1. GetBatches(last, latest) = FirstBatches(latest)
    BY <1>1 DEF GetBatches
  <2>2. PICK b \in GetInitBatches(NumBatch, 0, latest, run) : k = BatchKey(b)
    BY <2>1 DEF FirstBatches
  <2>3. k.to = latest
    BY <2>2 DEF GetInitBatches, BatchKey
  <2>4. GetBatches(last, latest)[k] = BatchOf(k, NoBlock)
    BY <2>1 DEF FirstBatches
  <2> QED BY <2>3, <2>4 DEF BatchOf
<1>2. CASE DOMAIN batchDB # {} /\ k \in Undone
  <2>1. GetBatches(last, latest)[k] = Resumed(k, last, latest) /\ k \in DOMAIN batchDB
    BY <1>2 DEF GetBatches, Undone
  <2>2. StoredBatch(batchDB, k).to = k.to
    BY DEF StoredBatch, BatchOf
  <2>3. [StoredBatch(batchDB, k) EXCEPT !.to = latest].to = latest
    BY DEF StoredBatch, BatchOf
  <2> QED BY <2>1, <2>2, <2>3 DEF Resumed
<1>3. CASE DOMAIN batchDB # {} /\ k \notin Undone
  <2>1. k = CatchUpKey(last, latest) /\ GetBatches(last, latest)[k] = BatchOf(k, NoBlock)
    BY <1>3 DEF GetBatches
  <2> QED BY <2>1 DEF CatchUpKey, BatchOf
<1> QED BY <1>1, <1>2, <1>3

-----------------------------------------------------------------------------
(* The goroutines of several calls, step by step.                          *)

\* A step of a batch goroutine keeps the bounds.
LEMMA WorkersStepBounded ==
  ASSUME IInv, JInv, Workers
  PROVE  RunsOrdered' /\ TosBounded' /\ InHandExists'
<1>1. PICK id \in DOMAIN worker : Worker(id) \/ WorkerFetchFails(id)
  BY DEF Workers
<1>2. /\ UNCHANGED <<head, blockDB, run, index, rt>>
      /\ DOMAIN worker' \subseteq DOMAIN worker
      /\ \A x \in DOMAIN worker' \ {id} : worker'[x] = worker[x]
      /\ id \in DOMAIN worker' =>
           /\ worker'[id].batch.to = worker[id].batch.to
           /\ worker'[id].pc = "store" => worker'[id].batch.current <= head
      /\ DOMAIN batchDB' \subseteq DOMAIN batchDB \cup {BatchKey(worker[id].batch)}
  BY <1>1, WorkerFacts
<1>3. RunsOrdered'
  BY <1>2 DEF JInv, RunsOrdered
<1>4. TosBounded'
  BY <1>2 DEF JInv, TosBounded, BatchKey
<1>5. InHandExists'
  BY <1>2 DEF JInv, InHandExists
<1> QED BY <1>3, <1>4, <1>5

\* The new goroutines keep the bounds.
LEMMA LaunchBounded ==
  ASSUME IInv, JInv, Launch
  PROVE  RunsOrdered' /\ TosBounded' /\ InHandExists'
<1>1. PICK last \in Nat :
        LET batches == GetBatches(last, index.latest) IN
        /\ batchDB' = batchDB
        /\ DOMAIN worker' = DOMAIN worker \cup {[run |-> run, key |-> k] : k \in DOMAIN batches}
        /\ \A id \in DOMAIN worker : worker'[id] = worker[id]
        /\ \A k \in DOMAIN batches :
             /\ k \in BatchKeys
             /\ batches[k] \in Batches
             /\ [run |-> run, key |-> k] \notin DOMAIN worker
             /\ worker'[[run |-> run, key |-> k]] = [pc |-> "loop", batch |-> batches[k], i |-> 0]
  BY LaunchFacts
<1>2. /\ UNCHANGED <<head, run>> /\ index.pc = "latest" /\ index'.pc = "wait"
      /\ rt'.pc = "subscribe" /\ run \in Nat /\ index.latest \in Nat
  BY DEF Launch, IInv, TypeOK
<1> DEFINE batches == GetBatches(last, index.latest)
           new == {[run |-> run, key |-> k] : k \in DOMAIN batches}
<1>3. \A k \in DOMAIN batches : batches[k].to <= head
  <2> SUFFICES ASSUME NEW k \in DOMAIN batches PROVE batches[k].to <= head
    OBVIOUS
  <2>1. batches[k].to = index.latest \/ (k \in DOMAIN batchDB /\ batches[k].to = k.to)
    BY <1>2, LaunchedTos
  <2> QED BY <1>2, <2>1 DEF JInv, TosBounded
<1>4. DOMAIN worker' = DOMAIN worker \cup new
  BY <1>1
<1>5. ASSUME NEW id \in new
      PROVE  /\ id.run = run
             /\ worker'[id].pc = "loop"
             /\ worker'[id].batch.to <= head
  <2>1. PICK k \in DOMAIN batches : id = [run |-> run, key |-> k]
    OBVIOUS
  <2>2. worker'[id] = [pc |-> "loop", batch |-> batches[k], i |-> 0]
    BY <1>1, <2>1
  <2>3. batches[k].to <= head
    BY <1>3
  <2> HIDE DEF batches, new
  <2> QED BY <2>1, <2>2, <2>3
<1> HIDE DEF batches
<1>6. \A id \in DOMAIN worker : worker'[id] = worker[id]
  BY <1>1
<1> HIDE DEF new
<1>7. RunsOrdered'
  BY <1>2, <1>4, <1>5 DEF JInv, RunsOrdered
<1>8. TosBounded'
  BY <1>1, <1>2, <1>4, <1>5, <1>6 DEF JInv, TosBounded
<1>9. InHandExists'
  BY <1>2, <1>4, <1>5, <1>6 DEF JInv, InHandExists
<1> QED BY <1>7, <1>8, <1>9

\* So does every other step.
LEMMA OthersBounded ==
  ASSUME IInv, JInv, [Next]_vars, ~Workers, ~Launch
  PROVE  RunsOrdered' /\ TosBounded' /\ InHandExists'
<1>1. /\ head \in Nat /\ run \in Nat /\ index.latest \in Nat
      /\ \A k \in DOMAIN batchDB : k.to \in Nat
      /\ \A id \in DOMAIN worker : id.run \in Nat /\ worker[id].batch.to \in Nat
      /\ \A id \in DOMAIN worker : worker[id].pc = "store" => worker[id].batch.current \in Nat
  BY DEF IInv, TypeOK, BatchKeys, WorkerIds, Batches, WorkersSound, WorkerSound
<1>2. batchDB' = batchDB
  BY DEF Next, Grow, IndexBegin, IndexFails, BatchesDone, RtSubscribe, RtFetch, RtFails,
         RtStoreAddress, RtStoreBlock, ForceSwitch, WatcherSwitch, Panic, Crash, ProcessEnds,
         vars, disk
<1>3. worker' = worker \/ DOMAIN worker' = {}
  BY DEF Next, Grow, IndexBegin, IndexFails, BatchesDone, RtSubscribe, RtFetch, RtFails,
         RtStoreAddress, RtStoreBlock, ForceSwitch, WatcherSwitch, Panic, Crash, ProcessEnds,
         NoWorker, vars
<1>4. head' \in Nat /\ head' >= head /\ run' \in {run, run + 1}
  BY <1>1 DEF Next, Grow, IndexBegin, IndexFails, BatchesDone, RtSubscribe, RtFetch, RtFails,
         RtStoreAddress, RtStoreBlock, ForceSwitch, WatcherSwitch, Panic, Crash, ProcessEnds,
         vars
<1>5. index'.pc = "latest" =>
        \/ index' = index /\ run' = run
        \/ run' = run + 1 /\ index'.latest = head /\ head' = head
  BY <1>1 DEF Next, Grow, IndexBegin, IndexFails, BatchesDone, RtSubscribe, RtFetch, RtFails,
         RtStoreAddress, RtStoreBlock, ForceSwitch, WatcherSwitch, StopIndex, Panic, Crash,
         ProcessEnds, NoIndex, IInv, TypeOK, vars
<1>6. rt'.pc = "address" => rt' = rt \/ (rt.next <= head /\ rt'.next = rt.next)
  BY DEF Next, Grow, IndexBegin, IndexFails, BatchesDone, RtSubscribe, RtFetch, RtFails,
         RtStoreAddress, RtStoreBlock, ForceSwitch, WatcherSwitch, StopIndex, Panic, Crash,
         ProcessEnds, NoRealtime, IInv, TypeOK, vars
<1>7. RunsOrdered'
  BY <1>1, <1>3, <1>4, <1>5 DEF JInv, RunsOrdered
<1>8. TosBounded'
  BY <1>1, <1>2, <1>3, <1>4, <1>5 DEF JInv, TosBounded
<1>9. InHandExists'
  BY <1>1, <1>3, <1>4, <1>6 DEF JInv, InHandExists, IInv, TypeOK
<1> QED BY <1>7, <1>8, <1>9

LEMMA Bounded ==
  ASSUME IInv, JInv, [Next]_vars
  PROVE  RunsOrdered' /\ TosBounded' /\ InHandExists'
BY WorkersStepBounded, LaunchBounded, OthersBounded

-----------------------------------------------------------------------------
(* RecordsResumed, step by step.                                           *)

\* What a batch goroutine does not have behind it, it has before it.
LEMMA TakenOrRemaining ==
  ASSUME NEW w \in WorkerStates, NEW n \in Share(w.batch)
  PROVE  n \in Taken(w.batch) \/ n \in Remaining(w)
<1>1. w.batch \in Batches /\ w.batch.current \in Int /\ n \in Int
  BY DEF WorkerStates, Batches, NoBlock, Share
<1> QED BY <1>1, ShareUpToCurrent DEF Remaining

\* The records when index() starts: the done ones are stored, and each of the
\* others gets a goroutine that goes on after Current.
LEMMA LaunchResumes ==
  ASSUME IInv, JInv, Launch
  PROVE  RecordsResumed'
<1>1. PICK last \in Nat :
        LET batches == GetBatches(last, index.latest) IN
        /\ batchDB' = batchDB
        /\ DOMAIN worker' = DOMAIN worker \cup {[run |-> run, key |-> k] : k \in DOMAIN batches}
        /\ \A id \in DOMAIN worker : worker'[id] = worker[id]
        /\ \A k \in DOMAIN batches :
             /\ k \in BatchKeys
             /\ batches[k] \in Batches
             /\ [run |-> run, key |-> k] \notin DOMAIN worker
             /\ worker'[[run |-> run, key |-> k]] = [pc |-> "loop", batch |-> batches[k], i |-> 0]
  BY LaunchFacts
<1>2. addressDB' = addressDB /\ index.pc = "latest" /\ index.latest \in Nat
  BY DEF Launch, IInv, TypeOK
<1> SUFFICES ASSUME NEW k \in DOMAIN batchDB, NEW n \in Share(StoredBatch(batchDB, k)),
                    n \notin addressDB
             PROVE  \E id \in DOMAIN worker' : n \in Remaining(worker'[id])
  BY <1>1, <1>2 DEF RecordsResumed, Covered, Remaining
<1> DEFINE b == StoredBatch(batchDB, k)
           v == GetBatches(last, index.latest)[k]
           id == [run |-> run, key |-> k]
<1>3. b \in Batches /\ OnStride(b) /\ Taken(b) \subseteq addressDB
  BY StoredBatchType DEF IInv, RecordsOnStride, ProgressSound
<1>4. k \in Undone
  BY <1>3, DoneHasTakenAll DEF Undone
<1>5. k \in DOMAIN GetBatches(last, index.latest) /\ v = Resumed(k, last, index.latest)
  BY <1>4 DEF GetBatches
<1>6. n \in Share(v) /\ Taken(v) = Taken(b) /\ v \in Batches
  <2>1. CASE k.from = last
    <3>1. v = [b EXCEPT !.to = index.latest]
      BY <1>5, <2>1 DEF Resumed
    <3>2. b.to <= index.latest
      BY <1>2 DEF JInv, TosBounded, StoredBatch, BatchOf
    <3> HIDE DEF v, b
    <3>3. n \in Share(b)
      BY DEF b
    <3> QED BY <1>2, <1>3, <3>1, <3>2, <3>3, LongerShare, NewTo
  <2>2. CASE k.from # last
    BY <1>3, <1>5, <2>2 DEF Resumed
  <2> QED BY <2>1, <2>2
<1>7. id \in DOMAIN worker' /\ worker'[id] = [pc |-> "loop", batch |-> v, i |-> 0]
  BY <1>1, <1>5
<1> HIDE DEF v, b, id
<1>8. worker'[id] \in WorkerStates /\ worker'[id].batch = v
  BY <1>6, <1>7 DEF WorkerStates
<1>9. n \in Remaining(worker'[id])
  BY <1>3, <1>6, <1>8, TakenOrRemaining
<1> QED BY <1>7, <1>9

\* A goroutine that ends at the end of its batch has stored all of it.
LEMMA ExitResumes ==
  ASSUME IInv, JInv, NEW id \in DOMAIN worker, WorkerExit(id)
  PROVE  RecordsResumed'
<1>1. /\ worker[id] \in WorkerStates
      /\ OnStride(worker[id].batch) /\ worker[id].pc = "loop"
      /\ Taken(worker[id].batch) \subseteq addressDB
      /\ IsDone(worker[id].batch)
  BY DEF IInv, TypeOK, WorkerStates, WorkersSound, WorkerSound, InHand, WorkerExit
<1>2. Share(worker[id].batch) \subseteq addressDB
  BY <1>1, DoneHasTakenAll DEF WorkerStates
<1>3. Remaining(worker[id]) \subseteq addressDB
  BY <1>2 DEF Remaining
<1>4. /\ UNCHANGED <<disk, index, switchReq>>
      /\ DOMAIN worker' = DOMAIN worker \ {id}
      /\ \A x \in DOMAIN worker' : worker'[x] = worker[x]
  BY DEF WorkerExit, WorkerReturns
<1>5. \A n : Covered(n) => Covered(n)'
  <2> SUFFICES ASSUME NEW n, Covered(n), n \notin addressDB PROVE Covered(n)'
    BY <1>4 DEF Covered, disk
  <2>1. PICK x \in DOMAIN worker : n \in Remaining(worker[x])
    BY DEF Covered
  <2>2. x \in DOMAIN worker' /\ worker'[x] = worker[x]
    BY <1>3, <1>4, <2>1
  <2> QED BY <2>1, <2>2 DEF Covered, Remaining
<1> QED BY <1>4, <1>5, CoverageKept DEF JInv, disk

\* A goroutine that takes the next block jumps over no block of its share.
LEMMA FetchResumes ==
  ASSUME IInv, JInv, NEW id \in DOMAIN worker, WorkerFetch(id)
  PROVE  RecordsResumed'
<1> DEFINE w == worker[id]
           v == [w EXCEPT !.pc = "store", !.batch = Advance(w.batch)]
<1>1. w \in WorkerStates /\ w.pc = "loop" /\ OnStride(w.batch)
  BY DEF IInv, TypeOK, WorkerStates, WorkersSound, WorkerSound, WorkerFetch
<1>2. /\ worker' = [worker EXCEPT ![id] = v]
      /\ UNCHANGED <<disk, index, switchReq>>
  BY DEF WorkerFetch, SetWorker
<1>3. /\ v.pc = "store" /\ v.batch.current = NextBlock(w.batch)
      /\ v.batch.from = w.batch.from /\ v.batch.to = w.batch.to
      /\ v.batch.step = w.batch.step
  BY <1>1 DEF WorkerStates, Batches, Advance
<1>4. Share(v.batch) = Share(w.batch)
  BY <1>3 DEF Share
<1>5. Remaining(w) \subseteq Remaining(v)
  <2> SUFFICES ASSUME NEW n \in Remaining(w) PROVE n \in Remaining(v)
    OBVIOUS
  <2>1. n \in Share(w.batch) /\ n > w.batch.current /\ n \in Int
    BY <1>1 DEF Remaining, Share
  <2>2. n >= NextBlock(w.batch) /\ NextBlock(w.batch) \in Nat
    BY <1>1, <2>1, NothingBetween, AdvanceTakes DEF WorkerStates
  <2> HIDE DEF v, w
  <2> QED BY <1>3, <1>4, <2>1, <2>2 DEF Remaining
<1> HIDE DEF v, w
<1>6. \A n : Covered(n) => Covered(n)'
  BY <1>2, <1>5, MoveCovers DEF disk, w
<1> QED BY <1>2, <1>6, CoverageKept DEF JInv, disk

\* A goroutine that stores its block has it no longer before it.
LEMMA StoreResumes ==
  ASSUME IInv, JInv, NEW id \in DOMAIN worker, WorkerStore(id)
  PROVE  RecordsResumed'
<1> DEFINE w == worker[id]
           v == [w EXCEPT !.pc = "update"]
<1>1. w \in WorkerStates /\ w.pc = "store"
  BY DEF IInv, TypeOK, WorkerStates, WorkerStore
<1>2. /\ worker' = [worker EXCEPT ![id] = v]
      /\ addressDB' = addressDB \cup {w.batch.current}
      /\ UNCHANGED <<batchDB, index, switchReq>>
  BY DEF WorkerStore, SetWorker
<1>3. v.pc = "update" /\ v.batch = w.batch
  BY <1>1 DEF WorkerStates
<1>4. Remaining(w) \subseteq Remaining(v) \cup addressDB'
  BY <1>2, <1>3 DEF Remaining
<1> HIDE DEF v, w
<1>5. \A n : Covered(n) => Covered(n)'
  BY <1>2, <1>4, MoveCovers DEF w
<1> QED BY <1>2, <1>5, CoverageKept DEF JInv

\* A goroutine that polls its stop channel keeps all it has to do.
LEMMA PollResumes ==
  ASSUME IInv, JInv, NEW id \in DOMAIN worker, WorkerPoll(id)
  PROVE  RecordsResumed'
<1> DEFINE w == worker[id]
           v == [w EXCEPT !.pc = "loop"]
<1>1. w \in WorkerStates /\ w.pc = "poll"
  BY DEF IInv, TypeOK, WorkerStates, WorkerPoll
<1>2. /\ worker' = [worker EXCEPT ![id] = v]
      /\ UNCHANGED <<disk, index, switchReq>>
  BY DEF WorkerPoll, SetWorker
<1>3. v.pc = "loop" /\ v.batch = w.batch
  BY <1>1 DEF WorkerStates
<1>4. Remaining(w) \subseteq Remaining(v)
  BY <1>1, <1>3 DEF Remaining
<1> HIDE DEF v, w
<1>5. \A n : Covered(n) => Covered(n)'
  BY <1>2, <1>4, MoveCovers DEF w, disk
<1> QED BY <1>2, <1>5, CoverageKept DEF JInv, disk

\* A new record is the progress of a goroutine that still has the rest of the
\* share before it, or is done with it.
LEMMA UpdateResumes ==
  ASSUME IInv, JInv, NEW id \in DOMAIN worker, WorkerUpdate(id)
  PROVE  RecordsResumed'
<1> DEFINE w == worker[id]
           i == (w.i + 1) % CheckEvery
           v == [w EXCEPT !.pc = IF i = 0 THEN "poll" ELSE "loop", !.i = i]
           key == BatchKey(w.batch)
<1>1. /\ w \in WorkerStates /\ w.pc = "update"
      /\ Taken(w.batch) \subseteq addressDB
  BY DEF IInv, TypeOK, WorkerStates, WorkersSound, WorkerSound, InHand, WorkerUpdate
<1>2. /\ worker' = [worker EXCEPT ![id] = v]
      /\ batchDB' = Put(batchDB, key, w.batch.current)
      /\ UNCHANGED <<addressDB, index, switchReq>>
  BY DEF WorkerUpdate, SetWorker, UpdateBatch
<1>3. v.pc \in {"loop", "poll"} /\ v.batch = w.batch
  BY <1>1 DEF WorkerStates
<1>4. Remaining(w) \subseteq Remaining(v) /\ Remaining(v) \subseteq Remaining(w)
  BY <1>1, <1>3 DEF Remaining
<1>5. /\ DOMAIN batchDB' = DOMAIN batchDB \cup {key}
      /\ \A k \in DOMAIN batchDB' : Share(StoredBatch(batchDB, k)) = Share(StoredBatch(batchDB', k))
  BY <1>2 DEF Put, StoredBatch, BatchOf, Share
<1>6. Share(StoredBatch(batchDB', key)) = Share(w.batch)
  BY <1>1 DEF StoredBatch, BatchOf, BatchKey, Share
<1>7. id \in DOMAIN worker' /\ worker'[id] = v
  BY <1>2
<1> HIDE DEF v, w, key
<1>8. \A n : Covered(n) => Covered(n)'
  BY <1>2, <1>4, MoveCovers DEF w
<1>9. \A n \in Share(w.batch) : Covered(n)'
  <2> SUFFICES ASSUME NEW n \in Share(w.batch) PROVE Covered(n)'
    OBVIOUS
  <2>1. n \in addressDB' \/ n \in Remaining(worker'[id])
    BY <1>1, <1>2, <1>4, <1>7, TakenOrRemaining
  <2> QED BY <1>7, <2>1 DEF Covered, Remaining
<1>10. SUFFICES ASSUME index.pc \in {"wait", "idle"}, ~switchReq,
                       NEW k \in DOMAIN batchDB', NEW n \in Share(StoredBatch(batchDB', k))
                PROVE  Covered(n)'
  BY <1>2 DEF RecordsResumed
<1>11. CASE k = key
  BY <1>6, <1>9, <1>11
<1>12. CASE k # key
  BY <1>5, <1>8, <1>10, <1>12 DEF JInv, RecordsResumed
<1> QED BY <1>11, <1>12

LEMMA WorkersStepResumes ==
  ASSUME IInv, JInv, Workers
  PROVE  RecordsResumed'
<1>1. PICK id \in DOMAIN worker : Worker(id) \/ WorkerFetchFails(id)
  BY DEF Workers
<1>2. CASE WorkerFetchFails(id)
  BY <1>2 DEF WorkerFetchFails, CallFails, RecordsResumed
<1> QED BY <1>1, <1>2, ExitResumes, FetchResumes, StoreResumes, UpdateResumes, PollResumes
    DEF Worker

\* The steps of the other goroutines leave the batches alone, or leave it to
\* the next index() to resume them.
LEMMA OthersResume ==
  ASSUME IInv, JInv, [Next]_vars, ~Workers, ~Launch
  PROVE  RecordsResumed'
<1>1. CASE \/ IndexBegin \/ IndexFails \/ RtFails \/ ForceSwitch \/ Panic \/ Crash
           \/ (WatcherSwitch /\ index'.pc = "switching")
  <2>1. index'.pc \notin {"wait", "idle"} \/ switchReq'
    BY <1>1 DEF IndexBegin, IndexFails, RtFails, CallFails, ForceSwitch, StopIndex, Panic,
                Crash, ProcessEnds, NoIndex, IInv, TypeOK
  <2> QED BY <2>1 DEF RecordsResumed
<1>2. CASE \/ Grow \/ BatchesDone \/ RtSubscribe \/ RtFetch \/ RtStoreAddress \/ RtStoreBlock
           \/ (WatcherSwitch /\ index'.pc # "switching") \/ UNCHANGED vars
  <2>1. /\ worker' = worker /\ batchDB' = batchDB /\ switchReq' = switchReq
        /\ addressDB \subseteq addressDB'
    BY <1>2 DEF Grow, BatchesDone, RtSubscribe, RtFetch, RtStoreAddress, RtStoreBlock,
                WatcherSwitch, vars, disk
  <2>2. index'.pc \in {"wait", "idle"} => index.pc \in {"wait", "idle"}
    BY <1>2 DEF Grow, BatchesDone, RtSubscribe, RtFetch, RtStoreAddress, RtStoreBlock,
                WatcherSwitch, StopIndex, IInv, TypeOK, vars
  <2>3. \A n : Covered(n) => Covered(n)'
    BY <2>1 DEF Covered, Remaining
  <2> QED BY <2>1, <2>2, <2>3, CoverageKept DEF JInv
<1> QED BY <1>1, <1>2 DEF Next

LEMMA JNext == IInv /\ JInv /\ [Next]_vars => JInv'
<1> SUFFICES ASSUME IInv, JInv, [Next]_vars PROVE JInv'
  OBVIOUS
<1>1. RunsOrdered' /\ TosBounded' /\ InHandExists'
  BY Bounded
<1>2. RecordsResumed'
  BY WorkersStepResumes, LaunchResumes, OthersResume
<1> QED BY <1>1, <1>2 DEF JInv

THEOREM ResumeInvariance == Spec => [](IInv /\ JInv)
<1>1. Init => IInv /\ JInv
  BY InitSound, InitResumed
<1>2. IInv /\ JInv /\ [Next]_vars => (IInv /\ JInv)'
  BY NextSound, JNext
<1> QED BY <1>1, <1>2, PTL DEF Spec

\* While index() waits for its goroutines, every block of every recorded batch
\* is stored or before some goroutine, or a failure has asked for a switch:
\* getBatches and batchIndex lose no block between two calls of index().
THEOREM RecordsAreResumed == Spec => []RecordsResumed
<1>1. JInv => RecordsResumed
  BY DEF JInv
<1> QED BY <1>1, ResumeInvariance, PTL

-----------------------------------------------------------------------------
(* The refinement of AccountIndex.                                         *)

promiseVars == <<head, addressDB, Claimed>>

\* Nothing is claimed that is not indexed, before and after a step.
LEMMA ClaimsBacked ==
  /\ IInv => Claimed \subseteq addressDB
  /\ IInv' => Claimed' \subseteq addressDB'
BY DEF IInv, ProgressSound, BlockRecordBacked, Claimed

\* What is claimed only changes with the two databases it is read from.
LEMMA ClaimedSame ==
  ASSUME blockDB' = blockDB, batchDB' = batchDB
  PROVE  Claimed' = Claimed
BY DEF Claimed

\* A batch goroutine indexes a block of the chain, claims what is indexed, or
\* does nothing a client could see.
LEMMA WorkersKeepPromise ==
  ASSUME IInv, IInv', JInv, Workers
  PROVE  [Promise!Next]_promiseVars
<1>1. PICK id \in DOMAIN worker : Worker(id) \/ WorkerFetchFails(id)
  BY DEF Workers
<1>2. CASE WorkerStore(id)
  <2>1. worker[id].batch.current \in 0 .. head
    BY <1>2 DEF IInv, TypeOK, WorkersSound, WorkerSound, JInv, InHandExists, WorkerStore
  <2>2. /\ addressDB' = addressDB \cup {worker[id].batch.current}
        /\ UNCHANGED <<head, Claimed>>
    BY <1>2, ClaimedSame DEF WorkerStore
  <2>3. Promise!Index
    BY <2>1, <2>2 DEF Promise!Index
  <2> QED BY <2>3 DEF Promise!Next
<1>3. CASE WorkerUpdate(id)
  <2>1. UNCHANGED <<head, addressDB>>
    BY <1>3 DEF WorkerUpdate
  <2>2. Promise!Claim
    BY <2>1, ClaimsBacked DEF Promise!Claim
  <2> QED BY <2>2 DEF Promise!Next
<1>4. CASE WorkerExit(id) \/ WorkerFetch(id) \/ WorkerPoll(id) \/ WorkerFetchFails(id)
  <2>1. UNCHANGED <<head, disk>>
    BY <1>4 DEF WorkerExit, WorkerFetch, WorkerPoll, WorkerFetchFails
  <2> QED BY <2>1, ClaimedSame DEF disk, promiseVars
<1> QED BY <1>1, <1>2, <1>3, <1>4 DEF Worker

\* So do the subscription and everything else.
LEMMA OthersKeepPromise ==
  ASSUME IInv, IInv', JInv, [Next]_vars, ~Workers
  PROVE  [Promise!Next]_promiseVars
<1>1. CASE Grow
  <2>1. head' = head + 1 /\ UNCHANGED <<addressDB, Claimed>>
    BY <1>1, ClaimedSame DEF Grow, disk
  <2> QED BY <2>1 DEF Promise!Next, Promise!Extend
<1>2. CASE RtStoreAddress
  <2>1. /\ rt.next \in 0 .. head /\ addressDB' = addressDB \cup {rt.next}
        /\ UNCHANGED <<head, Claimed>>
    BY <1>2, ClaimedSame DEF IInv, TypeOK, JInv, InHandExists, RtStoreAddress
  <2>2. Promise!Index
    BY <2>1 DEF Promise!Index
  <2> QED BY <2>2 DEF Promise!Next
<1>3. CASE RtStoreBlock
  <2>1. UNCHANGED <<head, addressDB>>
    BY <1>3 DEF RtStoreBlock
  <2> QED BY <2>1, ClaimsBacked DEF Promise!Claim, Promise!Next
<1>4. CASE Launch
  <2>1. UNCHANGED <<head, disk>>
    BY <1>4 DEF Launch, ReplaceBatch, FindByFrom, disk
  <2> QED BY <2>1, ClaimedSame DEF disk, promiseVars
<1>5. CASE \/ IndexBegin \/ IndexFails \/ BatchesDone \/ RtSubscribe \/ RtFetch \/ RtFails
           \/ ForceSwitch \/ WatcherSwitch \/ Panic \/ Crash \/ UNCHANGED vars
  <2>1. UNCHANGED <<head, disk>>
    BY <1>5 DEF IndexBegin, IndexFails, BatchesDone, RtSubscribe, RtFetch, RtFails, ForceSwitch,
                WatcherSwitch, Panic, Crash, ProcessEnds, vars
  <2> QED BY <2>1, ClaimedSame DEF disk, promiseVars
<1> QED BY <1>1, <1>2, <1>3, <1>4, <1>5 DEF Next

\* index(), its goroutines, the subscription, the switches and the restarts
\* together implement the promise of AccountIndex.
THEOREM ImplementsPromise == Spec => KeepsPromise
<1>1. Init => Promise!Init
  <2> SUFFICES ASSUME Init PROVE Promise!Init
    OBVIOUS
  <2>1. head \in Nat /\ addressDB = {} /\ blockDB = {} /\ DOMAIN batchDB = {}
    BY HeadAssumption DEF Init, EmptyDB
  <2>2. Claimed = {}
    BY <2>1 DEF Claimed
  <2> QED BY <2>1, <2>2 DEF Promise!Init
<1>2. IInv /\ JInv /\ IInv' /\ [Next]_vars => [Promise!Next]_<<head, addressDB, Claimed>>
  BY WorkersKeepPromise, OthersKeepPromise DEF promiseVars
<1> QED BY <1>1, <1>2, ResumeInvariance, Invariance, PTL DEF Spec, KeepsPromise, Promise!Spec

-----------------------------------------------------------------------------
(* The first sync.                                                         *)

\* The interleaved batches of GetInitBatches leave out no block between the
\* genesis block and the latest one, and share none.
THEOREM FirstBatchesPartition ==
  ASSUME NEW latest \in Nat, NEW now \in Nat, NEW n \in 0 .. latest
  PROVE  LET batches == GetInitBatches(NumBatch, 0, latest, now) IN
         /\ \E b \in batches : n \in Share(b)
         /\ \A b, c \in batches : n \in Share(b) /\ n \in Share(c) => b = c
<1> DEFINE batches == GetInitBatches(NumBatch, 0, latest, now)
           Start(i) == [from |-> 0 + i, to |-> latest, step |-> NumBatch,
                        createdAt |-> now, current |-> NoBlock]
<1>1. NumBatch \in Nat \ {0} /\ n \in Nat
  BY NumBatchAssumption
<1>2. \E b \in batches : n \in Share(b)
  <2> DEFINE i == n % NumBatch
             k == n \div NumBatch
  <2>1. /\ i \in 0 .. NumBatch - 1 /\ k \in Nat
        /\ n = k * NumBatch + i
    BY <1>1
  <2>2. k \in 0 .. n /\ i <= n
    <3> HIDE DEF i, k
    <3>1. k * NumBatch \in Nat /\ k <= k * NumBatch
      BY <1>1, <2>1, FactorBound
    <3> QED BY <1>1, <2>1, <3>1
  <2> HIDE DEF i, k
  <2>3. n \in i .. latest /\ n = i + k * NumBatch
    <3>1. k * NumBatch \in Nat
      BY <1>1, <2>1, FactorBound
    <3> QED BY <1>1, <2>1, <2>2, <3>1
  <2>4. Start(i) \in batches
    BY <2>1 DEF GetInitBatches
  <2>5. n \in Share(Start(i))
    BY <2>1, <2>2, <2>3 DEF Share
  <2> QED BY <2>4, <2>5
<1>3. ASSUME NEW b \in batches, NEW c \in batches, n \in Share(b), n \in Share(c)
      PROVE  b = c
  <2>1. PICK i \in 0 .. NumBatch - 1 : b = Start(i)
    BY DEF GetInitBatches
  <2>2. PICK j \in 0 .. NumBatch - 1 : c = Start(j)
    BY DEF GetInitBatches
  <2>3. PICK k \in 0 .. n : n = i + k * NumBatch
    BY <1>3, <2>1 DEF Share
  <2>4. PICK m \in 0 .. n : n = j + m * NumBatch
    BY <1>3, <2>2 DEF Share
  <2>5. /\ i \in Nat /\ j \in Nat /\ i < NumBatch /\ j < NumBatch
        /\ k \in Nat /\ m \in Nat
        /\ k * NumBatch \in Nat /\ m * NumBatch \in Nat
    BY <1>1, <2>1, <2>2, <2>3, <2>4, FactorBound
  <2>6. k * NumBatch < m * NumBatch + NumBatch /\ m * NumBatch < k * NumBatch + NumBatch
    BY <1>1, <2>3, <2>4, <2>5
  <2>7. k <= m /\ m <= k
    BY <1>1, <2>5, <2>6, FactorOrder
  <2>8. i = j
    BY <2>3, <2>4, <2>5, <2>7
  <2> QED BY <2>1, <2>2, <2>8
<1> QED BY <1>2, <1>3
=============================================================================

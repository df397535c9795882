------------------------------ MODULE Indexer ------------------------------
(***************************************************************************)
(* The scheduling of the account indexer (indexer/indexer.go), with the    *)
(* parts of fetcher/fetch.go and watcher/check_node_status.go it drives:   *)
(*   - index() asks the node for its latest block, chooses the batches and *)
(*     starts one goroutine per batch and one for the newHead subscription;*)
(*   - a batch goroutine takes its blocks in order and records after each  *)
(*     one how far it is;                                                  *)
(*   - an IPC switch closes the stop channel and calls index() again;      *)
(*   - the process may crash, and a new one starts from the databases.     *)
(* Blocks are their numbers: what is stored of a block, and reorgs, are    *)
(* the subject of IndexRepo.  Which of several callers of ChangeIPC wins   *)
(* is the subject of IpcManager: here a request is a flag.                 *)
(***************************************************************************)
EXTENDS BatchRepo, BlockKey

CONSTANTS
  NumBatch,    \* config.NumBatch: how many batches share the first sync
  NumIPC,      \* how many nodes were given with --ipc
  CheckEvery,  \* a batch polls its stop channel every CheckEvery blocks (10)
  InitHead,    \* the node's latest block when the first process starts
  MaxHead,     \* bound: blocks the chain may grow to
  MaxRuns,     \* bound: calls of index()
  MaxFailures, \* bound: failed calls to the node
  MaxCrashes   \* bound: crashes of the process

ASSUME NumBatchAssumption   == NumBatch \in Nat \ {0}
ASSUME NumIPCAssumption     == NumIPC \in Nat \ {0}
ASSUME CheckEveryAssumption == CheckEvery \in Nat \ {0}
ASSUME HeadAssumption       == InitHead \in Nat /\ MaxHead \in Nat /\ InitHead <= MaxHead
ASSUME BoundsAssumption     == {MaxRuns, MaxFailures, MaxCrashes} \subseteq Nat

VARIABLES
  head,       \* the node's latest block; blocks 0 .. head exist
  addressDB,  \* address database: the blocks whose rows it holds
  blockDB,    \* block database: the blocks received from newHead
  batchDB,    \* batch status database: batch key -> Current
  run,        \* how many times index() was called; also the time it was
  index,      \* the goroutine of index(): its pc, and latestBlock
  worker,     \* the batch goroutines: id -> pc, batch and loop counter
  rt,         \* the realtime goroutines: their pc, and the header to process
  watching,   \* NodeStatusWatcher.isWatching
  switchReq,  \* a call of ForceChangeIPC was started and not yet handled
  failures,   \* failed calls to the node so far
  crashes     \* crashes so far

disk  == <<addressDB, blockDB, batchDB>>
vars  == <<head, disk, run, index, worker, rt, watching, switchReq, failures, crashes>>

\* A batch goroutine: which call of index() started it, for which batch.
WorkerIds == [run : Nat, key : BatchKeys]

NoRealtime == [pc |-> "off", next |-> 0]
NoIndex    == [pc |-> "down", latest |-> 0]
NoWorker   == [id \in {} |-> id]

TypeOK ==
  /\ head \in Nat
  /\ addressDB \subseteq Nat
  /\ blockDB \subseteq Nat
  /\ DOMAIN batchDB \subseteq BatchKeys
  /\ \A k \in DOMAIN batchDB : batchDB[k] \in Nat
  /\ run \in Nat
  /\ index \in [pc : {"down", "latest", "wait", "idle", "failed", "switching"},
                latest : Nat]
  /\ DOMAIN worker \subseteq WorkerIds
  /\ \A id \in DOMAIN worker :
       worker[id] \in [pc : {"loop", "store", "update", "poll"}, batch : Batches, i : Nat]
  /\ rt \in [pc : {"off", "subscribe", "listen", "address", "block"}, next : Nat]
  /\ watching \in BOOLEAN
  /\ switchReq \in BOOLEAN
  /\ failures \in Nat
  /\ crashes \in Nat

Init ==
  /\ head = InitHead
  /\ addressDB = {} /\ blockDB = {} /\ batchDB = EmptyDB
  /\ run = 0 /\ index = NoIndex /\ worker = NoWorker /\ rt = NoRealtime
  /\ watching = FALSE /\ switchReq = FALSE
  /\ failures = 0 /\ crashes = 0

-----------------------------------------------------------------------------
(* The node.                                                               *)

\* A new block is mined.
Grow ==
  /\ head < MaxHead
  /\ head' = head + 1
  /\ UNCHANGED <<disk, run, index, worker, rt, watching, switchReq, failures, crashes>>

\* A call to the node fails, and switchIPC() starts ForceChangeIPC.
CallFails ==
  /\ failures < MaxFailures
  /\ failures' = failures + 1
  /\ switchReq' = TRUE

-----------------------------------------------------------------------------
(* index(), on start and after an IPC switch.                              *)

\* The goroutines of the newHead subscription have ended: the two sleeps of
\* 30s of a switch are taken to outlast the block they are at.
MayBegin ==
  \/ index.pc = "down"
  \/ index.pc = "switching" /\ rt.pc = "off"

IndexBegin ==
  /\ MayBegin /\ run < MaxRuns
  /\ run' = run + 1
  /\ index' = [pc |-> "latest", latest |-> head]
  /\ UNCHANGED <<head, disk, worker, rt, watching, switchReq, failures, crashes>>

\* NewChainFetch or GetLatestBlock fails: index() returns.
IndexFails ==
  /\ MayBegin /\ run < MaxRuns
  /\ CallFails
  /\ run' = run + 1
  /\ index' = [index EXCEPT !.pc = "failed"]
  /\ UNCHANGED <<head, disk, worker, rt, watching, crashes>>

\* GetLastBlock's number; 0 if the block database is empty, as the error is
\* dropped and SetString("") leaves 0.
LastBlockNums == IF blockDB = {} THEN {0} ELSE LastKeys(blockDB)

Undone == {k \in DOMAIN batchDB : ~IsDone(StoredBatch(batchDB, k))}

\* An uncompleted batch starts at the last block ("found").
Found(last) == \E k \in Undone : k.from = last

\* Mutant of Resumed: Current is taken for the next block, which is skipped.
ResumedOneTooFar(k, last, latest) == Advance(StoredBatch(batchDB, k))

\* Mutant of Resumed: the progress of the batch is not loaded.
ResumedFromStart(k, last, latest) == [StoredBatch(batchDB, k) EXCEPT !.current = NoBlock]

\* An uncompleted batch, extended to latest if it starts at the last block.
Resumed(k, last, latest) ==
  IF k.from = last THEN [StoredBatch(batchDB, k) EXCEPT !.to = latest]
  ELSE StoredBatch(batchDB, k)

\* The batch from the last newHead block to the latest block.
CatchUpKey(last, latest) ==
  [from |-> last, to |-> latest, step |-> 1, createdAt |-> run]

FirstBatches(latest) ==
  [k \in {BatchKey(b) : b \in GetInitBatches(NumBatch, 0, latest, run)} |->
     BatchOf(k, NoBlock)]

\* Mutant of GetBatches: no batch catches up from the last newHead block.
GetBatchesNoCatchUp(last, latest) ==
  IF DOMAIN batchDB = {} THEN FirstBatches(latest)
  ELSE [k \in Undone |-> Resumed(k, last, latest)]

\* getBatches: the batches to run, under the keys they were found or made by.
GetBatches(last, latest) ==
  IF DOMAIN batchDB = {} THEN FirstBatches(latest)
  ELSE [k \in IF Found(last) THEN Undone ELSE Undone \cup {CatchUpKey(last, latest)} |->
          IF k \in Undone THEN Resumed(k, last, latest) ELSE BatchOf(k, NoBlock)]

\* The goroutines of this call of index(), next to those that still run.
StartWorkers(batches) ==
  LET new == {[run |-> run, key |-> k] : k \in DOMAIN batches}
  IN  [id \in DOMAIN worker \cup new |->
         IF id \in DOMAIN worker THEN worker[id]
         ELSE [pc |-> "loop", batch |-> batches[id.key], i |-> 0]]

Launch ==
  /\ index.pc = "latest"
  /\ \E last \in LastBlockNums :
       /\ worker' = StartWorkers(GetBatches(last, index.latest))
       /\ batchDB' = IF DOMAIN batchDB # {} /\ Found(last)
                     THEN ReplaceBatch(batchDB, last, index.latest) ELSE batchDB
  /\ rt' = [rt EXCEPT !.pc = "subscribe"]
  /\ index' = [index EXCEPT !.pc = "wait"]
  /\ UNCHANGED <<head, addressDB, blockDB, run, watching, switchReq, failures, crashes>>

\* batchWG.Wait() returns: index() starts the watcher, and then only waits.
BatchesDone ==
  /\ index.pc = "wait"
  /\ \A id \in DOMAIN worker : id.run # run
  /\ index' = [index EXCEPT !.pc = "idle"]
  /\ watching' = TRUE
  /\ UNCHANGED <<head, disk, run, worker, rt, switchReq, failures, crashes>>

-----------------------------------------------------------------------------
(* batchIndex(), the goroutine of a batch.                                 *)

SetWorker(id, w) == worker' = [worker EXCEPT ![id] = w]

WorkerReturns(id) ==
  worker' = [x \in DOMAIN worker \ {id} |-> worker[x]]

WorkerExit(id) ==
  /\ worker[id].pc = "loop" /\ IsDone(worker[id].batch)
  /\ WorkerReturns(id)
  /\ UNCHANGED <<head, disk, run, index, rt, watching, switchReq, failures, crashes>>

\* Mutant of WorkerFetch: the block is never given to ProcessBlock.
WorkerFetchNoStore(id) ==
  LET w == worker[id] IN
  /\ w.pc = "loop" /\ ~IsDone(w.batch)
  /\ NextBlock(w.batch) <= head
  /\ SetWorker(id, [w EXCEPT !.pc = "update", !.batch = Advance(w.batch)])
  /\ UNCHANGED <<head, disk, run, index, rt, watching, switchReq, failures, crashes>>

\* Next() advances the batch before its block is fetched.
WorkerFetch(id) ==
  LET w == worker[id] IN
  /\ w.pc = "loop" /\ ~IsDone(w.batch)
  /\ NextBlock(w.batch) <= head
  /\ SetWorker(id, [w EXCEPT !.pc = "store", !.batch = Advance(w.batch)])
  /\ UNCHANGED <<head, disk, run, index, rt, watching, switchReq, failures, crashes>>

\* FetchABlock (or the dial before the loop) fails; a block that does not
\* exist yet fails too.  The goroutine ends without a record of the block.
WorkerFetchFails(id) ==
  LET w == worker[id] IN
  /\ w.pc = "loop" /\ ~IsDone(w.batch)
  /\ \/ CallFails
     \/ NextBlock(w.batch) > head /\ switchReq' = TRUE /\ UNCHANGED failures
  /\ WorkerReturns(id)
  /\ UNCHANGED <<head, disk, run, index, rt, watching, crashes>>

\* ProcessBlock with isBatch: one batch write to the address database.
WorkerStore(id) ==
  LET w == worker[id] IN
  /\ w.pc = "store"
  /\ addressDB' = addressDB \cup {w.batch.current}
  /\ SetWorker(id, [w EXCEPT !.pc = "update"])
  /\ UNCHANGED <<head, blockDB, batchDB, run, index, rt, watching, switchReq, failures, crashes>>

\* UpdateBatch, and the loop counter.
WorkerUpdate(id) ==
  LET w == worker[id]
      i == (w.i + 1) % CheckEvery
  IN
  /\ w.pc = "update"
  /\ batchDB' = UpdateBatch(batchDB, w.batch)
  /\ SetWorker(id, [w EXCEPT !.pc = IF i = 0 THEN "poll" ELSE "loop", !.i = i])
  /\ UNCHANGED <<head, addressDB, blockDB, run, index, rt, watching, switchReq, failures, crashes>>

\* Its stop channel is closed.
Stopped(id) == id.run # run \/ index.pc = "switching"

\* Mutant of WorkerPoll: the default branch leaves the loop too.
WorkerPollReturns(id) ==
  /\ worker[id].pc = "poll"
  /\ WorkerReturns(id)
  /\ UNCHANGED <<head, disk, run, index, rt, watching, switchReq, failures, crashes>>

\* The select: "break" leaves the select only, so both branches go on.
WorkerPoll(id) ==
  LET w == worker[id] IN
  /\ w.pc = "poll"
  /\ \/ Stopped(id) /\ SetWorker(id, [w EXCEPT !.pc = "loop"])
     \/ ~Stopped(id) /\ SetWorker(id, [w EXCEPT !.pc = "loop"])
  /\ UNCHANGED <<head, disk, run, index, rt, watching, switchReq, failures, crashes>>

Worker(id) ==
  \/ WorkerExit(id) \/ WorkerFetch(id) \/ WorkerStore(id)
  \/ WorkerUpdate(id) \/ WorkerPoll(id)

-----------------------------------------------------------------------------
(* realtimeIndex() and RealtimeFetch(), the newHead subscription.          *)

\* SubscribeNewHead: the node announces the blocks after this moment.
RtSubscribe ==
  /\ rt.pc = "subscribe"
  /\ rt' = [pc |-> "listen", next |-> head + 1]
  /\ UNCHANGED <<head, disk, run, index, worker, watching, switchReq, failures, crashes>>

\* Mutant of RtFetch: the block record is saved without the address rows.
RtFetchBlockFirst ==
  /\ rt.pc = "listen" /\ rt.next <= head
  /\ rt' = [rt EXCEPT !.pc = "block"]
  /\ UNCHANGED <<head, disk, run, index, worker, watching, switchReq, failures, crashes>>

\* A header arrives and its block is fetched.
RtFetch ==
  /\ rt.pc = "listen" /\ rt.next <= head
  /\ rt' = [rt EXCEPT !.pc = "address"]
  /\ UNCHANGED <<head, disk, run, index, worker, watching, switchReq, failures, crashes>>

\* The subscription, or the fetch of an announced block, fails: both
\* goroutines are of no use any more.
RtFails ==
  /\ \/ rt.pc = "subscribe"
     \/ rt.pc = "listen" /\ rt.next <= head
  /\ CallFails
  /\ rt' = [rt EXCEPT !.pc = "off"]
  /\ UNCHANGED <<head, disk, run, index, worker, watching, crashes>>

\* Store, first write: SaveAddressIndex.
RtStoreAddress ==
  /\ rt.pc = "address"
  /\ addressDB' = addressDB \cup {rt.next}
  /\ rt' = [rt EXCEPT !.pc = "block"]
  /\ UNCHANGED <<head, blockDB, batchDB, run, index, worker, watching, switchReq, failures, crashes>>

\* Store, second write: SaveBlockIndex.  After a switch the channel is closed.
RtStoreBlock ==
  /\ rt.pc = "block"
  /\ blockDB' = blockDB \cup {rt.next}
  /\ rt' = [pc |-> IF index.pc = "switching" THEN "off" ELSE "listen", next |-> rt.next + 1]
  /\ UNCHANGED <<head, addressDB, batchDB, run, index, worker, watching, switchReq, failures, crashes>>

-----------------------------------------------------------------------------
(* Switching the node, crashing.                                           *)

\* A switch starts once index() has returned or waits for its goroutines.  One
\* that EnableSwitchIPC lets start while index() is still under way makes two
\* calls of index() overlap: Lifecycle has it.
MaySwitch == index.pc \in {"wait", "idle", "failed"} /\ NumIPC > 1 /\ run < MaxRuns

\* IpcUpdated: end the subscription, close the stop channel.
StopIndex ==
  /\ index' = [index EXCEPT !.pc = "switching"]
  /\ rt' = IF rt.pc \in {"subscribe", "listen"} THEN [rt EXCEPT !.pc = "off"] ELSE rt

\* ForceChangeIPC, after a failed call.
ForceSwitch ==
  /\ switchReq /\ MaySwitch
  /\ switchReq' = FALSE
  /\ StopIndex
  /\ UNCHANGED <<head, disk, run, worker, watching, failures, crashes>>

\* The last block in the block database is too old: ChangeIPC.  The ticker is
\* stopped whether the node is changed or not.
WatcherSwitch ==
  /\ watching /\ blockDB # {}
  /\ watching' = FALSE
  /\ \/ MaySwitch /\ StopIndex
     \/ NumIPC = 1 /\ UNCHANGED <<index, rt>>
  /\ UNCHANGED <<head, disk, run, worker, switchReq, failures, crashes>>

\* The end of the process: only the databases are left.
ProcessEnds ==
  /\ index' = NoIndex /\ worker' = NoWorker /\ rt' = NoRealtime
  /\ watching' = FALSE /\ switchReq' = FALSE
  /\ UNCHANGED <<head, disk, run>>

\* ForceChangeIPC panics if there is no other node.
Panic ==
  /\ switchReq /\ NumIPC = 1 /\ index.pc # "down"
  /\ ProcessEnds
  /\ UNCHANGED <<failures, crashes>>

Crash ==
  /\ index.pc # "down" /\ crashes < MaxCrashes
  /\ crashes' = crashes + 1
  /\ ProcessEnds
  /\ UNCHANGED failures

-----------------------------------------------------------------------------
Workers == \E id \in DOMAIN worker : Worker(id) \/ WorkerFetchFails(id)

Next ==
  \/ Grow
  \/ IndexBegin \/ IndexFails \/ Launch \/ BatchesDone
  \/ Workers
  \/ RtSubscribe \/ RtFetch \/ RtFails \/ RtStoreAddress \/ RtStoreBlock
  \/ ForceSwitch \/ WatcherSwitch
  \/ Panic \/ Crash

Spec == Init /\ [][Next]_vars

\* The Go scheduler runs every goroutine that can run, a call to the node that
\* does not fail returns, and a process that ended is started again.
Fairness ==
  /\ WF_vars(IndexBegin) /\ WF_vars(Launch) /\ WF_vars(BatchesDone)
  /\ WF_vars(RtSubscribe) /\ WF_vars(RtFetch)
  /\ WF_vars(RtStoreAddress) /\ WF_vars(RtStoreBlock)
  /\ WF_vars(ForceSwitch) /\ WF_vars(Panic)
  /\ \A r \in 1 .. MaxRuns : WF_vars(\E id \in DOMAIN worker : id.run = r /\ Worker(id))

FairSpec == Spec /\ Fairness

-----------------------------------------------------------------------------
(* What a batch still has to do.                                           *)

\* The blocks a batch goroutine has not stored yet.
Remaining(w) ==
  {n \in Share(w.batch) : n > w.batch.current \/ (w.pc = "store" /\ n = w.batch.current)}

\* The block is stored, or a goroutine is to take it.
Covered(n) ==
  n \in addressDB \/ \E id \in DOMAIN worker : n \in Remaining(worker[id])

-----------------------------------------------------------------------------
(* The promise.                                                            *)

\* What the databases say is done: the blocks the recorded batches took, and
\* those of the block database.
Claimed == blockDB \cup UNION {Taken(StoredBatch(batchDB, k)) : k \in DOMAIN batchDB}

Promise == INSTANCE AccountIndex WITH indexed <- addressDB, claimed <- Claimed

\* Every step of index(), its goroutines, a switch or a crash is a step of the
\* promise: it indexes one block of the chain, or claims only indexed ones, or
\* leaves both alone (ProcessBlock, UpdateBatch, Store).
KeepsPromise == Promise!Spec

-----------------------------------------------------------------------------
(* Safety.                                                                 *)

\* The progress recorded for a batch is never ahead of the address database:
\* all the blocks it says were taken have their rows, so a restart that
\* resumes after Current skips nothing (batchIndex: ProcessBlock, UpdateBatch).
ProgressSound ==
  \A k \in DOMAIN batchDB : Taken(StoredBatch(batchDB, k)) \subseteq addressDB

\* A batch the database calls done has stored its whole share of the chain:
\* no block between From and To is left when getBatches stops resuming it.
DoneBatchCovered ==
  \A k \in DOMAIN batchDB :
    IsDone(StoredBatch(batchDB, k)) => Share(StoredBatch(batchDB, k)) \subseteq addressDB

\* The block database, from whose last block a restart catches up, names no
\* block whose rows a crash may have lost (Store: SaveAddressIndex first).
BlockRecordBacked == blockDB \subseteq addressDB

\* While index() waits for its goroutines, every block of every batch that has
\* a record is stored or is taken by a goroutine, unless a failure has already
\* asked for the switch that calls index() again (getBatches, batchIndex).
RecordsResumed ==
  index.pc \in {"wait", "idle"} /\ ~switchReq =>
    \A k \in DOMAIN batchDB : \A n \in Share(StoredBatch(batchDB, k)) : Covered(n)

\* Recorded progress never goes back and no batch is forgotten, if one
\* process at a time works on a chain that does not grow.
CurrentAdvances ==
  [][\A k \in DOMAIN batchDB : k \in DOMAIN batchDB' /\ batchDB'[k] >= batchDB[k]]_vars

-----------------------------------------------------------------------------
(* Liveness.                                                               *)

\* A block a batch goroutine is to take is stored in the end, if every call
\* to the node is answered.
BatchesComplete ==
  \A n \in 0 .. MaxHead :
    (\E id \in DOMAIN worker : n \in Remaining(worker[id])) ~> n \in addressDB

\* A block announced to the subscription is indexed in the end, also when the
\* node is switched in between: the next index() catches up with it.
HeadIndexed ==
  \A n \in 0 .. MaxHead :
    (rt.pc = "listen" /\ rt.next <= n /\ n <= head) ~> n \in addressDB

\* Other batches are recorded, but none that has block n: getBatches of a restart
\* makes no first batches again, and may find the batch that catches up.
Forgotten(n) ==
  /\ run > 1 /\ DOMAIN batchDB # {}
  /\ \A k \in DOMAIN batchDB : n \notin Share(StoredBatch(batchDB, k))

\* Whatever crashes or fails on the way, in the end the blocks of the first sync
\* are all stored (getBatches, batchIndex, UpdateBatch).  Excepted are the blocks
\* of a batch that had recorded nothing when the process ended, while another
\* batch had, unless a later batch takes them.
SyncResumes == <>[](\A n \in 0 .. InitHead : n \in addressDB \/ Forgotten(n))
=============================================================================

# Verification of account-indexer

TLA+ models of the account indexer (Go, `src/`), TLC configurations that check
them on small instances, and TLAPS proofs for every value of the constants.
Names in the modules are those of the code wherever TLA+ allows it.

## 1. The system

The indexer runs beside a geth node and answers "which transactions has this
account" from three LevelDB databases.

| part (source) | state it keeps | operations | how it interacts |
|---|---|---|---|
| indexer scheduler (`indexer/indexer.go`) | `realtimeFetcher`, `stopChan`, `bdChan`; the loop state of each batch goroutine | `FirstIndex`, `IpcUpdated`, `index`, `getBatches`, `batchIndex`, `realtimeIndex`, `ProcessBlock`, `FetchAndProcess` | reads and writes the three databases, calls the node through a fetcher, is called back by the IPC manager, starts the watcher |
| batch status (`core/types/batch_status.go`, `repository/keyvalue/batch_repo.go`) | batch database: From, To, Step, CreatedAt -> Current | `Next`, `IsDone`, `UpdateBatch`, `ReplaceBatch`, `GetAllBatchStatuses` | called by the scheduler; all a restart knows of the batches |
| index repository (`repository/keyvalue/index_repo.go`) | address database: address, time, sequence -> transaction; block database: number -> time, addresses, CreatedAt | `Store`, `HandleReorg`, `GetLastBlock`, `DeleteOldBlocks`, the queries | called by batch, realtime, rerun, watcher and cleaner goroutines without a lock |
| LevelDB access (`repository/keyvalue/dao`) and encoding (`.../marshal`) | none of their own | atomic puts and deletes, iteration in key order | the order of the keys decides what "last" and "first" mean |
| chain fetcher (`fetcher/fetch.go`) | client, subscription, header channel | `RealtimeFetch`, `FetchABlock`, `GetLatestBlock` | every failed call starts a goroutine that calls `ForceChangeIPC` |
| IPC manager (`service/ipc_manager.go`) | `curIPC`, `switchIPCCounter`, `subscribers` | `Subscribe`, `ChangeIPC`, `ForceChangeIPC`, `EnableSwitchIPC` | called from any goroutine, calls `IpcUpdated` of the subscribers |
| watcher and cleaner (`watcher/`) | `isWatching`, timers | `Watch`, `CleanBlockDB` | read the last block of the block database; change the IPC, delete old block records |
| HTTP server (`http/server.go`) | its fetcher | account queries, rerun of a block | a subscriber of the IPC manager; rerun stores like a batch |
| start (`cmd/indexer/main.go`) | configuration | opens the databases, starts the goroutines | |

What is hard here: the process may be killed between any two writes; several
goroutines write the same databases; a switch of the node starts a second set of
goroutines while the first one still runs; the chain reorganises while blocks are
stored; failed calls, timers and subscriptions decide who calls whom. What makes
the parts correct:

- scheduler: the recorded progress never claims a block without rows; a restart
  or a switch leaves no recorded block to nobody; every block is stored in the end;
- index repository: when all is quiet the rows are those of the chain, no more
  (stale) and no fewer (lost), and every row can be found again on the way;
- IPC manager: one switch at a time, on to the next node, known to everybody;
- life of the goroutines: the old subscription is over before a new one begins, no
  channel is closed twice, and after any failure somebody listens and watches again;
- queries: a page has the rows it should have, in order, and a client that asks for
  page after page gets all of them, also while blocks are stored.

`PROJECT.json` lists the hazards at their lines, with the properties about them.

## 2. The modules

| module | models | abstraction |
|---|---|---|
| `KeyValueDAO` | the LevelDB writes | a database is a function from keys; each write is atomic, and the unit a crash cannot split |
| `BatchStatus`, `BatchRepo` | `Next`, `IsDone`, the batch database | Current is a number or `NoBlock` (nil); UpdatedAt is left out |
| `BlockKey` | order of the unpadded decimal block keys | arithmetic on numbers of digits, no text |
| `AccountIndex` | what the indexer promises | three sets of blocks; implemented by `Indexer` |
| `Indexer` | scheduling of `index()`, batches, subscription, switches, crashes | a block is its number, stored or not |
| `IndexerClaims` | what documents and comments say of it and the code does not do | |
| `IndexerProofs`, `IndexerResumeProofs` | theorems about `Indexer`; the second has those about restarts and the refinement | |
| `Lifecycle` | the goroutines of several calls of `index()` and the fields they share | what they store is left out |
| `LifecycleProofs` | theorems about `Lifecycle` | |
| `IndexRepo`, `MCIndexRepo` | rows, block records, reorganisations, cleaner, rerun, crash and restart | begins after the first sync; one goroutine for announced blocks, one for reruns, one for each catch-up batch |
| `IndexRepoProofs`, `IndexRepoReorgProofs` | theorems about `IndexRepo`: its types, the keys of a block and that no row is lost; the second has that no row is stale | |
| `IpcManager` | who switches the node and who is told | each caller calls once; at least two nodes |
| `IpcManagerClaims` | what comments and log lines say of a switch and the code does not do | |
| `IpcManagerProofs` | theorems about `IpcManager` | |
| `Encoding` | keys and values as byte strings, ranges of keys | a byte has `Base` values; hashes are names |
| `Queries`, `MCQueries` | the queries, and a client that pages, while blocks come and go | a block's time is its number |
| `EncodingProofs`, `QueriesProofs` | lemmas about byte strings and their order; theorems about `Queries` | |

`Indexer` and `IndexRepo` extend `BatchRepo` and `BlockKey`; `Queries` extends `Encoding`, which extends `BlockKey`. The big modules cut the
system at these seams: what is *stored* of a block (`Indexer` knows a number,
`IndexRepo` its rows, `Queries` their bytes), who *wins* a switch (`Indexer` has a flag
`switchReq`, `IpcManager` the race for the counter), and who is *left waiting* after it
(`Lifecycle`).

### Indexer

| state | code |
|---|---|
| `head` | the node's latest block |
| `addressDB`, `blockDB`, `batchDB` | the databases; all that survives `Crash` |
| `index.pc` | where the goroutine of `index()` is: `latest` (between `GetLatestBlock` and the goroutines), `wait` (`batchWG.Wait`), `idle` (`mainWG.Wait`), `failed` (returned), `switching` (in `IpcUpdated`), `down` (no process) |
| `worker[id]` | one `batchIndex`: `loop` -> `store` -> `update` -> `poll` (every `CheckEvery` blocks) |
| `rt` | `realtimeIndex` and `RealtimeFetch`: `subscribe`, `listen`, then the two writes of `Store`, `address` and `block` |
| `switchReq` | a goroutine of `switchIPC()` was started |

The writes of a batch goroutine (`WorkerStore`, `WorkerUpdate`) and of the realtime
one (`RtStoreAddress`, `RtStoreBlock`) are separate actions, so that other
goroutines and crashes come in between. `WorkerPoll` leaves the loop in neither
branch: the `break` in the code's `select` leaves the `select` only. Goroutines of
earlier calls of `index()` therefore run on next to the new ones, and the model
keeps them.

Assumptions: CreatedAt of the batches of one call is the number of that call, as if
no two calls of `index()` fell in one second; the two sleeps of 30s in a switch
outlast the block the realtime goroutine is at (`MayBegin`); the block number the
node answers is at most `head`, and `head` does not shrink (reorganisations are in
`IndexRepo`); a dial that fails is the failure of the first call after it; a
put into a database that fails panics in the code and is a `Crash` here. No switch begins
before the batch goroutines are started (`MaySwitch`), though `EnableSwitchIPC` comes
before: calls of `index()` that overlap so are in `Lifecycle`.

The promise (`AccountIndex`, `Indexer!KeepsPromise`): blocks are indexed one at a
time, only blocks that exist, and are never unindexed; and nothing is *claimed* that
is not indexed. `claimed` maps to what the databases say is done: the blocks the
recorded batches took, and the blocks of the block database. A restart does not look
behind either. A claim may shrink (`ReplaceBatch`, the cleaner); rows may not, in this
module, for `head` does not reorganise.

### Lifecycle

| state | code |
|---|---|
| `ipc` | `switchIPCCounter`, the goroutines before `AddInt32` and before `LoadInt32`, whether the Indexer is subscribed |
| `shared` | `realtimeFetcher`, `stopChan`, `bdChan` (by which call of `index()` made them) and `isWatching` |
| `made[r]` | the header channel, the subscription and the client of call r's fetcher; whether its stop and block channels are closed |
| `call[r]` | the goroutines of call r: `IpcUpdated` and `index()`, `realtimeIndex`, `RealtimeFetch`, `Watch` |
| `panicked` | a call through a nil fetcher, a second `close`, a send on a closed channel |

`realtimeFetcher` and `bdChan` are read again at each use, as the goroutines read the
fields of one `Indexer`: that is how the `realtimeIndex` of an older call clears the
fetcher of a newer one. `Header` comes only when no block is being processed, and
`Settled` says that the sleeps of 30s and the interval of the watcher are longer than
steps that wait for nothing.

### IndexRepo

A row is known by its block, the version of the block and its place in it, under the
key <<address, time, sequence>>, so that overwritten and wrongly deleted rows can be
told. `NewBranch(depth)` replaces the last `depth` blocks, none if the node only mines
one, by a branch that is one longer, and announces all of it. `RtReorg`, `RtStoreAddress`, `RtStoreBlock` are the three
database writes of `Store` for an announced block; a batch (`WorkerStore`) and a rerun
(`RerunStore`) skip the block database (`isBatch`). The cleaner reads the last record and
lists the old ones in one step and deletes them in another.

| state | code |
|---|---|
| `addressDB`, `blockDB`, `batchDB` | the databases; all that survives `Crash` |
| `announced` | the headers in the channel of the subscription |
| `index.pc` | `index()`: `down` (no process), `latest` (after `GetLatestBlock`), `subscribe` (the batch goroutines run, `SubscribeNewHead` is yet to come), `listen` |
| `worker[k]` | one `batchIndex`: its batch and the block it has fetched; k is the record it came from, or the key it was made with |
| `rt`, `again`, `cleaner` | the goroutines of the subscription, of the rerun API and of the cleaner |
| `missed` | history: the blocks that `NoLostRow` excepts |

A restart is three steps, with the node, the batches and reruns going on between them.
`IndexBegin` asks for the latest block. `Launch` is `getBatches`: it resumes the records that
are not done, extends one that starts at the last block record to the latest block
(`Found`; `ReplaceBatch` replaces nothing), and makes the batch that catches up if there was
none. `RtSubscribe` is `SubscribeNewHead`, and only what is mined from there on is announced.

Two kinds of blocks may get no rows in this, and `missed` has them. A block mined between
`GetLatestBlock` and `SubscribeNewHead` is told to nobody. And a catch-up batch has no record
before its first block: if it crashes before that, while blocks of newHead were
already recorded, the next restart begins at those (`Forgotten`). A later restart that begins
low enough takes a missed block after all, and `IndexBegin` takes it out again.

Assumptions: `mined` is the clock, for CreatedAt and `BlockTTL`. At least one hour
of `BlockTTL` is more than the reorganisations of a block or the backlog of headers
span: `RecordsOutlive` in `IndexRepoReorgProofs` says how much that is in blocks, with
at most `MaxLag` headers waiting. A behaviour begins with the first sync done and all its
batches recorded as done: what is lost in the first sync, and the batch with a stride of
NumBatch that takes the place of the catch-up batch, are in `Indexer` and `IndexerClaims`.
Reruns are stored one at a time. A batch's block is
recorded as taken with its rows: a crash between these two writes only has the rows
written again. A call to the node that fails ends a goroutine or the subscription, and
forces a switch, or the end of the process if there is no other node: here it is a
`Crash`, in `Indexer` it is both. A delete of `HandleReorg` does not fail (section 4).

### IpcManager

A caller is at `start` (before `AddInt32`), `load` (before `LoadInt32`), `next`, `tell`
(the loop over the subscribers), then in the Indexer's `IpcUpdated`: `enable` (60s
until `EnableSwitchIPC`), `dial`, `wait` (`mainWG.Wait`). `epoch` counts the calls of
`EnableSwitchIPC`. The two calls of `Subscribe` read and write the slice in two
steps, as two goroutines do without a lock. `TellServer` dials for the Server that
subscribed, the address of a local variable of `NewServer`, not for the copy that
serves. Every dial may fail. The Server then keeps the fetcher it has; `index()`
has none (`NoIPC`) and returns, so the next subscriber is told (`DialFails`). The switch that a
failed dial asks for is one more caller.

### Encoding and Queries

A key of the address database is the address, the bytes of the time and one byte of
sequence; a block record is CreatedAt, time and pairs of address and sequence at fixed
offsets. `Bytes` is `big.Int.Bytes()`: no leading zeros and no sign. `Queries` stores and
reads through these functions only: `HandleReorg` deletes the keys named by the record
it cuts into fields (`ReorgKeys`), the cleaner decodes CreatedAt, a page decodes key and
value. A LevelDB iterator is a snapshot, so one query is one step. `Visited` is the loop of
`findByKeyPrefix`, with the row that is taken before it backwards, and the two copies
of the range of a query are two operators (`KeyRange`, `TotalRange`). The client keeps
`start` and what it still misses; the server keeps nothing for it.

Assumptions: `from` and `to` are as wide as block times (`TimesAssumption`; the code says
"assuming fromTime and toTime is good"), which real times are from 1970-07-14 to 2106.
A client asks for a whole account, or for the empty one: the server lets shorter texts
of hex digits through as well (`server.go:254-256`), and answers with the rows of all
accounts that begin so. It does not ask for pages of fewer than no rows (`RowsAssumption`): the server would
answer with empty ones. The ten digits of a block record's time field hold any time of
four bytes (`DigitsAssumption`).
A batch and the subscription get the same block of a number, and nothing crashes
between the two writes of `Store`: the other cases are in `IndexRepo`.

## 3. The runs

CHECK_DEADLOCK is off in all runs: a bounded chain and a bounded number of calls run
out, and an indexer with nothing to do waits.

| run | instance | shows |
|---|---|---|
| `sync` | 2 batches, 2 nodes, chain 0..3, one switch, no failures | `BatchesComplete`, `HeadIndexed`. The second batch starts beyond its To, the block 0 of the first call, so a forced switch is among the behaviours, besides the watcher's |
| `faults` | 2 batches, 2 nodes, chain 1..3, one failed call, one crash, three calls of `index()` | `TypeOK`, `ProgressSound`, `DoneBatchCovered`, `BlockRecordBacked`, `RecordsResumed` at every interleaving of two generations of goroutines, and the refinement `KeepsPromise` |
| `resume` | 2 batches of 5 blocks together, 1 node, a failure and two crashes, four calls of `index()` | `SyncResumes` and `CurrentAdvances`: with one node every failure ends the process. `SyncResumes` excepts the blocks of a batch that recorded nothing while the other one did (`uncompleted` shows them); all others are stored in the end |
| `switches` | 3 calls of `index()`, 2 faults (a failed call, a lost subscription, a late block) | `OldFetchEnds`, `ClosedOnce`; `ListensAgain`, `WatchedAgain`: who gave up is followed by somebody, with the exceptions the properties name |
| `reorg` | blocks with rows for two accounts, 9 blocks mined, reorganisations of depth 1 and 2, `BlockTTL` 5, the least that `RecordsOutlive` allows | `NoStaleRow`, `NoLostRow`, `RowsNamed`, `Settles` with the cleaner at work |
| `catchup` | blocks with rows for two accounts, 5 blocks mined, two crashes, a rerun, reorganisations of depth 1 | `NoLostRow`: no row is lost by any of them together, but those of `missed` blocks. The crashes fall between any two writes and steps of a restart, with headers waiting and batches half done, and a second restart finds the batches of the first one, some of them starting at the last block record |
| `callers` | three callers, three nodes, any dial may fail | `OneSwitchPerEpoch`, `IndexOnCurrentIPC` |
| `queries` | 3 blocks, 2 accounts, bytes of four values, at most 3 rows counted, pages of 1, 2 and 3 rows, with and without `from` and `to` | `PageCorrect`, `TotalsAgree`, `PagesComplete`, `ReorgByRecord` |

Bounds. Two batches and three blocks suffice for two goroutines of different stride
and of different calls to meet at one record; a third call of `index()` is what a
restart after a switch needs. `CheckEvery` is 2 in place of 10, so that the poll is
reached. Block numbers stay below 10 except in `lastblock` and `queries`, where the key
order is the question. `SeqModulus` is 4 in place of 256, and 2 in `loops`, where the largest
sequence occurs, with which `HandleReorg` does not end. Nine mined blocks let two
reorganisations overlap; two addresses and two rows let one block have what
another lacks. Three callers let one win, one lose and one arrive in the next epoch.
In `switches` the constraint `NoOverlap` leaves out what follows once a switch was won
before the one before it was over: section 4 says what happens then. Three calls let a
goroutine of the first be alive in the third. In `queries` an account ends with the
largest byte (the end of its range is then found in the byte before), two of the times
share their first byte, and 5 rows of one account exceed the 3 that are counted.

Fairness. In `Indexer` and `IndexRepo` it is weak fairness of every goroutine's next
step: the Go scheduler runs what can run, and a call to a node that is up returns.
(The runs of `IndexRepo` with fairness have no crash, so no restart and no batch.)
Nothing makes a call fail, the process crash or a block be mined. `IndexBegin` is
fair also when the process is down: a supervisor starts it again. In `IpcManager`
nothing makes the Indexer's `index()` return (`IndexReturns`), for the code waits
for a watcher that never ends. In `Lifecycle` the two sleeps of a switch have strong
fairness: `Settled`, which stands for their length, may come and go with the headers,
and a timer of 30s does end. No header has to come and no call has to fail there; the
watcher is fair only where nothing is received (`Deaf`), which is what it looks for.

## 4. Where the code does not do what is said of it

Each of these runs checks one claim, and TLC finds a behaviour against it.

| run | claim | what happens |
|---|---|---|
| `stop` | `indexer.go:47`, `:52` | the `break` ends the `select`, the batch goes on |
| `uncompleted` | `README.md:53` | first batches are stored only after their first block: a crash before that forgets them |
| `lastblock` | `index_repo.go:197` | decimal keys: block 9 is "after" block 10 |
| `loops` | `README.md:42` | `for i := uint8(1); i <= 255; i++` does not end |

The models show the following ones as well. They have no run of their own; TLC
finds each with the property and the constants given here.

| property | configuration | what happens |
|---|---|---|
| `IndexerClaims!RestartReachesLatest` (`README.md:53`) | 2 batches, 1 node, CheckEvery 2, chain 1..3, 2 calls, a crash | an unfinished first batch that starts at the last newHead block takes the place of the batch that would catch up, and takes only every NumBatch-th block |
| `IndexerClaims!ReplacedNotDuplicated` | 1 batch, 1 node, chain 1..2, a crash | `ReplaceBatch` asks for 0 rows and so replaces nothing (`batch_repo.go:67`); the extended batch gets a second record |
| `IndexerClaims!NoSubscriptionGap` | 1 batch, chain 1..2 | a block mined between `GetLatestBlock` and `SubscribeNewHead` belongs to nobody until a later restart |
| `IpcManagerClaims!ProgressIsReal` (`ipc_manager.go:85`) | two callers, three nodes | two callers add before either loads: both see 2, nobody switches, and the counter stays up |
| `IpcManagerClaims!OneSwitchAtATime` | three callers | a caller that added itself before `EnableSwitchIPC` and loads after it switches next to the next one |
| `IpcManagerClaims!AllInformed` | one caller, FairSpec | `IpcUpdated` of the Indexer does not return, the next subscriber is not told |
| `IpcManagerClaims!AllSubscribed` | one caller | one of two concurrent appends to `subscribers` is lost |
| `IpcManagerClaims!ServerFollows` | one caller | the Server that serves keeps its first fetcher |
| `Lifecycle`: panicked # "nilFetcher" | `switches`, 1 fault | a `realtimeIndex` that ends late clears the fetcher the next call has just set; no overlap is needed |
| `Lifecycle`: panicked # "send" | `switches` | `IpcUpdated` of a fetcher that has not subscribed yet unsubscribes nothing and closes the header channel 30s later; the subscription made meanwhile sends to it |
| `Lifecycle`: at most one ticker (`check_node_status.go:34`) | `switches`, 1 fault | two calls read `isWatching` before either sets it |
| `Lifecycle!ClosedOnce`, `OldFetchEnds` without `overlap` | `switches` without `NoOverlap`, 1 fault | a switch won before the one before it has made its own stop channel closes the old one again, or its fetcher's header channel; two `RealtimeFetch` receive at once |
| `Lifecycle!ListensAgain` without an exception | `switches` | the lost switch of `ProgressIsReal` leaves the counter up and the indexer deaf; so does a failed subscription before the first block record, of which the watcher takes no notice |
| `IndexRepo!NoLostRow` | `reorg`, one address with one row, SharedTimes = TRUE | rows of two blocks of the same time share keys; removing one block removes the other's |
| `IndexRepo!NoLostRow` | SeqModulus = 2 and blocks of three rows | row 257 of an address has the key of row 1 |
| `IndexRepo!NoLostRow` | `catchup`, MaxDepth = 2, BlockTTL = 9 | a restart catches up from the last block record, and a batch it resumes goes on after Current: blocks that a deeper reorganisation changed below are not taken again |
| `IndexRepo!NoLostRow` without `missed` | `catchup`, one crash, MaxMined = 4 | a block mined between `GetLatestBlock` and `SubscribeNewHead` has no rows |
| `IndexRepo!NoLostRow` without `Forgotten` in `missed` | `catchup` | a catch-up batch crashes before its first record, after the subscription has stored a block: the next restart begins at that block |
| `IndexRepo!NoStaleRow` | MaxDepth = 1, one crash | the rows that a catch-up batch stored, or that a crash caught before their block record, are in no record: no reorganisation finds them |
| `IndexRepo!NoStaleRow` | MaxDepth = 1, one rerun | a block fetched before a reorganisation and stored after it stays |
| `Queries!ValueSigned` (`types/index.go:14`) | `queries` | `Bytes()` drops the sign (`byte_marshaller.go:142`): what an account sent is shown as if it had received it |
| `Queries!PageCorrect` | `queries` without TimesAssumption, `from` 3 | a `from` of fewer bytes than block times (in reality before 1970-07-14) sorts after rows it should come before, and the page is empty; `README.md:9` allows any unix time |
| `Queries!PageCorrect` | the same, `to` 15 | the second added to make `to` inclusive needs one more byte (in reality 2106), and the page is empty |
| `Queries!PagesComplete` without `RowsGo` | `queries`, pages of one row | a reorganisation between two pages takes a row of the first one away, the rest moves up, and a row that stays is never shown |

A few more follow from reading. `getAccountParam` answers 400 for the account `0x` but
returns a nil error, so the handler goes on and answers a second time
(`server.go:256-258`); the model lets the empty account through. A put that fails panics
(`index_repo.go:77`, `:88`), but a delete of `HandleReorg` that fails makes `Store` return before
the new block is written (`index_repo.go:40-44`), and `realtimeIndex` drops the error
(`indexer.go:177`): the block is skipped. `GetBlocks` shows "some
latest blocks" in the order of their decimal text (`index_repo.go:261`), as `lastblock`.

## 5. The proofs

`IndexerProofs`, for every NumBatch, NumIPC, CheckEvery and every bound (assumed only
to be natural numbers, positive where a division or a stride needs it):

- `TypeCorrect`, `ProgressIsSound`, `DoneBatchIsCovered`, `BlockRecordIsBacked`, from
  `Invariance`, the inductive invariant `IInv`. `ProgressSound` is not inductive: a record
  is written from a goroutine, so `WorkersSound` says that a goroutine has stored
  what it took, up to the block in its hand at `store`; and `IsDone` compares
  `current + step` with `to`, which says something about the share only if `current`
  is one of the batch's own blocks (`OnStride`, for goroutines and records).
  `RealtimeSound` says the same of the block between the two writes of `Store`.
- The arithmetic of strides is in lemmas: `AdvanceTakes` (Next takes one block of
  the share and passes none), `DoneHasTakenAll` (a batch that IsDone has taken all of
  its share), on `FactorOrder` and `FactorBound`. `GetBatchesSound` is the restart:
  what `getBatches` hands out is sound whatever record it comes from.

`IndexerResumeProofs`, under the same assumptions:

- `RecordsAreResumed`, from `ResumeInvariance`, which adds `JInv` to `IInv`. While
  `index()` waits, a block of a recorded batch is stored or before a goroutine. The
  interesting step is `Launch`: it has to cover every record, whichever goroutines of
  earlier calls wrote it, also between `GetLatestBlock` and `getBatches`. `RunsOrdered`
  keeps the goroutines of this call apart from those, and `TosBounded` says that no
  record goes beyond the block the call was told of, so that the batches it makes
  reach as far as any record does. `InHandExists` is needed for the refinement.
- `ImplementsPromise`: Spec => KeepsPromise. A goroutine's store is `Index`, a write of a
  batch or block record is `Claim`, the node's new block is `Extend`, and all else,
  crashes and switches included, leaves the mapped state alone or only takes claims
  back. `Claim` asks for `claimed' \subseteq indexed`, which is `ProgressSound` and
  `BlockRecordBacked` together; that an indexed block exists is `InHandExists`.
- `FirstBatchesPartition`: the first batches (`GetInitBatches`) leave out no block up to
  the latest and share none, by n % NumBatch.

`IpcManagerProofs`, for every set of callers and every number of nodes from two on:

- `SwitchedOncePerEpoch` and `TypeCorrect`. The invariant adds `CounterCounts` (in the
  current epoch the counter is at least the number of callers that counted
  themselves, up to two), `CallsOrdered` (no epoch lies ahead, nobody has won before
  reading) and `StillTold` (a caller in the Indexer's `IpcUpdated` still has it in its
  list, without which the types would not be inductive).
- `IndexIsOnCurrentIPC`. The invariant is `IndexFollows`: the index is on the current node,
  or could not dial, or some caller is yet to dial for it. It needs `NoneBroughtBack`: the slice that the
  other subscriber is about to write must not hold an Indexer that the present one
  lacks, or it would come back without having been told.

`LifecycleProofs`, for any number of calls of `index()` and of faults:

- `TypeCorrect`, from `Typed`: the types and how far a call can be (`Begun`), whichever
  switches overlap.
- `OldFetchIsOver` and `ChannelsClosedOnce`, from `OneAtATime`, which holds until a switch
  overlaps another. One call is at work (`Current`), and it is not yet the last one
  while that is in `IpcUpdated`. The calls before it are `Retired`: their goroutines are
  done, or wait for a channel nobody will close, and so they do not clear the fetcher
  of another call. That a call has retired when the next one makes its fetcher is what
  `Ending` and the sleep of 30s (`Settled`) give: after `IpcUpdated` of the old fetcher
  what is still at work has nothing to do but to end, and the sleep is longer.
  `FieldsCurrent` and `NotClosedYet` say whose fetcher and channels the fields hold.

`IndexRepoProofs`, for every set of addresses and every SeqModulus:

- `EveryRowHasItsKey` and `ReorgDeletesExactly`, about the operators `IndexRepo` is built
  from: for a block whose addresses have fewer rows than a sequence counts, no row
  overwrites another, and the keys `HandleReorg` deletes are exactly those `Store` wrote.
  With 256 rows or more both are false, and section 4 shows it.
- `TypeCorrect`, under the constants' own assumptions.

The rest of `IndexRepoProofs`, and `IndexRepoReorgProofs`, for every chain and every bound. Both
assume `AllFit` (fewer rows than a sequence counts) and that no two blocks have the same
time; section 4 shows that rows are lost without either.

- `NoRowIsLost`, also with reruns, the cleaner and crashes, with the exceptions of
  `NoLostRow`; `RestartReachesBack` excludes
  what section 4 shows of a crash and a reorganisation of two blocks or more. The
  invariant is `NoneLost`. Each block of the chain is stored, or a header, a goroutine, a
  record or the batch a restart will make has it before it, or it was missed (`Covered`,
  `AllCovered`). A batch is no help with the last block of its part, which may have been
  replaced since: `Covered(n, t)` therefore counts only batches that go on beyond t,
  `TakenCovered` and `HandsCovered` say that what a batch took, or has in hand, is stored or
  covered by something else, and `HeadersAhead` that announced blocks do not come before
  the end of a batch. `BatchesFit` is the arithmetic of a step of 1, `Restarting` what holds
  while nobody is told of blocks (with `TipAhead`: the tip is yet to be announced, or was
  missed). What `HandleReorg` deletes
  is no row of another block of the chain: all it finds was made of known blocks
  (`BlocksKnown`), and if it is the record of the chain's block, then the same block is
  about to be stored (`ReorgOwnRows`). `StoredInOrder` is what makes the last
  block record the right place to restart from.
- `RowsAreNamed` and `NoRowIsStale`, for announced blocks only (`OnlyHeaders`): a rerun or a
  crash can leave a row for good, as section 4 shows. The invariant is `NoneStale`. Each row
  belongs to a block whose record `HandleReorg` will find, or that is about to
  be written, or that no reorganisation reaches (`RowsKept`, `Deep`). The cleaner must not
  take a record earlier: `RecordsTimely` bounds how old the record of a block that can
  still be replaced is, by the number of blocks it takes to get that far from the tip
  or to read the headers that wait. `RecordsOutlive` compares that with `BlockTTL`. A
  depth of 12 needs 78 blocks, or 67 and the headers that wait, and the least
  `BlockTTL`, one hour, is about 240 blocks. With a smaller one TLC finds
  `RowsNamed` violated.

All of these hypotheses hold in `reorg`, those of `NoRowIsLost` in `catchup` too.

`EncodingProofs` and `QueriesProofs`, for every width of a byte, an address and a time, and
every set of accounts, blocks, page sizes and requests. They assume what `Encoding` and `Queries`
do: `TimesAssumption`, `RowsAssumption`, `DigitsAssumption`, and that an account has fewer rows in
a block than a byte has values (`ShapesAssumption`; section 4 shows what follows otherwise).

- `PagesAreRight` and `TotalsAreOne`. The argument has three parts. Keys are in the order of
  rows: `TimesInOrder` (the bytes of two times of one width are in the order of the times)
  and `BeforeConcat` give `KeysBefore`. Ranges are requests: `PrefixLimit` (the end of
  `BytesPrefix` of an account, which the largest bytes at its end make longer to find, lies
  behind its keys and before those of any other) and `InRangeIs` say that the keys in the
  range of a query are those of the rows it asks for. A walk is the answer: an iterator
  lists keys by how many come before them (`RankIsIndex`), so the row at a place of the
  walk is the row at that place of the answer, forwards and backwards
  (`ListingTransferred`, `ListingReversed`, `AccountListing`). `BlocksListing` is the same for
  `GetBlocks`, in the order of decimal text, of which `KeyBeforeOrders` says that it is one.
- The inductive invariant is `IInv`, checked with TLC on the instance of `queries` as well.
  `Stored`: each entry is the value of a row under that row's key. `Whole`: the rows of an
  account in a block are numbered from 1 without a gap; without it the record, which
  only has their number, would not name them. `ClientOK`: what a client misses is still
  stored, and at places it has not yet had.
- `NothingIsMissed` is `ClientOK` at the end. `PlaceGrows` is why it is preserved: a row that
  is stored between two pages can only move others to later places. A page that is not
  full then has the rest.
- `ReorgsAreExact`: the record of a block is read back as it was written, each field out of
  its own bytes (`TimeRead`, `EntryIs`, `RecordRead`), so `HandleReorg` deletes the rows of the
  block, all of them and no others (`ReorgKeysAre`).

`Number`, `Power` and the number of rows before another one are defined by recursion or by
counting, where a proof would go by induction. These go through the least number that
would be an exception (`LeastNumber`, from the well-foundedness of < on the naturals), and
`BeginningExists` constructs the recursive functions that way.

Only model-checked: liveness (fairness and ENABLED are out of the reach of tlapm), and
`CurrentAdvances`, which holds only with one process and a chain at rest. Every invariant of
every passing run, `KeepsPromise` and `ReorgByRecord` are proved.

## 6. Not modelled

Flag parsing and the opening of the databases (`main.go`, `config.go`), logging, the
in-memory and text doubles of the tests, the formats that `StrToTime` reads (library
calls), the basic authentication (the router's), and the handlers that show what is
stored as it is: `getConfig`, `getVersion`, `getBatchStatus`, the lookup of one block by its
number, and the additional fields of a transaction asked for with `fl`, which are read
from the node. Batch keys are modelled by their fields: their ten padded digits
are enough for block numbers below 10^9, and `blockNumberWidPad` writes nothing for longer
ones.

## 7. What could follow

1. What follows an overlap of switches in `Lifecycle`: no property is about it yet, and
   with three calls and two faults it has about 4.5 million states.
2. The composition of `IndexRepo` and `Queries`: a client that pages across a
   reorganisation of the chain.

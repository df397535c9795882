--------------------------- MODULE IndexerClaims ---------------------------
(***************************************************************************)
(* What the documents and comments of the repository say of the scheduling *)
(* of the indexer, and the code does not do: each claim is checked by a    *)
(* run that finds a behaviour against it.                                  *)
(***************************************************************************)
EXTENDS Indexer

\* indexer.go:47 and :52: after the stop channel is closed a batch goroutine
\* that looks at it goes no further.
StopEndsBatch ==
  [][\A id \in DOMAIN worker :
       worker[id].pc = "poll" /\ Stopped(id) /\ id \in DOMAIN worker' =>
         worker'[id] = worker[id]]_vars

\* batch_repo.go:63: a batch with a new "to" replaces the old record.
ReplacedNotDuplicated ==
  \A k, l \in DOMAIN batchDB :
    (k.from = l.from /\ k.step = l.step /\ k.createdAt = l.createdAt) => k = l

\* README.md:53: on restart all the uncompleted batches are run, so that no
\* block of the first sync is without a goroutine.
UncompletedBatchesRun ==
  index.pc = "wait" => \A n \in 0 .. InitHead : Covered(n)

\* README.md:53: on restart a batch runs up to the latest block of the chain.
RestartReachesLatest ==
  index.pc = "wait" => Covered(index.latest)

\* README.md:2: all transactions are indexed, those of a block that is mined
\* between GetLatestBlock and SubscribeNewHead too.
NoSubscriptionGap ==
  rt.pc = "listen" => \A n \in 0 .. rt.next - 1 : Covered(n)

\* index_repo.go:197: GetLastBlock returns the latest saved block.
LastBlockIsLatest == \A last \in LastBlockNums : \A n \in blockDB : n <= last
=============================================================================

----------------------------- MODULE Lifecycle -----------------------------
(***************************************************************************)
(* The goroutines of overlapping calls of index(), and the fields of the   *)
(* Indexer they share (indexer/indexer.go, fetcher/fetch.go,               *)
(* watcher/check_node_status.go, service/ipc_manager.go).                  *)
(* The n-th call of index() makes the n-th fetcher, stop channel and block *)
(* channel, and starts the n-th batches, realtimeIndex, RealtimeFetch and  *)
(* Watch.  A caller of ChangeIPC that wins runs IpcUpdated and then index()*)
(* on its own goroutine: it becomes the next call.  What the goroutines    *)
(* store is the subject of Indexer; there are at least two nodes.          *)
(***************************************************************************)
EXTENDS Integers, FiniteSets

CONSTANTS
  MaxRuns,   \* bound: calls of index()
  MaxFaults  \* bound: failed calls to a node, lost subscriptions, late blocks

ASSUME RunsAssumption   == MaxRuns \in Nat \ {0}
ASSUME FaultsAssumption == MaxFaults \in Nat

VARIABLES
  ipc,       \* the IPC manager: switchIPCCounter, the goroutines in ChangeIPC before
             \* AddInt32 and before LoadInt32, and whether the Indexer is subscribed
  run,       \* calls of index() so far, those still in IpcUpdated included
  overlap,   \* history: a switch was won before the one before it was over
  shared,    \* which call made the fields of the Indexer (or Nil); isWatching;
             \* recorded: the block database has a record
  made,      \* what each call made: blockHeaderChannel, ethSub, whether the client
             \* is open, whether the stop channel and the block channel are closed
  call,      \* the goroutines of each call: index() and the fetcher it waits for,
             \* realtimeIndex and the channel it receives from, RealtimeFetch and
             \* its fetcher, and whether Watch loops over a running ticker
  faults,    \* faults so far
  panicked   \* why the process is gone, or "no"

manager == <<ipc, run, overlap>>
world   == <<faults, panicked>>
vars    == <<manager, shared, made, call, world>>

Runs == 1 .. MaxRuns
Nil  == 0

IpcUpdatedAt == {"check", "call", "nap", "stop", "sleep"}
NoFetcherAt  == {"make", "dial", "failed"}
IndexingAt   == {"latest", "asking", "batches", "watch", "set", "over"}

TypeOK ==
  /\ ipc \in [counter : Nat, adding : Nat, loading : Nat, subscribed : BOOLEAN]
  /\ run \in Runs /\ overlap \in BOOLEAN
  /\ shared \in [realtimeFetcher : 0 .. run, stopChan : 0 .. run, bdChan : 0 .. run,
                 isWatching : BOOLEAN, recorded : BOOLEAN]
  /\ made \in [Runs -> [header : {"nil", "open", "closed"}, sub : {"nil", "live", "gone"},
                        open : BOOLEAN, stopClosed : BOOLEAN, bdClosed : BOOLEAN]]
  /\ call \in [Runs ->
       [index    : {"none"} \cup IpcUpdatedAt \cup NoFetcherAt \cup IndexingAt,
        uses     : 0 .. run,
        realtime : {"none", "start", "wait", "process", "ended"},
        ch       : 0 .. run,
        fetch    : {"none", "make", "subscribe", "listen", "fetch", "send", "ended"},
        on       : 0 .. run,
        ticker   : BOOLEAN]]
  /\ faults \in 0 .. MaxFaults
  /\ panicked \in {"no", "nilFetcher", "stopChannel", "headerChannel", "send"}

\* FirstIndex is called, and NewServer on another goroutine.
Init ==
  /\ ipc = [counter |-> 0, adding |-> 0, loading |-> 0, subscribed |-> FALSE]
  /\ run = 1 /\ overlap = FALSE
  /\ shared = [realtimeFetcher |-> Nil, stopChan |-> Nil, bdChan |-> Nil,
               isWatching |-> FALSE, recorded |-> FALSE]
  /\ made = [r \in Runs |-> [header |-> "nil", sub |-> "nil", open |-> TRUE,
                             stopClosed |-> FALSE, bdClosed |-> FALSE]]
  /\ call = [r \in Runs |->
       [index |-> IF r = 1 THEN "sleep" ELSE "none", uses |-> Nil, realtime |-> "none",
        ch |-> Nil, fetch |-> "none", on |-> Nil, ticker |-> FALSE]]
  /\ faults = 0 /\ panicked = "no"

-----------------------------------------------------------------------------
(* Failures and panics.                                                    *)

Fault == faults < MaxFaults /\ faults' = faults + 1 /\ UNCHANGED panicked

\* switchIPC() starts a goroutine of ForceChangeIPC.
SwitchIPC == ipc' = [ipc EXCEPT !.adding = @ + 1] /\ UNCHANGED <<run, overlap>>

\* A call through fetcher f fails: its node does not answer, or its client was closed.
CallFails(f) == SwitchIPC /\ (Fault \/ (~made[f].open /\ UNCHANGED world))

\* A panic of any goroutine ends the process.
Panic(why) == panicked' = why /\ UNCHANGED <<manager, shared, made, call, faults>>

-----------------------------------------------------------------------------
(* ChangeIPC.                                                              *)

Add ==
  /\ ipc.adding > 0
  /\ ipc' = [ipc EXCEPT !.adding = @ - 1, !.counter = @ + 1, !.loading = @ + 1]
  /\ UNCHANGED <<run, overlap, shared, made, call, world>>

\* Mutant of TurnedAway: a caller that is turned away takes its 1 back.
TurnedAwayTakesBack ==
  /\ ipc.loading > 0 /\ (ipc.counter > 1 \/ ~ipc.subscribed)
  /\ ipc' = [ipc EXCEPT !.loading = @ - 1, !.counter = @ - 1]
  /\ UNCHANGED <<run, overlap, shared, made, call, world>>

\* "Switching is in progress", or the node is changed and nobody is told.
TurnedAway ==
  /\ ipc.loading > 0 /\ (ipc.counter > 1 \/ ~ipc.subscribed)
  /\ ipc' = [ipc EXCEPT !.loading = @ - 1]
  /\ UNCHANGED <<run, overlap, shared, made, call, world>>

\* The node is changed, and the Indexer is told: IpcUpdated begins.
Win ==
  /\ ipc.loading > 0 /\ ipc.counter <= 1 /\ ipc.subscribed /\ run < MaxRuns
  /\ ipc' = [ipc EXCEPT !.loading = @ - 1]
  /\ run' = run + 1
  /\ call' = [call EXCEPT ![run + 1].index = "check"]
  /\ overlap' = (overlap \/ \E r \in Runs : call[r].index \in IpcUpdatedAt \cup NoFetcherAt)
  /\ UNCHANGED <<shared, made, world>>

\* The first dial of NewServer fails.
ServerDialFails == run = 1 /\ SwitchIPC /\ Fault /\ UNCHANGED <<shared, made, call>>

-----------------------------------------------------------------------------
(* IpcUpdated of the Indexer and of its fetcher.                           *)

Goto(r, pc) == call' = [call EXCEPT ![r].index = pc]
Done(r, pc) == call' = [call EXCEPT ![r].index = pc, ![r].uses = Nil]

\* A goroutine of r has a step to take that waits for nothing outside.
Busy(r) ==
  LET c == call[r] IN
  \/ c.index \in {"check", "call", "stop", "make", "failed", "latest", "watch", "set"}
  \/ c.index = "asking" /\ ~made[c.uses].open
  \/ c.fetch = "make"
  \/ c.fetch \in {"subscribe", "fetch"} /\ ~made[c.on].open
  \/ c.fetch = "listen" /\ made[c.on].header = "closed"
  \/ c.fetch = "send" /\ \E s \in Runs : call[s].realtime = "wait" /\ call[s].ch = r
  \/ c.realtime \in {"start", "process"}
  \/ c.realtime = "wait" /\ made[c.ch].bdClosed

\* 30s, or the interval of the watcher, are longer than such steps take.
Settled == ipc.adding = 0 /\ ipc.loading = 0 /\ \A r \in Runs : ~Busy(r)

\* if indexer.realtimeFetcher != nil
Check(r) ==
  /\ call[r].index = "check"
  /\ Goto(r, IF shared.realtimeFetcher = Nil THEN "stop" ELSE "call")
  /\ UNCHANGED <<manager, shared, made, world>>

\* The field is read a second time; Unsubscribe, if the fetcher has subscribed.
Call(r) ==
  LET f == shared.realtimeFetcher IN
  /\ call[r].index = "call"
  /\ \/ f = Nil /\ Panic("nilFetcher")
     \/ /\ f # Nil
        /\ call' = [call EXCEPT ![r].index = "nap", ![r].uses = f]
        /\ made' = [made EXCEPT ![f].sub = IF @ = "live" THEN "gone" ELSE @]
        /\ UNCHANGED <<manager, shared, world>>

\* Mutant of CloseHeader: only the client is closed.
CloseClientOnly(r) ==
  LET f == call[r].uses IN
  /\ call[r].index = "nap" /\ Settled
  /\ Done(r, "stop")
  /\ made' = [made EXCEPT ![f].open = FALSE, ![f].sub = IF @ = "live" THEN "gone" ELSE @]
  /\ UNCHANGED <<manager, shared, world>>

\* 30s later the header channel and the client are closed.  A header that
\* comes in between, for a subscription that was not ended, panics.
CloseHeader(r) ==
  LET f == call[r].uses IN
  /\ call[r].index = "nap" /\ Settled
  /\ \/ made[f].header = "closed" /\ Panic("headerChannel")
     \/ made[f].header = "open" /\ made[f].sub = "live" /\ Panic("send")
     \/ /\ made[f].header # "closed"
        /\ Done(r, "stop")
        /\ made' = [made EXCEPT ![f].header = IF @ = "open" THEN "closed" ELSE @,
                                ![f].sub = IF @ = "live" THEN "gone" ELSE @,
                                ![f].open = FALSE]
        /\ UNCHANGED <<manager, shared, world>>

\* if indexer.stopChan != nil { close(indexer.stopChan) }
CloseStop(r) ==
  LET s == shared.stopChan IN
  /\ call[r].index = "stop"
  /\ \/ s # Nil /\ made[s].stopClosed /\ Panic("stopChannel")
     \/ /\ s = Nil \/ ~made[s].stopClosed
        /\ made' = [t \in Runs |-> IF t = s THEN [made[t] EXCEPT !.stopClosed = TRUE]
                                            ELSE made[t]]
        /\ Goto(r, "sleep")
        /\ UNCHANGED <<manager, shared, world>>

-----------------------------------------------------------------------------
(* index().                                                                *)

\* EnableSwitchIPC, another 30s later (at once in FirstIndex).
Enable(r) ==
  /\ call[r].index = "sleep" /\ (r = 1 \/ Settled)
  /\ ipc' = [ipc EXCEPT !.counter = 0]
  /\ Goto(r, "make")
  /\ UNCHANGED <<run, overlap, shared, made, world>>

\* Mutant of MakeStop: only the first call makes a stop channel.
MakeStopOnce(r) ==
  /\ call[r].index = "make"
  /\ shared' = [shared EXCEPT !.stopChan = 1]
  /\ ipc' = [ipc EXCEPT !.subscribed = TRUE]
  /\ Goto(r, "dial")
  /\ UNCHANGED <<run, overlap, made, world>>

\* A new stop channel; the first call subscribes the Indexer.
MakeStop(r) ==
  /\ call[r].index = "make"
  /\ shared' = [shared EXCEPT !.stopChan = r]
  /\ ipc' = [ipc EXCEPT !.subscribed = TRUE]
  /\ Goto(r, "dial")
  /\ UNCHANGED <<run, overlap, made, world>>

\* NewChainFetch; after a failed dial the field is cleared, and index() returns.
Dial(r) ==
  /\ call[r].index = "dial"
  /\ \/ /\ shared' = [shared EXCEPT !.realtimeFetcher = r]
        /\ Goto(r, "latest")
        /\ UNCHANGED <<manager, world>>
     \/ SwitchIPC /\ Fault /\ Goto(r, "failed") /\ UNCHANGED shared
  /\ UNCHANGED made

Failed(r) ==
  /\ call[r].index = "failed"
  /\ shared' = [shared EXCEPT !.realtimeFetcher = Nil]
  /\ Goto(r, "over")
  /\ UNCHANGED <<manager, made, world>>

\* GetLatestBlock is called on what the field holds.
Latest(r) ==
  LET f == shared.realtimeFetcher IN
  /\ call[r].index = "latest"
  /\ \/ f = Nil /\ Panic("nilFetcher")
     \/ /\ f # Nil
        /\ call' = [call EXCEPT ![r].index = "asking", ![r].uses = f]
        /\ UNCHANGED <<manager, shared, made, world>>

\* It returns: index() starts its goroutines, or returns.
Answered(r) ==
  LET f == call[r].uses IN
  /\ call[r].index = "asking"
  /\ \/ /\ made[f].open
        /\ call' = [call EXCEPT ![r].index = "batches", ![r].uses = Nil,
                                ![r].realtime = "start"]
        /\ UNCHANGED <<manager, world>>
     \/ CallFails(f) /\ Done(r, "over")
  /\ UNCHANGED <<shared, made>>

\* A batch fails a dial or a call; the others go on.
BatchFails(r) ==
  /\ call[r].index = "batches"
  /\ SwitchIPC /\ Fault
  /\ UNCHANGED <<shared, made, call>>

\* The last batch ends, and batchWG.Wait() returns.
BatchesEnd(r) ==
  /\ call[r].index = "batches"
  /\ Goto(r, "watch")
  /\ UNCHANGED <<manager, shared, made, world>>

-----------------------------------------------------------------------------
(* The watcher, one object for all the calls.                              *)

\* if n.isWatching
WatchCheck(r) ==
  /\ call[r].index = "watch"
  /\ Goto(r, IF shared.isWatching THEN "over" ELSE "set")
  /\ UNCHANGED <<manager, shared, made, world>>

WatchSet(r) ==
  /\ call[r].index = "set"
  /\ shared' = [shared EXCEPT !.isWatching = TRUE]
  /\ call' = [call EXCEPT ![r].index = "over", ![r].ticker = TRUE]
  /\ UNCHANGED <<manager, made, world>>

\* Call r gets the headers of a node, or waits for its node to get there.
Listens(r) ==
  \/ call[r].fetch \in {"listen", "fetch", "send"} /\ made[call[r].on].sub = "live"
  \/ call[r].fetch = "subscribe"
  \/ call[r].index \in {"dial", "asking"}

Deaf == \A r \in Runs : ~Listens(r)

\* Mutant of OutOfDate: isWatching stays set.
OutOfDateWatching(r) ==
  /\ call[r].ticker /\ shared.recorded /\ Settled
  /\ (Deaf /\ UNCHANGED world) \/ Fault
  /\ call' = [call EXCEPT ![r].ticker = FALSE]
  /\ SwitchIPC
  /\ UNCHANGED <<shared, made>>

\* The last block is too old: nothing is received, or the node is late.  The
\* ticker is stopped and ChangeIPC called, whatever comes of it.  Without any
\* last block, watch returns.
OutOfDate(r) ==
  /\ call[r].ticker /\ shared.recorded /\ Settled
  /\ (Deaf /\ UNCHANGED world) \/ Fault
  /\ shared' = [shared EXCEPT !.isWatching = FALSE]
  /\ call' = [call EXCEPT ![r].ticker = FALSE]
  /\ SwitchIPC
  /\ UNCHANGED made

-----------------------------------------------------------------------------
(* realtimeIndex and RealtimeFetch.                                        *)

\* A new block channel; RealtimeFetch is started on what the field holds.
StartRealtime(r) ==
  LET f == shared.realtimeFetcher IN
  /\ call[r].realtime = "start"
  /\ \/ f = Nil /\ Panic("nilFetcher")
     \/ /\ f # Nil
        /\ shared' = [shared EXCEPT !.bdChan = r]
        /\ call' = [call EXCEPT ![r].fetch = "make", ![r].on = f,
                                ![r].realtime = "wait", ![r].ch = r]
        /\ UNCHANGED <<manager, made, world>>

FetchGoto(r, pc) == call' = [call EXCEPT ![r].fetch = pc]
FetchEnds(r)     == call' = [call EXCEPT ![r].fetch = "ended", ![r].on = Nil]

FetchMake(r) ==
  /\ call[r].fetch = "make"
  /\ made' = [made EXCEPT ![call[r].on].header = "open"]
  /\ FetchGoto(r, "subscribe")
  /\ UNCHANGED <<manager, shared, world>>

\* A failed subscription leaves the block channel open.
SubscribeNewHead(r) ==
  LET f == call[r].on IN
  /\ call[r].fetch = "subscribe"
  /\ \/ /\ made[f].open
        /\ made' = [made EXCEPT ![f].sub = "live"]
        /\ FetchGoto(r, "listen")
        /\ UNCHANGED <<manager, world>>
     \/ CallFails(f) /\ FetchEnds(r) /\ UNCHANGED made
  /\ UNCHANGED shared

\* Headers come further apart than a block takes to be stored.
Header(r) ==
  /\ call[r].fetch = "listen" /\ \A s \in Runs : call[s].realtime # "process"
  /\ made[call[r].on].header = "open" /\ made[call[r].on].sub = "live"
  /\ FetchGoto(r, "fetch")
  /\ UNCHANGED <<manager, shared, made, world>>

\* The header channel is closed: so is the block channel.
HeadersEnd(r) ==
  /\ call[r].fetch = "listen" /\ made[call[r].on].header = "closed"
  /\ made' = [made EXCEPT ![r].bdClosed = TRUE]
  /\ FetchEnds(r)
  /\ UNCHANGED <<manager, shared, world>>

\* FetchABlock; when it fails the block channel is closed.
FetchABlock(r) ==
  LET f == call[r].on IN
  /\ call[r].fetch = "fetch"
  /\ \/ made[f].open /\ FetchGoto(r, "send") /\ UNCHANGED <<manager, made, world>>
     \/ /\ CallFails(f)
        /\ made' = [made EXCEPT ![r].bdClosed = TRUE]
        /\ FetchEnds(r)
  /\ UNCHANGED shared

\* realtimeIndex of call s receives the block.
Send(r, s) ==
  /\ call[r].fetch = "send" /\ call[s].realtime = "wait" /\ call[s].ch = r
  /\ call' = [call EXCEPT ![r].fetch = "listen", ![s].realtime = "process"]
  /\ UNCHANGED <<manager, shared, made, world>>

\* ProcessBlock; the next receive is from the channel the field holds then.
Process(r) ==
  /\ call[r].realtime = "process"
  /\ shared' = [shared EXCEPT !.recorded = TRUE]
  /\ call' = [call EXCEPT ![r].realtime = "wait", ![r].ch = shared.bdChan]
  /\ UNCHANGED <<manager, made, world>>

\* The block channel is closed: the field is cleared, whosever it is by now.
RealtimeEnds(r) ==
  /\ call[r].realtime = "wait" /\ made[call[r].ch].bdClosed
  /\ shared' = [shared EXCEPT !.realtimeFetcher = Nil]
  /\ call' = [call EXCEPT ![r].realtime = "ended", ![r].ch = Nil]
  /\ UNCHANGED <<manager, made, world>>

\* The connection is lost; nobody reads the error channel of the subscription.
SubscriptionLost(f) ==
  /\ made[f].sub = "live" /\ Fault
  /\ made' = [made EXCEPT ![f].sub = "gone"]
  /\ UNCHANGED <<manager, shared, call>>

-----------------------------------------------------------------------------
Index(r) ==
  \/ Check(r) \/ Call(r) \/ CloseStop(r)
  \/ MakeStop(r) \/ Dial(r) \/ Failed(r) \/ Latest(r) \/ Answered(r)
  \/ BatchesEnd(r) \/ WatchCheck(r) \/ WatchSet(r)

Wakes(r) == CloseHeader(r) \/ Enable(r)

Fetch(r) ==
  \/ FetchMake(r) \/ SubscribeNewHead(r) \/ HeadersEnd(r) \/ FetchABlock(r)
  \/ \E s \in Runs : Send(r, s)

Realtime(r) == StartRealtime(r) \/ Process(r) \/ RealtimeEnds(r)

Next ==
  /\ panicked = "no"
  /\ \/ Add \/ TurnedAway \/ Win \/ ServerDialFails
     \/ \E r \in Runs :
          \/ Index(r) \/ Wakes(r) \/ BatchFails(r) \/ OutOfDate(r)
          \/ Fetch(r) \/ Header(r) \/ Realtime(r) \/ SubscriptionLost(r)

Spec == Init /\ [][Next]_vars

\* The Go scheduler runs what can run, calls to a node return, and a watcher
\* whose ticker runs sees that nothing is received.  A sleep ends though headers
\* keep coming.  No header has to come.
FairSpec ==
  /\ Spec
  /\ WF_vars(panicked = "no" /\ Add)
  /\ WF_vars(panicked = "no" /\ (TurnedAway \/ Win))
  /\ \A r \in Runs :
       /\ WF_vars(panicked = "no" /\ Index(r))
       /\ SF_vars(panicked = "no" /\ Wakes(r))
       /\ WF_vars(panicked = "no" /\ Deaf /\ OutOfDate(r))
       /\ WF_vars(panicked = "no" /\ Fetch(r))
       /\ WF_vars(panicked = "no" /\ Realtime(r))

\* Bound: what follows once switches have overlapped is not explored.
NoOverlap == ~overlap

-----------------------------------------------------------------------------
(* Safety.                                                                 *)

\* When a call of index() has enabled the next switch, no RealtimeFetch of an
\* earlier call goes on: two of them would store blocks side by side.  It takes
\* overlapping switches to break this.
OldFetchEnds ==
  ~overlap =>
    \A r \in Runs :
      call[r].index \in NoFetcherAt \cup IndexingAt =>
        \A s \in 1 .. r - 1 : call[s].fetch \in {"none", "ended"}

\* No channel is closed twice, neither the stop channel nor the header channel
\* of a fetcher that is left in the field, unless switches overlapped.
ClosedOnce == panicked \in {"stopChannel", "headerChannel"} => overlap

-----------------------------------------------------------------------------
(* Liveness.                                                               *)

\* The counter stays up: nobody is on the way to EnableSwitchIPC.
CounterStuck ==
  /\ ipc.counter > 0 /\ ipc.adding = 0 /\ ipc.loading = 0
  /\ \A r \in Runs : call[r].index \notin IpcUpdatedAt

\* Once the failures end the indexer gets headers again, or the process ends;
\* it stays deaf only if the counter lost its switch, switches overlapped, or
\* no block was ever stored for the watcher to look at.
ListensAgain ==
  <>[](~Deaf \/ panicked # "no" \/ CounterStuck \/ overlap \/ ~shared.recorded)

\* A watcher that gave up its ticker is followed by another one, whether its
\* ChangeIPC was served or turned away, unless the counter lost the switch, or
\* switches overlapped, after which nothing is explored (NoOverlap).
WatchedAgain ==
  []<>((\E r \in Runs : call[r].ticker) \/ panicked # "no" \/ CounterStuck)
=============================================================================

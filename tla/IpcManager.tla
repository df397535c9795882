----------------------------- MODULE IpcManager -----------------------------
(***************************************************************************)
(* Who switches the node, and who is told (service/ipc_manager.go).        *)
(* Every failed call of a fetcher starts a goroutine that calls            *)
(* ForceChangeIPC; the watcher calls ChangeIPC.  A caller counts itself,   *)
(* reads the counter, and is the one to switch if it reads 1; index()      *)
(* resets the counter (EnableSwitchIPC).  The one that switches calls      *)
(* IpcUpdated of the subscribers one after the other: that of the Indexer  *)
(* runs index(), that of the Server dials again.                           *)
(* There are at least two nodes: with one, ForceChangeIPC panics.          *)
(***************************************************************************)
EXTENDS Integers, Sequences

CONSTANTS
  Callers,   \* the goroutines that call ChangeIPC, once each
  NumIPC     \* length of ipcList

ASSUME NumIPCAssumption == NumIPC \in Nat /\ NumIPC >= 2

VARIABLES
  curIPC,      \* the place of the current node in ipcList
  counter,     \* switchIPCCounter
  epoch,       \* how many times EnableSwitchIPC was called
  subscribers, \* who is told of a switch, in this order
  starting,    \* the calls of Subscribe: pc, and the slice that was read
  caller,      \* the calls of ChangeIPC
  stopped,     \* the stopChan of the last index() is closed
  panicked,    \* the process is gone: it closed a closed channel
  indexIPC,    \* the node the last index() dialed; NoIPC: it could not
  server       \* the node of the Server that subscribed, and of the one that serves

vars == <<curIPC, counter, epoch, subscribers, starting, caller, stopped, panicked,
          indexIPC, server>>

Names == {"Indexer", "Server"}

\* No fetcher, and the places a fetcher may have.
NoIPC  == -1
Places == 0 .. NumIPC - 1

\* A call of ChangeIPC: the epoch it counted itself in, the epoch it won the
\* switch in (0: not yet), and the subscribers it still has to tell.
NewCall == [pc |-> "start", added |-> 0, won |-> 0, toTell |-> <<>>, began |-> 0]

Pcs == {"start", "load", "next", "tell", "enable", "dial", "wait", "done"}

Calls == [pc : Pcs, added : Nat, won : Nat, toTell : Seq(Names), began : Nat]

NextPlace(i) == (i + 1) % NumIPC

TypeOK ==
  /\ curIPC \in Places /\ counter \in Nat /\ epoch \in Nat \ {0}
  /\ subscribers \in Seq(Names)
  /\ starting \in [Names -> [pc : {"read", "write", "dial", "done"}, read : Seq(Names)]]
  /\ caller \in [Callers -> Calls]
  /\ stopped \in BOOLEAN /\ panicked \in BOOLEAN
  /\ indexIPC \in Places \cup {NoIPC}
  /\ server \in [subscribed : Places \cup {NoIPC}, serving : Places \cup {NoIPC}]

Init ==
  /\ curIPC = 0 /\ counter = 0 /\ epoch = 1
  /\ subscribers = <<>>
  /\ starting = [s \in Names |-> [pc |-> "read", read |-> <<>>]]
  /\ caller = [c \in Callers |-> NewCall]
  /\ stopped = FALSE /\ panicked = FALSE
  /\ indexIPC = NoIPC
  /\ server = [subscribed |-> NoIPC, serving |-> NoIPC]

-----------------------------------------------------------------------------
(* FirstIndex, which has called EnableSwitchIPC, and NewServer subscribe    *)
(* and dial on two goroutines; the slice is not guarded.                    *)

SubscribeRead(s) ==
  /\ starting[s].pc = "read"
  /\ starting' = [starting EXCEPT ![s] = [pc |-> "write", read |-> subscribers]]
  /\ UNCHANGED <<curIPC, counter, epoch, subscribers, caller, stopped, panicked,
                 indexIPC, server>>

SubscribeWrite(s) ==
  /\ starting[s].pc = "write"
  /\ subscribers' = Append(starting[s].read, s)
  /\ starting' = [starting EXCEPT ![s] = [pc |-> "dial", read |-> <<>>]]
  /\ UNCHANGED <<curIPC, counter, epoch, caller, stopped, panicked, indexIPC, server>>

\* NewChainFetch, and for the Indexer GetLatestBlock, succeed or fail.  The
\* Server that serves is the copy NewServer returns of the one that subscribed.
FirstDial(s) ==
  /\ starting[s].pc = "dial"
  /\ starting' = [starting EXCEPT ![s].pc = "done"]
  /\ \/ s = "Indexer" /\ indexIPC' \in {curIPC, NoIPC} /\ UNCHANGED server
     \/ s = "Server" /\ UNCHANGED indexIPC
        /\ \E ipc \in {curIPC, server.subscribed} :
             server' = [subscribed |-> ipc, serving |-> ipc]
  /\ UNCHANGED <<curIPC, counter, epoch, subscribers, caller, stopped, panicked>>

Start(s) == SubscribeRead(s) \/ SubscribeWrite(s) \/ FirstDial(s)

-----------------------------------------------------------------------------
(* ChangeIPC.                                                              *)

At(c, pc) == caller[c].pc = pc

\* AddInt32.
Add(c) ==
  /\ At(c, "start")
  /\ counter' = counter + 1
  /\ caller' = [caller EXCEPT ![c].pc = "load", ![c].added = epoch]
  /\ UNCHANGED <<curIPC, epoch, subscribers, starting, stopped, panicked, indexIPC, server>>

\* Mutant of Load: two callers may read the counter below the limit.
LoadTwo(c) ==
  /\ At(c, "load")
  /\ \/ counter > 2 /\ caller' = [caller EXCEPT ![c].pc = "done"]
     \/ counter <= 2 /\ caller' = [caller EXCEPT ![c].pc = "next", ![c].won = epoch]
  /\ UNCHANGED <<curIPC, counter, epoch, subscribers, starting, stopped, panicked,
                 indexIPC, server>>

\* LoadInt32: "Switching is in progress", or this caller switches.
Load(c) ==
  /\ At(c, "load")
  /\ \/ counter > 1 /\ caller' = [caller EXCEPT ![c].pc = "done"]
     \/ counter <= 1 /\ caller' = [caller EXCEPT ![c].pc = "next", ![c].won = epoch]
  /\ UNCHANGED <<curIPC, counter, epoch, subscribers, starting, stopped, panicked,
                 indexIPC, server>>

\* Mutant of SwitchNext: the end of ipcList is overrun.
SwitchNextNoWrap(c) ==
  /\ At(c, "next")
  /\ curIPC' = curIPC + 1
  /\ caller' = [caller EXCEPT ![c].pc = "tell", ![c].toTell = subscribers]
  /\ UNCHANGED <<counter, epoch, subscribers, starting, stopped, panicked, indexIPC, server>>

\* NextIPC; the loop over the subscribers starts.
SwitchNext(c) ==
  /\ At(c, "next")
  /\ curIPC' = NextPlace(curIPC)
  /\ caller' = [caller EXCEPT ![c].pc = "tell", ![c].toTell = subscribers]
  /\ UNCHANGED <<counter, epoch, subscribers, starting, stopped, panicked, indexIPC, server>>

\* All the subscribers were told.
TellNobody(c) ==
  /\ At(c, "tell") /\ caller[c].toTell = <<>>
  /\ caller' = [caller EXCEPT ![c].pc = "done"]
  /\ UNCHANGED <<curIPC, counter, epoch, subscribers, starting, stopped, panicked,
                 indexIPC, server>>

Tells(c, s) == At(c, "tell") /\ caller[c].toTell # <<>> /\ Head(caller[c].toTell) = s

\* IpcUpdated of the Server: it is the Server that subscribed that dials, and
\* keeps what it has if that fails.
TellServer(c) ==
  /\ Tells(c, "Server")
  /\ \E ipc \in {curIPC, server.subscribed} : server' = [server EXCEPT !.subscribed = ipc]
  /\ caller' = [caller EXCEPT ![c].toTell = Tail(@)]
  /\ UNCHANGED <<curIPC, counter, epoch, subscribers, starting, stopped, panicked, indexIPC>>

\* IpcUpdated of the Indexer closes stopChan, which panics if it is closed.
TellIndexer(c) ==
  /\ Tells(c, "Indexer")
  /\ stopped' = TRUE /\ panicked' = stopped
  /\ caller' = [caller EXCEPT ![c].pc = "enable"]
  /\ UNCHANGED <<curIPC, counter, epoch, subscribers, starting, indexIPC, server>>

\* 60s later index() calls EnableSwitchIPC and makes a new stopChan.
EnableSwitchIPC(c) ==
  /\ At(c, "enable")
  /\ counter' = 0 /\ epoch' = epoch + 1 /\ stopped' = FALSE
  /\ caller' = [caller EXCEPT ![c].pc = "dial", ![c].began = epoch + 1]
  /\ UNCHANGED <<curIPC, subscribers, starting, panicked, indexIPC, server>>

\* Mutant of Dial: the fetcher of the first index() is kept.
DialNot(c) ==
  /\ At(c, "dial")
  /\ caller' = [caller EXCEPT ![c].pc = "wait"]
  /\ UNCHANGED <<curIPC, counter, epoch, subscribers, starting, stopped, panicked,
                 indexIPC, server>>

\* NewChainFetch and GetLatestBlock.
Dial(c) ==
  /\ At(c, "dial")
  /\ indexIPC' = curIPC
  /\ caller' = [caller EXCEPT ![c].pc = "wait"]
  /\ UNCHANGED <<curIPC, counter, epoch, subscribers, starting, stopped, panicked, server>>

\* One of them fails: index() returns, and the next subscriber is told.
DialFails(c) ==
  /\ At(c, "dial")
  /\ indexIPC' = NoIPC
  /\ caller' = [caller EXCEPT ![c].pc = "tell", ![c].toTell = Tail(@)]
  /\ UNCHANGED <<curIPC, counter, epoch, subscribers, starting, stopped, panicked, server>>

\* index() returns, if it does, when a later switch ends its subscription;
\* if it started the watcher it waits for it for ever.
IndexReturns(c) ==
  /\ At(c, "wait") /\ (stopped \/ epoch > caller[c].began)
  /\ caller' = [caller EXCEPT ![c].pc = "tell", ![c].toTell = Tail(@)]
  /\ UNCHANGED <<curIPC, counter, epoch, subscribers, starting, stopped, panicked,
                 indexIPC, server>>

-----------------------------------------------------------------------------
ChangeIPC(c) ==
  \/ Add(c) \/ Load(c) \/ SwitchNext(c)
  \/ TellNobody(c) \/ TellServer(c) \/ TellIndexer(c)
  \/ EnableSwitchIPC(c) \/ Dial(c) \/ DialFails(c)

Next ==
  /\ ~panicked
  /\ \/ \E s \in Names : Start(s)
     \/ \E c \in Callers : ChangeIPC(c) \/ IndexReturns(c)

Spec == Init /\ [][Next]_vars

\* Goroutines that can run do run; nothing makes index() return.
FairSpec ==
  /\ Spec
  /\ \A s \in Names : WF_vars(~panicked /\ Start(s))
  /\ \A c \in Callers : WF_vars(~panicked /\ ~At(c, "start") /\ ChangeIPC(c))

-----------------------------------------------------------------------------
(* Properties.                                                             *)

\* Of the calls that count themselves and read the counter between the same
\* two calls of EnableSwitchIPC, at most one switches the node.
OneSwitchPerEpoch ==
  \A c, d \in Callers :
    (/\ caller[c].won = caller[d].won /\ caller[c].won # 0
     /\ caller[c].added = caller[c].won /\ caller[d].added = caller[d].won) => c = d

\* The goroutine is between winning the switch and the Indexer's new dial.
Switching(c) == caller[c].pc \in {"next", "tell", "enable", "dial"}

Started == \A s \in Names : starting[s].pc = "done"

\* When no caller is switching, index() runs on the node that is current, unless
\* it could not dial it: no order of the callers leaves it on an older one.  (The
\* Indexer may be missing among the subscribers: see IpcManagerClaims.)
IndexOnCurrentIPC ==
  (/\ ~panicked /\ Started
   /\ \A c \in Callers : ~Switching(c)
   /\ \E i \in 1 .. Len(subscribers) : subscribers[i] = "Indexer") =>
    indexIPC \in {curIPC, NoIPC}
=============================================================================

-------------------------- MODULE IpcManagerProofs --------------------------
(***************************************************************************)
(* Theorems about IpcManager, for every set of callers and every number of *)
(* nodes: its types, that a counter value of 1 is read by one caller, and  *)
(* that index() is on the current node unless it could not dial it.        *)
(***************************************************************************)
EXTENDS IpcManager, TLAPS

\* A caller that has not read the counter yet has won nothing, one that has not
\* counted itself belongs to no epoch, and no epoch lies ahead.
CallsOrdered ==
  \A c \in Callers :
    /\ caller[c].added <= epoch
    /\ caller[c].pc \in {"start", "load"} => caller[c].won = 0

\* The counter is at least the number of callers of this epoch, up to two of
\* them: that many are enough to turn a caller away.
CounterCounts ==
  /\ \A c \in Callers : caller[c].added = epoch => counter >= 1
  /\ \A c, d \in Callers : c # d /\ caller[c].added = epoch /\ caller[d].added = epoch => counter >= 2

\* Whoever is in a subscriber's IpcUpdated has not dropped it from its list.
StillTold ==
  \A c \in Callers : caller[c].pc \in {"enable", "dial", "wait"} => caller[c].toTell # <<>>

\* The inductive invariant.
IInv == TypeOK /\ StillTold /\ CallsOrdered /\ CounterCounts /\ OneSwitchPerEpoch

\* The three writes of the start keep the types.
LEMMA StartTypes ==
  ASSUME TypeOK, NEW s \in Names, Start(s)
  PROVE  TypeOK'
<1>1. CASE SubscribeRead(s)
  BY <1>1 DEF SubscribeRead, TypeOK
<1>2. CASE SubscribeWrite(s)
  <2>1. starting[s].read \in Seq(Names)
    BY DEF TypeOK
  <2>2. Append(starting[s].read, s) \in Seq(Names)
    BY <2>1
  <2> QED BY <1>2, <2>2 DEF SubscribeWrite, TypeOK
<1>3. CASE FirstDial(s)
  <2>1. starting' \in [Names -> [pc : {"read", "write", "dial", "done"}, read : Seq(Names)]]
    BY <1>3 DEF FirstDial, TypeOK
  <2>2. /\ indexIPC' \in Places \cup {NoIPC}
        /\ server' \in [subscribed : Places \cup {NoIPC}, serving : Places \cup {NoIPC}]
    <3>1. curIPC \in Places /\ server.subscribed \in Places \cup {NoIPC}
      BY DEF TypeOK
    <3>2. CASE indexIPC' \in {curIPC, NoIPC} /\ UNCHANGED server
      BY <3>1, <3>2 DEF TypeOK
    <3>3. CASE /\ UNCHANGED indexIPC
               /\ \E ipc \in {curIPC, server.subscribed} :
                    server' = [subscribed |-> ipc, serving |-> ipc]
      BY <3>1, <3>3 DEF TypeOK
    <3> QED BY <1>3, <3>2, <3>3 DEF FirstDial
  <2> QED BY <1>3, <2>1, <2>2 DEF FirstDial, TypeOK
<1> QED BY <1>1, <1>2, <1>3 DEF Start

\* A caller whose record is replaced by one of the right type.
LEMMA SetCall ==
  ASSUME caller \in [Callers -> Calls], NEW c \in Callers, NEW r \in Calls
  PROVE  [caller EXCEPT ![c] = r] \in [Callers -> Calls]
OBVIOUS

\* Every step of a caller keeps the types: no switch leaves ipcList, and no
\* list of subscribers is read beyond its end.
LEMMA CallerTypes ==
  ASSUME TypeOK, StillTold, NEW c \in Callers, ChangeIPC(c) \/ IndexReturns(c)
  PROVE  TypeOK'
<1> DEFINE w == caller[c]
<1>1. w \in Calls /\ caller \in [Callers -> Calls] /\ epoch \in Nat /\ counter \in Nat
  BY DEF TypeOK
<1>2. w.toTell # <<>> => Tail(w.toTell) \in Seq(Names)
  BY <1>1 DEF Calls
<1>3. CASE Add(c)
  <2>1. [w EXCEPT !.pc = "load", !.added = epoch] \in Calls
    BY <1>1 DEF Calls, Pcs
  <2>2. caller' = [caller EXCEPT ![c] = [w EXCEPT !.pc = "load", !.added = epoch]]
    BY <1>1, <1>3 DEF Add, Calls
  <2>3. caller' \in [Callers -> Calls]
    BY <1>1, <2>1, <2>2, SetCall
  <2> QED BY <1>3, <2>3 DEF Add, TypeOK
<1>4. CASE Load(c)
  <2>1. /\ [w EXCEPT !.pc = "done"] \in Calls
        /\ [w EXCEPT !.pc = "next", !.won = epoch] \in Calls
    BY <1>1 DEF Calls, Pcs
  <2>2. \/ caller' = [caller EXCEPT ![c] = [w EXCEPT !.pc = "done"]]
        \/ caller' = [caller EXCEPT ![c] = [w EXCEPT !.pc = "next", !.won = epoch]]
    BY <1>1, <1>4 DEF Load, Calls
  <2>3. caller' \in [Callers -> Calls]
    BY <1>1, <2>1, <2>2, SetCall
  <2> QED BY <1>4, <2>3 DEF Load, TypeOK
<1>5. CASE SwitchNext(c)
  <2>1. NextPlace(curIPC) \in Places
    BY NumIPCAssumption DEF NextPlace, Places, TypeOK
  <2>2. [w EXCEPT !.pc = "tell", !.toTell = subscribers] \in Calls
    BY <1>1 DEF Calls, Pcs, TypeOK
  <2>3. caller' = [caller EXCEPT ![c] = [w EXCEPT !.pc = "tell", !.toTell = subscribers]]
    BY <1>1, <1>5 DEF SwitchNext, Calls
  <2>4. caller' \in [Callers -> Calls]
    BY <1>1, <2>2, <2>3, SetCall
  <2> QED BY <1>5, <2>1, <2>4 DEF SwitchNext, TypeOK
<1>6. CASE TellNobody(c)
  <2>1. caller' \in [Callers -> Calls]
    BY <1>1, <1>6 DEF TellNobody, Calls, Pcs
  <2> QED BY <1>6, <2>1 DEF TellNobody, TypeOK
<1>7. CASE TellServer(c)
  <2>1. caller' \in [Callers -> Calls]
    BY <1>1, <1>2, <1>7 DEF TellServer, Tells, Calls
  <2>2. server' \in [subscribed : Places \cup {NoIPC}, serving : Places \cup {NoIPC}]
    BY <1>7 DEF TellServer, TypeOK
  <2> QED BY <1>7, <2>1, <2>2 DEF TellServer, TypeOK
<1>8. CASE TellIndexer(c)
  <2>1. caller' \in [Callers -> Calls]
    BY <1>1, <1>8 DEF TellIndexer, Calls, Pcs
  <2> QED BY <1>8, <2>1 DEF TellIndexer, TypeOK
<1>9. CASE EnableSwitchIPC(c)
  <2>0. epoch + 1 \in Nat
    BY <1>1
  <2>1. [w EXCEPT !.pc = "dial", !.began = epoch + 1] \in Calls
    BY <1>1, <2>0 DEF Calls, Pcs
  <2>2. caller' = [caller EXCEPT ![c] = [w EXCEPT !.pc = "dial", !.began = epoch + 1]]
    BY <1>1, <1>9 DEF EnableSwitchIPC, Calls
  <2>3. caller' \in [Callers -> Calls]
    BY <1>1, <2>1, <2>2, SetCall
  <2>4. counter' \in Nat /\ epoch' \in Nat \ {0}
    BY <1>1, <1>9 DEF EnableSwitchIPC
  <2> QED BY <1>9, <2>3, <2>4 DEF EnableSwitchIPC, TypeOK
<1>10. CASE Dial(c)
  <2>1. caller' \in [Callers -> Calls]
    BY <1>1, <1>10 DEF Dial, Calls, Pcs
  <2> QED BY <1>10, <2>1 DEF Dial, TypeOK
<1>11. CASE IndexReturns(c)
  <2>1. [w EXCEPT !.pc = "tell", !.toTell = Tail(w.toTell)] \in Calls
    BY <1>1, <1>2, <1>11 DEF Calls, Pcs, IndexReturns, At, StillTold
  <2>2. caller' = [caller EXCEPT ![c] = [w EXCEPT !.pc = "tell", !.toTell = Tail(w.toTell)]]
    BY <1>1, <1>11 DEF IndexReturns, Calls
  <2>3. caller' \in [Callers -> Calls]
    BY <1>1, <2>1, <2>2, SetCall
  <2> QED BY <1>11, <2>3 DEF IndexReturns, TypeOK
<1>12. CASE DialFails(c)
  <2>1. [w EXCEPT !.pc = "tell", !.toTell = Tail(w.toTell)] \in Calls
    BY <1>1, <1>2, <1>12 DEF Calls, Pcs, DialFails, At, StillTold
  <2>2. caller' = [caller EXCEPT ![c] = [w EXCEPT !.pc = "tell", !.toTell = Tail(w.toTell)]]
    BY <1>1, <1>12 DEF DialFails, Calls
  <2>3. caller' \in [Callers -> Calls]
    BY <1>1, <2>1, <2>2, SetCall
  <2> QED BY <1>12, <2>3 DEF DialFails, TypeOK
<1> QED BY <1>3, <1>4, <1>5, <1>6, <1>7, <1>8, <1>9, <1>10, <1>11, <1>12 DEF ChangeIPC

\* No step but those of Add, Load and EnableSwitchIPC touches the fields the
\* invariant is about, and a caller that is past "load" does not go back.
LEMMA FramePreserves ==
  ASSUME IInv,
         UNCHANGED <<counter, epoch>>,
         \A c \in Callers :
           /\ caller'[c].added = caller[c].added /\ caller'[c].won = caller[c].won
           /\ caller'[c].pc \in {"start", "load"} => caller[c].pc \in {"start", "load"}
  PROVE  (CallsOrdered /\ CounterCounts /\ OneSwitchPerEpoch)'
BY DEF IInv, CallsOrdered, CounterCounts, OneSwitchPerEpoch

\* A caller that counts itself makes the counter positive, and leaves it above
\* 1 if another caller of this epoch came first.
LEMMA AddPreserves ==
  ASSUME IInv, NEW c \in Callers, Add(c)
  PROVE  (CallsOrdered /\ CounterCounts /\ OneSwitchPerEpoch)'
<1>1. /\ counter' = counter + 1 /\ epoch' = epoch /\ counter \in Nat /\ epoch \in Nat
      /\ caller[c].won = 0 /\ caller \in [Callers -> Calls]
      /\ caller' = [caller EXCEPT ![c].pc = "load", ![c].added = epoch]
  BY DEF IInv, TypeOK, Add, At, CallsOrdered
<1>2. /\ caller'[c].pc = "load" /\ caller'[c].added = epoch /\ caller'[c].won = 0
      /\ \A d \in Callers \ {c} : caller'[d] = caller[d]
  BY <1>1 DEF Calls
<1>3. CallsOrdered'
  <2>1. \A d \in Callers \ {c} : caller[d].added <= epoch
                               /\ (caller[d].pc \in {"start", "load"} => caller[d].won = 0)
    BY DEF IInv, CallsOrdered
  <2> QED BY <1>1, <1>2, <2>1 DEF CallsOrdered
<1>4. CounterCounts'
  <2>1. counter' >= 1
    BY <1>1
  <2>2. \A d \in Callers \ {c} : caller[d].added = epoch => counter' >= 2
    BY <1>1 DEF IInv, CounterCounts
  <2>3. \A d, e \in Callers \ {c} :
          d # e /\ caller[d].added = epoch /\ caller[e].added = epoch => counter' >= 2
    BY <1>1 DEF IInv, CounterCounts
  <2> QED BY <1>1, <1>2, <2>1, <2>2, <2>3 DEF CounterCounts
<1>5. OneSwitchPerEpoch'
  BY <1>2 DEF IInv, OneSwitchPerEpoch
<1> QED BY <1>3, <1>4, <1>5

\* A caller of this epoch that reads a counter of 1 is alone in it: by
\* CounterCounts nobody else counted itself, so nobody else can have won.
LEMMA LoadPreserves ==
  ASSUME IInv, NEW c \in Callers, Load(c)
  PROVE  (CallsOrdered /\ CounterCounts /\ OneSwitchPerEpoch)'
<1> USE DEF IInv
<1>1. CASE counter > 1 /\ caller' = [caller EXCEPT ![c].pc = "done"]
  <2>1. /\ caller'[c].added = caller[c].added /\ caller'[c].won = caller[c].won
        /\ caller'[c].pc = "done"
        /\ \A d \in Callers \ {c} : caller'[d] = caller[d]
    BY <1>1 DEF TypeOK
  <2>2. UNCHANGED <<counter, epoch>>
    BY DEF Load
  <2> QED BY <2>1, <2>2 DEF CallsOrdered, CounterCounts, OneSwitchPerEpoch
<1>2. CASE counter <= 1 /\ caller' = [caller EXCEPT ![c].pc = "next", ![c].won = epoch]
  <2>1. /\ caller'[c].added = caller[c].added /\ caller'[c].won = epoch
        /\ caller'[c].pc = "next"
        /\ \A d \in Callers \ {c} : caller'[d] = caller[d]
    BY <1>2 DEF TypeOK
  <2>2. UNCHANGED <<counter, epoch>> /\ counter \in Nat
    BY DEF Load, TypeOK
  <2>3. CallsOrdered' /\ CounterCounts'
    BY <2>1, <2>2 DEF CallsOrdered, CounterCounts
  <2>4. \A d \in Callers \ {c} :
          ~(caller[c].added = epoch /\ caller[d].added = epoch)
    BY <1>2, <2>2 DEF CounterCounts
  <2>5. OneSwitchPerEpoch'
    BY <2>1, <2>4 DEF OneSwitchPerEpoch
  <2> QED BY <2>3, <2>5
<1> QED BY <1>1, <1>2 DEF Load

\* A new epoch has no caller yet, and the old ones keep their winners.
LEMMA EnablePreserves ==
  ASSUME IInv, NEW c \in Callers, EnableSwitchIPC(c)
  PROVE  (CallsOrdered /\ CounterCounts /\ OneSwitchPerEpoch)'
<1>1. /\ counter' = 0 /\ epoch' = epoch + 1 /\ epoch \in Nat
      /\ caller' = [caller EXCEPT ![c].pc = "dial", ![c].began = epoch + 1]
  BY DEF IInv, TypeOK, EnableSwitchIPC
<1>2. \A d \in Callers :
        /\ caller'[d].added = caller[d].added /\ caller'[d].won = caller[d].won
        /\ caller'[d].pc \in {"start", "load"} => caller[d].pc \in {"start", "load"}
        /\ caller[d].added \in Nat
  BY <1>1 DEF IInv, TypeOK, Calls
<1>3. ASSUME NEW d \in Callers
      PROVE  caller'[d].added <= epoch' /\ caller'[d].added # epoch'
  <2> DEFINE n == caller[d].added
  <2>1. n <= epoch /\ n \in Nat /\ epoch \in Nat
    BY <1>1, <1>2 DEF IInv, CallsOrdered
  <2>2. n <= epoch + 1 /\ n # epoch + 1
    <3> HIDE DEF n
    <3> QED BY <2>1
  <2> QED BY <1>1, <1>2, <2>2
<1>4. CallsOrdered'
  <2>1. \A d \in Callers : caller[d].pc \in {"start", "load"} => caller[d].won = 0
    BY DEF IInv, CallsOrdered
  <2> QED BY <1>2, <1>3, <2>1 DEF CallsOrdered
<1>5. CounterCounts'
  BY <1>3 DEF CounterCounts
<1>6. OneSwitchPerEpoch'
  BY <1>2 DEF IInv, OneSwitchPerEpoch
<1> QED BY <1>4, <1>5, <1>6

\* A caller that is told to go on keeps its list until the subscriber returned.
LEMMA StillToldPreserved ==
  ASSUME IInv, [Next]_vars
  PROVE  StillTold'
<1> USE DEF IInv, StillTold, TypeOK, Calls, At
<1>1. ASSUME NEW s \in Names, Start(s)
      PROVE  StillTold'
  BY <1>1 DEF Start, SubscribeRead, SubscribeWrite, FirstDial
<1>2. ASSUME NEW c \in Callers, ChangeIPC(c) \/ IndexReturns(c)
      PROVE  StillTold'
  <2>1. CASE Add(c)
    BY <2>1 DEF Add
  <2>2. CASE Load(c)
    <3>1. /\ caller'[c].pc \in {"done", "next"}
          /\ \A d \in Callers \ {c} : caller'[d] = caller[d]
      BY <2>2 DEF Load
    <3> QED BY <3>1
  <2>3. CASE SwitchNext(c)
    <3>1. caller'[c].pc = "tell" /\ \A d \in Callers \ {c} : caller'[d] = caller[d]
      BY <2>3 DEF SwitchNext
    <3> QED BY <3>1
  <2>4. CASE TellNobody(c)
    BY <2>4 DEF TellNobody
  <2>5. CASE TellServer(c)
    BY <2>5 DEF TellServer, Tells
  <2>6. CASE TellIndexer(c)
    BY <2>6 DEF TellIndexer, Tells
  <2>7. CASE EnableSwitchIPC(c)
    BY <2>7 DEF EnableSwitchIPC
  <2>8. CASE Dial(c)
    BY <2>8 DEF Dial
  <2>9. CASE IndexReturns(c)
    BY <2>9 DEF IndexReturns
  <2>10. CASE DialFails(c)
    BY <2>10 DEF DialFails
  <2> QED BY <1>2, <2>1, <2>2, <2>3, <2>4, <2>5, <2>6, <2>7, <2>8, <2>9, <2>10 DEF ChangeIPC
<1>3. CASE UNCHANGED vars
  BY <1>3 DEF vars
<1> QED BY <1>1, <1>2, <1>3 DEF Next

\* The inductive invariant holds at the start.
LEMMA InitIInv == Init => IInv
<1> SUFFICES ASSUME Init
             PROVE  IInv
  OBVIOUS
<1>1. TypeOK
  <2>1. NewCall \in Calls /\ <<>> \in Seq(Names)
    BY DEF NewCall, Calls, Pcs
  <2>2. 0 \in Places
    BY NumIPCAssumption DEF Places
  <2>3. starting \in [Names -> [pc : {"read", "write", "dial", "done"}, read : Seq(Names)]]
    BY <2>1 DEF Init
  <2>4. server \in [subscribed : Places \cup {NoIPC}, serving : Places \cup {NoIPC}]
    BY DEF Init
  <2>5. caller \in [Callers -> Calls]
    BY <2>1 DEF Init
  <2>6. /\ curIPC \in Places /\ indexIPC \in Places \cup {NoIPC}
        /\ counter \in Nat /\ epoch \in Nat \ {0}
        /\ subscribers \in Seq(Names)
    BY <2>1, <2>2 DEF Init
  <2>7. stopped \in BOOLEAN /\ panicked \in BOOLEAN
    BY DEF Init
  <2> QED BY <2>3, <2>4, <2>5, <2>6, <2>7 DEF TypeOK
<1>2. StillTold /\ CallsOrdered /\ CounterCounts /\ OneSwitchPerEpoch
  BY DEF Init, NewCall, StillTold, CallsOrdered, CounterCounts, OneSwitchPerEpoch
<1> QED BY <1>1, <1>2 DEF IInv

\* Every step keeps it.
LEMMA NextIInv == IInv /\ [Next]_vars => IInv'
<1> SUFFICES ASSUME IInv, [Next]_vars
             PROVE  IInv'
  OBVIOUS
<1>1. TypeOK'
  <2>1. CASE UNCHANGED vars
    BY <2>1 DEF IInv, TypeOK, vars
  <2> QED BY <2>1, StartTypes, CallerTypes DEF IInv, Next
<1>2. StillTold'
  BY StillToldPreserved
<1>3. (CallsOrdered /\ CounterCounts /\ OneSwitchPerEpoch)'
  <2>1. ASSUME NEW s \in Names, Start(s)
        PROVE  UNCHANGED <<counter, epoch, caller>>
    BY <2>1 DEF Start, SubscribeRead, SubscribeWrite, FirstDial
  <2>2. ASSUME UNCHANGED <<counter, epoch, caller>>
        PROVE  (CallsOrdered /\ CounterCounts /\ OneSwitchPerEpoch)'
    BY <2>2, FramePreserves
  <2>3. ASSUME NEW c \in Callers,
               SwitchNext(c) \/ TellNobody(c) \/ TellServer(c) \/ TellIndexer(c)
                 \/ Dial(c) \/ DialFails(c) \/ IndexReturns(c)
        PROVE  (CallsOrdered /\ CounterCounts /\ OneSwitchPerEpoch)'
    <3>1. UNCHANGED <<counter, epoch>>
      BY <2>3 DEF SwitchNext, TellNobody, TellServer, TellIndexer, Dial,
                    DialFails, IndexReturns
    <3> DEFINE Kept(d) ==
          /\ caller'[d].added = caller[d].added /\ caller'[d].won = caller[d].won
          /\ caller'[d].pc \in {"start", "load"} => caller[d].pc \in {"start", "load"}
    <3>2. \A d \in Callers : Kept(d)
      <4> USE DEF IInv, TypeOK, Calls
      <4>1. CASE SwitchNext(c)
        BY <4>1 DEF SwitchNext
      <4>2. CASE TellNobody(c)
        BY <4>2 DEF TellNobody
      <4>3. CASE TellServer(c)
        BY <4>3 DEF TellServer
      <4>4. CASE TellIndexer(c)
        BY <4>4 DEF TellIndexer
      <4>5. CASE Dial(c)
        BY <4>5 DEF Dial
      <4>6. CASE IndexReturns(c)
        BY <4>6 DEF IndexReturns
      <4>7. CASE DialFails(c)
        BY <4>7 DEF DialFails
      <4> QED BY <2>3, <4>1, <4>2, <4>3, <4>4, <4>5, <4>6, <4>7
    <3> QED BY <3>1, <3>2, FramePreserves
  <2>4. CASE UNCHANGED vars
    BY <2>2, <2>4 DEF vars
  <2> QED BY <2>1, <2>2, <2>3, <2>4, AddPreserves, LoadPreserves, EnablePreserves
          DEF Next, ChangeIPC
<1> QED BY <1>1, <1>2, <1>3 DEF IInv

-----------------------------------------------------------------------------
\* The inductive invariant holds in every reachable state.
THEOREM Invariance == Spec => []IInv
<1>1. Init => IInv
  BY InitIInv
<1>2. IInv /\ [Next]_vars => IInv'
  BY NextIInv
<1> QED BY <1>1, <1>2, PTL DEF Spec

\* However many goroutines report failures at once, the counter lets at most
\* one of those that counted themselves since EnableSwitchIPC switch the node
\* before EnableSwitchIPC is called again (ChangeIPC).
THEOREM SwitchedOncePerEpoch == Spec => []OneSwitchPerEpoch
<1>1. IInv => OneSwitchPerEpoch
  BY DEF IInv
<1> QED BY <1>1, Invariance, PTL

\* No order of the calls takes curIPC out of ipcList or reads a list of
\* subscribers past its end (NextIPC, ChangeIPC).
THEOREM TypeCorrect == Spec => []TypeOK
<1>1. IInv => TypeOK
  BY DEF IInv
<1> QED BY <1>1, Invariance, PTL

-----------------------------------------------------------------------------
(* index() and the current node.                                           *)

Listed(seq) == \E i \in 1 .. Len(seq) : seq[i] = "Indexer"

\* The caller has still to make index() dial.
MakesIndexDial(c) ==
  \/ caller[c].pc \in {"next", "enable", "dial"}
  \/ caller[c].pc = "tell" /\ Listed(caller[c].toTell)

\* An index() that will hear of switches is on the current node, if it could dial
\* it, or is about to be told.
IndexFollows ==
  starting["Indexer"].pc = "done" /\ Listed(subscribers) =>
    indexIPC \in {curIPC, NoIPC} \/ \E c \in Callers : MakesIndexDial(c)

\* The slice that NewServer is about to write has the Indexer only if the
\* present one has.
NoneBroughtBack ==
  starting["Server"].pc = "write" /\ Listed(starting["Server"].read) => Listed(subscribers)

JInv == IndexFollows /\ NoneBroughtBack

LEMMA ListedAppend ==
  ASSUME NEW seq \in Seq(Names), NEW s \in Names
  PROVE  /\ s = "Indexer" => Listed(Append(seq, s))
         /\ s # "Indexer" => (Listed(Append(seq, s)) => Listed(seq))
<1>1. /\ Len(Append(seq, s)) = Len(seq) + 1 /\ Append(seq, s)[Len(seq) + 1] = s
      /\ \A i \in 1 .. Len(seq) : Append(seq, s)[i] = seq[i]
      /\ Len(seq) \in Nat
  OBVIOUS
<1>2. Len(seq) + 1 \in 1 .. Len(Append(seq, s))
  BY <1>1
<1>3. ASSUME s # "Indexer", Listed(Append(seq, s)) PROVE Listed(seq)
  <2>1. PICK i \in 1 .. Len(Append(seq, s)) : Append(seq, s)[i] = "Indexer"
    BY <1>3 DEF Listed
  <2>2. i # Len(seq) + 1
    BY <1>1, <1>3, <2>1
  <2>3. i \in 1 .. Len(seq)
    BY <1>1, <2>1, <2>2
  <2> QED BY <1>1, <2>1, <2>3 DEF Listed
<1> QED BY <1>1, <1>2, <1>3 DEF Listed

\* Telling the Server leaves the Indexer in the list.
LEMMA ListedTail ==
  ASSUME NEW seq \in Seq(Names), seq # <<>>, Head(seq) # "Indexer", Listed(seq)
  PROVE  Listed(Tail(seq))
<1>1. PICK i \in 1 .. Len(seq) : seq[i] = "Indexer"
  BY DEF Listed
<1>2. i # 1
  BY <1>1
<1>3. /\ Len(seq) \in Nat /\ Len(Tail(seq)) = Len(seq) - 1
      /\ \A j \in 1 .. Len(seq) - 1 : Tail(seq)[j] = seq[j + 1]
  OBVIOUS
<1>4. i - 1 \in 1 .. Len(Tail(seq)) /\ Tail(seq)[i - 1] = seq[i]
  BY <1>1, <1>2, <1>3
<1> QED BY <1>1, <1>4 DEF Listed

\* The start of the Indexer and of the Server.
LEMMA StartFollows ==
  ASSUME IInv, JInv, NEW s \in Names, Start(s)
  PROVE  JInv'
<1>1. /\ UNCHANGED <<curIPC, caller>>
      /\ subscribers \in Seq(Names)
      /\ starting \in [Names -> [pc : {"read", "write", "dial", "done"}, read : Seq(Names)]]
      /\ "Indexer" \in Names /\ "Server" \in Names
  BY DEF IInv, TypeOK, Names, Start, SubscribeRead, SubscribeWrite, FirstDial
<1>2. (\E c \in Callers : MakesIndexDial(c)) <=> (\E c \in Callers : MakesIndexDial(c)')
  BY <1>1 DEF MakesIndexDial
<1>3. CASE SubscribeRead(s)
  <2>1. /\ UNCHANGED <<indexIPC, subscribers>>
        /\ starting' = [starting EXCEPT ![s] = [pc |-> "write", read |-> subscribers]]
    BY <1>3 DEF SubscribeRead
  <2>2. starting'["Indexer"].pc = "done" => starting["Indexer"].pc = "done"
    BY <1>1, <2>1
  <2>3. starting'["Server"].pc = "write" =>
          starting'["Server"] = starting["Server"] \/ starting'["Server"].read = subscribers
    BY <1>1, <2>1
  <2>4. IndexFollows'
    BY <1>1, <1>2, <2>1, <2>2 DEF JInv, IndexFollows
  <2>5. NoneBroughtBack'
    BY <2>1, <2>3 DEF JInv, NoneBroughtBack
  <2> QED BY <2>4, <2>5 DEF JInv
<1>4. CASE SubscribeWrite(s)
  <2>1. /\ UNCHANGED indexIPC
        /\ subscribers' = Append(starting[s].read, s)
        /\ starting' = [starting EXCEPT ![s] = [pc |-> "dial", read |-> <<>>]]
        /\ starting[s].pc = "write" /\ starting[s].read \in Seq(Names)
    BY <1>1, <1>4 DEF SubscribeWrite
  <2>2. starting'["Indexer"].pc = "done" => starting["Indexer"].pc = "done" /\ s = "Server"
    BY <1>1, <2>1 DEF Names
  <2>3. s = "Server" /\ Listed(subscribers') => Listed(subscribers)
    BY <2>1, ListedAppend DEF JInv, NoneBroughtBack
  <2>4. starting'["Server"].pc = "write" => s = "Indexer"
    BY <1>1, <2>1 DEF Names
  <2>5. s = "Indexer" => Listed(subscribers')
    BY <2>1, ListedAppend
  <2>6. IndexFollows'
    BY <1>1, <1>2, <2>1, <2>2, <2>3 DEF JInv, IndexFollows
  <2>7. NoneBroughtBack'
    BY <2>4, <2>5 DEF NoneBroughtBack
  <2> QED BY <2>6, <2>7 DEF JInv
<1>5. CASE FirstDial(s)
  <2>1. /\ UNCHANGED subscribers
        /\ starting' = [starting EXCEPT ![s].pc = "done"]
        /\ indexIPC' \in {curIPC, NoIPC} \/ (indexIPC' = indexIPC /\ s = "Server")
    BY <1>5 DEF FirstDial
  <2>2. s = "Server" => starting'["Indexer"] = starting["Indexer"]
    BY <1>1, <2>1
  <2>3. starting'["Server"].pc = "write" => starting'["Server"] = starting["Server"]
    BY <1>1, <2>1
  <2>4. IndexFollows'
    BY <1>1, <1>2, <2>1, <2>2 DEF JInv, IndexFollows
  <2>5. NoneBroughtBack'
    BY <2>1, <2>3 DEF JInv, NoneBroughtBack
  <2> QED BY <2>4, <2>5 DEF JInv
<1> QED BY <1>3, <1>4, <1>5 DEF Start

\* ChangeIPC: whoever moves curIPC has the Indexer to tell, and goes on to make
\* it dial.
LEMMA CallerFollows ==
  ASSUME IInv, JInv, NEW c \in Callers, ChangeIPC(c) \/ IndexReturns(c)
  PROVE  JInv'
<1>1. /\ UNCHANGED <<subscribers, starting>>
      /\ caller \in [Callers -> Calls]
      /\ caller[c] \in Calls
  BY DEF IInv, TypeOK, ChangeIPC, Add, Load, SwitchNext, TellNobody, TellServer, TellIndexer,
         EnableSwitchIPC, Dial, DialFails, IndexReturns
<1>2. NoneBroughtBack'
  BY <1>1 DEF JInv, NoneBroughtBack
<1>3. \A d \in Callers \ {c} : caller'[d] = caller[d]
  BY <1>1 DEF ChangeIPC, Add, Load, SwitchNext, TellNobody, TellServer, TellIndexer,
              EnableSwitchIPC, Dial, DialFails, IndexReturns
<1>4. SUFFICES ASSUME Listed(subscribers)
               PROVE  indexIPC' \in {curIPC', NoIPC} \/ MakesIndexDial(c)'
                      \/ (UNCHANGED <<indexIPC, curIPC>> /\ ~MakesIndexDial(c))
  <2>1. \A d \in Callers \ {c} : MakesIndexDial(d) => MakesIndexDial(d)'
    BY <1>3 DEF MakesIndexDial
  <2>2. IndexFollows'
    BY <1>1, <1>4, <2>1 DEF JInv, IndexFollows
  <2> QED BY <1>2, <2>2 DEF JInv
<1>5. CASE Add(c) \/ Load(c)
  BY <1>1, <1>5 DEF Add, Load, At, MakesIndexDial, Calls
<1>6. CASE SwitchNext(c)
  <2>1. caller'[c].pc = "tell" /\ caller'[c].toTell = subscribers
    BY <1>1, <1>6 DEF SwitchNext, Calls
  <2> QED BY <1>4, <2>1 DEF MakesIndexDial
<1>7. CASE TellNobody(c)
  <2>1. caller[c].pc = "tell" /\ ~Listed(caller[c].toTell) /\ UNCHANGED <<indexIPC, curIPC>>
    BY <1>7 DEF TellNobody, At, Listed
  <2> QED BY <2>1 DEF MakesIndexDial
<1>8. CASE TellServer(c)
  <2>1. /\ caller[c].pc = "tell" /\ UNCHANGED <<indexIPC, curIPC>>
        /\ caller[c].toTell # <<>> /\ Head(caller[c].toTell) # "Indexer"
        /\ caller[c].toTell \in Seq(Names)
    BY <1>1, <1>8 DEF TellServer, Tells, At, Calls
  <2>2. caller'[c].pc = "tell" /\ caller'[c].toTell = Tail(caller[c].toTell)
    BY <1>1, <1>8 DEF TellServer, Tells, At, Calls
  <2> QED BY <2>1, <2>2, ListedTail DEF MakesIndexDial
<1>9. CASE TellIndexer(c) \/ EnableSwitchIPC(c)
  <2>1. caller'[c].pc \in {"enable", "dial"}
    BY <1>1, <1>9 DEF TellIndexer, EnableSwitchIPC, Calls
  <2> QED BY <2>1 DEF MakesIndexDial
<1>10. CASE Dial(c)
  BY <1>10 DEF Dial
<1>11. CASE IndexReturns(c)
  BY <1>11 DEF IndexReturns, At, MakesIndexDial
<1>12. CASE DialFails(c)
  BY <1>12 DEF DialFails
<1> QED BY <1>5, <1>6, <1>7, <1>8, <1>9, <1>10, <1>11, <1>12 DEF ChangeIPC

THEOREM FollowInvariance == Spec => [](IInv /\ JInv)
<1>1. Init => JInv
  BY DEF Init, JInv, IndexFollows, NoneBroughtBack, Names
<1>2. IInv /\ JInv /\ [Next]_vars => JInv'
  <2>1. ASSUME IInv, JInv, UNCHANGED vars PROVE JInv'
    BY <2>1 DEF JInv, IndexFollows, NoneBroughtBack, MakesIndexDial, vars
  <2> QED BY <2>1, StartFollows, CallerFollows DEF Next
<1> QED BY <1>1, <1>2, InitIInv, NextIInv, PTL DEF Spec

\* However the callers, the starts of the Indexer and of the Server and the
\* calls of index() interleave: when no caller is switching, an index() that is
\* among the subscribers runs on the current node (ChangeIPC, IpcUpdated).
THEOREM IndexIsOnCurrentIPC == Spec => []IndexOnCurrentIPC
<1>1. JInv => IndexOnCurrentIPC
  <2> SUFFICES ASSUME JInv, Started, \A c \in Callers : ~Switching(c),
                      \E i \in 1 .. Len(subscribers) : subscribers[i] = "Indexer"
               PROVE  indexIPC \in {curIPC, NoIPC}
    BY DEF IndexOnCurrentIPC
  <2>1. starting["Indexer"].pc = "done" /\ Listed(subscribers)
    BY DEF Started, Names, Listed
  <2>2. \A c \in Callers : ~MakesIndexDial(c)
    BY DEF Switching, MakesIndexDial
  <2> QED BY <2>1, <2>2 DEF JInv, IndexFollows
<1> QED BY <1>1, FollowInvariance, PTL
=============================================================================

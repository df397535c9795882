-------------------------- MODULE LifecycleProofs --------------------------
(***************************************************************************)
(* Theorems about Lifecycle, for any number of calls of index() and of     *)
(* failures: its types, and that while no switch was won before the one    *)
(* before it was over, the goroutines of a call are done before those of   *)
(* the next one begin, and no channel is closed twice.                     *)
(***************************************************************************)
EXTENDS Lifecycle, TLAPS

Fetching(r) == call[r].fetch \notin {"none", "ended"}

\* How far a call is, whichever switches overlapped.
Begun ==
  \A r \in Runs :
    /\ r > run <=> call[r].index = "none"
    /\ call[r].index \in {"none", "latest", "asking"} \cup IpcUpdatedAt \cup NoFetcherAt
         => call[r].realtime = "none"
    /\ call[r].realtime \in {"none", "start"} <=> call[r].fetch = "none"
    /\ made[r].bdClosed => call[r].fetch = "ended"

Typed == TypeOK /\ Begun

\* The call whose goroutines are at work: while the last one is in IpcUpdated it
\* is the one before it.
Current == IF call[run].index \in IpcUpdatedAt THEN run - 1 ELSE run

\* Only the last call is not yet past the making of its fetcher.
InTurn == \A s \in Runs : s < run => call[s].index \in IndexingAt

\* Call s starts nothing any more, and the channel that its realtimeIndex waits
\* for will not be closed: it does not clear the field of another call.
Retired(s) ==
  /\ call[s].index \notin {"latest", "asking"}
  /\ call[s].realtime \in {"none", "wait", "ended"} /\ ~Fetching(s)
  /\ call[s].realtime = "wait" => call[s].ch = s /\ ~made[s].bdClosed

OthersRetired == \A s \in Runs : s < Current => Retired(s)

\* The goroutines at work use the fetcher and the channel of their own call, and
\* the field holds that fetcher, so that IpcUpdated finds it.
OwnFields ==
  \A m \in Runs : m = Current =>
    /\ call[m].index \in {"latest", "asking"} \/ call[m].realtime = "start" \/ Fetching(m)
         => shared.realtimeFetcher = m
    /\ call[m].index = "asking" => call[m].uses = m
    /\ Fetching(m) => /\ call[m].on = m
                      /\ call[m].fetch # "make" => made[m].header # "nil"
                      /\ call[m].realtime \in {"wait", "process"}
    /\ call[m].realtime \in {"wait", "process"} => shared.bdChan = m
    /\ call[m].realtime = "wait" => call[m].ch = m

\* Nothing but what the last call found or made is in the fields.
FieldsCurrent ==
  /\ shared.realtimeFetcher \in
       {Nil, IF call[run].index \in IpcUpdatedAt \cup NoFetcherAt THEN run - 1 ELSE run}
  /\ call[run].index \in {"check", "call", "nap", "stop"}
       => run > 1 /\ shared.stopChan = run - 1 /\ ~made[run - 1].stopClosed
  /\ call[run].index \in {"dial", "failed"} \cup IndexingAt => shared.stopChan = run
  /\ call[run].index = "nap" => call[run].uses = run - 1

\* The channels of the last call, and those it is about to close, are not
\* closed yet.
NotClosedYet ==
  /\ \A r \in Runs : r >= run => ~made[r].stopClosed /\ made[r].header # "closed"
  /\ call[run].index \in {"check", "call", "nap"} => made[run - 1].header # "closed"

\* After IpcUpdated of the fetcher, what the call before still has at work has
\* nothing to do but to end.
Ending ==
  call[run].index \in {"stop", "sleep"} =>
    \A m \in Runs : m = run - 1 =>
      /\ call[m].index # "latest" /\ call[m].realtime # "start" /\ call[m].fetch # "make"
      /\ call[m].index = "asking" => ~made[m].open
      /\ Fetching(m) => ~made[m].open /\ made[m].header = "closed"

OneAtATime ==
  ~overlap =>
    /\ InTurn /\ OthersRetired /\ OwnFields
    /\ FieldsCurrent /\ NotClosedYet /\ Ending
    /\ panicked \notin {"stopChannel", "headerChannel"}

\* The inductive invariant: its first part holds whichever switches overlap.
IInv == Typed /\ OneAtATime

-----------------------------------------------------------------------------
(* Records and the steps that change them.                                 *)

Pcs == {"none"} \cup IpcUpdatedAt \cup NoFetcherAt \cup IndexingAt

Managers == [counter : Nat, adding : Nat, loading : Nat, subscribed : BOOLEAN]
Fields(n) == [realtimeFetcher : 0 .. n, stopChan : 0 .. n, bdChan : 0 .. n,
              isWatching : BOOLEAN, recorded : BOOLEAN]
Things == [header : {"nil", "open", "closed"}, sub : {"nil", "live", "gone"},
           open : BOOLEAN, stopClosed : BOOLEAN, bdClosed : BOOLEAN]
Calls(n) == [index    : Pcs,
             uses     : 0 .. n,
             realtime : {"none", "start", "wait", "process", "ended"},
             ch       : 0 .. n,
             fetch    : {"none", "make", "subscribe", "listen", "fetch", "send", "ended"},
             on       : 0 .. n,
             ticker   : BOOLEAN]

CallsTyped == run \in Runs /\ call \in [Runs -> Calls(run)]
MadeTyped  == made \in [Runs -> Things]

\* What call r becomes, its ticker aside.
Becomes(r, index, uses, realtime, ch, fetch, on) ==
  \A s \in Runs :
    /\ call'[s].index    = IF s = r THEN index ELSE call[s].index
    /\ call'[s].uses     = IF s = r THEN uses ELSE call[s].uses
    /\ call'[s].realtime = IF s = r THEN realtime ELSE call[s].realtime
    /\ call'[s].ch       = IF s = r THEN ch ELSE call[s].ch
    /\ call'[s].fetch    = IF s = r THEN fetch ELSE call[s].fetch
    /\ call'[s].on       = IF s = r THEN on ELSE call[s].on

\* TypeOK, with names for its parts.
LEMMA TypeParts ==
  TypeOK <=> /\ ipc \in Managers /\ run \in Runs /\ overlap \in BOOLEAN
             /\ shared \in Fields(run) /\ MadeTyped /\ CallsTyped
             /\ faults \in 0 .. MaxFaults
             /\ panicked \in {"no", "nilFetcher", "stopChannel", "headerChannel", "send"}
BY Zenon DEF TypeOK, Managers, Fields, Things, Calls, CallsTyped, MadeTyped, Pcs

\* The same after a step.
LEMMA TypePartsAfter ==
  ASSUME ipc' \in Managers, run' \in Runs, overlap' \in BOOLEAN, shared' \in Fields(run'),
         made' \in [Runs -> Things], call' \in [Runs -> Calls(run')], faults' \in 0 .. MaxFaults,
         panicked' \in {"no", "nilFetcher", "stopChannel", "headerChannel", "send"}
  PROVE  TypeOK'
BY Zenon DEF TypeOK, Managers, Fields, Things, Calls, Pcs

\* A call is replaced by a record of the right type.
LEMMA Replace ==
  ASSUME CallsTyped, NEW r \in Runs, NEW c \in Calls(run), call' = [call EXCEPT ![r] = c]
  PROVE  /\ call' \in [Runs -> Calls(run)]
         /\ Becomes(r, c.index, c.uses, c.realtime, c.ch, c.fetch, c.on)
BY DEF CallsTyped, Becomes

\* The steps of index(), which may take or drop a fetcher.
LEMMA GotoBecomes ==
  ASSUME CallsTyped, NEW r \in Runs, NEW pc \in Pcs, Goto(r, pc)
  PROVE  /\ call' \in [Runs -> Calls(run)]
         /\ Becomes(r, pc, call[r].uses, call[r].realtime, call[r].ch, call[r].fetch, call[r].on)
<1> DEFINE c == [call[r] EXCEPT !.index = pc]
<1>1. call[r] \in Calls(run)
  BY DEF CallsTyped
<1>2. /\ c \in Calls(run) /\ c.index = pc
      /\ c.uses = call[r].uses /\ c.realtime = call[r].realtime /\ c.ch = call[r].ch
      /\ c.fetch = call[r].fetch /\ c.on = call[r].on
  BY <1>1 DEF Calls
<1>3. call' = [call EXCEPT ![r] = c]
  BY DEF Goto
<1> HIDE DEF c
<1> QED BY <1>2, <1>3, Replace

\* The steps of index() that take a fetcher, or are done with it.
LEMMA UsesBecomes ==
  ASSUME CallsTyped, NEW r \in Runs, NEW pc \in Pcs, NEW u \in 0 .. run,
         call' = [call EXCEPT ![r].index = pc, ![r].uses = u]
  PROVE  /\ call' \in [Runs -> Calls(run)]
         /\ Becomes(r, pc, u, call[r].realtime, call[r].ch, call[r].fetch, call[r].on)
<1> DEFINE c == [call[r] EXCEPT !.index = pc, !.uses = u]
<1>1. call[r] \in Calls(run)
  BY DEF CallsTyped
<1>2. /\ c \in Calls(run) /\ c.index = pc
      /\ c.uses = u /\ c.realtime = call[r].realtime /\ c.ch = call[r].ch
      /\ c.fetch = call[r].fetch /\ c.on = call[r].on
  BY <1>1 DEF Calls
<1>3. call' = [call EXCEPT ![r] = c]
  BY DEF CallsTyped
<1> HIDE DEF c
<1> QED BY <1>2, <1>3, Replace

\* index() starts its goroutines.
LEMMA StartsBecomes ==
  ASSUME CallsTyped, NEW r \in Runs,
         call' = [call EXCEPT ![r].index = "batches", ![r].uses = Nil, ![r].realtime = "start"]
  PROVE  /\ call' \in [Runs -> Calls(run)]
         /\ Becomes(r, "batches", Nil, "start", call[r].ch, call[r].fetch, call[r].on)
<1> DEFINE c == [call[r] EXCEPT !.index = "batches", !.uses = Nil, !.realtime = "start"]
<1>1. call[r] \in Calls(run) /\ "batches" \in Pcs /\ Nil \in 0 .. run
  BY DEF CallsTyped, Pcs, IndexingAt, Nil, Runs
<1>2. /\ c \in Calls(run) /\ c.index = "batches"
      /\ c.uses = Nil /\ c.realtime = "start" /\ c.ch = call[r].ch
      /\ c.fetch = call[r].fetch /\ c.on = call[r].on
  BY <1>1 DEF Calls
<1>3. call' = [call EXCEPT ![r] = c]
  BY DEF CallsTyped
<1> HIDE DEF c
<1>4. /\ call' \in [Runs -> Calls(run)]
      /\ Becomes(r, c.index, c.uses, c.realtime, c.ch, c.fetch, c.on)
  BY <1>2, <1>3, Replace
<1> QED BY <1>2, <1>4 DEF Becomes

\* The watcher of a call starts or stops its ticker.
LEMMA TickerBecomes ==
  ASSUME CallsTyped, NEW r \in Runs, NEW pc \in Pcs, NEW t \in BOOLEAN,
         \/ call' = [call EXCEPT ![r].index = pc, ![r].ticker = t]
         \/ pc = call[r].index /\ call' = [call EXCEPT ![r].ticker = t]
  PROVE  /\ call' \in [Runs -> Calls(run)]
         /\ Becomes(r, pc, call[r].uses, call[r].realtime, call[r].ch, call[r].fetch, call[r].on)
<1> DEFINE c == [call[r] EXCEPT !.index = pc, !.ticker = t]
           d == [call[r] EXCEPT !.ticker = t]
<1>1. call[r] \in Calls(run)
  BY DEF CallsTyped
<1>2. /\ c \in Calls(run) /\ c.index = pc
      /\ c.uses = call[r].uses /\ c.realtime = call[r].realtime /\ c.ch = call[r].ch
      /\ c.fetch = call[r].fetch /\ c.on = call[r].on
  BY <1>1 DEF Calls
<1>3. /\ d \in Calls(run) /\ d.index = call[r].index
      /\ d.uses = call[r].uses /\ d.realtime = call[r].realtime /\ d.ch = call[r].ch
      /\ d.fetch = call[r].fetch /\ d.on = call[r].on
  BY <1>1 DEF Calls
<1>4. CASE call' = [call EXCEPT ![r].index = pc, ![r].ticker = t]
  <2>1. call' = [call EXCEPT ![r] = c]
    BY <1>4 DEF CallsTyped
  <2> HIDE DEF c
  <2> QED BY <2>1, <1>2, Replace
<1>5. CASE pc = call[r].index /\ call' = [call EXCEPT ![r].ticker = t]
  <2>1. call' = [call EXCEPT ![r] = d]
    BY <1>5 DEF CallsTyped
  <2> HIDE DEF d
  <2> QED BY <2>1, <1>3, <1>5, Replace
<1> QED BY <1>4, <1>5

\* RealtimeFetch.
LEMMA FetchBecomes ==
  ASSUME CallsTyped, NEW r \in Runs,
         NEW pc \in {"subscribe", "listen", "fetch", "send", "ended"},
         NEW f \in 0 .. run,
         \/ pc = "ended" /\ f = Nil /\ FetchEnds(r)
         \/ f = call[r].on /\ FetchGoto(r, pc)
  PROVE  /\ call' \in [Runs -> Calls(run)]
         /\ Becomes(r, call[r].index, call[r].uses, call[r].realtime, call[r].ch, pc, f)
<1> DEFINE c == [call[r] EXCEPT !.fetch = "ended", !.on = Nil]
           d == [call[r] EXCEPT !.fetch = pc]
<1>1. call[r] \in Calls(run) /\ Nil \in 0 .. run
  BY DEF CallsTyped, Nil, Runs
<1>2. /\ c \in Calls(run) /\ c.index = call[r].index
      /\ c.uses = call[r].uses /\ c.realtime = call[r].realtime /\ c.ch = call[r].ch
      /\ c.fetch = "ended" /\ c.on = Nil
  BY <1>1 DEF Calls
<1>3. /\ d \in Calls(run) /\ d.index = call[r].index
      /\ d.uses = call[r].uses /\ d.realtime = call[r].realtime /\ d.ch = call[r].ch
      /\ d.fetch = pc /\ d.on = call[r].on
  BY <1>1 DEF Calls
<1>4. CASE pc = "ended" /\ f = Nil /\ FetchEnds(r)
  <2>1. call' = [call EXCEPT ![r] = c]
    BY <1>4 DEF CallsTyped, FetchEnds
  <2> HIDE DEF c
  <2> QED BY <2>1, <1>2, <1>4, Replace
<1>5. CASE f = call[r].on /\ FetchGoto(r, pc)
  <2>1. call' = [call EXCEPT ![r] = d]
    BY <1>5 DEF CallsTyped, FetchGoto
  <2> HIDE DEF d
  <2> QED BY <2>1, <1>3, <1>5, Replace
<1> QED BY <1>4, <1>5

\* realtimeIndex.
LEMMA RealtimeBecomes ==
  ASSUME CallsTyped, NEW r \in Runs, NEW pc \in {"wait", "process", "ended"},
         NEW x \in 0 .. run,
         call' = [call EXCEPT ![r].realtime = pc, ![r].ch = x]
  PROVE  /\ call' \in [Runs -> Calls(run)]
         /\ Becomes(r, call[r].index, call[r].uses, pc, x, call[r].fetch, call[r].on)
<1> DEFINE c == [call[r] EXCEPT !.realtime = pc, !.ch = x]
<1>1. call[r] \in Calls(run)
  BY DEF CallsTyped
<1>2. /\ c \in Calls(run) /\ c.index = call[r].index
      /\ c.uses = call[r].uses /\ c.realtime = pc /\ c.ch = x
      /\ c.fetch = call[r].fetch /\ c.on = call[r].on
  BY <1>1 DEF Calls
<1>3. call' = [call EXCEPT ![r] = c]
  BY DEF CallsTyped
<1> HIDE DEF c
<1> QED BY <1>2, <1>3, Replace

\* realtimeIndex starts RealtimeFetch.
LEMMA StartRealtimeBecomes ==
  ASSUME CallsTyped, NEW r \in Runs, r \in 0 .. run, NEW f \in 0 .. run,
         call' = [call EXCEPT ![r].fetch = "make", ![r].on = f,
                              ![r].realtime = "wait", ![r].ch = r]
  PROVE  /\ call' \in [Runs -> Calls(run)]
         /\ Becomes(r, call[r].index, call[r].uses, "wait", r, "make", f)
<1> DEFINE c == [call[r] EXCEPT !.fetch = "make", !.on = f, !.realtime = "wait", !.ch = r]
<1>1. call[r] \in Calls(run)
  BY DEF CallsTyped
<1>2. /\ c \in Calls(run) /\ c.index = call[r].index
      /\ c.uses = call[r].uses /\ c.realtime = "wait" /\ c.ch = r
      /\ c.fetch = "make" /\ c.on = f
  BY <1>1 DEF Calls
<1>3. call' = [call EXCEPT ![r] = c]
  BY DEF CallsTyped
<1> HIDE DEF c
<1>4. /\ call' \in [Runs -> Calls(run)]
      /\ Becomes(r, c.index, c.uses, c.realtime, c.ch, c.fetch, c.on)
  BY <1>2, <1>3, Replace
<1> QED BY <1>2, <1>4 DEF Becomes

\* A block is handed over, in most cases to realtimeIndex of the same call.
LEMMA SendBecomes ==
  ASSUME CallsTyped, NEW r \in Runs, NEW s \in Runs, Send(r, s)
  PROVE  /\ call' \in [Runs -> Calls(run)]
         /\ \A t \in Runs :
              /\ call'[t].index    = call[t].index
              /\ call'[t].uses     = call[t].uses
              /\ call'[t].realtime = IF t = s THEN "process" ELSE call[t].realtime
              /\ call'[t].ch       = call[t].ch
              /\ call'[t].fetch    = IF t = r THEN "listen" ELSE call[t].fetch
              /\ call'[t].on       = call[t].on
<1> DEFINE half == [call EXCEPT ![r].fetch = "listen"]
           c    == [call[r] EXCEPT !.fetch = "listen"]
           d    == [half[s] EXCEPT !.realtime = "process"]
<1>1. call[r] \in Calls(run) /\ call[s] \in Calls(run) /\ call \in [Runs -> Calls(run)]
  BY DEF CallsTyped
<1>2. /\ c \in Calls(run) /\ c.index = call[r].index
      /\ c.uses = call[r].uses /\ c.realtime = call[r].realtime /\ c.ch = call[r].ch
      /\ c.fetch = "listen" /\ c.on = call[r].on
  BY <1>1 DEF Calls
<1>3. half \in [Runs -> Calls(run)] /\ half[r] = c /\ \A t \in Runs \ {r} : half[t] = call[t]
  BY <1>1, <1>2
<1>4. call' = [half EXCEPT ![s].realtime = "process"]
  BY DEF Send
<1> HIDE DEF half, c
<1>5. half[s] \in Calls(run)
  BY <1>3
<1>6. /\ d \in Calls(run) /\ d.index = half[s].index
      /\ d.uses = half[s].uses /\ d.realtime = "process" /\ d.ch = half[s].ch
      /\ d.fetch = half[s].fetch /\ d.on = half[s].on
  BY <1>5 DEF Calls
<1>7. call' = [half EXCEPT ![s] = d]
  BY <1>3, <1>4
<1> HIDE DEF d
<1>8. call' \in [Runs -> Calls(run)] /\ call'[s] = d /\ \A t \in Runs \ {s} : call'[t] = half[t]
  BY <1>3, <1>6, <1>7
<1> QED BY <1>2, <1>3, <1>6, <1>8

\* What the things made by call f become.
Made(f, header, sub, open, stopClosed, bdClosed) ==
  \A t \in Runs :
    /\ made'[t].header     = IF t = f THEN header ELSE made[t].header
    /\ made'[t].sub        = IF t = f THEN sub ELSE made[t].sub
    /\ made'[t].open       = IF t = f THEN open ELSE made[t].open
    /\ made'[t].stopClosed = IF t = f THEN stopClosed ELSE made[t].stopClosed
    /\ made'[t].bdClosed   = IF t = f THEN bdClosed ELSE made[t].bdClosed

\* A subscription is made, ended or lost.
LEMMA SubMade ==
  ASSUME MadeTyped, NEW f, NEW x \in {"nil", "live", "gone"},
         made' = [made EXCEPT ![f].sub = x]
  PROVE  /\ made' \in [Runs -> Things]
         /\ Made(f, made[f].header, x, made[f].open, made[f].stopClosed, made[f].bdClosed)
<1> DEFINE c == [made[f] EXCEPT !.sub = x]
<1>1. f \in Runs => /\ c \in Things /\ c.header = made[f].header /\ c.sub = x
                    /\ c.open = made[f].open /\ c.stopClosed = made[f].stopClosed
                    /\ c.bdClosed = made[f].bdClosed
  BY DEF MadeTyped, Things
<1>2. made' = [made EXCEPT ![f] = c]
  BY DEF MadeTyped
<1> HIDE DEF c
<1> QED BY <1>1, <1>2 DEF MadeTyped, Made

\* A new header channel.
LEMMA HeaderMade ==
  ASSUME MadeTyped, NEW f, made' = [made EXCEPT ![f].header = "open"]
  PROVE  /\ made' \in [Runs -> Things]
         /\ Made(f, "open", made[f].sub, made[f].open, made[f].stopClosed, made[f].bdClosed)
<1> DEFINE c == [made[f] EXCEPT !.header = "open"]
<1>1. f \in Runs => /\ c \in Things /\ c.header = "open" /\ c.sub = made[f].sub
                    /\ c.open = made[f].open /\ c.stopClosed = made[f].stopClosed
                    /\ c.bdClosed = made[f].bdClosed
  BY DEF MadeTyped, Things
<1>2. made' = [made EXCEPT ![f] = c]
  BY DEF MadeTyped
<1> HIDE DEF c
<1> QED BY <1>1, <1>2 DEF MadeTyped, Made

\* The block channel is closed.
LEMMA BlockChannelMade ==
  ASSUME MadeTyped, NEW f, made' = [made EXCEPT ![f].bdClosed = TRUE]
  PROVE  /\ made' \in [Runs -> Things]
         /\ Made(f, made[f].header, made[f].sub, made[f].open, made[f].stopClosed, TRUE)
<1> DEFINE c == [made[f] EXCEPT !.bdClosed = TRUE]
<1>1. f \in Runs => /\ c \in Things /\ c.header = made[f].header /\ c.sub = made[f].sub
                    /\ c.open = made[f].open /\ c.stopClosed = made[f].stopClosed
                    /\ c.bdClosed = TRUE
  BY DEF MadeTyped, Things
<1>2. made' = [made EXCEPT ![f] = c]
  BY DEF MadeTyped
<1> HIDE DEF c
<1> QED BY <1>1, <1>2 DEF MadeTyped, Made

\* Unsubscribe, 30s later: the header channel and the client are closed.
LEMMA EndedMade ==
  ASSUME MadeTyped, NEW f, NEW h, NEW x,
         f \in Runs => h \in {"nil", "open", "closed"} /\ x \in {"nil", "live", "gone"},
         made' = [made EXCEPT ![f].header = h, ![f].sub = x, ![f].open = FALSE]
  PROVE  /\ made' \in [Runs -> Things]
         /\ Made(f, h, x, FALSE, made[f].stopClosed, made[f].bdClosed)
<1> DEFINE c == [made[f] EXCEPT !.header = h, !.sub = x, !.open = FALSE]
<1>1. f \in Runs => /\ c \in Things /\ c.header = h /\ c.sub = x
                    /\ c.open = FALSE /\ c.stopClosed = made[f].stopClosed
                    /\ c.bdClosed = made[f].bdClosed
  BY DEF MadeTyped, Things
<1>2. made' = [made EXCEPT ![f] = c]
  BY DEF MadeTyped
<1> HIDE DEF c
<1> QED BY <1>1, <1>2 DEF MadeTyped, Made

\* The stop channel is closed.
LEMMA StopMade ==
  ASSUME MadeTyped, NEW f,
         made' = [t \in Runs |-> IF t = f THEN [made[t] EXCEPT !.stopClosed = TRUE] ELSE made[t]]
  PROVE  /\ made' \in [Runs -> Things]
         /\ Made(f, made[f].header, made[f].sub, made[f].open, TRUE, made[f].bdClosed)
<1> DEFINE c == [made[f] EXCEPT !.stopClosed = TRUE]
<1>1. f \in Runs => /\ c \in Things /\ c.header = made[f].header /\ c.sub = made[f].sub
                    /\ c.open = made[f].open /\ c.stopClosed = TRUE
                    /\ c.bdClosed = made[f].bdClosed
  BY DEF MadeTyped, Things
<1>2. made' = [made EXCEPT ![f] = c]
  BY DEF MadeTyped
<1> HIDE DEF c
<1> QED BY <1>1, <1>2 DEF MadeTyped, Made

\* What the types say of numbers of calls: only Nil is not the number of a call.
LEMMA Bounds ==
  ASSUME IInv
  PROVE  /\ CallsTyped /\ MadeTyped /\ ipc \in Managers /\ shared \in Fields(run)
         /\ overlap \in BOOLEAN /\ faults \in 0 .. MaxFaults
         /\ panicked \in {"no", "nilFetcher", "stopChannel", "headerChannel", "send"}
         /\ run \in Runs /\ run - 1 \in 0 .. run /\ Nil = 0 /\ Nil \in 0 .. run
         /\ run > 1 => run - 1 \in Runs /\ run - 1 # Nil
         /\ \A s \in Runs : s \in Int /\ s >= 1 /\ (s =< run => s \in 0 .. run)
         /\ \A f \in 0 .. run : f # Nil => f \in Runs
<1>1. TypeOK
  BY DEF IInv, Typed
<1>2. run \in Runs
  BY <1>1, TypeParts
<1> QED BY <1>1, <1>2, TypeParts, RunsAssumption DEF Runs, Nil

\* The invariant while no switches overlapped.
LEMMA Parts ==
  ASSUME IInv, ~overlap
  PROVE  /\ InTurn /\ OthersRetired /\ OwnFields /\ FieldsCurrent /\ NotClosedYet /\ Ending /\ Begun
         /\ panicked \notin {"stopChannel", "headerChannel"}
BY DEF IInv, Typed, OneAtATime

\* The call that is in IpcUpdated or makes its fetcher is the last one.
LEMMA LastCall ==
  ASSUME IInv, ~overlap, NEW r \in Runs, call[r].index \notin IndexingAt, call[r].index # "none"
  PROVE  r = run
BY Bounds, Parts DEF Begun, InTurn

\* A call that has something at work is the current one.
LEMMA AtWork ==
  ASSUME IInv, ~overlap, NEW r \in Runs,
         \/ call[r].index \in {"latest", "asking"}
         \/ call[r].realtime \in {"start", "process"} \/ Fetching(r)
         \/ call[r].realtime = "wait" /\ (call[r].ch # r \/ made[r].bdClosed)
  PROVE  r = Current
<1>1. Current \in {run - 1, run} /\ (Current = run - 1 <=> call[run].index \in IpcUpdatedAt)
  BY Bounds DEF Current
<1>2. ~(r < Current)
  BY Parts DEF OthersRetired, Retired
<1>3. call[r].index # "none" /\ (r = run => call[run].index \notin IpcUpdatedAt)
  BY Parts DEF Begun, Fetching, IpcUpdatedAt
<1>4. r =< run
  BY <1>3, Bounds, Parts DEF Begun
<1> QED BY <1>1, <1>2, <1>3, <1>4, Bounds

\* A panic, other than a second close while no switches overlap.
LEMMA PanicKeeps ==
  ASSUME IInv, NEW why \in {"nilFetcher", "stopChannel", "headerChannel", "send"}, Panic(why),
         why \in {"stopChannel", "headerChannel"} => overlap
  PROVE  IInv'
<1>1. TypeOK'
  BY Bounds, TypePartsAfter DEF Panic, manager, CallsTyped, MadeTyped
<1>2. Begun'
  BY DEF IInv, Typed, Begun, Panic, manager
<1>3. ASSUME ~overlap' PROVE OneAtATime'
  BY <1>3, Parts DEF OneAtATime, Panic, manager, InTurn, OthersRetired, Retired, Fetching, OwnFields,
     FieldsCurrent, NotClosedYet, Ending, Current
<1> QED BY <1>1, <1>2, <1>3 DEF IInv, Typed, OneAtATime

\* The steps that only start or end a caller of ChangeIPC.
LEMMA ManagerKeeps ==
  ASSUME IInv, ipc' \in Managers, faults' \in 0 .. MaxFaults,
         UNCHANGED <<run, overlap, shared, made, call, panicked>>
  PROVE  IInv'
<1>1. TypeOK'
  BY Bounds, TypePartsAfter DEF CallsTyped, MadeTyped
<1>2. Begun'
  BY DEF IInv, Typed, Begun
<1>3. ASSUME ~overlap' PROVE OneAtATime'
  BY <1>3, Parts DEF OneAtATime, InTurn, OthersRetired, Retired, Fetching, OwnFields,
     FieldsCurrent, NotClosedYet, Ending, Current
<1> QED BY <1>1, <1>2, <1>3 DEF IInv, Typed, OneAtATime

\* Without a fetcher in the field nothing of the call before is at work.
LEMMA CheckKeeps ==
  ASSUME IInv, NEW r \in Runs, Check(r)
  PROVE  IInv'
<1> DEFINE pc == IF shared.realtimeFetcher = Nil THEN "stop" ELSE "call"
<1>1. /\ call[r].index = "check" /\ Goto(r, pc)
      /\ pc \in Pcs /\ pc \in {"stop", "call"} /\ (pc = "stop" => shared.realtimeFetcher = Nil)
      /\ UNCHANGED <<ipc, run, overlap, shared, made, faults, panicked>>
  BY DEF Check, Pcs, IpcUpdatedAt, manager, world
<1>2. /\ call' \in [Runs -> Calls(run)]
      /\ Becomes(r, pc, call[r].uses, call[r].realtime, call[r].ch, call[r].fetch, call[r].on)
  BY <1>1, Bounds, GotoBecomes
<1> HIDE DEF pc
<1>3. made' = made /\ made' \in [Runs -> Things]
  BY <1>1, Bounds DEF MadeTyped
<1> USE DEF Becomes, Made
<1>4. Typed'
  <2>1. TypeOK'
    BY <1>1, <1>2, <1>3, Bounds, TypePartsAfter
  <2>2. Begun'
    BY <1>1, <1>2, <1>3, Bounds DEF IInv, Typed, Begun, IpcUpdatedAt, NoFetcherAt
  <2> QED BY <2>1, <2>2 DEF Typed
<1>5. ASSUME ~overlap' PROVE OneAtATime'
  <2>1. ~overlap
    BY <1>1, <1>5
  <2>2. r = run
    BY <1>1, <2>1, LastCall DEF IndexingAt
  <2>3. Current' = Current /\ Current \in {run - 1, run}
        /\ (Current = run - 1 <=> call[run].index \in IpcUpdatedAt)
    BY <1>1, <1>2, <2>2, Bounds DEF Current, IpcUpdatedAt
  <2>4. InTurn' /\ FieldsCurrent' /\ NotClosedYet'
    BY <1>1, <1>2, <1>3, <2>1, <2>2, <2>3, Parts, Bounds
       DEF InTurn, IndexingAt, FieldsCurrent, IpcUpdatedAt, NoFetcherAt, NotClosedYet
  <2>5. OthersRetired' /\ OwnFields'
    BY <1>1, <1>2, <1>3, <2>1, <2>2, <2>3, Parts, Bounds
       DEF OthersRetired, Retired, Fetching, Begun, IpcUpdatedAt, NoFetcherAt, OwnFields
  <2>6. Ending'
    BY <1>1, <1>2, <1>3, <2>1, <2>2, <2>3, Parts, Bounds
       DEF Ending, OwnFields, FieldsCurrent, NotClosedYet, Fetching, IpcUpdatedAt
  <2> QED BY <1>1, <1>5, <2>1, Parts, <2>4, <2>5, <2>6 DEF OneAtATime
<1> QED BY <1>4, <1>5 DEF IInv, OneAtATime

\* IpcUpdated finds the fetcher of the call before.
LEMMA CallKeeps ==
  ASSUME IInv, NEW r \in Runs, Call(r)
  PROVE  IInv'
<1> DEFINE f == shared.realtimeFetcher
           x == IF made[f].sub = "live" THEN "gone" ELSE made[f].sub
<1> SUFFICES ASSUME ~Panic("nilFetcher") PROVE IInv'
  BY PanicKeeps
<1>1. /\ call[r].index = "call" /\ f # Nil /\ f = shared.realtimeFetcher /\ f \in 0 .. run
      /\ call' = [call EXCEPT ![r].index = "nap", ![r].uses = f]
      /\ made' = [made EXCEPT ![f].sub = x] /\ "nap" \in Pcs
      /\ UNCHANGED <<ipc, run, overlap, shared, faults, panicked>>
  BY Bounds DEF Call, Panic, Fields, Pcs, IpcUpdatedAt, manager, world
<1>2. /\ call' \in [Runs -> Calls(run)]
      /\ Becomes(r, "nap", f, call[r].realtime, call[r].ch, call[r].fetch, call[r].on)
  BY <1>1, Bounds, UsesBecomes
<1>3. /\ made' \in [Runs -> Things]
      /\ Made(f, made[f].header, x, made[f].open, made[f].stopClosed, made[f].bdClosed)
  <2>1. x \in {"nil", "live", "gone"}
    BY <1>1, Bounds DEF MadeTyped, Things
  <2> HIDE DEF x
  <2> QED BY <1>1, <2>1, Bounds, SubMade
<1> HIDE DEF f, x
<1> USE DEF Becomes, Made
<1>4. Typed'
  <2>1. TypeOK'
    BY <1>1, <1>2, <1>3, Bounds, TypePartsAfter
  <2>2. Begun'
    BY <1>1, <1>2, <1>3, Bounds DEF IInv, Typed, Begun, IpcUpdatedAt, NoFetcherAt
  <2> QED BY <2>1, <2>2 DEF Typed
<1>5. ASSUME ~overlap' PROVE OneAtATime'
  <2>1. ~overlap
    BY <1>1, <1>5
  <2>2. r = run
    BY <1>1, <2>1, LastCall DEF IndexingAt
  <2>3. Current' = Current /\ Current \in {run - 1, run}
        /\ (Current = run - 1 <=> call[run].index \in IpcUpdatedAt)
    BY <1>1, <1>2, <2>2, Bounds DEF Current, IpcUpdatedAt
  <2>4. InTurn' /\ FieldsCurrent' /\ NotClosedYet'
    BY <1>1, <1>2, <1>3, <2>1, <2>2, <2>3, Parts, Bounds
       DEF InTurn, IndexingAt, FieldsCurrent, IpcUpdatedAt, NoFetcherAt, NotClosedYet
  <2>5. OthersRetired' /\ OwnFields'
    BY <1>1, <1>2, <1>3, <2>1, <2>2, <2>3, Parts, Bounds
       DEF OthersRetired, Retired, Fetching, Begun, IpcUpdatedAt, NoFetcherAt, OwnFields
  <2>6. Ending'
    BY <1>1, <1>2, <1>3, <2>1, <2>2, <2>3, Parts, Bounds
       DEF Ending, OwnFields, FieldsCurrent, NotClosedYet, Fetching, IpcUpdatedAt
  <2> QED BY <1>1, <1>5, <2>1, Parts, <2>4, <2>5, <2>6 DEF OneAtATime
<1> QED BY <1>4, <1>5 DEF IInv, OneAtATime

\* Where it does not panic, the call before is left with nothing but to end.
LEMMA CloseHeaderKeeps ==
  ASSUME IInv, NEW r \in Runs, CloseHeader(r)
  PROVE  IInv'
<1> DEFINE f == call[r].uses
           h == IF made[f].header = "open" THEN "closed" ELSE made[f].header
           x == IF made[f].sub = "live" THEN "gone" ELSE made[f].sub
<1>a. CASE Panic("send")
  BY <1>a, PanicKeeps
<1>b. CASE made[f].header = "closed" /\ Panic("headerChannel")
  <2>1. ASSUME ~overlap PROVE FALSE
    <3>1. call[r].index = "nap"
      BY DEF CloseHeader
    <3>2. r = run
      BY <2>1, <3>1, LastCall DEF IndexingAt
    <3> QED BY <1>b, <2>1, <3>1, <3>2, Parts DEF FieldsCurrent, NotClosedYet
  <2> QED BY <1>b, <2>1, PanicKeeps
<1> SUFFICES ASSUME ~Panic("send"), ~(made[f].header = "closed" /\ Panic("headerChannel"))
             PROVE  IInv'
  BY <1>a, <1>b
<1>1. /\ call[r].index = "nap" /\ Settled /\ f = call[r].uses
      /\ made[f].header # "closed" /\ (f \in Runs /\ made[f].header # "nil" => h = "closed")
      /\ call' = [call EXCEPT ![r].index = "stop", ![r].uses = Nil] /\ "stop" \in Pcs
      /\ made' = [made EXCEPT ![f].header = h, ![f].sub = x, ![f].open = FALSE]
      /\ UNCHANGED <<ipc, run, overlap, shared, faults, panicked>>
  BY Bounds DEF CloseHeader, Done, Pcs, IpcUpdatedAt, manager, world, MadeTyped, Things
<1>2. /\ call' \in [Runs -> Calls(run)]
      /\ Becomes(r, "stop", Nil, call[r].realtime, call[r].ch, call[r].fetch, call[r].on)
  BY <1>1, Bounds, UsesBecomes
<1>3. /\ made' \in [Runs -> Things]
      /\ Made(f, h, x, FALSE, made[f].stopClosed, made[f].bdClosed)
  <2>1. f \in Runs => h \in {"nil", "open", "closed"} /\ x \in {"nil", "live", "gone"}
    BY <1>1, Bounds DEF MadeTyped, Things
  <2> HIDE DEF h, x
  <2> QED BY <1>1, <2>1, Bounds, EndedMade
<1> HIDE DEF f, h, x
<1>4. \A t \in Runs :
        /\ made'[t].stopClosed = made[t].stopClosed /\ made'[t].bdClosed = made[t].bdClosed
        /\ made[t].header # "nil" => made'[t].header # "nil"
        /\ t # f => made'[t].header = made[t].header /\ made'[t].open = made[t].open
        /\ t = f => ~made'[t].open /\ (made[t].header # "nil" => made'[t].header = "closed")
  BY <1>1, <1>3 DEF Made
<1>c. /\ call[r].index = "nap" /\ Settled /\ f = call[r].uses
      /\ UNCHANGED <<ipc, run, overlap, shared, faults, panicked>>
  BY <1>1
<1> USE DEF Becomes
<1>5. Typed'
  <2>1. TypeOK'
    BY <1>c, <1>2, <1>3, Bounds, TypePartsAfter
  <2>2. Begun'
    BY <1>c, <1>2, <1>4 DEF IInv, Typed, Begun, IpcUpdatedAt, NoFetcherAt
  <2> QED BY <2>1, <2>2 DEF Typed
<1>6. ASSUME ~overlap' PROVE OneAtATime'
  <2>1. ~overlap
    BY <1>c, <1>6
  <2>2. r = run
    BY <1>c, <2>1, LastCall DEF IndexingAt
  <2>3. Current' = run - 1 /\ Current = run - 1 /\ run \in Int
    BY <1>c, <1>2, <2>2, Bounds DEF Current, IpcUpdatedAt
  <2>4. f = run - 1 /\ run > 1 /\ run - 1 \in Runs
    BY <1>c, <2>1, <2>2, Parts, Bounds DEF FieldsCurrent
  <2>5. InTurn'
    BY <1>c, <1>2, <2>1, <2>2, <2>3, Parts DEF InTurn
  <2>6. OthersRetired'
    BY <1>c, <1>2, <1>4, <2>1, <2>2, <2>3, Parts, Bounds DEF OthersRetired, Retired, Fetching
  <2>7. OwnFields'
    BY <1>c, <1>2, <1>4, <2>1, <2>2, <2>3, Parts, Bounds DEF OwnFields, Fetching
  <2>8. FieldsCurrent'
    BY <1>c, <1>2, <1>4, <2>1, <2>2, <2>4, Parts, Bounds
       DEF FieldsCurrent, IpcUpdatedAt, NoFetcherAt, IndexingAt
  <2>9. NotClosedYet'
    BY <1>c, <1>2, <1>4, <2>1, <2>2, <2>4, Parts, Bounds DEF NotClosedYet
  <2>10. Ending'
    <3> DEFINE m == run - 1
    <3>1. ~Busy(m) /\ m = Current /\ m \in Runs
      BY <1>c, <2>3, <2>4 DEF Settled
    <3>2. /\ call[m].index # "latest" /\ call[m].realtime # "start" /\ call[m].fetch # "make"
      BY <3>1 DEF Busy
    <3>3. /\ call[m].index = "asking" => ~made'[m].open
          /\ Fetching(m) => ~made'[m].open /\ made'[m].header = "closed"
      BY <1>4, <2>1, <2>4, <3>1, <3>2, Parts DEF OwnFields
    <3> QED BY <1>c, <1>2, <2>2, <2>4, <3>2, <3>3 DEF Ending, Fetching
  <2> QED BY <1>c, <1>6, <2>1, Parts, <2>5, <2>6, <2>7, <2>8, <2>9, <2>10 DEF OneAtATime
<1> QED BY <1>5, <1>6 DEF IInv, OneAtATime

\* The stop channel in the field is that of the call before, not closed yet.
LEMMA CloseStopKeeps ==
  ASSUME IInv, NEW r \in Runs, CloseStop(r)
  PROVE  IInv'
<1> DEFINE s == shared.stopChan
<1>a. CASE s # Nil /\ made[s].stopClosed /\ Panic("stopChannel")
  <2>1. ASSUME ~overlap PROVE FALSE
    <3>1. call[r].index = "stop"
      BY DEF CloseStop
    <3>2. r = run
      BY <2>1, <3>1, LastCall DEF IndexingAt
    <3> QED BY <1>a, <2>1, <3>1, <3>2, Parts DEF FieldsCurrent
  <2> QED BY <1>a, <2>1, PanicKeeps
<1> SUFFICES ASSUME ~(s # Nil /\ made[s].stopClosed /\ Panic("stopChannel"))
             PROVE  IInv'
  BY <1>a
<1>1. /\ call[r].index = "stop" /\ s = shared.stopChan
      /\ Goto(r, "sleep") /\ "sleep" \in Pcs
      /\ made' = [t \in Runs |-> IF t = s THEN [made[t] EXCEPT !.stopClosed = TRUE] ELSE made[t]]
      /\ UNCHANGED <<ipc, run, overlap, shared, faults, panicked>>
  BY DEF CloseStop, Pcs, IpcUpdatedAt, manager, world
<1>2. /\ call' \in [Runs -> Calls(run)]
      /\ Becomes(r, "sleep", call[r].uses, call[r].realtime, call[r].ch, call[r].fetch, call[r].on)
  BY <1>1, Bounds, GotoBecomes
<1>3. /\ made' \in [Runs -> Things]
      /\ Made(s, made[s].header, made[s].sub, made[s].open, TRUE, made[s].bdClosed)
  BY <1>1, Bounds, StopMade
<1> HIDE DEF s
<1> USE DEF Becomes, Made
<1>4. Typed'
  <2>1. TypeOK'
    BY <1>1, <1>2, <1>3, Bounds, TypePartsAfter
  <2>2. Begun'
    BY <1>1, <1>2, <1>3, Bounds DEF IInv, Typed, Begun, IpcUpdatedAt, NoFetcherAt
  <2> QED BY <2>1, <2>2 DEF Typed
<1>5. ASSUME ~overlap' PROVE OneAtATime'
  <2>1. ~overlap
    BY <1>1, <1>5
  <2>2. r = run
    BY <1>1, <2>1, LastCall DEF IndexingAt
  <2>3. Current' = Current /\ Current \in {run - 1, run}
        /\ (Current = run - 1 <=> call[run].index \in IpcUpdatedAt)
    BY <1>1, <1>2, <2>2, Bounds DEF Current, IpcUpdatedAt
  <2>4. InTurn' /\ FieldsCurrent' /\ NotClosedYet'
    BY <1>1, <1>2, <1>3, <2>1, <2>2, <2>3, Parts, Bounds
       DEF InTurn, IndexingAt, FieldsCurrent, IpcUpdatedAt, NoFetcherAt, NotClosedYet
  <2>5. OthersRetired' /\ OwnFields'
    BY <1>1, <1>2, <1>3, <2>1, <2>2, <2>3, Parts, Bounds
       DEF OthersRetired, Retired, Fetching, Begun, IpcUpdatedAt, NoFetcherAt, OwnFields
  <2>6. Ending'
    BY <1>1, <1>2, <1>3, <2>1, <2>2, <2>3, Parts, Bounds
       DEF Ending, OwnFields, FieldsCurrent, NotClosedYet, Fetching, IpcUpdatedAt
  <2> QED BY <1>1, <1>5, <2>1, Parts, <2>4, <2>5, <2>6 DEF OneAtATime
<1> QED BY <1>4, <1>5 DEF IInv, OneAtATime

\* The sleep of 30 seconds retires the call before: whatever of it has a step to
\* take has taken it by then, and the other goroutines have no step left.
LEMMA SleepRetires ==
  ASSUME IInv, ~overlap, Settled, call[run].index = "sleep", NEW m \in Runs, m = run - 1
  PROVE  Retired(m)
<1>1. ~Busy(m) /\ m = Current
  BY Bounds DEF Settled, Current, IpcUpdatedAt
<1>2. /\ call[m].index # "latest" /\ call[m].realtime # "start" /\ call[m].fetch # "make"
      /\ call[m].index = "asking" => ~made[m].open
      /\ Fetching(m) => ~made[m].open /\ made[m].header = "closed"
  BY Parts DEF Ending
<1>3. /\ call[m].index = "asking" => call[m].uses = m
      /\ Fetching(m) => call[m].on = m /\ call[m].realtime \in {"wait", "process"}
      /\ call[m].realtime = "wait" => call[m].ch = m
  BY <1>1, Parts DEF OwnFields
<1>4. call[m].index # "asking" /\ call[m].realtime # "process"
  BY <1>1, <1>2, <1>3 DEF Busy
<1>5. ~Fetching(m)
  <2> SUFFICES ASSUME Fetching(m) PROVE FALSE
    OBVIOUS
  <2>1. call[m].fetch \in {"subscribe", "listen", "fetch", "send"}
    BY <1>2, Bounds DEF CallsTyped, Calls, Fetching
  <2>2. call[m].fetch # "send"
    BY <1>1, <1>3, <1>4 DEF Busy
  <2> QED BY <1>1, <1>2, <1>3, <2>1, <2>2 DEF Busy
<1>6. call[m].realtime \in {"none", "wait", "ended"}
  BY <1>2, <1>4, Bounds DEF CallsTyped, Calls
<1>7. call[m].realtime = "wait" => ~made[m].bdClosed
  BY <1>1, <1>3 DEF Busy
<1> QED BY <1>2, <1>3, <1>4, <1>5, <1>6, <1>7 DEF Retired

\* With EnableSwitchIPC the current call becomes the last one.
LEMMA EnableKeeps ==
  ASSUME IInv, NEW r \in Runs, Enable(r)
  PROVE  IInv'
<1>1. /\ call[r].index = "sleep" /\ (r = 1 \/ Settled)
      /\ Goto(r, "make") /\ "make" \in Pcs /\ ipc' \in Managers
      /\ UNCHANGED <<run, overlap, shared, made, faults, panicked>>
  BY Bounds DEF Enable, Pcs, NoFetcherAt, world, Managers
<1>2. /\ call' \in [Runs -> Calls(run)]
      /\ Becomes(r, "make", call[r].uses, call[r].realtime, call[r].ch, call[r].fetch, call[r].on)
  BY <1>1, Bounds, GotoBecomes
<1>3. made' = made /\ made' \in [Runs -> Things]
  BY <1>1, Bounds DEF MadeTyped
<1> USE DEF Becomes, Made
<1>4. Typed'
  <2>1. TypeOK'
    BY <1>1, <1>2, <1>3, Bounds, TypePartsAfter
  <2>2. Begun'
    BY <1>1, <1>2, <1>3, Bounds DEF IInv, Typed, Begun, IpcUpdatedAt, NoFetcherAt
  <2> QED BY <2>1, <2>2 DEF Typed
<1>5. ASSUME ~overlap' PROVE OneAtATime'
  <2>1. ~overlap
    BY <1>1, <1>5
  <2>2. r = run
    BY <1>1, <2>1, LastCall DEF IndexingAt
  <2>3. Current' = run /\ Current = run - 1 /\ Current \in {run - 1, run}
        /\ (Current = run - 1 <=> call[run].index \in IpcUpdatedAt)
    BY <1>1, <1>2, <2>2, Bounds DEF Current, IpcUpdatedAt
  <2>4. InTurn' /\ FieldsCurrent' /\ NotClosedYet'
    BY <1>1, <1>2, <1>3, <2>1, <2>2, <2>3, Parts, Bounds
       DEF InTurn, IndexingAt, FieldsCurrent, IpcUpdatedAt, NoFetcherAt, NotClosedYet
  <2>5. \A s \in Runs : s < run => Retired(s)
    <3> SUFFICES ASSUME NEW s \in Runs, s < run PROVE Retired(s)
      OBVIOUS
    <3>1. CASE s < run - 1
      BY <2>1, <2>3, <3>1, Parts DEF OthersRetired
    <3>2. CASE s = run - 1
      <4>1. r # 1
        BY <2>2, <3>2, Bounds
      <4> QED BY <1>1, <2>1, <2>2, <3>2, <4>1, SleepRetires
    <3> QED BY <3>1, <3>2, Bounds
  <2>6. OthersRetired'
    BY <1>1, <1>2, <1>3, <2>2, <2>3, <2>5 DEF OthersRetired, Retired, Fetching
  <2>7. OwnFields'
    BY <1>1, <1>2, <1>3, <2>1, <2>2, <2>3, Parts
       DEF OwnFields, Fetching, Begun, IpcUpdatedAt, NoFetcherAt
  <2>8. Ending'
    BY <1>1, <1>2, <2>2, <2>3, Bounds DEF Ending
  <2> QED BY <1>1, <1>5, <2>1, Parts, <2>4, <2>6, <2>7, <2>8 DEF OneAtATime
<1> QED BY <1>4, <1>5 DEF IInv, OneAtATime

\* The stop channel in the field is that of the last call.
LEMMA MakeStopKeeps ==
  ASSUME IInv, NEW r \in Runs, MakeStop(r)
  PROVE  IInv'
<1>1. /\ call[r].index = "make"
      /\ Goto(r, "dial") /\ "dial" \in Pcs /\ ipc' \in Managers
      /\ shared' = [shared EXCEPT !.stopChan = r]
      /\ UNCHANGED <<run, overlap, made, faults, panicked>>
  BY Bounds DEF MakeStop, Pcs, NoFetcherAt, world, Managers
<1>2. /\ call' \in [Runs -> Calls(run)]
      /\ Becomes(r, "dial", call[r].uses, call[r].realtime, call[r].ch, call[r].fetch, call[r].on)
  BY <1>1, Bounds, GotoBecomes
<1>3. /\ made' = made /\ made' \in [Runs -> Things]
      /\ shared' \in Fields(run) /\ shared'.stopChan = r
      /\ shared'.realtimeFetcher = shared.realtimeFetcher /\ shared'.bdChan = shared.bdChan
  <2>1. r \in 0 .. run
    BY <1>1, Bounds DEF IInv, Typed, Begun
  <2> QED BY <1>1, <2>1, Bounds DEF MadeTyped, Fields
<1> USE DEF Becomes, Made
<1>4. Typed'
  <2>1. TypeOK'
    BY <1>1, <1>2, <1>3, Bounds, TypePartsAfter
  <2>2. Begun'
    BY <1>1, <1>2, <1>3, Bounds DEF IInv, Typed, Begun, IpcUpdatedAt, NoFetcherAt
  <2> QED BY <2>1, <2>2 DEF Typed
<1>5. ASSUME ~overlap' PROVE OneAtATime'
  <2>1. ~overlap
    BY <1>1, <1>5
  <2>2. r = run
    BY <1>1, <2>1, LastCall DEF IndexingAt
  <2>3. Current' = Current /\ Current \in {run - 1, run}
        /\ (Current = run - 1 <=> call[run].index \in IpcUpdatedAt)
    BY <1>1, <1>2, <2>2, Bounds DEF Current, IpcUpdatedAt
  <2>4. InTurn' /\ FieldsCurrent' /\ NotClosedYet'
    BY <1>1, <1>2, <1>3, <2>1, <2>2, <2>3, Parts, Bounds
       DEF InTurn, IndexingAt, FieldsCurrent, IpcUpdatedAt, NoFetcherAt, NotClosedYet
  <2>5. OthersRetired' /\ OwnFields'
    BY <1>1, <1>2, <1>3, <2>1, <2>2, <2>3, Parts, Bounds
       DEF OthersRetired, Retired, Fetching, Begun, IpcUpdatedAt, NoFetcherAt, OwnFields
  <2>6. Ending'
    BY <1>1, <1>2, <1>3, <2>1, <2>2, <2>3, Parts, Bounds
       DEF Ending, OwnFields, FieldsCurrent, NotClosedYet, Fetching, IpcUpdatedAt
  <2> QED BY <1>1, <1>5, <2>1, Parts, <2>4, <2>5, <2>6 DEF OneAtATime
<1> QED BY <1>4, <1>5 DEF IInv, OneAtATime

\* The fetcher of the last call is set, or the dial fails.
LEMMA DialKeeps ==
  ASSUME IInv, NEW r \in Runs, Dial(r)
  PROVE  IInv'
<1>1. PICK pc \in {"latest", "failed"} :
        /\ call[r].index = "dial"
        /\ Goto(r, pc) /\ pc \in Pcs /\ ipc' \in Managers /\ faults' \in 0 .. MaxFaults
        /\ \/ pc = "latest" /\ shared' = [shared EXCEPT !.realtimeFetcher = r]
           \/ pc = "failed" /\ shared' = shared
        /\ UNCHANGED <<run, overlap, made, panicked>>
  BY Bounds, FaultsAssumption
     DEF Dial, SwitchIPC, Fault, Pcs, NoFetcherAt, IndexingAt, manager, world, Managers
<1>2. /\ call' \in [Runs -> Calls(run)]
      /\ Becomes(r, pc, call[r].uses, call[r].realtime, call[r].ch, call[r].fetch, call[r].on)
  BY <1>1, Bounds, GotoBecomes
<1>3. /\ made' = made /\ made' \in [Runs -> Things]
      /\ shared' \in Fields(run)
      /\ shared'.stopChan = shared.stopChan /\ shared'.bdChan = shared.bdChan
      /\ \/ pc = "latest" /\ shared'.realtimeFetcher = r
         \/ pc = "failed" /\ shared'.realtimeFetcher = shared.realtimeFetcher
  <2>1. r \in 0 .. run
    BY <1>1, Bounds DEF IInv, Typed, Begun
  <2> QED BY <1>1, <2>1, Bounds DEF MadeTyped, Fields
<1> USE DEF Becomes, Made
<1>4. Typed'
  <2>1. TypeOK'
    BY <1>1, <1>2, <1>3, Bounds, TypePartsAfter
  <2>2. Begun'
    BY <1>1, <1>2, <1>3, Bounds DEF IInv, Typed, Begun, IpcUpdatedAt, NoFetcherAt
  <2> QED BY <2>1, <2>2 DEF Typed
<1>5. ASSUME ~overlap' PROVE OneAtATime'
  <2>1. ~overlap
    BY <1>1, <1>5
  <2>2. r = run
    BY <1>1, <2>1, LastCall DEF IndexingAt
  <2>3. Current' = Current /\ Current \in {run - 1, run}
        /\ (Current = run - 1 <=> call[run].index \in IpcUpdatedAt)
    BY <1>1, <1>2, <2>2, Bounds DEF Current, IpcUpdatedAt
  <2>4. InTurn' /\ FieldsCurrent' /\ NotClosedYet'
    BY <1>1, <1>2, <1>3, <2>1, <2>2, <2>3, Parts, Bounds
       DEF InTurn, IndexingAt, FieldsCurrent, IpcUpdatedAt, NoFetcherAt, NotClosedYet
  <2>5. OthersRetired' /\ OwnFields'
    BY <1>1, <1>2, <1>3, <2>1, <2>2, <2>3, Parts, Bounds
       DEF OthersRetired, Retired, Fetching, Begun, IpcUpdatedAt, NoFetcherAt, OwnFields
  <2>6. Ending'
    BY <1>1, <1>2, <1>3, <2>1, <2>2, <2>3, Parts, Bounds
       DEF Ending, OwnFields, FieldsCurrent, NotClosedYet, Fetching, IpcUpdatedAt
  <2> QED BY <1>1, <1>5, <2>1, Parts, <2>4, <2>5, <2>6 DEF OneAtATime
<1> QED BY <1>4, <1>5 DEF IInv, OneAtATime

\* The field is cleared when nothing of the last call is at work.
LEMMA FailedKeeps ==
  ASSUME IInv, NEW r \in Runs, Failed(r)
  PROVE  IInv'
<1>1. /\ call[r].index = "failed" /\ Goto(r, "over") /\ "over" \in Pcs
      /\ shared' = [shared EXCEPT !.realtimeFetcher = Nil]
      /\ UNCHANGED <<ipc, run, overlap, made, faults, panicked>>
  BY DEF Failed, Pcs, IndexingAt, manager, world
<1>2. /\ call' \in [Runs -> Calls(run)]
      /\ Becomes(r, "over", call[r].uses, call[r].realtime, call[r].ch, call[r].fetch, call[r].on)
  BY <1>1, Bounds, GotoBecomes
<1>3. /\ made' = made /\ made' \in [Runs -> Things]
      /\ shared' \in Fields(run) /\ shared'.realtimeFetcher = Nil
      /\ shared'.stopChan = shared.stopChan /\ shared'.bdChan = shared.bdChan
  BY <1>1, Bounds DEF MadeTyped, Fields
<1> USE DEF Becomes, Made
<1>4. Typed'
  <2>1. TypeOK'
    BY <1>1, <1>2, <1>3, Bounds, TypePartsAfter
  <2>2. Begun'
    BY <1>1, <1>2, <1>3, Bounds DEF IInv, Typed, Begun, IpcUpdatedAt, NoFetcherAt
  <2> QED BY <2>1, <2>2 DEF Typed
<1>5. ASSUME ~overlap' PROVE OneAtATime'
  <2>1. ~overlap
    BY <1>1, <1>5
  <2>2. r = run
    BY <1>1, <2>1, LastCall DEF IndexingAt
  <2>3. Current' = Current /\ Current \in {run - 1, run}
        /\ (Current = run - 1 <=> call[run].index \in IpcUpdatedAt)
    BY <1>1, <1>2, <2>2, Bounds DEF Current, IpcUpdatedAt
  <2>4. InTurn' /\ FieldsCurrent' /\ NotClosedYet'
    BY <1>1, <1>2, <1>3, <2>1, <2>2, <2>3, Parts, Bounds
       DEF InTurn, IndexingAt, FieldsCurrent, IpcUpdatedAt, NoFetcherAt, NotClosedYet
  <2>5. OthersRetired' /\ OwnFields'
    BY <1>1, <1>2, <1>3, <2>1, <2>2, <2>3, Parts, Bounds
       DEF OthersRetired, Retired, Fetching, Begun, IpcUpdatedAt, NoFetcherAt, OwnFields
  <2>6. Ending'
    BY <1>1, <1>2, <1>3, <2>1, <2>2, <2>3, Parts, Bounds
       DEF Ending, OwnFields, FieldsCurrent, NotClosedYet, Fetching, IpcUpdatedAt
  <2> QED BY <1>1, <1>5, <2>1, Parts, <2>4, <2>5, <2>6 DEF OneAtATime
<1> QED BY <1>4, <1>5 DEF IInv, OneAtATime

\* The call asks its own fetcher.
LEMMA LatestKeeps ==
  ASSUME IInv, NEW r \in Runs, Latest(r)
  PROVE  IInv'
<1> DEFINE f == shared.realtimeFetcher
<1> SUFFICES ASSUME ~Panic("nilFetcher") PROVE IInv'
  BY PanicKeeps
<1>1. /\ call[r].index = "latest" /\ f # Nil /\ f = shared.realtimeFetcher /\ f \in 0 .. run
      /\ call' = [call EXCEPT ![r].index = "asking", ![r].uses = f] /\ "asking" \in Pcs
      /\ UNCHANGED <<ipc, run, overlap, shared, made, faults, panicked>>
  BY Bounds DEF Latest, Fields, Pcs, IndexingAt, manager, world
<1>2. /\ call' \in [Runs -> Calls(run)]
      /\ Becomes(r, "asking", f, call[r].realtime, call[r].ch, call[r].fetch, call[r].on)
  BY <1>1, Bounds, UsesBecomes
<1>3. made' = made /\ made' \in [Runs -> Things]
  BY <1>1, Bounds DEF MadeTyped
<1> HIDE DEF f
<1> USE DEF Becomes, Made
<1>4. Typed'
  <2>1. TypeOK'
    BY <1>1, <1>2, <1>3, Bounds, TypePartsAfter
  <2>2. Begun'
    BY <1>1, <1>2, <1>3, Bounds DEF IInv, Typed, Begun, IpcUpdatedAt, NoFetcherAt
  <2> QED BY <2>1, <2>2 DEF Typed
<1>5. ASSUME ~overlap' PROVE OneAtATime'
  <2>1. ~overlap
    BY <1>1, <1>5
  <2>2. r = Current /\ call[r].index \notin IpcUpdatedAt
    BY <1>1, <2>1, AtWork DEF IpcUpdatedAt
  <2>3. Current' = Current /\ Current \in {run - 1, run}
        /\ (Current = run - 1 <=> call[run].index \in IpcUpdatedAt)
    BY <1>1, <1>2, Bounds DEF Current, IpcUpdatedAt
  <2>4. InTurn' /\ FieldsCurrent' /\ NotClosedYet'
    BY <1>1, <1>2, <1>3, <2>1, <2>2, <2>3, Parts, Bounds
       DEF InTurn, IndexingAt, FieldsCurrent, IpcUpdatedAt, NoFetcherAt, NotClosedYet
  <2>5. OthersRetired' /\ OwnFields'
    BY <1>1, <1>2, <1>3, <2>1, <2>2, <2>3, Parts, Bounds
       DEF OthersRetired, Retired, Fetching, Begun, IpcUpdatedAt, NoFetcherAt, OwnFields
  <2>6. Ending'
    BY <1>1, <1>2, <1>3, <2>1, <2>2, <2>3, Parts, Bounds
       DEF Ending, OwnFields, FieldsCurrent, NotClosedYet, Fetching, IpcUpdatedAt
  <2> QED BY <1>1, <1>5, <2>1, Parts, <2>4, <2>5, <2>6 DEF OneAtATime
<1> QED BY <1>4, <1>5 DEF IInv, OneAtATime

\* Goroutines are started by a call whose client is open: not after IpcUpdated.
LEMMA AnsweredKeeps ==
  ASSUME IInv, NEW r \in Runs, Answered(r)
  PROVE  IInv'
<1>1. /\ call[r].index = "asking"
      /\ \/ /\ made[call[r].uses].open
            /\ call' = [call EXCEPT ![r].index = "batches", ![r].uses = Nil, ![r].realtime = "start"]
         \/ call' = [call EXCEPT ![r].index = "over", ![r].uses = Nil]
      /\ ipc' \in Managers /\ faults' \in 0 .. MaxFaults
      /\ UNCHANGED <<run, overlap, shared, made, panicked>>
  BY Bounds, FaultsAssumption
     DEF Answered, CallFails, Done, SwitchIPC, Fault, manager, world, Managers
<1>2. /\ call' \in [Runs -> Calls(run)]
      /\ \/ /\ made[call[r].uses].open
            /\ Becomes(r, "batches", Nil, "start", call[r].ch, call[r].fetch, call[r].on)
         \/ Becomes(r, "over", Nil, call[r].realtime, call[r].ch, call[r].fetch, call[r].on)
  <2>1. "over" \in Pcs
    BY DEF Pcs, IndexingAt
  <2> QED BY <1>1, <2>1, Bounds, StartsBecomes, UsesBecomes
<1>3. made' = made /\ made' \in [Runs -> Things]
  BY <1>1, Bounds DEF MadeTyped
<1> USE DEF Becomes, Made
<1>4. Typed'
  <2>1. TypeOK'
    BY <1>1, <1>2, <1>3, Bounds, TypePartsAfter
  <2>2. Begun'
    BY <1>1, <1>2, <1>3, Bounds DEF IInv, Typed, Begun, IpcUpdatedAt, NoFetcherAt, IndexingAt
  <2> QED BY <2>1, <2>2 DEF Typed
<1>5. ASSUME ~overlap' PROVE OneAtATime'
  <2>1. ~overlap
    BY <1>1, <1>5
  <2>2. r = Current /\ call[r].index \notin IpcUpdatedAt
    BY <1>1, <2>1, AtWork DEF IpcUpdatedAt
  <2>3. Current' = Current /\ Current \in {run - 1, run}
        /\ (Current = run - 1 <=> call[run].index \in IpcUpdatedAt)
    BY <1>1, <1>2, Bounds DEF Current, IpcUpdatedAt
  <2>4. InTurn' /\ FieldsCurrent' /\ NotClosedYet'
    BY <1>1, <1>2, <1>3, <2>1, <2>2, <2>3, Parts, Bounds
       DEF InTurn, IndexingAt, FieldsCurrent, IpcUpdatedAt, NoFetcherAt, NotClosedYet
  <2>5. OthersRetired' /\ OwnFields'
    BY <1>1, <1>2, <1>3, <2>1, <2>2, <2>3, Parts, Bounds
       DEF OthersRetired, Retired, Fetching, Begun, IpcUpdatedAt, NoFetcherAt, OwnFields
  <2>6. Ending'
    BY <1>1, <1>2, <1>3, <2>1, <2>2, <2>3, Parts, Bounds
       DEF Ending, OwnFields, FieldsCurrent, NotClosedYet, Fetching, IpcUpdatedAt
  <2> QED BY <1>1, <1>5, <2>1, Parts, <2>4, <2>5, <2>6 DEF OneAtATime
<1> QED BY <1>4, <1>5 DEF IInv, OneAtATime

\* The batches and the watcher of a call use nothing that another call has made.
LEMMA LaterKeeps ==
  ASSUME IInv, NEW r \in Runs, BatchesEnd(r) \/ WatchCheck(r) \/ WatchSet(r) \/ OutOfDate(r)
  PROVE  IInv'
<1>1. PICK pc \in Pcs, t \in BOOLEAN :
        /\ \/ call[r].index \in {"batches", "watch", "set"} /\ pc \in {"watch", "set", "over"}
           \/ pc = call[r].index
        /\ \/ Goto(r, pc)
           \/ call' = [call EXCEPT ![r].index = pc, ![r].ticker = t]
           \/ pc = call[r].index /\ call' = [call EXCEPT ![r].ticker = t]
        /\ \/ shared' = shared
           \/ \E b \in BOOLEAN : shared' = [shared EXCEPT !.isWatching = b]
        /\ ipc' \in Managers /\ faults' \in 0 .. MaxFaults
        /\ UNCHANGED <<run, overlap, made, panicked>>
  <2>1. CASE BatchesEnd(r)
    <3>1. "watch" \in Pcs
      BY DEF Pcs, IndexingAt
    <3> QED BY <2>1, <3>1, Bounds DEF BatchesEnd, manager, world
  <2>2. CASE WatchCheck(r)
    <3> DEFINE p == IF shared.isWatching THEN "over" ELSE "set"
    <3>1. p \in Pcs /\ p \in {"set", "over"}
      BY DEF Pcs, IndexingAt
    <3> QED BY <2>2, <3>1, Bounds DEF WatchCheck, manager, world
  <2>3. CASE WatchSet(r)
    <3>1. "over" \in Pcs
      BY DEF Pcs, IndexingAt
    <3> QED BY <2>3, <3>1, Bounds DEF WatchSet, manager, world
  <2>4. CASE OutOfDate(r)
    <3>1. call[r].index \in Pcs
      BY Bounds DEF CallsTyped, Calls
    <3>2. ipc' \in Managers /\ faults' \in 0 .. MaxFaults
      BY <2>4, Bounds, FaultsAssumption DEF OutOfDate, SwitchIPC, Fault, world, Managers
    <3> QED BY <2>4, <3>1, <3>2 DEF OutOfDate, SwitchIPC, Fault, world
  <2> QED BY <2>1, <2>2, <2>3, <2>4
<1>2. /\ call' \in [Runs -> Calls(run)]
      /\ Becomes(r, pc, call[r].uses, call[r].realtime, call[r].ch, call[r].fetch, call[r].on)
  BY <1>1, Bounds, GotoBecomes, TickerBecomes
<1>3. /\ made' = made /\ made' \in [Runs -> Things]
      /\ shared' \in Fields(run) /\ shared'.realtimeFetcher = shared.realtimeFetcher
      /\ shared'.stopChan = shared.stopChan /\ shared'.bdChan = shared.bdChan
  BY <1>1, Bounds DEF MadeTyped, Fields
<1> USE DEF Becomes, Made
<1>4. Typed'
  <2>1. TypeOK'
    BY <1>1, <1>2, <1>3, Bounds, TypePartsAfter
  <2>2. Begun'
    BY <1>1, <1>2, <1>3, Bounds DEF IInv, Typed, Begun, IpcUpdatedAt, NoFetcherAt, IndexingAt
  <2> QED BY <2>1, <2>2 DEF Typed
<1>5. ASSUME ~overlap' PROVE OneAtATime'
  <2>1. ~overlap
    BY <1>1, <1>5
  <2>2. run \in Runs
    BY <1>1, <2>1, Bounds
  <2>3. Current' = Current /\ Current \in {run - 1, run}
        /\ (Current = run - 1 <=> call[run].index \in IpcUpdatedAt)
    BY <1>1, <1>2, <2>2, Bounds DEF Current, IpcUpdatedAt
  <2>4. InTurn' /\ FieldsCurrent' /\ NotClosedYet'
    BY <1>1, <1>2, <1>3, <2>1, <2>2, <2>3, Parts, Bounds
       DEF InTurn, IndexingAt, FieldsCurrent, IpcUpdatedAt, NoFetcherAt, NotClosedYet
  <2>5. OthersRetired' /\ OwnFields'
    BY <1>1, <1>2, <1>3, <2>1, <2>2, <2>3, Parts, Bounds
       DEF OthersRetired, Retired, Fetching, Begun, IpcUpdatedAt, NoFetcherAt, OwnFields
  <2>6. Ending'
    BY <1>1, <1>2, <1>3, <2>1, <2>2, <2>3, Parts, Bounds
       DEF Ending, OwnFields, FieldsCurrent, NotClosedYet, Fetching, IpcUpdatedAt
  <2> QED BY <1>1, <1>5, <2>1, Parts, <2>4, <2>5, <2>6 DEF OneAtATime
<1> QED BY <1>4, <1>5 DEF IInv, OneAtATime

\* RealtimeFetch is started on the fetcher of its own call.
LEMMA StartRealtimeKeeps ==
  ASSUME IInv, NEW r \in Runs, StartRealtime(r)
  PROVE  IInv'
<1> DEFINE f == shared.realtimeFetcher
<1> SUFFICES ASSUME ~Panic("nilFetcher") PROVE IInv'
  BY PanicKeeps
<1>1. /\ call[r].realtime = "start" /\ f # Nil /\ f = shared.realtimeFetcher /\ f \in 0 .. run
      /\ shared' = [shared EXCEPT !.bdChan = r]
      /\ call' = [call EXCEPT ![r].fetch = "make", ![r].on = f,
                              ![r].realtime = "wait", ![r].ch = r]
      /\ UNCHANGED <<ipc, run, overlap, made, faults, panicked>>
  BY Bounds DEF StartRealtime, Fields, manager, world
<1>a. r \in 0 .. run
  BY <1>1, Bounds DEF IInv, Typed, Begun
<1>2. /\ call' \in [Runs -> Calls(run)]
      /\ Becomes(r, call[r].index, call[r].uses, "wait", r, "make", f)
  BY <1>1, <1>a, Bounds, StartRealtimeBecomes
<1>3. /\ made' = made /\ made' \in [Runs -> Things]
      /\ shared' \in Fields(run) /\ shared'.realtimeFetcher = shared.realtimeFetcher
      /\ shared'.stopChan = shared.stopChan /\ shared'.bdChan = r
  BY <1>1, <1>a, Bounds DEF MadeTyped, Fields
<1> HIDE DEF f
<1> USE DEF Becomes, Made
<1>4. Typed'
  <2>1. TypeOK'
    BY <1>1, <1>2, <1>3, Bounds, TypePartsAfter
  <2>2. Begun'
    BY <1>1, <1>2, <1>3, Bounds DEF IInv, Typed, Begun, IpcUpdatedAt, NoFetcherAt
  <2> QED BY <2>1, <2>2 DEF Typed
<1>5. ASSUME ~overlap' PROVE OneAtATime'
  <2>1. ~overlap
    BY <1>1, <1>5
  <2>2. r = Current
    BY <1>1, <2>1, AtWork
  <2>3. Current' = Current /\ Current \in {run - 1, run}
        /\ (Current = run - 1 <=> call[run].index \in IpcUpdatedAt)
    BY <1>1, <1>2, Bounds DEF Current, IpcUpdatedAt
  <2>4. InTurn' /\ FieldsCurrent' /\ NotClosedYet'
    BY <1>1, <1>2, <1>3, <2>1, <2>2, <2>3, Parts, Bounds
       DEF InTurn, IndexingAt, FieldsCurrent, IpcUpdatedAt, NoFetcherAt, NotClosedYet
  <2>5. OthersRetired' /\ OwnFields'
    BY <1>1, <1>2, <1>3, <2>1, <2>2, <2>3, Parts, Bounds
       DEF OthersRetired, Retired, Fetching, Begun, IpcUpdatedAt, NoFetcherAt, OwnFields
  <2>6. Ending'
    BY <1>1, <1>2, <1>3, <2>1, <2>2, <2>3, Parts, Bounds
       DEF Ending, OwnFields, FieldsCurrent, NotClosedYet, Fetching, IpcUpdatedAt
  <2> QED BY <1>1, <1>5, <2>1, Parts, <2>4, <2>5, <2>6 DEF OneAtATime
<1> QED BY <1>4, <1>5 DEF IInv, OneAtATime

\* Only the current call makes a header channel.
LEMMA FetchMakeKeeps ==
  ASSUME IInv, NEW r \in Runs, FetchMake(r)
  PROVE  IInv'
<1> DEFINE f == call[r].on
<1>1. /\ call[r].fetch = "make" /\ f = call[r].on /\ f \in 0 .. run
      /\ FetchGoto(r, "subscribe") /\ made' = [made EXCEPT ![f].header = "open"]
      /\ UNCHANGED <<ipc, run, overlap, shared, faults, panicked>>
  BY Bounds DEF FetchMake, CallsTyped, Calls, manager, world
<1>2. /\ call' \in [Runs -> Calls(run)]
      /\ Becomes(r, call[r].index, call[r].uses, call[r].realtime, call[r].ch, "subscribe", f)
  BY <1>1, Bounds, FetchBecomes
<1>3. /\ made' \in [Runs -> Things]
      /\ Made(f, "open", made[f].sub, made[f].open, made[f].stopClosed, made[f].bdClosed)
  BY <1>1, Bounds, HeaderMade
<1> HIDE DEF f
<1> USE DEF Becomes, Made
<1>4. Typed'
  <2>1. TypeOK'
    BY <1>1, <1>2, <1>3, Bounds, TypePartsAfter
  <2>2. Begun'
    BY <1>1, <1>2, <1>3, Bounds DEF IInv, Typed, Begun, IpcUpdatedAt, NoFetcherAt
  <2> QED BY <2>1, <2>2 DEF Typed
<1>5. ASSUME ~overlap' PROVE OneAtATime'
  <2>1. ~overlap
    BY <1>1, <1>5
  <2>2. r = Current
    BY <1>1, <2>1, AtWork DEF Fetching
  <2>3. Current' = Current /\ Current \in {run - 1, run}
        /\ (Current = run - 1 <=> call[run].index \in IpcUpdatedAt)
    BY <1>1, <1>2, Bounds DEF Current, IpcUpdatedAt
  <2>4. InTurn' /\ FieldsCurrent' /\ NotClosedYet'
    BY <1>1, <1>2, <1>3, <2>1, <2>2, <2>3, Parts, Bounds
       DEF InTurn, IndexingAt, FieldsCurrent, IpcUpdatedAt, NoFetcherAt, NotClosedYet
  <2>5. OthersRetired' /\ OwnFields'
    BY <1>1, <1>2, <1>3, <2>1, <2>2, <2>3, Parts, Bounds
       DEF OthersRetired, Retired, Fetching, Begun, IpcUpdatedAt, NoFetcherAt, OwnFields
  <2>6. Ending'
    BY <1>1, <1>2, <1>3, <2>1, <2>2, <2>3, Parts, Bounds
       DEF Ending, OwnFields, FieldsCurrent, NotClosedYet, Fetching, IpcUpdatedAt
  <2> QED BY <1>1, <1>5, <2>1, Parts, <2>4, <2>5, <2>6 DEF OneAtATime
<1> QED BY <1>4, <1>5 DEF IInv, OneAtATime

\* A subscription needs an open client.
LEMMA SubscribeKeeps ==
  ASSUME IInv, NEW r \in Runs, SubscribeNewHead(r)
  PROVE  IInv'
<1> DEFINE f == call[r].on
<1>1. /\ call[r].fetch = "subscribe" /\ f = call[r].on /\ f \in 0 .. run
      /\ \/ /\ made[f].open /\ made' = [made EXCEPT ![f].sub = "live"]
            /\ FetchGoto(r, "listen")
         \/ FetchEnds(r) /\ made' = made
      /\ ipc' \in Managers /\ faults' \in 0 .. MaxFaults
      /\ UNCHANGED <<run, overlap, shared, panicked>>
  BY Bounds, FaultsAssumption
     DEF SubscribeNewHead, CallFails, SwitchIPC, Fault, CallsTyped, Calls, manager, world, Managers
<1>2. /\ call' \in [Runs -> Calls(run)]
      /\ \/ /\ made[f].open
            /\ Becomes(r, call[r].index, call[r].uses, call[r].realtime, call[r].ch, "listen", f)
         \/ Becomes(r, call[r].index, call[r].uses, call[r].realtime, call[r].ch, "ended", Nil)
  BY <1>1, Bounds, FetchBecomes
<1>3. /\ made' \in [Runs -> Things]
      /\ \A t \in Runs : /\ made'[t].header = made[t].header /\ made'[t].open = made[t].open
                         /\ made'[t].stopClosed = made[t].stopClosed
                         /\ made'[t].bdClosed = made[t].bdClosed
  BY <1>1, Bounds, SubMade DEF Made, MadeTyped
<1> HIDE DEF f
<1> USE DEF Becomes, Made
<1>4. Typed'
  <2>1. TypeOK'
    BY <1>1, <1>2, <1>3, Bounds, TypePartsAfter
  <2>2. Begun'
    BY <1>1, <1>2, <1>3, Bounds DEF IInv, Typed, Begun, IpcUpdatedAt, NoFetcherAt
  <2> QED BY <2>1, <2>2 DEF Typed
<1>5. ASSUME ~overlap' PROVE OneAtATime'
  <2>1. ~overlap
    BY <1>1, <1>5
  <2>2. r = Current
    BY <1>1, <2>1, AtWork DEF Fetching
  <2>3. Current' = Current /\ Current \in {run - 1, run}
        /\ (Current = run - 1 <=> call[run].index \in IpcUpdatedAt)
    BY <1>1, <1>2, Bounds DEF Current, IpcUpdatedAt
  <2>4. InTurn' /\ FieldsCurrent' /\ NotClosedYet'
    BY <1>1, <1>2, <1>3, <2>1, <2>2, <2>3, Parts, Bounds
       DEF InTurn, IndexingAt, FieldsCurrent, IpcUpdatedAt, NoFetcherAt, NotClosedYet
  <2>5. OthersRetired' /\ OwnFields'
    BY <1>1, <1>2, <1>3, <2>1, <2>2, <2>3, Parts, Bounds
       DEF OthersRetired, Retired, Fetching, Begun, IpcUpdatedAt, NoFetcherAt, OwnFields
  <2>6. Ending'
    BY <1>1, <1>2, <1>3, <2>1, <2>2, <2>3, Parts, Bounds
       DEF Ending, OwnFields, FieldsCurrent, NotClosedYet, Fetching, IpcUpdatedAt
  <2> QED BY <1>1, <1>5, <2>1, Parts, <2>4, <2>5, <2>6 DEF OneAtATime
<1> QED BY <1>4, <1>5 DEF IInv, OneAtATime

\* A fetch that ends closes its block channel.
LEMMA BlockChannelKeeps ==
  ASSUME IInv, NEW r \in Runs, HeadersEnd(r) \/ FetchABlock(r)
  PROVE  IInv'
<1>1. /\ call[r].fetch \in {"listen", "fetch"} /\ call[r].on \in 0 .. run
      /\ \/ made' = made /\ FetchGoto(r, "send")
         \/ made' = [made EXCEPT ![r].bdClosed = TRUE] /\ FetchEnds(r)
      /\ ipc' \in Managers /\ faults' \in 0 .. MaxFaults
      /\ UNCHANGED <<run, overlap, shared, panicked>>
  <2>1. call[r].on \in 0 .. run
    BY Bounds DEF CallsTyped, Calls
  <2>2. CASE HeadersEnd(r)
    BY <2>1, <2>2, Bounds DEF HeadersEnd, manager, world
  <2>3. CASE FetchABlock(r)
    BY <2>1, <2>3, Bounds, FaultsAssumption
       DEF FetchABlock, CallFails, SwitchIPC, Fault, manager, world, Managers
  <2> QED BY <2>2, <2>3
<1>2. /\ call' \in [Runs -> Calls(run)]
      /\ \/ /\ made' = made
            /\ Becomes(r, call[r].index, call[r].uses, call[r].realtime, call[r].ch, "send", call[r].on)
         \/ /\ made' = [made EXCEPT ![r].bdClosed = TRUE]
            /\ Becomes(r, call[r].index, call[r].uses, call[r].realtime, call[r].ch, "ended", Nil)
  BY <1>1, Bounds, FetchBecomes
<1>3. /\ made' \in [Runs -> Things]
      /\ \A t \in Runs : /\ made'[t].header = made[t].header /\ made'[t].open = made[t].open
                         /\ made'[t].stopClosed = made[t].stopClosed
                         /\ made'[t].bdClosed # made[t].bdClosed
                              => t = r /\ made'[t].bdClosed /\ call'[t].fetch = "ended"
  <2>1. CASE made' = made
    BY <2>1, Bounds DEF MadeTyped
  <2>2. CASE /\ made' = [made EXCEPT ![r].bdClosed = TRUE]
             /\ Becomes(r, call[r].index, call[r].uses, call[r].realtime, call[r].ch, "ended", Nil)
    <3>1. /\ made' \in [Runs -> Things]
          /\ Made(r, made[r].header, made[r].sub, made[r].open, made[r].stopClosed, TRUE)
      BY <2>2, Bounds, BlockChannelMade
    <3> QED BY <2>2, <3>1, Zenon DEF Made, Becomes
  <2> QED BY <1>2, <2>1, <2>2
<1> USE DEF Becomes, Made
<1>4. Typed'
  <2>1. TypeOK'
    BY <1>1, <1>2, <1>3, Bounds, TypePartsAfter
  <2>2. Begun'
    BY <1>1, <1>2, <1>3, Bounds DEF IInv, Typed, Begun, IpcUpdatedAt, NoFetcherAt
  <2> QED BY <2>1, <2>2 DEF Typed
<1>5. ASSUME ~overlap' PROVE OneAtATime'
  <2>1. ~overlap
    BY <1>1, <1>5
  <2>2. r = Current
    BY <1>1, <2>1, AtWork DEF Fetching
  <2>3. Current' = Current /\ Current \in {run - 1, run}
        /\ (Current = run - 1 <=> call[run].index \in IpcUpdatedAt)
    BY <1>1, <1>2, Bounds DEF Current, IpcUpdatedAt
  <2>4. InTurn' /\ FieldsCurrent' /\ NotClosedYet'
    BY <1>1, <1>2, <1>3, <2>1, <2>2, <2>3, Parts, Bounds
       DEF InTurn, IndexingAt, FieldsCurrent, IpcUpdatedAt, NoFetcherAt, NotClosedYet
  <2>5. OthersRetired' /\ OwnFields'
    BY <1>1, <1>2, <1>3, <2>1, <2>2, <2>3, Parts, Bounds
       DEF OthersRetired, Retired, Fetching, Begun, IpcUpdatedAt, NoFetcherAt, OwnFields
  <2>6. Ending'
    BY <1>1, <1>2, <1>3, <2>1, <2>2, <2>3, Parts, Bounds
       DEF Ending, OwnFields, FieldsCurrent, NotClosedYet, Fetching, IpcUpdatedAt
  <2> QED BY <1>1, <1>5, <2>1, Parts, <2>4, <2>5, <2>6 DEF OneAtATime
<1> QED BY <1>4, <1>5 DEF IInv, OneAtATime

\* A block goes to realtimeIndex of the same call.
LEMMA SendKeeps ==
  ASSUME IInv, NEW r \in Runs, NEW s \in Runs, Send(r, s)
  PROVE  IInv'
<1>1. /\ call[r].fetch = "send" /\ call[s].realtime = "wait" /\ call[s].ch = r
      /\ UNCHANGED <<ipc, run, overlap, shared, made, faults, panicked>>
  BY DEF Send, manager, world
<1>2. /\ call' \in [Runs -> Calls(run)]
      /\ \A t \in Runs :
           /\ call'[t].index    = call[t].index
           /\ call'[t].uses     = call[t].uses
           /\ call'[t].realtime = IF t = s THEN "process" ELSE call[t].realtime
           /\ call'[t].ch       = call[t].ch
           /\ call'[t].fetch    = IF t = r THEN "listen" ELSE call[t].fetch
           /\ call'[t].on       = call[t].on
  BY Bounds, SendBecomes
<1>3. made' = made /\ made' \in [Runs -> Things]
  BY <1>1, Bounds DEF MadeTyped
<1> USE DEF Becomes, Made
<1>4. Typed'
  <2>1. TypeOK'
    BY <1>1, <1>2, <1>3, Bounds, TypePartsAfter
  <2>2. Begun'
    BY <1>1, <1>2, <1>3, Bounds DEF IInv, Typed, Begun, IpcUpdatedAt, NoFetcherAt
  <2> QED BY <2>1, <2>2 DEF Typed
<1>5. ASSUME ~overlap' PROVE OneAtATime'
  <2>1. ~overlap
    BY <1>1, <1>5
  <2>2. r = Current /\ s = Current
    BY <1>1, <2>1, AtWork DEF Fetching
  <2>3. Current' = Current /\ Current \in {run - 1, run}
        /\ (Current = run - 1 <=> call[run].index \in IpcUpdatedAt)
    BY <1>1, <1>2, Bounds DEF Current, IpcUpdatedAt
  <2>4. InTurn' /\ FieldsCurrent' /\ NotClosedYet'
    BY <1>1, <1>2, <1>3, <2>1, <2>2, <2>3, Parts, Bounds
       DEF InTurn, IndexingAt, FieldsCurrent, IpcUpdatedAt, NoFetcherAt, NotClosedYet
  <2>5. OthersRetired' /\ OwnFields'
    BY <1>1, <1>2, <1>3, <2>1, <2>2, <2>3, Parts, Bounds
       DEF OthersRetired, Retired, Fetching, Begun, IpcUpdatedAt, NoFetcherAt, OwnFields
  <2>6. Ending'
    BY <1>1, <1>2, <1>3, <2>1, <2>2, <2>3, Parts, Bounds
       DEF Ending, OwnFields, FieldsCurrent, NotClosedYet, Fetching, IpcUpdatedAt
  <2> QED BY <1>1, <1>5, <2>1, Parts, <2>4, <2>5, <2>6 DEF OneAtATime
<1> QED BY <1>4, <1>5 DEF IInv, OneAtATime

\* A header arrives.
LEMMA HeaderKeeps ==
  ASSUME IInv, NEW r \in Runs, Header(r)
  PROVE  IInv'
<1>1. /\ call[r].fetch = "listen" /\ call[r].on \in 0 .. run /\ FetchGoto(r, "fetch")
      /\ UNCHANGED <<ipc, run, overlap, shared, made, faults, panicked>>
  BY Bounds DEF Header, CallsTyped, Calls, manager, world
<1>2. /\ call' \in [Runs -> Calls(run)]
      /\ Becomes(r, call[r].index, call[r].uses, call[r].realtime, call[r].ch, "fetch", call[r].on)
  BY <1>1, Bounds, FetchBecomes
<1>3. made' = made /\ made' \in [Runs -> Things]
  BY <1>1, Bounds DEF MadeTyped
<1> USE DEF Becomes, Made
<1>4. Typed'
  <2>1. TypeOK'
    BY <1>1, <1>2, <1>3, Bounds, TypePartsAfter
  <2>2. Begun'
    BY <1>1, <1>2, <1>3, Bounds DEF IInv, Typed, Begun, IpcUpdatedAt, NoFetcherAt
  <2> QED BY <2>1, <2>2 DEF Typed
<1>5. ASSUME ~overlap' PROVE OneAtATime'
  <2>1. ~overlap
    BY <1>1, <1>5
  <2>2. r = Current
    BY <1>1, <2>1, AtWork DEF Fetching
  <2>3. Current' = Current /\ Current \in {run - 1, run}
        /\ (Current = run - 1 <=> call[run].index \in IpcUpdatedAt)
    BY <1>1, <1>2, Bounds DEF Current, IpcUpdatedAt
  <2>4. InTurn' /\ FieldsCurrent' /\ NotClosedYet'
    BY <1>1, <1>2, <1>3, <2>1, <2>2, <2>3, Parts, Bounds
       DEF InTurn, IndexingAt, FieldsCurrent, IpcUpdatedAt, NoFetcherAt, NotClosedYet
  <2>5. OthersRetired' /\ OwnFields'
    BY <1>1, <1>2, <1>3, <2>1, <2>2, <2>3, Parts, Bounds
       DEF OthersRetired, Retired, Fetching, Begun, IpcUpdatedAt, NoFetcherAt, OwnFields
  <2>6. Ending'
    BY <1>1, <1>2, <1>3, <2>1, <2>2, <2>3, Parts, Bounds
       DEF Ending, OwnFields, FieldsCurrent, NotClosedYet, Fetching, IpcUpdatedAt
  <2> QED BY <1>1, <1>5, <2>1, Parts, <2>4, <2>5, <2>6 DEF OneAtATime
<1> QED BY <1>4, <1>5 DEF IInv, OneAtATime

\* realtimeIndex goes back to the block channel of its own call.
LEMMA ProcessKeeps ==
  ASSUME IInv, NEW r \in Runs, Process(r)
  PROVE  IInv'
<1>1. /\ call[r].realtime = "process" /\ shared.bdChan \in 0 .. run
      /\ shared' = [shared EXCEPT !.recorded = TRUE]
      /\ call' = [call EXCEPT ![r].realtime = "wait", ![r].ch = shared.bdChan]
      /\ UNCHANGED <<ipc, run, overlap, made, faults, panicked>>
  BY Bounds DEF Process, Fields, manager, world
<1>2. /\ call' \in [Runs -> Calls(run)]
      /\ Becomes(r, call[r].index, call[r].uses, "wait", shared.bdChan, call[r].fetch, call[r].on)
  BY <1>1, Bounds, RealtimeBecomes
<1>3. /\ made' = made /\ made' \in [Runs -> Things]
      /\ shared' \in Fields(run) /\ shared'.realtimeFetcher = shared.realtimeFetcher
      /\ shared'.stopChan = shared.stopChan /\ shared'.bdChan = shared.bdChan
  BY <1>1, Bounds DEF MadeTyped, Fields
<1> USE DEF Becomes, Made
<1>4. Typed'
  <2>1. TypeOK'
    BY <1>1, <1>2, <1>3, Bounds, TypePartsAfter
  <2>2. Begun'
    BY <1>1, <1>2, <1>3, Bounds DEF IInv, Typed, Begun, IpcUpdatedAt, NoFetcherAt
  <2> QED BY <2>1, <2>2 DEF Typed
<1>5. ASSUME ~overlap' PROVE OneAtATime'
  <2>1. ~overlap
    BY <1>1, <1>5
  <2>2. r = Current
    BY <1>1, <2>1, AtWork
  <2>3. Current' = Current /\ Current \in {run - 1, run}
        /\ (Current = run - 1 <=> call[run].index \in IpcUpdatedAt)
    BY <1>1, <1>2, Bounds DEF Current, IpcUpdatedAt
  <2>4. InTurn' /\ FieldsCurrent' /\ NotClosedYet'
    BY <1>1, <1>2, <1>3, <2>1, <2>2, <2>3, Parts, Bounds
       DEF InTurn, IndexingAt, FieldsCurrent, IpcUpdatedAt, NoFetcherAt, NotClosedYet
  <2>5. OthersRetired' /\ OwnFields'
    BY <1>1, <1>2, <1>3, <2>1, <2>2, <2>3, Parts, Bounds
       DEF OthersRetired, Retired, Fetching, Begun, IpcUpdatedAt, NoFetcherAt, OwnFields
  <2>6. Ending'
    BY <1>1, <1>2, <1>3, <2>1, <2>2, <2>3, Parts, Bounds
       DEF Ending, OwnFields, FieldsCurrent, NotClosedYet, Fetching, IpcUpdatedAt
  <2> QED BY <1>1, <1>5, <2>1, Parts, <2>4, <2>5, <2>6 DEF OneAtATime
<1> QED BY <1>4, <1>5 DEF IInv, OneAtATime

\* Only the current call clears the field: its own fetcher was in it.
LEMMA RealtimeEndsKeeps ==
  ASSUME IInv, NEW r \in Runs, RealtimeEnds(r)
  PROVE  IInv'
<1>1. /\ call[r].realtime = "wait" /\ made[call[r].ch].bdClosed
      /\ shared' = [shared EXCEPT !.realtimeFetcher = Nil]
      /\ call' = [call EXCEPT ![r].realtime = "ended", ![r].ch = Nil]
      /\ UNCHANGED <<ipc, run, overlap, made, faults, panicked>>
  BY DEF RealtimeEnds, manager, world
<1>2. /\ call' \in [Runs -> Calls(run)]
      /\ Becomes(r, call[r].index, call[r].uses, "ended", Nil, call[r].fetch, call[r].on)
  BY <1>1, Bounds, RealtimeBecomes
<1>3. /\ made' = made /\ made' \in [Runs -> Things]
      /\ shared' \in Fields(run) /\ shared'.realtimeFetcher = Nil
      /\ shared'.stopChan = shared.stopChan /\ shared'.bdChan = shared.bdChan
  BY <1>1, Bounds DEF MadeTyped, Fields
<1> USE DEF Becomes, Made
<1>4. Typed'
  <2>1. TypeOK'
    BY <1>1, <1>2, <1>3, Bounds, TypePartsAfter
  <2>2. Begun'
    BY <1>1, <1>2, <1>3, Bounds DEF IInv, Typed, Begun, IpcUpdatedAt, NoFetcherAt
  <2> QED BY <2>1, <2>2 DEF Typed
<1>5. ASSUME ~overlap' PROVE OneAtATime'
  <2>1. ~overlap
    BY <1>1, <1>5
  <2>2. r = Current
    BY <1>1, <2>1, AtWork
  <2>3. Current' = Current /\ Current \in {run - 1, run}
        /\ (Current = run - 1 <=> call[run].index \in IpcUpdatedAt)
    BY <1>1, <1>2, Bounds DEF Current, IpcUpdatedAt
  <2>4. InTurn' /\ FieldsCurrent' /\ NotClosedYet'
    BY <1>1, <1>2, <1>3, <2>1, <2>2, <2>3, Parts, Bounds
       DEF InTurn, IndexingAt, FieldsCurrent, IpcUpdatedAt, NoFetcherAt, NotClosedYet
  <2>5. OthersRetired' /\ OwnFields'
    BY <1>1, <1>2, <1>3, <2>1, <2>2, <2>3, Parts, Bounds
       DEF OthersRetired, Retired, Fetching, Begun, IpcUpdatedAt, NoFetcherAt, OwnFields
  <2>6. Ending'
    BY <1>1, <1>2, <1>3, <2>1, <2>2, <2>3, Parts, Bounds
       DEF Ending, OwnFields, FieldsCurrent, NotClosedYet, Fetching, IpcUpdatedAt
  <2> QED BY <1>1, <1>5, <2>1, Parts, <2>4, <2>5, <2>6 DEF OneAtATime
<1> QED BY <1>4, <1>5 DEF IInv, OneAtATime

\* No part of the invariant is about subscriptions.
LEMMA SubscriptionLostKeeps ==
  ASSUME IInv, NEW r \in Runs, SubscriptionLost(r)
  PROVE  IInv'
<1>1. /\ made' = [made EXCEPT ![r].sub = "gone"] /\ faults' \in 0 .. MaxFaults
      /\ UNCHANGED <<ipc, run, overlap, shared, call, panicked>>
  BY Bounds, FaultsAssumption DEF SubscriptionLost, Fault, manager
<1>2. call' = call /\ call' \in [Runs -> Calls(run)]
  BY <1>1, Bounds DEF CallsTyped
<1>3. /\ made' \in [Runs -> Things]
      /\ Made(r, made[r].header, "gone", made[r].open, made[r].stopClosed, made[r].bdClosed)
  BY <1>1, Bounds, SubMade
<1> USE DEF Becomes, Made
<1>4. Typed'
  <2>1. TypeOK'
    BY <1>1, <1>2, <1>3, Bounds, TypePartsAfter
  <2>2. Begun'
    BY <1>1, <1>2, <1>3, Bounds DEF IInv, Typed, Begun, IpcUpdatedAt, NoFetcherAt
  <2> QED BY <2>1, <2>2 DEF Typed
<1>5. ASSUME ~overlap' PROVE OneAtATime'
  <2>1. ~overlap
    BY <1>1, <1>5
  <2>2. run \in Runs
    BY <1>1, <2>1, Bounds
  <2>3. Current' = Current /\ Current \in {run - 1, run}
        /\ (Current = run - 1 <=> call[run].index \in IpcUpdatedAt)
    BY <1>1, <1>2, <2>2, Bounds DEF Current, IpcUpdatedAt
  <2>4. InTurn' /\ FieldsCurrent' /\ NotClosedYet'
    BY <1>1, <1>2, <1>3, <2>1, <2>2, <2>3, Parts, Bounds
       DEF InTurn, IndexingAt, FieldsCurrent, IpcUpdatedAt, NoFetcherAt, NotClosedYet
  <2>5. OthersRetired' /\ OwnFields'
    BY <1>1, <1>2, <1>3, <2>1, <2>2, <2>3, Parts, Bounds
       DEF OthersRetired, Retired, Fetching, Begun, IpcUpdatedAt, NoFetcherAt, OwnFields
  <2>6. Ending'
    BY <1>1, <1>2, <1>3, <2>1, <2>2, <2>3, Parts, Bounds
       DEF Ending, OwnFields, FieldsCurrent, NotClosedYet, Fetching, IpcUpdatedAt
  <2> QED BY <1>1, <1>5, <2>1, Parts, <2>4, <2>5, <2>6 DEF OneAtATime
<1> QED BY <1>4, <1>5 DEF IInv, OneAtATime

\* Whoever wins while no call is in IpcUpdated or makes its fetcher finds the
\* last call past that: its goroutines stay the current ones.
LEMMA WinKeeps ==
  ASSUME IInv, Win
  PROVE  IInv'
<1> DEFINE r == run + 1
<1>1. /\ run < MaxRuns /\ ipc' \in Managers /\ run' = r /\ "check" \in Pcs
      /\ r \in Runs /\ overlap' \in BOOLEAN
      /\ Goto(r, "check")
      /\ ~overlap' => ~overlap /\ \A s \in Runs : call[s].index \notin IpcUpdatedAt \cup NoFetcherAt
      /\ UNCHANGED <<shared, made, faults, panicked>>
  BY Bounds, RunsAssumption DEF Win, Goto, Managers, Pcs, IpcUpdatedAt, world, Runs
<1>2. /\ call' \in [Runs -> Calls(run)]
      /\ Becomes(r, "check", call[r].uses, call[r].realtime, call[r].ch, call[r].fetch, call[r].on)
  BY <1>1, Bounds, GotoBecomes
<1>3. /\ made' = made /\ made' \in [Runs -> Things]
      /\ call' \in [Runs -> Calls(run')] /\ shared' \in Fields(run')
  <2>1. 0 .. run \subseteq 0 .. run'
    BY <1>1, Bounds
  <2>2. Calls(run) \subseteq Calls(run') /\ Fields(run) \subseteq Fields(run')
    BY <2>1, Zenon DEF Calls, Fields
  <2> QED BY <1>1, <1>2, <2>2, Bounds DEF MadeTyped
<1> USE DEF Becomes, Made
<1>4. Typed'
  <2>1. TypeOK'
    BY <1>1, <1>2, <1>3, Bounds, TypePartsAfter
  <2>2. Begun'
    BY <1>1, <1>2, <1>3, Bounds DEF IInv, Typed, Begun, IpcUpdatedAt, NoFetcherAt
  <2> QED BY <2>1, <2>2 DEF Typed
<1>5. ASSUME ~overlap' PROVE OneAtATime'
  <2>1. ~overlap
    BY <1>1, <1>5
  <2>2. /\ run' = run + 1 /\ run' \in Runs /\ call'[run'].index = "check"
        /\ call[run].index \in IndexingAt \ IpcUpdatedAt
    BY <1>1, <2>1, <1>2, <1>5, Parts, Bounds DEF Begun, CallsTyped, Calls, Pcs
  <2>a. run \in Int
    BY Bounds
  <2>3. Current' = run /\ Current = run /\ Current \in {run - 1, run}
        /\ (Current = run - 1 <=> call[run].index \in IpcUpdatedAt)
    BY <2>2, <2>a DEF Current, IpcUpdatedAt
  <2>4. InTurn' /\ FieldsCurrent' /\ NotClosedYet'
    BY <1>1, <1>2, <1>3, <2>1, <2>2, <2>3, Parts, Bounds
       DEF InTurn, IndexingAt, FieldsCurrent, IpcUpdatedAt, NoFetcherAt, NotClosedYet
  <2>5. OthersRetired' /\ OwnFields'
    BY <1>1, <1>2, <1>3, <2>1, <2>2, <2>3, Parts, Bounds
       DEF OthersRetired, Retired, Fetching, Begun, IpcUpdatedAt, NoFetcherAt, OwnFields
  <2>6. Ending'
    BY <1>1, <1>2, <1>3, <2>1, <2>2, <2>3, Parts, Bounds
       DEF Ending, OwnFields, FieldsCurrent, NotClosedYet, Fetching, IpcUpdatedAt
  <2> QED BY <1>1, <1>5, <2>1, Parts, <2>4, <2>5, <2>6 DEF OneAtATime
<1> QED BY <1>4, <1>5 DEF IInv, OneAtATime

\* FirstIndex, before its first step.
LEMMA InitHolds == Init => IInv
<1> SUFFICES ASSUME Init PROVE IInv
  OBVIOUS
<1> USE RunsAssumption, FaultsAssumption DEF Init, Runs, Nil
<1>1. TypeOK
  <2>1. run \in Runs /\ run = 1 /\ faults \in 0 .. MaxFaults
    OBVIOUS
  <2>b. ipc \in Managers
    BY DEF Managers
  <2>c. overlap \in BOOLEAN
    BY Zenon
  <2>a. shared \in Fields(run)
    BY <2>1 DEF Fields
  <2>2. made \in [Runs -> Things]
    BY DEF Things
  <2>3. call \in [Runs -> Calls(run)]
    BY <2>1 DEF Calls, Pcs, IpcUpdatedAt
  <2>4. panicked = "no"
    OBVIOUS
  <2> HIDE DEF Init, Runs
  <2> QED BY <2>1, <2>a, <2>b, <2>c, <2>2, <2>3, <2>4, TypeParts DEF CallsTyped, MadeTyped
<1>2. Begun
  BY DEF Begun, IpcUpdatedAt, NoFetcherAt
<1>3. OneAtATime
  BY DEF OneAtATime, InTurn, OthersRetired, Retired, OwnFields, FieldsCurrent, NotClosedYet, Ending,
     Current, Fetching, IpcUpdatedAt, NoFetcherAt, IndexingAt
<1> QED BY <1>1, <1>2, <1>3 DEF IInv, Typed

\* Every step keeps the invariant.
LEMMA NextKeeps == IInv /\ [Next]_vars => IInv'
<1> SUFFICES ASSUME IInv, [Next]_vars PROVE IInv'
  OBVIOUS
<1>1. CASE UNCHANGED vars
  BY <1>1, Bounds, ManagerKeeps DEF vars, manager, world
<1>2. CASE Add \/ TurnedAway \/ ServerDialFails
  <2>1. CASE Add
    <3>1. ipc' \in Managers
      <4>1. /\ ipc' = [ipc EXCEPT !.adding = @ - 1, !.counter = @ + 1, !.loading = @ + 1]
            /\ ipc \in Managers /\ ipc.adding > 0
        BY <2>1, Bounds DEF Add
      <4>2. ipc.adding - 1 \in Nat /\ ipc.counter + 1 \in Nat /\ ipc.loading + 1 \in Nat
        BY <4>1 DEF Managers
      <4> QED BY <4>1, <4>2 DEF Managers
    <3> QED BY <2>1, <3>1, Bounds, ManagerKeeps DEF Add, world
  <2>2. CASE TurnedAway
    BY <2>2, Bounds, ManagerKeeps DEF TurnedAway, world, Managers
  <2>3. CASE ServerDialFails
    BY <2>3, Bounds, FaultsAssumption, ManagerKeeps DEF ServerDialFails, SwitchIPC, Fault, Managers
  <2> QED BY <1>2, <2>1, <2>2, <2>3
<1>3. CASE Win
  BY <1>3, WinKeeps
<1>4. ASSUME NEW r \in Runs, Index(r) PROVE IInv'
  BY <1>4, CheckKeeps, CallKeeps, CloseStopKeeps, MakeStopKeeps, DialKeeps, FailedKeeps,
     LatestKeeps, AnsweredKeeps, LaterKeeps DEF Index
<1>5. ASSUME NEW r \in Runs, Wakes(r) PROVE IInv'
  BY <1>5, CloseHeaderKeeps, EnableKeeps DEF Wakes
<1>6. ASSUME NEW r \in Runs, BatchFails(r) PROVE IInv'
  <2>1. ipc' \in Managers /\ faults' \in 0 .. MaxFaults
    BY <1>6, Bounds, FaultsAssumption DEF BatchFails, SwitchIPC, Fault, Managers
  <2> QED BY <1>6, <2>1, ManagerKeeps DEF BatchFails, SwitchIPC, Fault
<1>7. ASSUME NEW r \in Runs, OutOfDate(r) PROVE IInv'
  BY <1>7, LaterKeeps
<1>8. ASSUME NEW r \in Runs, Fetch(r) PROVE IInv'
  BY <1>8, FetchMakeKeeps, SubscribeKeeps, BlockChannelKeeps, SendKeeps DEF Fetch
<1>9. ASSUME NEW r \in Runs, Realtime(r) PROVE IInv'
  BY <1>9, StartRealtimeKeeps, ProcessKeeps, RealtimeEndsKeeps DEF Realtime
<1> QED
  BY <1>1, <1>2, <1>3, <1>4, <1>5, <1>6, <1>7, <1>8, <1>9, HeaderKeeps, SubscriptionLostKeeps DEF Next

\* The invariant holds always.
LEMMA Inductive == Spec => []IInv
BY InitHolds, NextKeeps, PTL DEF Spec

\* The fields, channels and goroutines have their types whichever switches
\* overlap: what a call uses was made by a call that has begun.
THEOREM TypeCorrect == Spec => []TypeOK
<1>1. IInv => TypeOK
  BY DEF IInv, Typed
<1> QED BY <1>1, Inductive, PTL

\* For any number of switches and failures: when a call of index() has enabled
\* the next switch, RealtimeFetch of every call before it has ended or never
\* began, unless switches overlapped.
THEOREM OldFetchIsOver == Spec => []OldFetchEnds
<1>1. IInv => OldFetchEnds
  <2> SUFFICES ASSUME IInv, ~overlap, NEW r \in Runs, NEW s \in 1 .. r - 1,
                      call[r].index \in NoFetcherAt \cup IndexingAt
               PROVE  call[s].fetch \in {"none", "ended"}
    BY DEF OldFetchEnds
  <2>1. s \in Runs /\ s < r /\ r \in Runs
    BY RunsAssumption DEF Runs
  <2>2. call[r].index # "none" /\ (r = run => call[run].index \notin IpcUpdatedAt)
    BY DEF NoFetcherAt, IndexingAt, IpcUpdatedAt
  <2>3. r =< run
    BY <2>2, Bounds, Parts DEF Begun
  <2>4. run \in Int /\ r \in Int /\ s \in Int
    BY <2>1, Bounds
  <2>5. s < Current
    BY <2>1, <2>2, <2>3, <2>4 DEF Current
  <2> QED BY <2>1, <2>5, Parts DEF OthersRetired, Retired, Fetching
<1> QED BY <1>1, Inductive, PTL

\* No channel is closed twice: neither the stop channel of a call nor the header
\* channel of a fetcher that was left in the field, unless switches overlapped.
THEOREM ChannelsClosedOnce == Spec => []ClosedOnce
<1>1. IInv => ClosedOnce
  BY Parts DEF ClosedOnce
<1> QED BY <1>1, Inductive, PTL
=============================================================================

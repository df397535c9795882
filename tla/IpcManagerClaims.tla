-------------------------- MODULE IpcManagerClaims --------------------------
(***************************************************************************)
(* What the comments and log lines of service/ipc_manager.go and           *)
(* http/server.go say of a switch, and the code does not do: each claim is *)
(* checked by a run that finds a behaviour against it.                     *)
(***************************************************************************)
EXTENDS IpcManager

\* ipc_manager.go:85 and :66: a caller that goes away because "Switching is in
\* progress" leaves the switch to another caller.
ProgressIsReal ==
  (\E c \in Callers : At(c, "done") /\ caller[c].won = 0 /\ caller[c].added = epoch) =>
    \E d \in Callers : caller[d].won # 0 \/ At(d, "load")

\* ipc_manager.go:85: while a switch is in progress no other caller starts one.
OneSwitchAtATime ==
  \A c, d \in Callers :
    At(c, "next") /\ caller[d].pc \in {"next", "tell", "enable"} => c = d

\* ipc_manager.go:80: a caller that changes the node informs all subscribers.
AllInformed ==
  \A c \in Callers : At(c, "next") ~> (At(c, "done") \/ panicked)

\* ipc_manager.go:29: whoever has called Subscribe is told of a switch.
AllSubscribed ==
  Started => \A s \in Names : \E i \in 1 .. Len(subscribers) : subscribers[i] = s

\* server.go:70: "update to new IPC successfully": the Server that was told of
\* the only switch so far serves from the new node.
ServerFollows ==
  \A c \in Callers :
    (/\ At(c, "done") /\ caller[c].won # 0
     /\ \A d \in Callers \ {c} : caller[d].won = 0
     /\ Started /\ \E i \in 1 .. Len(subscribers) : subscribers[i] = "Server"
     /\ server.subscribed = curIPC) => server.serving = curIPC
=============================================================================

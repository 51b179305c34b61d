---------------------------------- MODULE Hub ----------------------------------
(***************************************************************************)
(* The notification-gateway's switchboard (hub.go) and the WebSocket       *)
(* handlers it feeds (handleWS): the consumer loop broadcasts, each        *)
(* client's handler drains a bounded channel to its browser.  The mutex    *)
(* orders Register, Unregister and Broadcast; a handler receives from its  *)
(* channel without it, also in the middle of a broadcast.  Messages are    *)
(* numbered in the order of their Broadcast.                               *)
(***************************************************************************)
EXTENDS Integers, Sequences, FiniteSets, Functions

CONSTANTS
  Clients,     \* browsers; each connects once
  Buffer,      \* clientBuffer
  MaxMessages  \* bound: broadcasts in a behaviour

ASSUME HubAssumption ==
  /\ IsFiniteSet(Clients)
  /\ Buffer \in Nat \ {0}
  /\ MaxMessages \in Nat

VARIABLES
  broadcasts,  \* Broadcast calls begun
  casting,     \* the clients the broadcast in progress has yet to reach
  clients,     \* h.clients
  queue,       \* queue[c]: what is in c's channel
  dropped,     \* h.dropped
  handler,     \* handler[c]: where c's handler stands
  conn,        \* conn[c]: "open", "wedged" (nothing gets through) or "gone"
  joined,      \* joined[c]: the broadcasts begun before c registered
  writing,     \* writing[c]: the message c's handler is writing, or 0
  received     \* received[c]: the messages c's browser got

hubVars == <<broadcasts, casting, clients, queue, dropped, joined>>
vars == <<hubVars, handler, conn, writing, received>>

Messages == 1..MaxMessages

\* Broadcast holds the mutex while there are clients to reach; Register and
\* Unregister hold it for their one step.
Locked == casting # {}

\* Unregister closes a client's channel.
Closed == {c \in Clients : handler[c] = "gone"}

Init ==
  /\ broadcasts = 0
  /\ casting = {}
  /\ clients = {}
  /\ queue = [c \in Clients |-> <<>>]
  /\ dropped = 0
  /\ handler = [c \in Clients |-> "none"]
  /\ conn = [c \in Clients |-> "open"]
  /\ joined = [c \in Clients |-> 0]
  /\ writing = [c \in Clients |-> 0]
  /\ received = [c \in Clients |-> <<>>]

Goto(c, step) == handler' = [handler EXCEPT ![c] = step]

(***************************************************************************)
(* The hub                                                                 *)
(***************************************************************************)
Register(c) ==
  /\ handler[c] = "none"
  /\ ~Locked
  /\ clients' = clients \cup {c}
  /\ joined' = [joined EXCEPT ![c] = broadcasts]
  /\ Goto(c, "select")
  /\ UNCHANGED <<broadcasts, casting, queue, dropped, conn, writing, received>>

UnregisterUnlocked(c) ==                \* variant: without the mutex
  /\ handler[c] = "return"
  /\ clients' = clients \ {c}
  /\ Goto(c, "gone")
  /\ UNCHANGED <<broadcasts, casting, queue, dropped, joined, conn, writing, received>>

\* The handler's deferred call.
Unregister(c) ==
  /\ handler[c] = "return"
  /\ ~Locked
  /\ clients' = clients \ {c}
  /\ Goto(c, "gone")
  /\ UNCHANGED <<broadcasts, casting, queue, dropped, joined, conn, writing, received>>

Broadcast ==
  /\ broadcasts < MaxMessages
  /\ ~Locked
  /\ broadcasts' = broadcasts + 1
  /\ casting' = clients
  /\ UNCHANGED <<clients, queue, dropped, joined, handler, conn, writing, received>>

SendAnyway(c) ==                        \* variant: a queue without a limit
  /\ queue' = [queue EXCEPT ![c] = Append(@, broadcasts)]
  /\ UNCHANGED dropped

SendBlocks(c) ==                        \* variant: waits for room
  /\ Len(queue[c]) < Buffer
  /\ queue' = [queue EXCEPT ![c] = Append(@, broadcasts)]
  /\ UNCHANGED dropped

DropOldest(c) ==                        \* variant: makes room instead
  /\ queue' = [queue EXCEPT ![c] =
                 Append(IF Len(@) < Buffer THEN @ ELSE Tail(@), broadcasts)]
  /\ UNCHANGED dropped

\* select with a default: sent if there is room, counted if there is not.
SendOrDrop(c) ==
  IF Len(queue[c]) < Buffer
  THEN queue' = [queue EXCEPT ![c] = Append(@, broadcasts)] /\ UNCHANGED dropped
  ELSE dropped' = dropped + 1 /\ UNCHANGED queue

ReachTwice(c) ==                        \* variant: a list with a client in it twice
  /\ c \in casting
  /\ casting' = casting \ {c} \/ UNCHANGED casting
  /\ SendOrDrop(c)
  /\ UNCHANGED <<broadcasts, clients, joined, handler, conn, writing, received>>

\* The map yields the clients in no particular order.
Reach(c) ==
  /\ c \in casting
  /\ casting' = casting \ {c}
  /\ SendOrDrop(c)
  /\ UNCHANGED <<broadcasts, clients, joined, handler, conn, writing, received>>

(***************************************************************************)
(* A client's handler                                                      *)
(***************************************************************************)

\* The browser goes away, or stops reading without a word.
ConnectionFails(c) ==
  /\ conn[c] = "open"
  /\ conn' = [conn EXCEPT ![c] = "gone"] \/ conn' = [conn EXCEPT ![c] = "wedged"]
  /\ UNCHANGED <<hubVars, handler, writing, received>>

\* The network gives a silent connection up.
ConnectionReset(c) ==
  /\ conn[c] = "wedged"
  /\ conn' = [conn EXCEPT ![c] = "gone"]
  /\ UNCHANGED <<hubVars, handler, writing, received>>

\* select: a message, also when the client has gone as well ...
Receive(c) ==
  /\ handler[c] = "select"
  /\ queue[c] # <<>>
  /\ writing' = [writing EXCEPT ![c] = Head(queue[c])]
  /\ queue' = [queue EXCEPT ![c] = Tail(@)]
  /\ Goto(c, "write")
  /\ UNCHANGED <<broadcasts, casting, clients, dropped, joined, conn, received>>

\* ... or the context that CloseRead cancels when the client goes.
SeeGone(c) ==
  /\ handler[c] = "select"
  /\ conn[c] = "gone"
  /\ Goto(c, "return")
  /\ UNCHANGED <<hubVars, conn, writing, received>>

WriteDone(c) ==
  /\ handler[c] = "write"
  /\ conn[c] = "open"
  /\ received' = [received EXCEPT ![c] = Append(@, writing[c])]
  /\ writing' = [writing EXCEPT ![c] = 0]
  /\ Goto(c, "select")
  /\ UNCHANGED <<hubVars, conn>>

WriteFailNoDeadline(c) ==               \* variant: only a closed connection fails a write
  /\ handler[c] = "write"
  /\ conn[c] = "gone"
  /\ Goto(c, "return")
  /\ UNCHANGED <<hubVars, conn, writing, received>>

\* The five seconds are over, or the client has gone.
WriteFail(c) ==
  /\ handler[c] = "write"
  /\ conn[c] # "open"
  /\ Goto(c, "return")
  /\ UNCHANGED <<hubVars, conn, writing, received>>

Handler(c) ==
  \/ Register(c) \/ Unregister(c)
  \/ Receive(c) \/ SeeGone(c) \/ WriteDone(c) \/ WriteFail(c)

Next ==
  \/ Broadcast
  \/ \E c \in Clients :
       Reach(c) \/ Handler(c) \/ ConnectionFails(c) \/ ConnectionReset(c)

Spec == Init /\ [][Next]_vars

\* Goroutines are scheduled, and a handler waiting for the mutex gets it in
\* time.  Nothing makes a wedged connection ever come to an end by itself, and
\* nothing makes messages come.
Fairness ==
  \A c \in Clients :
       /\ WF_vars(Reach(c))
       /\ SF_vars(Unregister(c))
       /\ WF_vars(Receive(c)) /\ WF_vars(SeeGone(c))
       /\ WF_vars(WriteDone(c)) /\ WF_vars(WriteFail(c))

FairSpec == Spec /\ Fairness

(***************************************************************************)
(* Properties                                                              *)
(***************************************************************************)
TypeOK ==
  /\ broadcasts \in 0..MaxMessages /\ dropped \in Nat
  /\ casting \subseteq Clients /\ clients \subseteq Clients
  /\ \A c \in Clients : queue[c] \in Seq(Messages) /\ Len(queue[c]) <= Buffer
  /\ handler \in [Clients -> {"none", "select", "write", "return", "gone"}]
  /\ conn \in [Clients -> {"open", "wedged", "gone"}]
  /\ joined \in [Clients -> 0..MaxMessages]
  /\ writing \in [Clients -> 0..MaxMessages]
  /\ \A c \in Clients : received[c] \in Seq(Messages)

\* Broadcast never sends on a closed channel, which would panic ("that ordering
\* is what makes closing safe at all", hub.go).
NoSendOnClosed == casting \cap Closed = {}

\* What a client gets and has yet to get, in order.
Stream(c) == received[c] \o (IF writing[c] = 0 THEN <<>> ELSE <<writing[c]>>) \o queue[c]

\* Each client sees the messages in the order of their broadcasts, each once.
InOrder ==
  \A c \in Clients : \A i, j \in DOMAIN Stream(c) : i < j => Stream(c)[i] < Stream(c)[j]

\* A client misses nothing the hub did not count: the messages broadcast since
\* the clients registered that are not in their streams number at most
\* "dropped".
Missed(c) ==
  {m \in (joined[c] + 1)..broadcasts :
     m \notin Range(Stream(c)) /\ ~(m = broadcasts /\ c \in casting)}
MissesCounted ==
  Cardinality(UNION {{c} \X Missed(c) : c \in clients}) <= dropped

\* "One slow client must never stall the others" (hub.go): every broadcast ends,
\* though connections may hang for ever.
BroadcastEnds == Locked ~> ~Locked

\* "One wedged connection can't hold this goroutine hostage" (server.go): a
\* message taken for a wedged client ends its handler, and the hub forgets it.
WedgedLetGo ==
  \A c \in Clients : handler[c] = "write" /\ conn[c] = "wedged" ~> c \notin clients
=============================================================================

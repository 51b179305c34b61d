-------------------------------- MODULE Notifier --------------------------------
(***************************************************************************)
(* The process of the notification-gateway (notifier/main.go): kafkax.Run  *)
(* reads the aggregates and its handler broadcasts each through the Hub.   *)
(* Every host reads as a consumer group of its own, which starts at the    *)
(* end of the log (WithLatestStartOffset); here is one host.               *)
(*                                                                         *)
(* main waits for the HTTP server, for Run or for a signal, whichever      *)
(* comes first, and does not wait for the others: the process may end with *)
(* the loop at any step.  The hub and its clients end with the process.    *)
(***************************************************************************)
EXTENDS Hub

CONSTANTS
  Host,        \* the one member of the group
  Partitions,  \* of weather.aggregates
  Aggregates,  \* what a record of the topic may hold
  Valid,       \* the aggregates that pass Validate
  Route,       \* the partition of each
  None,        \* no consumer, no record
  MaxLog,      \* bound: records per partition
  MaxFaults    \* bound: rebalances, signals, kills and failed calls

ASSUME NotifierAssumption ==
  /\ None # Host
  /\ None \notin Partitions \X Nat
  /\ None \notin Nat
  /\ Valid \subseteq Aggregates
  /\ Route \in [Aggregates -> Partitions]
  /\ MaxLog \in Nat
  /\ MaxFaults \in Nat

VARIABLES
  log, committed, owner, position, pc, task, stopping, faults,  \* as in ConsumerGroup
  since,    \* since[p]: where the log ended when the host first joined for p, or None
  begun,    \* begun[p]: where it ended when the host last began there, not at an offset
  shown     \* the <<partition, offset>> the host has broadcast

Group == INSTANCE ConsumerGroup WITH Consumers <- {Host}, Messages <- Aggregates

groupVars == <<log, committed, owner, position, pc, task, stopping, faults>>
history == <<since, begun, shown>>
allVars == <<vars, groupVars, history>>

AllInit ==
  /\ Init
  /\ Group!GroupInit
  /\ since = [p \in Partitions |-> None]
  /\ begun = [p \in Partitions |-> 0]
  /\ shown = {}

Up == Group!Member(Host)

(***************************************************************************)
(* The consumer group                                                      *)
(***************************************************************************)

\* StartOffset is LastOffset: it decides for as long as nothing is committed.
StartFromFirst(p) == committed[p]       \* variant: FirstOffset
StartAlwaysLast(p) == Len(log[p])       \* variant: whatever is committed
StartFrom(p) == IF committed[p] = 0 THEN Len(log[p]) ELSE committed[p]

PassOver(p) ==
  /\ since' = [since EXCEPT ![p] = IF @ = None THEN Len(log[p]) ELSE @]
  /\ begun' = [begun EXCEPT ![p] = IF committed[p] = 0 THEN Len(log[p]) ELSE @]
  /\ UNCHANGED shown

Join(p) ==
  /\ \/ Group!AssignAt(p, Host, StartFrom(p))
     \/ Group!RebalanceAt(p, Host, StartFrom(p))
  /\ PassOver(p)
  /\ UNCHANGED vars

\* A container made anew has another hostname, so another group.
NewHost ==
  /\ ~Up
  /\ committed' = [p \in Partitions |-> 0]
  /\ since' = [p \in Partitions |-> None]
  /\ begun' = [p \in Partitions |-> 0]
  /\ shown' = {}
  /\ UNCHANGED <<vars, log, owner, position, pc, task, stopping, faults>>

(***************************************************************************)
(* The handler                                                             *)
(***************************************************************************)
HandlerUnchanged == UNCHANGED <<log, committed, owner, position, task, stopping, faults>>

HandOver ==
  /\ pc[Host] = "handle"
  /\ Broadcast
  /\ shown' = shown \cup {task[Host]}
  /\ Group!Goto(Host, "midway")
  /\ HandlerUnchanged
  /\ UNCHANGED <<since, begun>>

\* Broadcast has reached every client and returns.
HandlerReturns ==
  /\ pc[Host] = "midway"
  /\ ~Locked
  /\ Group!Goto(Host, "commit")
  /\ HandlerUnchanged
  /\ UNCHANGED <<vars, history>>

(***************************************************************************)
(* main                                                                    *)
(***************************************************************************)

\* The browsers lose their connections, and connect again.
HubEnds ==
  /\ broadcasts' = 0 /\ dropped' = 0 /\ casting' = {} /\ clients' = {}
  /\ handler' = [c \in Clients |-> "none"]
  /\ conn' = [c \in Clients |-> "open"]
  /\ queue' = [c \in Clients |-> <<>>] /\ received' = [c \in Clients |-> <<>>]
  /\ joined' = [c \in Clients |-> 0] /\ writing' = [c \in Clients |-> 0]

End(how) == Group!Leave(Host, how) /\ HubEnds /\ UNCHANGED <<log, committed, history>>

\* select: consumerErr, with an error or with the nil of a cancelled context ...
IgnoreConsumerError ==                  \* variant: select without consumerErr
  pc[Host] = "nil" /\ End("stopped") /\ UNCHANGED faults

ConsumerEnds ==
  /\ \/ pc[Host] = "nil" /\ End("stopped")
     \/ pc[Host] = "err" /\ End("failed")
  /\ UNCHANGED faults

\* ... ctx.Done(), upon which Shutdown does not wait for WebSockets ...
SignalEnds == Up /\ stopping[Host] /\ End("stopped") /\ UNCHANGED faults

\* ... httpErr; or the process is killed.
ServerFails == Up /\ Group!Fault /\ End("failed")
Kill        == Up /\ Group!Fault /\ End("killed")

Alone(step) == step /\ UNCHANGED <<vars, history>>
StartHost == Alone(Group!Start(Host))
Loop      == Alone(Group!LoopStep(Host) \/ Group!SkipPoison(Host))

Process ==
  \/ \E m \in Aggregates : Alone(Group!Produce(m))
  \/ StartHost \/ Alone(Group!Cancel(Host)) \/ Loop
  \/ \E p \in Partitions : Join(p)
  \/ NewHost \/ HandOver \/ HandlerReturns
  \/ ConsumerEnds \/ SignalEnds \/ ServerFails \/ Kill

Browser(c) == Up /\ (Reach(c) \/ Handler(c) \/ ConnectionFails(c) \/ ConnectionReset(c))

AllNext ==
  \/ Process
  \/ (\E c \in Clients : Browser(c)) /\ UNCHANGED <<groupVars, history>>

AllSpec == AllInit /\ [][AllNext]_allVars

\* As for the loop in other services, and for the hub by itself; main's select is
\* scheduled too.
AllFairness ==
  /\ Fairness
  /\ WF_allVars(StartHost) /\ WF_allVars(Loop)
  /\ \A p \in Partitions : WF_allVars(Join(p))
  /\ WF_allVars(HandOver) /\ WF_allVars(HandlerReturns)
  /\ WF_allVars(ConsumerEnds) /\ WF_allVars(SignalEnds)

FairAllSpec == AllSpec /\ AllFairness

(***************************************************************************)
(* Properties                                                              *)
(***************************************************************************)

\* A new host shows nothing older than itself ("a fresh instance must not replay
\* an hour of stale aggregates", notifier/main.go), however it joins its group
\* and whatever becomes of its commits.
LiveOnly == \A r \in shown : since[r[1]] # None /\ r[2] > since[r[1]]

\* The records a host has passed, or its group has committed, are those it will not
\* read again.
Passed(p) ==
  {o \in DOMAIN log[p] : o <= committed[p] \/ (owner[p] = Host /\ o <= position[p])}

ShownOrInHand(p, o) == log[p][o] \in Valid => <<p, o>> \in shown \cup {task[Host]}

\* A host shows the whole stream from its first join on ("notification replicas each
\* need the WHOLE aggregate stream", notifier/main.go; "crash in between and the
\* message is redelivered on restart", consumer.go).  It does not: until the first
\* commit every join begins at the end of the log anew, also that of a host which
\* was restarted or rebalanced with records still to show.
WholeStream ==
  \A p \in Partitions : since[p] # None =>
    \A o \in Passed(p) : o > since[p] => ShownOrInHand(p, o)

\* What does hold: nothing is missed but what lies before the latest such beginning.
\* Once a group has an offset, restarts, rebalances, failed commits and commits for
\* a partition that was taken away leave no gap in what the host shows after it.
NoGapOnceBegun ==
  \A p \in Partitions : \A o \in Passed(p) : o > begun[p] => ShownOrInHand(p, o)

\* A consumer that fails ends the process, so that it is restarted: the open
\* WebSockets do not keep a gateway alive that reads nothing ("consumer stopped").
ConsumerErrorEnds == pc[Host] = "err" ~> ~Up
=============================================================================

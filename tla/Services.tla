-------------------------------- MODULE Services --------------------------------
(***************************************************************************)
(* The life of the six services' processes, from start to exit: what run() *)
(* does in each main.go before and after the loop that other modules show. *)
(* Any number of them boot at a time, against one broker and one database: *)
(* each makes what it needs if it is missing (EnsureTopic, EnsureSchema)   *)
(* and ends at once when a call fails, to be restarted by its container.   *)
(* The HTTP services serve until ListenAndServe fails or a signal comes,   *)
(* and then drain their requests within a deadline.                        *)
(***************************************************************************)
EXTENDS Integers, Sequences

CONSTANTS
  Processes,  \* the containers
  Program,    \* the service each of them runs
  Requests,   \* the requests an HTTP service handles at a time
  MaxFaults   \* bound: signals, kills and failed calls in a behaviour

Programs == {"gateway", "telemetry", "simulator", "ingestion", "aggregator", "notifier"}

ASSUME ServicesAssumption ==
  /\ Program \in [Processes -> Programs]
  /\ MaxFaults \in Nat

VARIABLES
  topics,    \* topics[t]: the partitions of topic t, 0 before it is created
  table,     \* the readings table exists
  at,        \* at[i]: where run() stands, or how the process ended
  step,      \* step[i]: the call of the boot that comes next
  found,     \* found[i]: what CREATE TABLE IF NOT EXISTS found, while it executes
  stopping,  \* stopping[i]: the context of signal.NotifyContext is cancelled
  server,    \* server[i]: where the goroutine of ListenAndServe stands
  errCh,     \* errCh[i]: what it has left in its buffered channel
  inFlight,  \* inFlight[i]: the requests it has accepted and not yet answered
  faults     \* faults spent

broker == <<topics, table>>
http == <<server, errCh, inFlight>>
vars == <<broker, at, step, found, stopping, http, faults>>

(***************************************************************************)
(* What each program calls, in order, before its loop; and the topics it   *)
(* reads and writes.                                                       *)
(***************************************************************************)
Sizing == [readings |-> 6, clean |-> 6, deadletters |-> 1, aggregates |-> 3]
Topics == DOMAIN Sizing

PlanOfProducers ==                      \* variant: a topic is left to those who write to it
  [gateway    |-> <<"redis">>,
   telemetry  |-> <<>>,
   simulator  |-> <<"redis", "readings">>,
   ingestion  |-> <<"postgres", "schema", "clean", "deadletters">>,
   aggregator |-> <<"aggregates">>,
   notifier   |-> <<>>]

Plan ==
  [gateway    |-> <<"redis">>,
   telemetry  |-> <<>>,
   simulator  |-> <<"redis", "readings">>,
   ingestion  |-> <<"postgres", "schema", "readings", "clean", "deadletters">>,
   aggregator |-> <<"clean", "aggregates">>,
   notifier   |-> <<"aggregates">>]

Touches ==
  [gateway    |-> {},
   telemetry  |-> {},
   simulator  |-> {"readings"},
   ingestion  |-> {"readings", "clean", "deadletters"},
   aggregator |-> {"clean", "aggregates"},
   notifier   |-> {"aggregates"}]

Serves(i) == Program[i] \in {"gateway", "telemetry", "notifier"}

Ended == {"stopped", "failed", "killed"}
Alive(i) == at[i] \notin Ended
Ready(i) == Alive(i) /\ at[i] \notin {"boot", "schema"}

Init ==
  /\ topics = [t \in Topics |-> 0]
  /\ table = FALSE
  /\ at = [i \in Processes |-> "stopped"]
  /\ step = [i \in Processes |-> 0]
  /\ found = [i \in Processes |-> FALSE]
  /\ stopping = [i \in Processes |-> FALSE]
  /\ server = [i \in Processes |-> "none"]
  /\ errCh = [i \in Processes |-> "empty"]
  /\ inFlight = [i \in Processes |-> {}]
  /\ faults = 0

Fault == faults < MaxFaults /\ faults' = faults + 1

\* A call fails by itself, or because the context is cancelled.
Failing(i) ==
  \/ stopping[i] /\ UNCHANGED faults
  \/ ~stopping[i] /\ Fault

Goto(i, place) == at' = [at EXCEPT ![i] = place]

\* run() returns, with an error or without, and its deferred calls are made; or
\* the process is killed.
End(i, how) ==
  /\ Goto(i, how)
  /\ step' = [step EXCEPT ![i] = 0]
  /\ found' = [found EXCEPT ![i] = FALSE]
  /\ stopping' = [stopping EXCEPT ![i] = FALSE]
  /\ server' = [server EXCEPT ![i] = "none"]
  /\ errCh' = [errCh EXCEPT ![i] = "empty"]
  /\ inFlight' = [inFlight EXCEPT ![i] = {}]

(***************************************************************************)
(* The boot                                                                *)
(***************************************************************************)

\* The n-th call comes next; after the last, the loop or the server starts.
Enter(i, n) ==
  LET booting == n <= Len(Plan[Program[i]]) IN
  /\ Goto(i, IF booting THEN "boot" ELSE "up")
  /\ step' = [step EXCEPT ![i] = n]
  /\ server' = [server EXCEPT ![i] = IF Serves(i) /\ ~booting THEN "starting" ELSE @]
  /\ UNCHANGED <<stopping, errCh, inFlight>>

Calls(i, names) == at[i] = "boot" /\ Plan[Program[i]][step[i]] \in names
Called(i) == Plan[Program[i]][step[i]]

Start(i) ==
  /\ at[i] \in Ended
  /\ Enter(i, 1)
  /\ UNCHANGED <<broker, found, faults>>

Ping(i) ==
  /\ Calls(i, {"redis", "postgres"})
  /\ Enter(i, step[i] + 1)
  /\ UNCHANGED <<broker, found, faults>>

\* The broker creates a topic to its specification, or says that it exists.
CreateDefault(t) == topics' = [topics EXCEPT ![t] = 1]   \* variant: the broker's default
CreateOnce(t) == topics[t] = 0 /\ topics' = [topics EXCEPT ![t] = Sizing[t]]
                                        \* variant: TopicAlreadyExists is an error
Create(t) == topics' = [topics EXCEPT ![t] = IF @ = 0 THEN Sizing[t] ELSE @]

EnsureTopic(i) ==
  /\ Calls(i, Topics)
  /\ Create(Called(i))
  /\ Enter(i, step[i] + 1)
  /\ UNCHANGED <<table, found, faults>>

\* EnsureSchema executes: the table is looked up, then created and committed.  Of
\* two replicas that both find it missing, the second violates the catalogue's
\* uniqueness.
EnsureSchema(i) ==
  /\ Calls(i, {"schema"})
  /\ Goto(i, "schema")
  /\ found' = [found EXCEPT ![i] = table]
  /\ UNCHANGED <<broker, step, stopping, http, faults>>

SchemaDone(i) ==
  /\ at[i] = "schema"
  /\ found[i] = table
  /\ table' = TRUE
  /\ found' = [found EXCEPT ![i] = FALSE]
  /\ Enter(i, step[i] + 1)
  /\ UNCHANGED <<topics, faults>>

SchemaRaceLost(i) ==
  /\ at[i] = "schema"
  /\ found[i] # table
  /\ End(i, "failed")
  /\ UNCHANGED <<broker, faults>>

\* A dependency is down or too slow.  The broker may have created the topic.
BootFail(i) ==
  /\ at[i] \in {"boot", "schema"}
  /\ Failing(i)
  /\ UNCHANGED topics \/ (Calls(i, Topics) /\ Create(Called(i)))
  /\ End(i, "failed")
  /\ UNCHANGED table

Boot(i) == Ping(i) \/ EnsureTopic(i) \/ EnsureSchema(i) \/ SchemaDone(i) \/ SchemaRaceLost(i)

(***************************************************************************)
(* Signals and the loops                                                   *)
(***************************************************************************)

\* The gateway asks for the signal only after its PING: until then it is deadly.
Signal(i) ==
  /\ Alive(i)
  /\ ~stopping[i]
  /\ Fault
  /\ IF Program[i] = "gateway" /\ at[i] = "boot"
     THEN End(i, "killed")
     ELSE stopping' = [stopping EXCEPT ![i] = TRUE] /\ UNCHANGED <<at, step, found, http>>
  /\ UNCHANGED broker

Kill(i) == Alive(i) /\ Fault /\ End(i, "killed") /\ UNCHANGED broker

\* A consumer loop or the manager returns on the signal: nil, or the error of the
\* call that the cancelled context made fail.
LoopReturns(i) ==
  /\ ~Serves(i)
  /\ at[i] \in {"up", "waiting"}
  /\ stopping[i]
  /\ End(i, "stopped") \/ End(i, "failed")
  /\ UNCHANGED <<broker, faults>>

\* kafkax.Run returns an error by itself.  The aggregator then waits for its
\* flusher, which waits for a signal.
LoopFails(i) ==
  /\ Program[i] \in {"ingestion", "aggregator", "notifier"}
  /\ at[i] = "up"
  /\ Fault
  /\ IF Program[i] = "aggregator"
     THEN Goto(i, "waiting") /\ UNCHANGED <<step, found, stopping, http>>
     ELSE End(i, "failed")
  /\ UNCHANGED broker

(***************************************************************************)
(* The HTTP services                                                       *)
(***************************************************************************)
Unmoved == UNCHANGED <<broker, step, found, stopping>>

ServerReturns(i, result) ==
  /\ server' = [server EXCEPT ![i] = "returned"]
  /\ errCh' = [errCh EXCEPT ![i] = result]
  /\ UNCHANGED <<at, inFlight>>

Listen(i) ==
  /\ server[i] = "starting"
  /\ at[i] = "up"
  /\ server' = [server EXCEPT ![i] = "listening"]
  /\ Unmoved /\ UNCHANGED <<at, errCh, inFlight, faults>>

\* The port is in use, or Accept fails.
ServerFails(i) ==
  /\ server[i] \in {"starting", "listening"}
  /\ Fault
  /\ ServerReturns(i, "failed")
  /\ Unmoved

\* Once Shutdown is called ListenAndServe returns ErrServerClosed, also if it is
\* called after that.
ServerClosed(i) ==
  /\ server[i] \in {"starting", "listening"}
  /\ at[i] \in {"drain", "receive"}
  /\ ServerReturns(i, "closed")
  /\ Unmoved /\ UNCHANGED faults

Requested(i, requests) ==
  /\ inFlight' = [inFlight EXCEPT ![i] = requests]
  /\ Unmoved /\ UNCHANGED <<at, server, errCh, faults>>

Accept(i, r) ==
  /\ at[i] = "up" /\ server[i] = "listening" /\ r \notin inFlight[i]
  /\ Requested(i, inFlight[i] \cup {r})

\* The handler returns and its connection is idle again, if it ever does.
Answer(i, r) == r \in inFlight[i] /\ Requested(i, inFlight[i] \ {r})

\* select: the server's error ...
ServerEnds(i) ==
  /\ at[i] = "up"
  /\ errCh[i] # "empty"
  /\ End(i, "failed")
  /\ UNCHANGED <<broker, faults>>

\* ... or the signal, upon which Shutdown closes the listener and waits for the
\* requests in flight.
Shutdown(i) ==
  /\ Serves(i)
  /\ at[i] = "up"
  /\ stopping[i]
  /\ Goto(i, "drain")
  /\ Unmoved /\ UNCHANGED <<http, faults>>

Drained(i) ==
  /\ at[i] = "drain"
  /\ inFlight[i] = {}
  /\ Goto(i, "receive")
  /\ Unmoved /\ UNCHANGED <<http, faults>>

\* The fresh ten seconds are over and run() returns Shutdown's error.  Which of the
\* requests are answered by then, the clock decides: some, none, or all of them,
\* when the last answer and the deadline come between two looks of Shutdown.
NoDeadline(i) == FALSE                       \* variant: Shutdown under context.Background()
DeadlineIgnored(i) ==                        \* variant: Shutdown's error is not returned
  at[i] = "drain" /\ Goto(i, "receive") /\ Unmoved /\ UNCHANGED <<http, faults>>
DeadlineOver(i) ==
  /\ at[i] = "drain"
  /\ End(i, "failed")
  /\ UNCHANGED <<broker, faults>>

\* What ListenAndServe returned; it may have failed before the signal was seen.
Receive(i) ==
  /\ at[i] = "receive"
  /\ errCh[i] # "empty"
  /\ End(i, IF errCh[i] = "closed" THEN "stopped" ELSE "failed")
  /\ UNCHANGED <<broker, faults>>

Serve(i) ==
  \/ Listen(i) \/ ServerClosed(i) \/ ServerEnds(i)
  \/ Shutdown(i) \/ Drained(i) \/ DeadlineOver(i) \/ Receive(i)

Runs(i) == Start(i) \/ Boot(i) \/ LoopReturns(i) \/ Serve(i)

Next ==
  \E i \in Processes :
    \/ Runs(i) \/ BootFail(i)
    \/ Signal(i) \/ Kill(i) \/ LoopFails(i) \/ ServerFails(i)
    \/ \E r \in Requests : Accept(i, r) \/ Answer(i, r)

Spec == Init /\ [][Next]_vars

\* Containers are restarted, and a process goes on as long as it can; the deadline of
\* a drain comes.  Nothing obliges a request to be answered.
Fairness == \A i \in Processes : WF_vars(Runs(i))

FairSpec == Spec /\ Fairness

(***************************************************************************)
(* Properties                                                              *)
(***************************************************************************)
TypeOK ==
  /\ topics \in [Topics -> Nat] /\ \A t \in Topics : topics[t] \in {0, Sizing[t]}
  /\ table \in BOOLEAN
  /\ at \in [Processes -> {"boot", "schema", "up", "waiting", "drain", "receive"} \cup Ended]
  /\ step \in [Processes -> Nat] /\ \A i \in Processes : step[i] \in 0..(Len(Plan[Program[i]]) + 1)
  /\ found \in [Processes -> BOOLEAN] /\ stopping \in [Processes -> BOOLEAN]
  /\ server \in [Processes -> {"none", "starting", "listening", "returned"}]
  /\ errCh \in [Processes -> {"empty", "closed", "failed"}]
  /\ inFlight \in [Processes -> SUBSET Requests]
  /\ faults \in 0..MaxFaults

\* Whoever comes first, and whatever failed on the way: a service that runs finds
\* every topic it reads or writes, with the partitions of its specification
\* ("every service that touches a topic ensures it at startup", topics.go).
TopicsReady ==
  \A i \in Processes : Ready(i) =>
    \A t \in Touches[Program[i]] : topics[t] = Sizing[t]

\* A process that ends without an error was told to; and if it serves HTTP, its server
\* closed for that reason and every request it had accepted is answered ("giving
\* in-flight requests up to 10s to finish", "shut down cleanly, as asked",
\* gateway/main.go): in whatever order the signal, a server that fails, the deadline
\* and the last answers come, no error is lost on the way out.
CleanExit ==
  [][\A i \in Processes : Alive(i) /\ at'[i] = "stopped" =>
       /\ stopping[i]
       /\ Serves(i) => errCh[i] = "closed" /\ inFlight[i] = {}]_vars

\* A signal and a server that fails each end the process, wherever they find it: in
\* its boot, before the server listens, beside each other, under a request that is
\* never answered ("Two things can end this service", gateway/main.go).
EndsWhenTold == \A i \in Processes : stopping[i] \/ errCh[i] = "failed" ~> ~Alive(i)

\* Once faults have ended every service comes up and stays up, though they race
\* for topics and table and are started in any order.
Boots == <>[](\A i \in Processes : at[i] \in {"up", "waiting"})
=============================================================================

-------------------------------- MODULE Fleet --------------------------------
(***************************************************************************)
(* The sensor-simulator beside the registry it follows: Manager.Run keeps  *)
(* one sensor goroutine per registered sensor by reconciling on a poll and *)
(* on the kicks that Watch makes of notifications.  List reads the index   *)
(* and then the hashes one by one, while requests go on.  On a signal the  *)
(* manager waits for every worker before main closes the producer.         *)
(***************************************************************************)
EXTENDS Registry

VARIABLES
  manager,   \* where Manager.Run stands, "closing" the producer, or "down"
  stopping,  \* the process's context is cancelled
  toFetch,   \* List: ids of the index whose hash has not been read yet
  desired,   \* List: the sensors read so far
  running,   \* the keys of m.running
  workers,   \* the goroutines started and not returned
  wg,        \* the counter of m.wg
  kick,      \* m.kick, a channel of capacity one
  watching   \* Watch has not returned

processVars == <<manager, stopping, toFetch, desired, running, workers, wg, kick, watching>>
vars == <<registryVars, processVars>>

Up == manager # "down"

\* The n-th goroutine started for a sensor; "on" until its own cancel is called.
Worker(id, n) == [sensor |-> id, n |-> n, on |-> TRUE, at |-> "new"]
Workers == [sensor : Ids, n : Nat \ {0}, on : BOOLEAN, at : {"new", "select", "publish"}]

\* A worker's context is a child of the process's.
OwnSwitchOnly(w) == ~w.on               \* variant: derived from context.Background()
Cancelled(w) == ~w.on \/ stopping

Init ==
  /\ RegistryInit
  /\ manager = "down"
  /\ stopping = FALSE
  /\ toFetch = {}
  /\ desired = {}
  /\ running = {}
  /\ workers = {}
  /\ wg = 0
  /\ kick = FALSE
  /\ watching = FALSE

(***************************************************************************)
(* The process                                                             *)
(***************************************************************************)

\* run(): Watch and Manager.Run start; Run reconciles at once.
Start ==
  /\ manager = "down"
  /\ manager' = "smembers"
  /\ watching' = TRUE
  /\ UNCHANGED <<registryVars, stopping, toFetch, desired, running, workers, wg, kick>>

Signal ==
  /\ Up
  /\ ~stopping
  /\ Fault("crash")
  /\ stopping' = TRUE
  /\ UNCHANGED <<registered, drawn, request, answers, note, subscribed,
                 manager, toFetch, desired, running, workers, wg, kick, watching>>

\* A Redis call fails by itself, or because the context is cancelled.
Failing ==
  \/ stopping /\ UNCHANGED faults
  \/ ~stopping /\ Fault("redis")

\* Goroutines, channels and the subscription end with the process.
Forget ==
  /\ manager' = "down"
  /\ stopping' = FALSE
  /\ toFetch' = {}
  /\ desired' = {}
  /\ running' = {}
  /\ workers' = {}
  /\ wg' = 0
  /\ kick' = FALSE
  /\ watching' = FALSE
  /\ note' = FALSE
  /\ subscribed' = FALSE
  /\ UNCHANGED <<registered, drawn, request, answers>>

Kill == Up /\ Fault("crash") /\ Forget

\* The deferred producer.Close has flushed; the process exits.
Exit == manager = "closing" /\ Forget /\ UNCHANGED faults

(***************************************************************************)
(* Watch                                                                   *)
(***************************************************************************)
WatchVars == <<manager, stopping, toFetch, desired, running, workers, wg>>
Redis == <<registered, drawn, request, answers>>

\* Also go-redis's re-subscription after a dropped connection.
Subscribe ==
  /\ watching
  /\ ~subscribed
  /\ subscribed' = TRUE
  /\ UNCHANGED <<Redis, note, faults, WatchVars, kick, watching>>

Disconnect ==
  /\ subscribed
  /\ Fault("redis")
  /\ subscribed' = FALSE
  /\ UNCHANGED <<Redis, note, WatchVars, kick, watching>>

\* Kick never blocks: a pending kick absorbs this one.
HandleNote ==
  /\ watching
  /\ note
  /\ note' = FALSE
  /\ kick' = TRUE
  /\ UNCHANGED <<Redis, subscribed, faults, WatchVars, watching>>

\* On ctx.Done(), or because the channel closed; the process goes on without it.
WatchReturn ==
  /\ watching
  /\ Failing
  /\ watching' = FALSE
  /\ subscribed' = FALSE
  /\ note' = FALSE
  /\ UNCHANGED <<Redis, WatchVars, kick>>

(***************************************************************************)
(* Manager.Run                                                             *)
(***************************************************************************)
ManagerUnchanged == UNCHANGED <<registryVars, stopping, watching>>

\* select: the ticker ...
NeverPoll ==                            \* variant: kicks only
  /\ FALSE
  /\ UNCHANGED vars

Poll ==
  /\ manager = "select"
  /\ manager' = "smembers"
  /\ ManagerUnchanged
  /\ UNCHANGED <<toFetch, desired, running, workers, wg, kick>>

\* ... the kick ...
TakeKick ==
  /\ manager = "select"
  /\ kick
  /\ kick' = FALSE
  /\ manager' = "smembers"
  /\ ManagerUnchanged
  /\ UNCHANGED <<toFetch, desired, running, workers, wg>>

\* ... or ctx.Done().
Done ==
  /\ manager = "select"
  /\ stopping
  /\ manager' = "wait"
  /\ ManagerUnchanged
  /\ UNCHANGED <<toFetch, desired, running, workers, wg, kick>>

\* m.wg.Wait() returns, Run returns, and main closes the producer.
WaitReturns ==
  /\ manager = "wait"
  /\ wg = 0
  /\ manager' = "closing"
  /\ ManagerUnchanged
  /\ UNCHANGED <<toFetch, desired, running, workers, wg, kick>>

\* List: SMEMBERS ...
ListIds ==
  /\ manager = "smembers"
  /\ toFetch' = registered
  /\ desired' = {}
  /\ manager' = "hgetall"
  /\ ManagerUnchanged
  /\ UNCHANGED <<running, workers, wg, kick>>

\* ... an HGETALL per id; a hash that is gone by now is skipped ...
FetchSensor(id) ==
  /\ manager = "hgetall"
  /\ id \in toFetch
  /\ toFetch' = toFetch \ {id}
  /\ desired' = desired \cup ({id} \cap registered)
  /\ ManagerUnchanged
  /\ UNCHANGED <<manager, running, workers, wg, kick>>

ListFailStopsAll ==                     \* variant: an error read as an empty registry
  /\ manager \in {"smembers", "hgetall"}
  /\ Failing
  /\ manager' = "hgetall"
  /\ toFetch' = {}
  /\ desired' = {}
  /\ UNCHANGED <<Redis, note, subscribed, stopping, running, workers, wg, kick, watching>>

\* ... or an error, upon which the fleet is kept as it is.
ListFail ==
  /\ manager \in {"smembers", "hgetall"}
  /\ Failing
  /\ manager' = "select"
  /\ toFetch' = {}
  /\ desired' = {}
  /\ UNCHANGED <<Redis, note, subscribed, stopping, running, workers, wg, kick, watching>>

StartAll == desired                     \* variant: whether or not it is running
ToStart == desired \ running
ToStop  == running \ desired

Started(id) == Worker(id, 1 + Cardinality({w \in workers : w.sensor = id}))

CountNone(n) == UNCHANGED wg            \* variant: no wg.Add before the goroutine starts
CountUp(n) == wg' = wg + n

\* The diff of reconcile: start what is missing, cancel what is gone.
Diff ==
  /\ manager = "hgetall"
  /\ toFetch = {}
  /\ running' = (running \cup ToStart) \ ToStop
  /\ workers' = {[w EXCEPT !.on = @ /\ w.sensor \notin ToStop] : w \in workers}
                \cup {Started(id) : id \in ToStart}
  /\ CountUp(Cardinality(ToStart))
  /\ desired' = {}
  /\ manager' = "select"
  /\ ManagerUnchanged
  /\ UNCHANGED <<toFetch, kick>>

(***************************************************************************)
(* Sensor.Run, one goroutine per sensor                                    *)
(***************************************************************************)
WorkerUnchanged ==
  UNCHANGED <<registryVars, manager, stopping, toFetch, desired, running, kick, watching>>

Moves(w, step) ==
  /\ workers' = (workers \ {w}) \cup {[w EXCEPT !.at = step]}
  /\ UNCHANGED wg
  /\ WorkerUnchanged

ReturnsUncounted(w) ==                  \* variant: a path without wg.Done
  /\ workers' = workers \ {w}
  /\ UNCHANGED wg
  /\ WorkerUnchanged

Returns(w) ==
  /\ workers' = workers \ {w}
  /\ wg' = wg - 1
  /\ WorkerUnchanged

Begin(w) == w.at = "new" /\ Moves(w, "select")

\* The ticker fires, also when the context is cancelled as well.
Emit(w) == w.at = "select" /\ Moves(w, "publish")

\* A publish that fails is logged: the sensor goes on either way ...
PublishReturns(w) == w.at = "publish" /\ Moves(w, "select")

\* ... unless the context made it fail.
PublishCancelled(w) == w.at = "publish" /\ Cancelled(w) /\ Returns(w)

SelectDone(w) == w.at = "select" /\ Cancelled(w) /\ Returns(w)

Sensor(w) ==
  \/ Begin(w) \/ Emit(w) \/ PublishReturns(w) \/ PublishCancelled(w) \/ SelectDone(w)

Simulator ==
  \/ Start \/ Signal \/ Kill \/ Exit
  \/ Subscribe \/ Disconnect \/ HandleNote \/ WatchReturn
  \/ Poll \/ TakeKick \/ Done \/ WaitReturns
  \/ ListIds \/ ListFail \/ Diff
  \/ \E id \in Ids : FetchSensor(id)
  \/ \E w \in workers : Sensor(w)

Next ==
  \/ (Gateway \/ RedisDies) /\ UNCHANGED processVars
  \/ Simulator

Spec == Init /\ [][Next]_vars

\* The container is restarted, the ticker ticks, goroutines are scheduled; and a
\* select that finds several cases ready takes each of them now and then.
Fairness ==
  /\ WF_vars(Start) /\ WF_vars(Exit)
  /\ WF_vars(Poll) /\ SF_vars(Done) /\ WF_vars(WaitReturns)
  /\ WF_vars(ListIds) /\ WF_vars(Diff)
  /\ WF_vars(\E id \in Ids : FetchSensor(id))
  /\ \A id \in Ids :
       LET of == {w \in workers : w.sensor = id} IN
       /\ WF_vars(\E w \in of : Begin(w))
       /\ WF_vars(\E w \in of : PublishReturns(w))
       /\ SF_vars(\E w \in of : SelectDone(w))

FairSpec == Spec /\ Fairness

(***************************************************************************)
(* Properties                                                              *)
(***************************************************************************)
TypeOK ==
  /\ RegistryTypeOK
  /\ manager \in {"down", "smembers", "hgetall", "select", "wait", "closing"}
  /\ stopping \in BOOLEAN /\ kick \in BOOLEAN /\ watching \in BOOLEAN
  /\ toFetch \subseteq Ids /\ desired \subseteq Ids /\ running \subseteq Ids
  /\ workers \subseteq Workers
  /\ wg = Cardinality(workers)

\* At most one goroutine that has not been told to stop runs for a sensor
\* ("one running sensor goroutine per registered sensor", manager.go).
OneWorkerPerSensor ==
  \A v, w \in workers : v.on /\ w.on /\ v.sensor = w.sensor => v = w

\* A sensor is stopped only when it has been removed: no failed List, no request
\* between the index and the hashes, no notification costs a registered sensor
\* its worker ("keeping current fleet", manager.go).
KeepsRegistered ==
  [][\A id \in running \ running' : id \notin registered \/ manager' = "down"]_vars

\* When main closes the producer no goroutine is left that publishes through it
\* ("nothing is publishing anymore", simulator/main.go).
NothingAfterClose == manager = "closing" => workers = {}

\* The fleet converges on the registry: once requests and faults have ended,
\* the sensors that run are those stored, whatever notifications were lost on
\* the way ("the poll guarantees convergence even when notifications are lost",
\* simulator/main.go).
Working == {w.sensor : w \in {v \in workers : ~Cancelled(v)}}
Converges == <>[](Working = registered /\ \A w \in workers : w.on)

\* A signal ends the process, however busy the workers are.
ShutdownEnds == stopping ~> ~Up
=============================================================================

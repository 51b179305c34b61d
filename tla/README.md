# Weather-station pipeline: TLA+ models and proofs

TLA+ models of the Go services under `services/` and `pkg/`, the TLC
configurations that check them on small instances, and proofs that hold for
every number of replicas, partitions, messages, sensors, clients and faults.

    tlc -config Ingestion_delivery.cfg MCIngestion.tla
    tlapm IngestionProofs.tla

## The system

    sensor-gateway --(Redis registry, pub/sub)--> sensor-simulator
       sensor-simulator --sensor.readings--> ingestion-consumer --> TimescaleDB
                                                  |            \--> sensor.readings.dlq
                                                  +--sensor.readings.clean--> aggregation-service
                                                            weather.aggregates |
                                   browsers <--WebSocket-- notification-gateway <+

| Component | State | Operations | What is hard | What must hold |
|---|---|---|---|---|
| consumer loop (`pkg/kafkax/consumer.go`) | the record in hand, the group's offsets | fetch, decode, handle, dead-letter, commit | crash or rebalance between any two calls; cancelled contexts; commits by a member that has lost its partition | nothing is committed that was not dealt with; the partition keeps moving |
| ingestion-consumer | table, clean topic, dead-letter topic | Handle = insert, publish | three systems, no transaction | no loss, order kept, duplicates bounded |
| aggregation-service | open windows in memory, late counter | Add, Closed, publish | two goroutines, a check outside the mutex, state lost with the process | each reading counted once, in its window; closed windows stay closed |
| registry and sensor-gateway | hashes and index in Redis | Add, Remove, List, Watch; POST, DELETE | a write and a notification, either may fail; List is not atomic; Redis may lose everything | the answers a client gets can be relied on |
| sensor-simulator | running workers, pending kick, WaitGroup | Run, reconcile, start, Kick | notifications lost, List failing, shutdown racing start | converges on the registry, never stops a registered sensor, closes the producer last |
| one sensor, from POST to readings (`registry/sensor.go`, `drift.go`) | its hash, its current temperature | defaults, Validate, toMap, sensorFromMap, Next | three notations and one validation; rounding, clamping, unbounded time | what was answered runs; no reading is ever refused; a trend is a trend |
| notification-gateway | clients, their channels, dropped counter; the host's consumer group | Register, Unregister, Broadcast, handleWS; Run; main's select | slow and dead browsers, close racing send; where a new or restarted host begins to read | no panic, order, no stall; live data only, and no gap in it |
| the six processes (`cmd/*/main.go`, `topics.go`, `store.go`) | topics, table, server, its error channel, requests | EnsureTopic, EnsureSchema, ListenAndServe, Shutdown | started in any order and at once; signal and server failure beside each other; a drain whose deadline requests race | topics are there with their sizes; a signal ends the process; an exit that looks clean is clean |
| web, deployment | – | – | – | not modelled (below) |

## The modules

**`ConsumerGroup`** is `kafkax.Run` together with the consumer group it reads
through. `pc[c]` is where the loop of replica `c` stands: `fetch` (line 117),
`handle` (144), `midway` (between two calls of the handler), `deadletter`,
`commit`; or what Run returned; or how the process ended. `task[c]` is the
message in hand, and stays what it is while the broker gives the partition to
somebody else. The broker is modelled from how the loop uses it: an immutable
log per partition, the offset last written (also a lower one, also by a member
that has lost the partition), assignment from the committed offset. One handler
call is one step per external call it makes, because that is where a process
can stop. A call that fails is an action of its own, whose outcome may have been
applied or not. A cancelled context makes calls fail for free; everything else
that goes wrong costs one of `MaxFaults`. Three services read through it:
`Ingestion` and `Aggregator` extend it, `Notifier` instantiates it.

**`Ingestion`** adds the handler (`Insert`, `Publish`), dead-lettering with a
dlq, and the three outputs. A reading is identified by its key `(sensor_id,
ts)`, so the table is a set; `clean[p]` lists the offsets republished, because
order and duplicates are what the properties are about. **`AtLeastOnce`** is the
abstract promise of a stage: records come out in order, none skipped, the stage
acknowledges only what has come out, and everything comes out eventually.
`Implements` (safety) and `DeliversAll` (with fairness) are the refinement, with
the first so-many disposed records of each partition as what has come out.

**`Tumbler`** holds the window arithmetic as operators, in ticks, including the
truncation to whole seconds in the map's key. **`Aggregator`** composes it with
`ConsumerGroup` (nil dlq, so a poison record is skipped): `CheckLate` and
`Store` are the two halves of `Add`, before and under the mutex;
`FlusherHarvest` is `Closed`, for a time read some time before; the harvest is
published one aggregate at a time in any order. `late` and `lost` record, for
the properties, where a reading went.

**`Registry`** is the gateway's POST and DELETE against Redis: the transaction
and the notification are two steps, and `RedisDies` takes all data with it.
**`Fleet`** adds the simulator: `ListIds` and `FetchSensor` are List's SMEMBERS
and HGETALLs, `Diff` the reconcile, `workers` the goroutines with their own
switch, `wg` the WaitGroup. `Diff` is one step, since only the manager's
goroutine touches what it reads.

**`Station`** follows one sensor through its notations: `FromRequest` and
`SensorOK` are the gateway's defaults and `Validate`, `toMap`, `Parses` and
`sensorFromMap` the Redis hash, each field in its notation, `NextTemp` the
drift in hundredths of a degree with every jitter it may draw, and
`ReadingOK` what `Publish` validates. Nothing between the two validations
checks again, which is what `RunsAsAnswered` and `PublishAccepts` are about.

**`Hub`** is hub.go with handleWS. The mutex is explicit (`Locked`), because
handlers drain their channels without it in the middle of a broadcast.
**`Notifier`** composes it with `ConsumerGroup` for the group of one host:
`HandOver` is the handler's call of Broadcast and `HandlerReturns` its return, so
that the loop stands still while the mutex is held; `Join` starts a partition
at the end of its log as long as nothing is committed; `ConsumerEnds`,
`SignalEnds` and `ServerFails` are the branches of main's select. The hub
ends with its process. Of the histories, `since` is where the log ended when
the host first joined, and `begun` where it ended when the host last began
there rather than at an offset.

**`Services`** is what the six `main.go` do around their loops. `Plan` lists
the calls of each boot in order and `Touches` the topics each service reads or
writes; `EnsureSchema` and `SchemaDone` are the two ends of the DDL, between
which another replica may run it; `server`, `errCh` and `inFlight` are the HTTP
side: `Shutdown`, `Drained`, `DeadlineOver` and `Receive` follow `gateway/main.go`
and its two likes to the exit. The deadline is a clock beside the requests: it may
come at any time of the drain, before the last answer or just after it. A WebSocket
of the notifier is not in `inFlight`, since Shutdown does not wait for a
connection that was taken over.

`MC*.tla` give the constants their values; each `.cfg` names its instance in its
first line. `*Proofs.tla` and `AggregatorCounts` hold the proofs. Operators marked `variant` are the
mistakes the properties are tried against; no specification uses them.

## What is checked

| Run | Instance | Shows |
|---|---|---|
| `ingestion_delivery` | 2 replicas, 1 partition, 3 records of which any may be poison, 2 faults; 119k states | no reading lost, the clean topic in order with bounded duplicates (`NoSilentLoss`, `CleanContract`, `CleanInOrder`, `DuplicatesBounded`), and the refinement of `AtLeastOnce` (`Implements`), its liveness included (`DeliversAll`) |
| `aggregator` | 2 replicas, 2 records of which any may be poison, windows of 2 ticks, grace of 1, 1 fault; 221k states | nothing disappears or is double-counted, every reading in its window, every window closes (`Accounted`, `CountedOnce`, `InItsWindow`, `RewriteBounded`, `WindowsClose`) |
| `fleet_safety` | 2 sensors, 2 concurrent requests, 1 fault; 2.4M states under symmetry | `AnswersHold`, `OneWorkerPerSensor`, `NothingAfterClose`, `KeepsRegistered` |
| `fleet_convergence` | 1 sensor, 1 request at a time, 2 faults, a Redis that dies among them; 52k states | `Converges`, `ShutdownEnds` |
| `notifier` | 2 browsers, channels of 1, 2 records of which any may be poison, 1 fault; 307k states | the hub (`NoSendOnClosed`, `InOrder`, `MissesCounted`, `BroadcastEnds`, `WedgedLetGo`) and its process (`LiveOnly`, `NoGapOnceBegun`, `ConsumerErrorEnds`) |
| `station` | 1 sensor, every temperature and jitter to a hundredth of a degree; 48k states | `RunsAsAnswered`, `PublishAccepts`, `TrendHolds` |
| `services` | 2 replicas of the ingestion, an aggregator and a gateway with 2 requests, 2 faults; 165k states | `TopicsReady`, `CleanExit`, `EndsWhenTold`, `Boots` |

All but `fleet_convergence` and `station` check the type invariant of their
module as well.

Five runs end in a violation: they state what a comment promises and the code
does not do.

| Run | Violated | Why |
|---|---|---|
| `aggregator_rewrite` | `NoRewrite` | window.go:86 checks lateness before the mutex; `RewriteBounded` shows that what comes out again is the one reading caught in between |
| `aggregator_restart` | `RetryByRestart` | main.go:136 waits for the flusher, which waits for a signal |
| `aggregator_order` | `SeriesInOrder` | window.go:114 ranges over a map |
| `fleet_orphans` | `NoOrphans` | registry.go:74 returns an error for a sensor that is stored |
| `notifier_restart` | `WholeStream` | notifier/main.go:65 lets every join begin at the end of the log until a commit: a host restarted or rebalanced before that skips what it had still to show; `NoGapOnceBegun` shows that nothing is skipped after the last such beginning |

Three more divergences are on record without a run. A signal that arrives while
a record is in the handler or on its way to the dead-letter topic makes that call
fail with the cancelled context; consumer.go:144 and 186 return it as an error and
the process exits through log.Fatalf, while consumer.go:119-120 calls a cancelled
context "the expected exit path on shutdown, not a failure" (`Failing` in the model:
no record is lost by it). A window's key is its start
in whole seconds (window.go:94), so windows of less than a second, which the
type admits, would share one bucket; the default is 10 s, and `InItsWindow` is
proved for windows of whole seconds. And the comment in
registry/sensor.go:37 calls the steady pattern one that hovers, while drift.go
lets it walk: each step starts from where the last one ended.

### Bounds

Each bound is a constant of its module (`MaxLog`, `MaxFaults`, `MaxTime`,
`MaxMessages`). Two replicas and one partition contain every hand-over; the
partitions of a group share nothing but the members. Two faults allow a fault
and a second one while the first is being recovered from, such as a rebalance
and then a failing commit. Three records let a hand-over happen in the middle of
a partition. In `aggregator` one fault is enough to move a window's readings to
another replica or to repeat them, two records fall into the same window or
into two, and five ticks let both close. In `notifier` a channel of one and a
message in the handler's hand overflow with two messages when the handler
stands still, and two records are what a host needs to begin behind one and
before another. `fleet_convergence` has one sensor: reconciling treats sensors
independently, and an id that is added, removed and listed in between contains
the races. `station` takes every temperature and jitter of the code to a
hundredth of a degree, with start temperatures on, inside and outside the
bounds of Validate. `services` has two replicas that race for
the same calls, an aggregator that shares a topic with them and may wait for its
flusher (`LoopFails`), and a gateway with two requests, of which the deadline may
overtake one, both or none. `notifier_restart` has one browser, two records and
one fault.

The consumer-group runs switch deadlock checking off: logs and message counts
are bounded, so an idle system may stop. The fleet, the station and the
processes never stop, and their runs check for deadlock.

### Fairness

* Containers are restarted: `restart: unless-stopped` in deploy/compose/docker-compose.yml.
* Free partitions get assigned, and goroutines that can go on do (weak fairness
  of each step). Failures, signals, kills, API requests and arriving messages are
  never fair.
* The tickers tick: `Poll`, and the flusher's harvest.
* A `select` with several ready cases picks each of them now and then (Go picks
  at random): strong fairness of `Done` and `SelectDone`.
* A goroutine waiting for the hub's mutex gets it in time: strong fairness of
  `Unregister`. Nothing obliges a hung connection to end; only the write
  deadline does.
* In `Services` nothing obliges a request to be answered. A process that drains goes
  on or its deadline comes: the timer is the process's own.

## What is proved

For every value of the constants that their modules' assumptions allow:

| Module | Theorems |
|---|---|
| `IngestionProofs` | `NothingLost`, `CleanTopicIsClean`, `CleanTopicInOrder`, `DuplicatesAreBounded`, `KeepsPromise`, `TypeCorrect` |
| `AggregatorProofs` | `AllAccounted`, `InTheirWindows` and `RewriteIsBounded` (both for windows of whole seconds, `Size % Second = 0`), `TypeCorrect` |
| `AggregatorCounts` | `EachCountedOnce` |
| `FleetProofs` | `OneWorkerEach`, `ClosedLast`, `RegisteredKept`, `AnswersStand` (while Redis keeps its data, `"wipe" \notin FaultKinds`), `TypeCorrect` |
| `StationProofs` | `AnsweredRuns`, `NeverRefused`, `TrendsHold` |
| `NotifierProofs` | `NeverPanics`, `StreamsRise`, `NothingMissedUncounted`, `ShowsWhatIsLive`, `LeavesNoGap`, `TypeCorrect` |
| `ServicesProofs` | `TopicsAreReady`, `ExitsClean`, `TypeCorrect` |

Every invariant and action property of a passing run is stated by one of them,
and so is the refinement of `AtLeastOnce` up to fairness.
`RereadProofs` holds the lemmas about re-reading that `IngestionProofs` and
`AggregatorCounts` share.

Hardly any of these properties is inductive as it stands. In each module one
lemma per group of actions shows that a step keeps the invariant, and
`Invariance` puts them together.

* **Consumers** (`IngestionProofs`, `AggregatorProofs`, `NotifierProofs`).
  That committing is safe depends on the handler having done its work before,
  and that order is kept on no member reading ahead of what has come out. The
  invariants therefore follow every record that has been fetched, not only
  those committed: what the place of a member in its loop says about the record
  in its hand (`Claims`; `HandOK`), and that every record before it, and every
  record up to the read position but the one in the owner's hands, has been
  dealt with (`PositionOK`; `Whole`). "Dealt with" is stored and published or
  dead-lettered in the first, late, pending, published or lost in the second,
  broadcast or before where the host last began at the log's end (`begun`) in
  the third. A claim survives the steps of others because these histories only
  grow: this is why a member that has lost its partition does no harm. For the aggregator the histories
  move rather than grow, from a bucket to the harvest and from there to the
  topic; the lemmas show that no step drops a reading between the two.
* **How often a record comes** (`RereadProofs`). To bound the copies of a record
  one has to bound how often it will be handled. `Due` is that number: the
  members that hold the record unhandled, plus one if its partition will be
  read from before it (`Ahead`), plus the members bound to leave the group for
  no further fault (`Leaving`), because they are cancelled or hold a record of
  another partition they have lost: when such a member ends, its partitions
  are read again from what is committed. `GroupPaid`: no step of the broker,
  the loop or the process adds more to `Due` than the faults it spends. In the
  ingestion `copies + Due <= 1 + faults` follows, since a publish turns one that
  is due into a copy (`DuplicatesAreBounded`). In the aggregator a reading lies
  in a bucket and in the harvest before it comes to the topic, where the
  writer may put it twice; with `Coming` for what is due or lies before the
  topic, each step keeps `topic + Coming <= 1 + faults` or
  `topic + 2 * Coming <= 2 * faults` (`Balanced`). A fault that repeats a write
  leads from the first to the second, so neither is an invariant by itself.
* **The promise** (`KeepsPromise`). Which records have come out is defined by the
  longest prefix that has been dealt with. That there is just one such number
  is an argument by the least record that is not in it (`Least`, `RunExists`,
  `RunUnique`), not by induction. No record is dealt with before all that
  precede it (`InSequence`), so a step lengthens the prefix of at most one
  partition, and by one.
* **Rewriting** (`RewriteIsBounded`, through any faults). A window that has been
  taken by Closed is past its grace period, so the check lets nothing more into it; its bucket, if
  there is one again, took the one reading that was between the check and the
  mutex, and no second one is (`Rewriting`). A process that ends takes its
  buckets along, and what it reads again afterwards is late.
* **Fleet.** List is stale as soon as it has been read. What saves the fleet is
  that ids are never used twice: once the handler that drew an id has made or
  given up its write the id is `Settled`, and a settled id that is not
  registered is `Gone` for good. So a sensor that List missed is gone, a
  goroutine that was told to stop has no successor, and the WaitGroup counts
  exactly the goroutines there are.
* **Station.** `RoundTrip`: a hash parses and gives the sensor back.
  `DriftStep`: a step lands within the drift's bounds from anywhere, and
  rounding to tenths keeps the direction of any trend larger than the jitter
  and the reach of any jitter.
* **Hub** (in `NotifierProofs`). What a client got, is being written and has in
  its channel rises (`Flow`) and stays below `Top`, the number of the broadcast
  that has yet to reach it. A client that a broadcast has yet to reach is in
  the map, since the mutex keeps Unregister out; a channel is closed only once
  its client is not. For `NothingMissedUncounted`, a broadcast that reaches a client
  either puts its message into the stream or counts it, and a message in the
  stream stays there while the client is connected (`MissesStep`).
* **Services.** How far a process has booted says which topics exist
  (`Prepared`), a topic that exists stays as it is, and the boot of every
  program covers all it touches (`PlanCovers`). Shutdown is called only upon a
  signal (`Told`), and once it has returned without an error no request is in
  flight (`Quiet`), since none is accepted after it was called.

What the proofs assume beyond well-typed constants: `None` and the like are
none of the values they stand beside, and the two assumptions named in the
table. The first is needed (see the divergence above); without the second
`AnswersHold` is false, since a Redis that dies takes answered sensors with it.

Model-checked only: liveness (`DeliversAll` with its fairness, `WindowsClose`,
`Converges`, `ShutdownEnds`, `BroadcastEnds`, `WedgedLetGo`,
`ConsumerErrorEnds`, `EndsWhenTold`, `Boots`), which is beyond the prover.

## What is not modelled

* `web` does not yet talk to the services; the deployment enters only as the
  restart policy. Of `telemetry-api` there is only a server and its life, in
  `Services`.
* `Get`, and the gateway's list and get: they change nothing.
* In the producer, batching and acknowledgement levels; retention of topics;
  health checks, counters and logs.
* The numbers in readings are modelled in `Station` only. Elsewhere which
  messages are valid is a constant, and an aggregate is the readings folded
  into it. A valid reading that the table refuses for ever (a NUL byte in an
  id), and a poison record whose base64 envelope is too large for the
  dead-letter topic, are outside the models for that reason.
* `newSensorID` draws 32 random bits, taken to be fresh. The proofs about the
  fleet rest on it: reconcile compares ids only.
* In `Station`, floating-point error and the distribution of the noise.
* A notifier restarted under the same hostname goes on from its group's offset
  and shows what came meanwhile, however old that is by then: `Notifier` has no
  clock, and `LiveOnly` speaks of a new host only, as the comment there does.
* Within `Services`, what happens inside the loops, which the other modules
  show; and a topic that is made with other sizes by somebody else.

------------------------------ MODULE Aggregator ------------------------------
(***************************************************************************)
(* The aggregation-service: its replicas read sensor.readings.clean as one *)
(* consumer group (ConsumerGroup, with a nil dlq), fold the readings into  *)
(* windows, and publish an aggregate per closed window on the single       *)
(* partition that holds weather.aggregates' national series.               *)
(*                                                                         *)
(* Each replica runs two goroutines on one Tumbler: Run calls Add, the     *)
(* flusher calls Closed.  Add judges lateness before it takes the mutex.   *)
(* A reading's offset is committed when Add returns, so its window lives   *)
(* in memory only.                                                         *)
(***************************************************************************)
EXTENDS ConsumerGroup, Tumbler, FiniteSets, SequencesExt

CONSTANTS
  EventTime,  \* when each valid message was measured
  MaxTime     \* bound: the last tick

ASSUME AggregatorAssumption ==
  /\ EventTime \in [Valid -> Nat]
  /\ MaxTime \in Nat

VARIABLES
  clock,        \* the wall clock of the host
  buckets,      \* buckets[c]: the open windows of replica c, by key
  harvest,      \* harvest[c]: aggregates Closed has returned and the flusher not yet published
  flusherDone,  \* flusherDone[c]: the flusher goroutine of c has returned
  published,    \* the aggregates topic
  late,         \* readings dropped as late
  lost          \* readings of windows that ended unpublished

windowVars == <<clock, buckets, harvest, flusherDone, published, late, lost>>
vars == <<groupVars, windowVars>>

Empty == <<>>   \* the function with an empty domain

Init ==
  /\ GroupInit
  /\ clock = 0
  /\ buckets = [c \in Consumers |-> Empty]
  /\ harvest = [c \in Consumers |-> {}]
  /\ flusherDone = [c \in Consumers |-> FALSE]
  /\ published = <<>>
  /\ late = {}
  /\ lost = {}

\* A reading is a position of the log.
TimeOf(r) == EventTime[log[r[1]][r[2]]]
ReadingsIn(aggs) == UNION {Range(a.readings) : a \in aggs}
Pending(c) == ReadingsIn(harvest[c]) \cup UNION {Range(buckets[c][k]) : k \in DOMAIN buckets[c]}

Tick ==
  /\ clock < MaxTime
  /\ clock' = clock + 1
  /\ UNCHANGED <<groupVars, buckets, harvest, flusherDone, published, late, lost>>

\* Upstream republishes a reading it has measured; the pipeline shares one clock.
Arrive(m) ==
  /\ m \in Valid => EventTime[m] <= clock
  /\ Produce(m)
  /\ UNCHANGED windowVars

(***************************************************************************)
(* The handler: tumbler.Add(r, time.Now())                                 *)
(***************************************************************************)

\* Before the mutex: the reading is judged against the clock, and dropped or
\* taken on to the bucket.
Judge(c) ==
  /\ pc[c] = "handle"
  /\ IF IsLate(EventTime[Record(c)], clock)
     THEN Goto(c, "commit") /\ late' = late \cup {task[c]}
     ELSE Goto(c, "midway") /\ UNCHANGED late

CheckLate(c) ==
  /\ Judge(c)
  /\ UNCHANGED <<log, committed, owner, position, task, stopping, faults,
                 clock, buckets, harvest, flusherDone, published, lost>>

\* Under the mutex.
FoldOnArrival(c) == AddTo(buckets[c], clock, task[c])   \* variant: by processing time
Fold(c) == AddTo(buckets[c], EventTime[Record(c)], task[c])

Store(c) ==
  /\ pc[c] = "midway"
  /\ buckets' = [buckets EXCEPT ![c] = Fold(c)]
  /\ Goto(c, "commit")
  /\ UNCHANGED <<log, committed, owner, position, task, stopping, faults,
                 clock, harvest, flusherDone, published, late, lost>>

(***************************************************************************)
(* The flusher                                                             *)
(***************************************************************************)

\* A tick of the flusher's own ticker: Closed, under the mutex, for a time read
\* some time before it.
FlusherHarvest(c) ==
  /\ Member(c)
  /\ ~flusherDone[c]
  /\ harvest[c] = {}
  /\ \E now \in 0..clock :
       /\ ClosedKeys(buckets[c], now) # {}
       /\ harvest' = [harvest EXCEPT ![c] = Aggregates(buckets[c], now)]
       /\ buckets' = [buckets EXCEPT ![c] = StillOpen(buckets[c], now)]
  /\ UNCHANGED <<groupVars, clock, flusherDone, published, late, lost>>

\* The aggregates of one harvest go out one by one, in the order of the map.
TakeFromHarvest(c, a) ==
  /\ a \in harvest[c]
  /\ harvest' = [harvest EXCEPT ![c] = @ \ {a}]
  /\ UNCHANGED <<log, committed, owner, position, pc, task, stopping,
                 clock, buckets, flusherDone, late>>

\* A record of the topic; who wrote it is not part of the message.
Sent(c, a) == [by |-> c, start |-> a.start, readings |-> a.readings]

\* The writer may append it twice, retrying after a lost acknowledgement.
PublishAggregate(c, a) ==
  /\ TakeFromHarvest(c, a)
  /\ \/ published' = Append(published, Sent(c, a)) /\ UNCHANGED faults
     \/ published' = published \o <<Sent(c, a), Sent(c, a)>> /\ Fault
  /\ UNCHANGED lost

\* A publish that fails is logged and forgotten; the record may be there.
PublishFail(c, a) ==
  /\ TakeFromHarvest(c, a)
  /\ Failing(c)
  /\ \/ lost' = lost \cup Range(a.readings) /\ UNCHANGED published
     \/ published' = Append(published, Sent(c, a)) /\ UNCHANGED lost

\* The flusher returns on ctx.Done() only.
FlusherReturn(c) ==
  /\ Member(c)
  /\ stopping[c]
  /\ harvest[c] = {}
  /\ ~flusherDone[c]
  /\ flusherDone' = [flusherDone EXCEPT ![c] = TRUE]
  /\ UNCHANGED <<groupVars, clock, buckets, harvest, published, late, lost>>

(***************************************************************************)
(* The end of the process                                                  *)
(***************************************************************************)

\* The Tumbler and the flusher die with the process.
Forget(c) ==
  /\ lost' = lost \cup Pending(c)
  /\ buckets' = [buckets EXCEPT ![c] = Empty]
  /\ harvest' = [harvest EXCEPT ![c] = {}]
  /\ flusherDone' = [flusherDone EXCEPT ![c] = FALSE]
  /\ UNCHANGED <<clock, published, late>>

Die(c) == Kill(c) /\ Forget(c)

\* run(): Run has returned, and <-flusherDone lets the process go on to its end.
Finish(c) ==
  /\ flusherDone[c]
  /\ Exit(c)
  /\ Forget(c)

Service(c) ==
  \/ CheckLate(c) \/ Store(c)
  \/ FlusherHarvest(c) \/ FlusherReturn(c)
  \/ \E a \in harvest[c] : PublishAggregate(c, a) \/ PublishFail(c, a)
  \/ Die(c) \/ Finish(c)

Next ==
  \/ Tick
  \/ \E m \in Messages : Arrive(m)
  \/ \E c \in Consumers :
       \/ (GroupStep(c) \/ SkipPoison(c)) /\ UNCHANGED windowVars
       \/ Service(c)

Spec == Init /\ [][Next]_vars

\* Time passes, and the goroutines of a replica are scheduled.
Fairness ==
  /\ GroupFairness
  /\ WF_vars(Tick)
  /\ \A c \in Consumers :
       /\ WF_groupVars(SkipPoison(c))
       /\ WF_vars(CheckLate(c)) /\ WF_vars(Store(c))
       /\ WF_vars(FlusherHarvest(c)) /\ WF_vars(FlusherReturn(c))
       /\ WF_vars(\E a \in harvest[c] : PublishAggregate(c, a))
       /\ WF_vars(Finish(c))

FairSpec == Spec /\ Fairness

(***************************************************************************)
(* Properties                                                              *)
(***************************************************************************)
Readings == {<<p, o>> : p \in Partitions, o \in 1..MaxLog}

\* The average of a bucket is taken without a check: it holds a reading.
Bucket == Seq(Readings) \ {<<>>}

TypeOK ==
  /\ GroupTypeOK
  /\ clock \in 0..MaxTime
  /\ \A c \in Consumers :
       /\ \A k \in DOMAIN buckets[c] : k \in Nat /\ buckets[c][k] \in Bucket
       /\ \A a \in harvest[c] : a.start \in Nat /\ a.readings \in Bucket
  /\ flusherDone \in [Consumers -> BOOLEAN]
  /\ ReadingsIn(Range(published)) \cup late \cup lost \subseteq Readings

\* Nothing disappears between Add and the topic: a valid reading that has been
\* committed was dropped as late, is in a window still open, is on its way to
\* the topic or on it, or went down with its replica or its publish.
Accounted ==
  \A p \in Partitions : \A o \in 1..committed[p] :
    o \in DOMAIN log[p] /\ (log[p][o] \in Valid =>
      <<p, o>> \in late \cup lost \cup ReadingsIn(Range(published))
                 \cup UNION {Pending(c) : c \in Consumers})

\* Where a reading is counted: in an aggregate on the topic, in one on its way there,
\* in an open window.
Copies(s, r) == {i \in DOMAIN s : s[i] = r}
TopicCopies(r) == UNION {{n} \X Copies(published[n].readings, r) : n \in DOMAIN published}
WayCopies(r) ==
  UNION {UNION {{<<c, a>>} \X Copies(a.readings, r) : a \in harvest[c]} : c \in Consumers}
OpenCopies(r) ==
  UNION {UNION {{<<c, k>>} \X Copies(buckets[c][k], r) : k \in DOMAIN buckets[c]} : c \in Consumers}
Counted(r) == Cardinality(TopicCopies(r)) + Cardinality(WayCopies(r)) + Cardinality(OpenCopies(r))

\* A reading is counted once while nothing goes wrong ("nothing lost or
\* double-counted between Add and Closed", window_test.go), over all windows,
\* replicas and restarts; and each fault costs at most two more: the reading is read
\* again, and the aggregate that holds it goes out twice.
CountedOnce == \A r \in Readings : Counted(r) <= IF faults = 0 THEN 1 ELSE 2 * faults

\* A reading is counted in the window in which it was measured, however late it
\* comes (window.go, "bucketed by event time").
InItsWindow ==
  \A n \in DOMAIN published : \A r \in Range(published[n].readings) :
    published[n].start <= TimeOf(r) /\ TimeOf(r) < published[n].start + Size

\* How far one replica can rewrite the past, whatever fails: if it has published a
\* window before, then what it publishes of it is the same record again (the writer's
\* retry), or the one reading that was between its lateness check and the mutex when
\* the window closed.
SameWindow(i, j) ==
  published[i].by = published[j].by /\ published[i].start = published[j].start
RewriteBounded ==
  \A i, j \in DOMAIN published :
    i < j /\ SameWindow(i, j) =>
      published[j] = published[i] \/ Len(published[j].readings) = 1

\* Windows close by the wall clock, whether or not readings keep coming
\* (window.go: "or a single silent sensor would hold its window open forever").
WindowsClose ==
  \A c \in Consumers : \A r \in Readings : r \in Pending(c) ~> r \notin Pending(c)

\* A window that was published is not published again ("a live average must not
\* rewrite the past", window.go).
NoRewrite ==
  \A i, j \in DOMAIN published : i # j => ~SameWindow(i, j)

\* The national series is in order on its partition ("each scope's series stays
\* ordered", topics.go).
SeriesInOrder ==
  \A i, j \in DOMAIN published : i < j => published[i].start <= published[j].start

\* A replica whose Run returned an error exits, for the container to be
\* restarted ("the process restart (compose/Kubernetes) resumes from the last
\* committed offset", consumer.go).
RetryByRestart == \A c \in Consumers : pc[c] = "err" ~> ~Member(c)
=============================================================================

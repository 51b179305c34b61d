------------------------------- MODULE Ingestion -------------------------------
(***************************************************************************)
(* The ingestion-consumer: each valid reading of sensor.readings is        *)
(* inserted into TimescaleDB and republished on sensor.readings.clean;     *)
(* each poison record is wrapped and published on the dead-letter topic.   *)
(* Insert, publish and commit are three calls to three systems, and the    *)
(* process may stop between any two of them.                               *)
(***************************************************************************)
EXTENDS ConsumerGroup, FiniteSets

VARIABLES
  db,     \* the readings stored; a reading is its primary key (sensor_id, ts)
  clean,  \* clean[p]: the offsets of partition p published on the clean topic, in order
  dlq     \* the <<partition, offset>> that dead letters on the topic name

outputs == <<db, clean, dlq>>
vars == <<groupVars, outputs>>

\* Nothing is left to do for record o of partition p.
Published(p, o) == \E i \in DOMAIN clean[p] : clean[p][i] = o
Disposed(p, o) ==
  IF log[p][o] \in Valid
  THEN log[p][o] \in db /\ Published(p, o)
  ELSE <<p, o>> \in dlq

Init ==
  /\ GroupInit
  /\ db = {}
  /\ clean = [p \in Partitions |-> <<>>]
  /\ dlq = {}

(***************************************************************************)
(* Pipeline.Handle                                                         *)
(***************************************************************************)

InsertNothing(c) == UNCHANGED db        \* variant: published without being stored

\* INSERT ... ON CONFLICT (sensor_id, ts) DO NOTHING
InsertReading(c) == db' = db \cup {Record(c)}

Insert(c) ==
  /\ pc[c] = "handle"
  /\ InsertReading(c)
  /\ Goto(c, "midway")
  /\ UNCHANGED <<log, committed, owner, position, task, stopping, faults, clean, dlq>>

InsertFailContinues(c) ==               \* variant: the loop goes on to the next record
  /\ pc[c] = "handle"
  /\ Failing(c)
  /\ Goto(c, "fetch")
  /\ UNCHANGED <<log, committed, owner, position, task, stopping, db, clean, dlq>>

\* The statement fails; the row may have been written.  Handle returns the
\* error, Run returns it uncommitted and the process exits.
InsertFail(c) ==
  /\ pc[c] = "handle"
  /\ Failing(c)
  /\ InsertReading(c) \/ UNCHANGED db
  /\ Return(c, "err")
  /\ UNCHANGED <<log, committed, clean, dlq>>

Repeat(x, n) == [i \in 1..n |-> x]

\* The writer appends the reading to the clean topic's log n times: its own
\* retry of a write whose acknowledgement was lost appends it twice.  The key is
\* the sensor's, so the clean topic's partition is the reading's.
PublishClean(c, n) ==
  clean' = [clean EXCEPT ![task[c][1]] = @ \o Repeat(task[c][2], n)]

Publish(c) ==
  /\ pc[c] = "midway"
  /\ \/ PublishClean(c, 1) /\ UNCHANGED faults
     \/ PublishClean(c, 2) /\ Fault
  /\ Goto(c, "commit")
  /\ UNCHANGED <<log, committed, owner, position, task, stopping, db, dlq>>

PublishFailRetries(c) ==                \* variant: the handler tries again by itself
  /\ pc[c] = "midway"
  /\ Failing(c)
  /\ \E n \in 0..1 : PublishClean(c, n)
  /\ UNCHANGED <<log, committed, owner, position, pc, task, stopping, db, dlq>>

\* Publish returns an error; the record may have reached the log.
PublishFail(c) ==
  /\ pc[c] = "midway"
  /\ Failing(c)
  /\ \E n \in 0..1 : PublishClean(c, n)
  /\ Return(c, "err")
  /\ UNCHANGED <<log, committed, db, dlq>>

(***************************************************************************)
(* Consumer.deadLetter with a dlq: publish first, then commit              *)
(***************************************************************************)
DeadLetterLost(c) ==                    \* variant: commits although nothing was published
  /\ pc[c] = "deadletter"
  /\ Goto(c, "commit")
  /\ UNCHANGED <<log, committed, owner, position, task, stopping, faults, outputs>>

DeadLetterBlocks(c) ==                  \* variant: the poison record is retried in place
  /\ pc[c] = "deadletter"
  /\ UNCHANGED vars

DeadLetter(c) ==
  /\ pc[c] = "deadletter"
  /\ dlq' = dlq \cup {task[c]}
  /\ Goto(c, "commit")
  /\ UNCHANGED <<log, committed, owner, position, task, stopping, faults, db, clean>>

DeadLetterFail(c) ==
  /\ pc[c] = "deadletter"
  /\ Failing(c)
  /\ dlq' \in {dlq, dlq \cup {task[c]}}
  /\ Return(c, "err")
  /\ UNCHANGED <<log, committed, db, clean>>

Service(c) ==
  \/ Insert(c) \/ InsertFail(c)
  \/ Publish(c) \/ PublishFail(c)
  \/ DeadLetter(c) \/ DeadLetterFail(c)

Next ==
  \/ /\ \/ \E m \in Messages : Produce(m)
        \/ \E c \in Consumers : GroupStep(c) \/ ProcessEnds(c)
     /\ UNCHANGED outputs
  \/ \E c \in Consumers : Service(c)

Spec == Init /\ [][Next]_vars

Fairness ==
  /\ GroupFairness
  /\ \A c \in Consumers :
       /\ WF_vars(Insert(c)) /\ WF_vars(Publish(c)) /\ WF_vars(DeadLetter(c))
       /\ WF_groupVars(Exit(c))

FairSpec == Spec /\ Fairness

(***************************************************************************)
(* Properties                                                              *)
(***************************************************************************)
TypeOK ==
  /\ GroupTypeOK
  /\ db \subseteq Valid
  /\ clean \in [Partitions -> Seq(Nat)]
  /\ dlq \subseteq Partitions \X Nat

\* A record the group will not read again has been dealt with: a valid reading
\* is in the database and on the clean topic, a poison one on the dead-letter
\* topic -- whatever rebalance, kill, signal or failed call came between
\* ("a reading is never silently lost", consumer.go; deadLetter's "publish
\* BEFORE commit").
NoSilentLoss ==
  \A p \in Partitions : \A o \in 1..committed[p] : o \in DOMAIN log[p] /\ Disposed(p, o)

\* What downstream may rely on: a clean record is a valid reading the database
\* holds, and no dead letter names one.
CleanContract ==
  /\ \A p \in Partitions : \A i \in DOMAIN clean[p] :
       LET o == clean[p][i] IN
       o \in DOMAIN log[p] /\ log[p][o] \in Valid /\ log[p][o] \in db
  /\ \A d \in dlq : d[2] \in DOMAIN log[d[1]] /\ log[d[1]][d[2]] \notin Valid

\* The clean topic keeps the order of the readings topic up to repetition: when
\* a reading first appears there, every reading before it in its partition has
\* appeared already (one partition per sensor: "stay in order", producer.go),
\* also when two members work on one partition across a rebalance.
CleanInOrder ==
  \A p \in Partitions : \A i \in DOMAIN clean[p] : \A o \in 1..(clean[p][i] - 1) :
    log[p][o] \in Valid => \E j \in 1..(i - 1) : clean[p][j] = o

\* "Occasional duplicates" (Handle's comment) are bounded by what went wrong:
\* a record is published at most once more than there were faults.
Copies(p, o) == Cardinality({i \in DOMAIN clean[p] : clean[p][i] = o})
DuplicatesBounded ==
  \A p \in Partitions : \A o \in DOMAIN log[p] : Copies(p, o) <= 1 + faults

\* How many records of p have come out, counted from the first.
DisposedPrefix(p) ==
  CHOOSE n \in 0..Len(log[p]) :
    /\ \A o \in 1..n : Disposed(p, o)
    /\ n < Len(log[p]) => ~Disposed(p, n + 1)

Promise == INSTANCE AtLeastOnce WITH
  produced  <- [p \in Partitions |-> Len(log[p])],
  delivered <- [p \in Partitions |-> DisposedPrefix(p)],
  acked     <- committed

\* The service implements the promise of AtLeastOnce: the records of a partition
\* come out one at a time and in order, none is skipped, and the offset the group
\* resumes from is never ahead of the output, though it may go back ("publish
\* BEFORE commit" and "a reading is never silently lost", consumer.go).
Implements == Promise!Safe

\* And once the faults stop, every record of the log comes out (Run: "the
\* partition keeps moving").
DeliversAll == Promise!Spec
=============================================================================

---------------------------- MODULE ConsumerGroup ----------------------------
(***************************************************************************)
(* One Kafka topic read by the replicas of one service through the loop    *)
(* kafkax.Run (pkg/kafkax/consumer.go): fetch -> handle -> commit.         *)
(*                                                                         *)
(* The broker's half is modelled from how the loop uses it: a log per      *)
(* partition, the group's committed offsets, and which member owns which   *)
(* partition.  A service EXTENDS this module and supplies what happens     *)
(* between Fetch and Commit: the handler, and what becomes of a poison     *)
(* message (the dlq argument of Run); and it says when its process ends    *)
(* after Run has returned.  A container whose process ended starts again.  *)
(***************************************************************************)
EXTENDS Integers, Sequences

CONSTANTS
  Consumers,   \* the replicas sharing the group ID
  Partitions,  \* the partitions of the topic
  Messages,    \* what a record of the topic may hold
  Valid,       \* those that decode into the handler's T and pass its Validate
  Route,       \* the partition a producer's hash balancer gives each message
  None,        \* no consumer, no record
  MaxLog,      \* bound: records per partition
  MaxFaults    \* bound: rebalances, signals, kills and failed calls in a behaviour

ASSUME GroupAssumption ==
  /\ None \notin Consumers
  /\ None \notin Partitions \X Nat
  /\ Valid \subseteq Messages
  /\ Route \in [Messages -> Partitions]
  /\ MaxLog \in Nat
  /\ MaxFaults \in Nat

VARIABLES
  log,        \* log[p]: the records of partition p, in the order the broker appended them
  committed,  \* committed[p]: how many of them the group has acknowledged
  owner,      \* owner[p]: the member p is assigned to
  position,   \* position[p]: the last offset fetched under the current assignment
  pc,         \* pc[c]: where c's loop stands, or how its process ended
  task,       \* task[c]: the <<partition, offset>> c fetched and has not got past
  stopping,   \* stopping[c]: c's context is cancelled (SIGTERM)
  faults      \* faults spent

groupVars == <<log, committed, owner, position, pc, task, stopping, faults>>

Loop     == {"fetch", "handle", "midway", "deadletter", "commit"}
Returned == {"nil", "err"}                  \* what Run returned; the process still runs
Ended    == {"stopped", "failed", "killed"}

Running(c) == pc[c] \in Loop
Member(c)  == pc[c] \notin Ended            \* in the group until the process ends
Busy(c)    == task[c] # None

\* The record consumer c is working on.
Record(c) == log[task[c][1]][task[c][2]]

GroupTypeOK ==
  /\ log \in [Partitions -> Seq(Messages)]
  /\ committed \in [Partitions -> Nat]
  /\ owner \in [Partitions -> Consumers \cup {None}]
  /\ position \in [Partitions -> Nat]
  /\ pc \in [Consumers -> Loop \cup Returned \cup Ended]
  /\ task \in [Consumers -> (Partitions \X Nat) \cup {None}]
  /\ stopping \in [Consumers -> BOOLEAN]
  /\ faults \in 0..MaxFaults

GroupInit ==
  /\ log = [p \in Partitions |-> <<>>]
  /\ committed = [p \in Partitions |-> 0]
  /\ owner = [p \in Partitions |-> None]
  /\ position = [p \in Partitions |-> 0]
  /\ pc = [c \in Consumers |-> "stopped"]
  /\ task = [c \in Consumers |-> None]
  /\ stopping = [c \in Consumers |-> FALSE]
  /\ faults = 0

(***************************************************************************)
(* Helpers                                                                 *)
(***************************************************************************)
Fault == faults < MaxFaults /\ faults' = faults + 1

\* A call that fails costs a fault, unless the cancelled context made it fail.
Failing(c) ==
  \/ stopping[c] /\ UNCHANGED faults
  \/ ~stopping[c] /\ Fault

Goto(c, step) == pc' = [pc EXCEPT ![c] = step]

\* Run returns; what the process does next is main's business.
Return(c, result) == Goto(c, result) /\ UNCHANGED <<owner, position, task, stopping>>

\* The process ends and the member leaves the group: the deferred Close, or the
\* session timeout after a kill.
Leave(c, how) ==
  /\ Goto(c, how)
  /\ task' = [task EXCEPT ![c] = None]
  /\ stopping' = [stopping EXCEPT ![c] = FALSE]
  /\ owner' = [p \in Partitions |-> IF owner[p] = c THEN None ELSE owner[p]]
  /\ UNCHANGED position

(***************************************************************************)
(* The broker and the process                                              *)
(***************************************************************************)

\* A producer appends a record.  The same reading may be appended again: a
\* producer whose acknowledgement was lost writes it twice.
Produce(m) ==
  /\ Len(log[Route[m]]) < MaxLog
  /\ log' = [log EXCEPT ![Route[m]] = Append(@, m)]
  /\ UNCHANGED <<committed, owner, position, pc, task, stopping, faults>>

Start(c) ==
  /\ pc[c] \in Ended
  /\ Goto(c, "fetch")
  /\ UNCHANGED <<log, committed, owner, position, task, stopping, faults>>

\* A free partition is given to a member, which reads on after an offset.
AssignAt(p, c, offset) ==
  /\ Member(c)
  /\ owner[p] = None
  /\ owner' = [owner EXCEPT ![p] = c]
  /\ position' = [position EXCEPT ![p] = offset]
  /\ UNCHANGED <<log, committed, pc, task, stopping, faults>>

\* A rebalance takes p from a live member, or makes that member read again; what
\* it was working on goes on regardless.
RebalanceAt(p, c, offset) ==
  /\ Member(c)
  /\ owner[p] # None
  /\ Fault
  /\ owner' = [owner EXCEPT ![p] = c]
  /\ position' = [position EXCEPT ![p] = offset]
  /\ UNCHANGED <<log, committed, pc, task, stopping>>

\* StartOffset is FirstOffset: a group that has committed nothing reads from the
\* start of the log, any other from what it has committed.
Assign(p, c)    == AssignAt(p, c, committed[p])
Rebalance(p, c) == RebalanceAt(p, c, committed[p])

Cancel(c) ==
  /\ Member(c)
  /\ ~stopping[c]
  /\ Fault
  /\ stopping' = [stopping EXCEPT ![c] = TRUE]
  /\ UNCHANGED <<log, committed, owner, position, pc, task>>

\* The process dies at any point.
Kill(c) ==
  /\ Member(c)
  /\ Fault
  /\ Leave(c, "killed")
  /\ UNCHANGED <<log, committed>>

\* main returns (exit 0) or calls log.Fatalf (exit 1), after the deferred Close.
Exit(c) ==
  /\ \/ pc[c] = "nil" /\ Leave(c, "stopped")
     \/ pc[c] = "err" /\ Leave(c, "failed")
  /\ UNCHANGED <<log, committed, faults>>

(***************************************************************************)
(* The loop                                                                *)
(***************************************************************************)

\* Run decodes and validates: the handler only ever sees a valid record.
DecodeUnchecked(m) == "handle"          \* variant: Validate is not called
Decode(m) == IF m \in Valid THEN "handle" ELSE "deadletter"

\* FetchMessage returns the next record of an owned partition -- also under a
\* cancelled context, when one is already buffered.
Fetch(c, p) ==
  /\ pc[c] = "fetch"
  /\ owner[p] = c
  /\ position[p] < Len(log[p])
  /\ position' = [position EXCEPT ![p] = @ + 1]
  /\ task' = [task EXCEPT ![c] = <<p, position[p] + 1>>]
  /\ Goto(c, Decode(log[p][position[p] + 1]))
  /\ UNCHANGED <<log, committed, owner, stopping, faults>>

\* FetchMessage fails because the context is cancelled: Run returns nil.
Stop(c) ==
  /\ pc[c] = "fetch"
  /\ stopping[c]
  /\ Return(c, "nil")
  /\ UNCHANGED <<log, committed, faults>>

FetchFail(c) ==
  /\ pc[c] = "fetch"
  /\ ~stopping[c]
  /\ Fault
  /\ Return(c, "err")
  /\ UNCHANGED <<log, committed>>

\* deadLetter with a nil dlq: log the poison message and go on to the commit.
SkipPoison(c) ==
  /\ pc[c] = "deadletter"
  /\ Goto(c, "commit")
  /\ UNCHANGED <<log, committed, owner, position, task, stopping, faults>>

\* The offset the broker keeps is the one last written, even when it is lower
\* and even when the partition has meanwhile gone to another member.
AcknowledgeNext(c) ==                   \* variant: one offset too far
  committed' = [committed EXCEPT ![task[c][1]] = task[c][2] + 1]
Acknowledge(c) == committed' = [committed EXCEPT ![task[c][1]] = task[c][2]]

Commit(c) ==
  /\ pc[c] = "commit"
  /\ Acknowledge(c)
  /\ Goto(c, "fetch")
  /\ task' = [task EXCEPT ![c] = None]
  /\ UNCHANGED <<log, owner, position, stopping, faults>>

\* A commit the cancelled context interrupts is not an error; commit() returns
\* nil and the loop fetches again.
CommitInterrupted(c) ==
  /\ pc[c] = "commit"
  /\ stopping[c]
  /\ Goto(c, "fetch")
  /\ task' = [task EXCEPT ![c] = None]
  /\ UNCHANGED <<log, committed, owner, position, stopping, faults>>

\* Any other commit error ends Run: a fault, or the broker's refusal of a member
\* that no longer owns the partition.  It may have been applied all the same.
CommitFail(c) ==
  /\ pc[c] = "commit"
  /\ \/ owner[task[c][1]] # c /\ UNCHANGED faults
     \/ owner[task[c][1]] = c /\ Fault
  /\ Acknowledge(c) \/ UNCHANGED committed
  /\ Return(c, "err")
  /\ UNCHANGED log

LoopStep(c) ==
  \/ \E p \in Partitions : Fetch(c, p)
  \/ Stop(c) \/ FetchFail(c)
  \/ Commit(c) \/ CommitInterrupted(c) \/ CommitFail(c)

GroupStep(c) ==
  \/ Start(c) \/ Cancel(c) \/ LoopStep(c)
  \/ \E p \in Partitions : Assign(p, c) \/ Rebalance(p, c)

ProcessEnds(c) == Kill(c) \/ Exit(c)

(***************************************************************************)
(* Fairness: containers are restarted, the coordinator assigns free        *)
(* partitions, and the loop is a thread the OS schedules.                  *)
(***************************************************************************)
GroupFairness ==
  \A c \in Consumers :
    /\ WF_groupVars(Start(c))
    /\ WF_groupVars(Stop(c))
    /\ WF_groupVars(Commit(c))
    /\ \A p \in Partitions : WF_groupVars(Assign(p, c)) /\ WF_groupVars(Fetch(c, p))
=============================================================================

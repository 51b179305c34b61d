---------------------------- MODULE IngestionProofs ----------------------------
(***************************************************************************)
(* Proofs about Ingestion, for any number of replicas, partitions, records *)
(* and faults.                                                             *)
(***************************************************************************)
EXTENDS Ingestion, RereadProofs, WellFoundedInduction, TLAPS

(***************************************************************************)
(* The inductive invariant.  A record counts as dealt with before its      *)
(* commit, so the invariant follows every record that has been fetched:    *)
(* what a replica holds comes after records that are dealt with, and an    *)
(* owner's position is at most one undealt record -- its own -- ahead.     *)
(***************************************************************************)

\* What the loop of c has established about its record at each step.
Claim(c) ==
  LET p == task[c][1]  o == task[c][2] IN
  /\ pc[c] \in {"handle", "midway", "deadletter", "commit"} => Busy(c)
  /\ pc[c] \in {"fetch"} \cup Ended => ~Busy(c)
  /\ Busy(c) => o \in DOMAIN log[p] /\ \A q \in 1..(o - 1) : Disposed(p, q)
  /\ pc[c] \in {"handle", "midway"} => log[p][o] \in Valid
  /\ pc[c] = "midway" => log[p][o] \in db
  /\ pc[c] = "deadletter" => log[p][o] \notin Valid
  /\ pc[c] = "commit" => Disposed(p, o)

Claims == \A c \in Consumers : Claim(c)

\* What has been fetched under the current assignment of p is dealt with, or in
\* the owner's hands.
Holds(c, p, q) == task[c] = <<p, q>>

PartitionOK(p) ==
  \A q \in 1..position[p] :
    /\ q \in DOMAIN log[p]
    /\ owner[p] # None => Disposed(p, q) \/ Holds(owner[p], p, q)

PositionOK == \A p \in Partitions : PartitionOK(p)

IInv ==
  /\ TypeOK
  /\ Claims
  /\ PositionOK
  /\ NoSilentLoss
  /\ CleanContract
  /\ CleanInOrder

(***************************************************************************)
(* Appending one record n times                                            *)
(***************************************************************************)

\* What PublishClean does to the clean topic's log: a longer sequence that
\* starts with the old one and ends with n copies of the new record.
LEMMA AppendCopies ==
  ASSUME NEW s \in Seq(Nat), NEW x \in Nat, NEW n \in Nat
  PROVE  LET t == s \o Repeat(x, n) IN
         /\ t \in Seq(Nat)
         /\ Len(t) = Len(s) + n
         /\ \A i \in 1..Len(s) : t[i] = s[i]
         /\ \A i \in (Len(s) + 1)..(Len(s) + n) : t[i] = x
<1>1. Repeat(x, n) \in Seq(Nat) /\ Len(Repeat(x, n)) = n
  BY DEF Repeat
<1>2. \A i \in 1..n : Repeat(x, n)[i] = x
  BY DEF Repeat
<1> QED
  BY <1>1, <1>2

(***************************************************************************)
(* Type correctness                                                        *)
(***************************************************************************)
LEMMA TypeInit == Init => TypeOK
  BY GroupAssumption DEF GroupAssumption, Init, GroupInit, TypeOK, GroupTypeOK,
     Loop, Returned, Ended

LEMMA FaultType ==
  ASSUME TypeOK, Fault \/ UNCHANGED faults
  PROVE  faults' \in 0..MaxFaults
<1>1. faults \in Nat /\ MaxFaults \in Nat
  BY GroupAssumption DEF GroupAssumption, TypeOK, GroupTypeOK
<1> QED BY <1>1 DEF TypeOK, GroupTypeOK, Fault

LEMMA GotoType ==
  ASSUME TypeOK, NEW c \in Consumers, NEW step \in Loop \cup Returned \cup Ended, Goto(c, step)
  PROVE  pc' \in [Consumers -> Loop \cup Returned \cup Ended]
  BY DEF TypeOK, GroupTypeOK, Goto

\* A process that ends leaves the group's variables well typed.
LEMMA LeaveType ==
  ASSUME TypeOK, NEW c \in Consumers, NEW how \in Ended, Leave(c, how),
         UNCHANGED <<log, committed, outputs>>, faults' \in 0..MaxFaults
  PROVE  TypeOK'
<1>1. /\ owner' \in [Partitions -> Consumers \cup {None}]
      /\ pc' \in [Consumers -> Loop \cup Returned \cup Ended]
      /\ task' \in [Consumers -> (Partitions \X Nat) \cup {None}]
      /\ stopping' \in [Consumers -> BOOLEAN]
  BY DEF TypeOK, GroupTypeOK, Leave, Goto
<1> QED BY <1>1 DEF TypeOK, GroupTypeOK, Leave, outputs

\* A busy replica's record: where it is and what it holds.
LEMMA BusyRecord ==
  ASSUME TypeOK, Claims, NEW c \in Consumers,
         pc[c] \in {"handle", "midway", "deadletter", "commit"}
  PROVE  /\ task[c] \in Partitions \X Nat
         /\ task[c][1] \in Partitions /\ task[c][2] \in Nat
         /\ task[c] = <<task[c][1], task[c][2]>>
         /\ task[c][2] \in DOMAIN log[task[c][1]]
  BY DEF Claims, Claim, Busy, TypeOK, GroupTypeOK

LEMMA HoldsBusy ==
  ASSUME NEW c, NEW p \in Partitions, NEW q \in Nat, Holds(c, p, q)
  PROVE  Busy(c)
<1>1. <<p, q>> \in Partitions \X Nat
  OBVIOUS
<1> QED BY <1>1, GroupAssumption DEF Holds, Busy, GroupAssumption

LEMMA TypeStep == TypeOK /\ Claims /\ [Next]_vars => TypeOK'
<1> SUFFICES ASSUME TypeOK, Claims, [Next]_vars PROVE TypeOK'
  OBVIOUS
<1> USE GroupAssumption DEF GroupAssumption
<1> USE DEF TypeOK, GroupTypeOK, outputs
<1>1. ASSUME NEW m \in Messages, Produce(m), UNCHANGED outputs PROVE TypeOK'
  <2>1. Append(log[Route[m]], m) \in Seq(Messages)
    OBVIOUS
  <2>2. log' \in [Partitions -> Seq(Messages)]
    BY <1>1, <2>1 DEF Produce
  <2> QED BY <1>1, <2>2 DEF Produce
<1>2. ASSUME NEW c \in Consumers, NEW p \in Partitions, UNCHANGED outputs,
             Assign(p, c) \/ Rebalance(p, c)
      PROVE  TypeOK'
  <2>1. faults' \in 0..MaxFaults
    BY <1>2, FaultType DEF Assign, AssignAt, Rebalance, RebalanceAt
  <2>2. /\ owner' = [owner EXCEPT ![p] = c]
        /\ position' = [position EXCEPT ![p] = committed[p]]
    BY <1>2 DEF Assign, AssignAt, Rebalance, RebalanceAt
  <2> QED BY <1>2, <2>1, <2>2 DEF Assign, AssignAt, Rebalance, RebalanceAt
<1>3. ASSUME NEW c \in Consumers, Start(c) \/ Cancel(c), UNCHANGED outputs PROVE TypeOK'
  <2>1. faults' \in 0..MaxFaults
    BY <1>3, FaultType DEF Start, Cancel
  <2>2. pc' \in [Consumers -> Loop \cup Returned \cup Ended]
    BY <1>3, GotoType DEF Start, Cancel, Loop
  <2>3. stopping' \in [Consumers -> BOOLEAN]
    BY <1>3 DEF Start, Cancel
  <2> QED BY <1>3, <2>1, <2>2, <2>3 DEF Start, Cancel
<1>4. ASSUME NEW c \in Consumers, Kill(c) \/ Exit(c), UNCHANGED outputs PROVE TypeOK'
  <2>1. UNCHANGED <<log, committed>> /\ \E how \in Ended : Leave(c, how)
    BY <1>4 DEF Kill, Exit, Ended
  <2>2. faults' \in 0..MaxFaults
    BY <1>4, FaultType DEF Kill, Exit
  <2> QED BY <1>4, <2>1, <2>2, LeaveType
<1>5. ASSUME NEW c \in Consumers, NEW p \in Partitions, Fetch(c, p), UNCHANGED outputs
      PROVE  TypeOK'
  <2>1. pc' \in [Consumers -> Loop \cup Returned \cup Ended]
    BY <1>5, GotoType DEF Fetch, Decode, Loop
  <2>2. position[p] + 1 \in Nat
    OBVIOUS
  <2>3. position' \in [Partitions -> Nat] /\ task' \in [Consumers -> (Partitions \X Nat) \cup {None}]
    BY <1>5, <2>2 DEF Fetch
  <2> QED BY <1>5, <2>1, <2>3 DEF Fetch
<1>6. ASSUME NEW c \in Consumers, UNCHANGED outputs,
             Commit(c) \/ CommitInterrupted(c) \/ CommitFail(c) \/ Stop(c) \/ FetchFail(c)
      PROVE  TypeOK'
  <2>1. pc' \in [Consumers -> Loop \cup Returned \cup Ended]
    BY <1>6, GotoType DEF Commit, CommitInterrupted, CommitFail, Stop, FetchFail, Return,
       Loop, Returned
  <2>2. faults' \in 0..MaxFaults
    BY <1>6, FaultType DEF Commit, CommitInterrupted, CommitFail, Stop, FetchFail
  <2>3. task' \in [Consumers -> (Partitions \X Nat) \cup {None}]
    BY <1>6 DEF Commit, CommitInterrupted, CommitFail, Stop, FetchFail, Return
  <2>4. committed' \in [Partitions -> Nat]
    <3>1. CASE UNCHANGED committed
      BY <3>1
    <3>2. CASE pc[c] = "commit" /\ Acknowledge(c)
      BY <3>2, BusyRecord DEF Acknowledge
    <3> QED BY <1>6, <3>1, <3>2 DEF Commit, CommitInterrupted, CommitFail, Stop, FetchFail
  <2>5. UNCHANGED <<log, owner, position, stopping>>
    BY <1>6 DEF Commit, CommitInterrupted, CommitFail, Stop, FetchFail, Return
  <2> QED BY <1>6, <2>1, <2>2, <2>3, <2>4, <2>5
<1>7. ASSUME NEW c \in Consumers, Service(c) PROVE TypeOK'
  <2>1. pc' \in [Consumers -> Loop \cup Returned \cup Ended]
    BY <1>7, GotoType DEF Service, Insert, InsertFail, Publish, PublishFail, DeadLetter,
       DeadLetterFail, Return, Loop, Returned
  <2>2. faults' \in 0..MaxFaults
    BY <1>7, FaultType DEF Service, Insert, InsertFail, Publish, PublishFail, DeadLetter,
       DeadLetterFail, Failing
  <2>3. UNCHANGED <<log, committed, owner, position, task, stopping>>
    BY <1>7 DEF Service, Insert, InsertFail, Publish, PublishFail, DeadLetter,
       DeadLetterFail, Return
  <2>4. db' \subseteq Valid
    <3>1. CASE UNCHANGED db
      BY <3>1
    <3>2. CASE pc[c] = "handle" /\ InsertReading(c)
      BY <3>2 DEF InsertReading, Claims, Claim, Record
    <3> QED BY <1>7, <3>1, <3>2 DEF Service, Insert, InsertFail, Publish, PublishFail,
       DeadLetter, DeadLetterFail
  <2>5. dlq' \subseteq Partitions \X Nat
    BY <1>7, BusyRecord DEF Service, Insert, InsertFail, Publish, PublishFail,
       DeadLetter, DeadLetterFail
  <2>6. clean' \in [Partitions -> Seq(Nat)]
    <3>1. CASE UNCHANGED clean
      BY <3>1
    <3>2. ASSUME pc[c] = "midway", NEW n \in Nat, PublishClean(c, n)
          PROVE  clean' \in [Partitions -> Seq(Nat)]
      <4> DEFINE old == clean[task[c][1]]
                 new == old \o Repeat(task[c][2], n)
      <4>1. clean \in [Partitions -> Seq(Nat)] /\ old \in Seq(Nat) /\ task[c][2] \in Nat
        BY <3>2, BusyRecord
      <4>2. new \in Seq(Nat)
        <5> HIDE DEF old
        <5> QED BY <4>1, AppendCopies
      <4>3. clean' = [clean EXCEPT ![task[c][1]] = new]
        BY <3>2 DEF PublishClean
      <4> HIDE DEF new
      <4>4. \A S : clean \in [Partitions -> S] /\ new \in S =>
                     [clean EXCEPT ![task[c][1]] = new] \in [Partitions -> S]
        OBVIOUS
      <4>5. [clean EXCEPT ![task[c][1]] = new] \in [Partitions -> Seq(Nat)]
        BY <4>1, <4>2, <4>4
      <4> QED BY <4>3, <4>5
    <3> QED BY <1>7, <3>1, <3>2 DEF Service, Insert, InsertFail, Publish, PublishFail,
       DeadLetter, DeadLetterFail
  <2> QED BY <2>1, <2>2, <2>3, <2>4, <2>5, <2>6
<1>8. CASE UNCHANGED vars
  BY <1>8 DEF vars, groupVars
<1> QED
  BY <1>1, <1>2, <1>3, <1>4, <1>5, <1>6, <1>7, <1>8 DEF Next, GroupStep, LoopStep, ProcessEnds

(***************************************************************************)
(* Logs, tables and topics only grow                                       *)
(***************************************************************************)
Extends(t, s) == DOMAIN s \subseteq DOMAIN t /\ \A i \in DOMAIN s : t[i] = s[i]

Grows ==
  /\ \A p \in Partitions : Extends(log'[p], log[p]) /\ Extends(clean'[p], clean[p])
  /\ db \subseteq db'
  /\ dlq \subseteq dlq'

\* What PublishClean does to the clean topic.
LEMMA PublishCleanAppends ==
  ASSUME TypeOK, Claims, NEW c \in Consumers, pc[c] = "midway",
         NEW n \in Nat, PublishClean(c, n)
  PROVE  LET p == task[c][1]  o == task[c][2] IN
         /\ \A q \in Partitions \ {p} : clean'[q] = clean[q]
         /\ DOMAIN clean[p] = 1..Len(clean[p]) /\ Len(clean[p]) \in Nat
         /\ DOMAIN clean'[p] = 1..(Len(clean[p]) + n)
         /\ \A i \in 1..Len(clean[p]) : clean'[p][i] = clean[p][i]
         /\ \A i \in (Len(clean[p]) + 1)..(Len(clean[p]) + n) : clean'[p][i] = o
<1> DEFINE old == clean[task[c][1]]
           new == old \o Repeat(task[c][2], n)
<1>1. old \in Seq(Nat) /\ task[c][2] \in Nat /\ task[c][1] \in Partitions
  BY BusyRecord DEF TypeOK
<1>2. clean' = [clean EXCEPT ![task[c][1]] = new] /\ DOMAIN clean = Partitions
  BY DEF PublishClean, TypeOK
<1>3. /\ new \in Seq(Nat) /\ Len(new) = Len(old) + n
      /\ \A i \in 1..Len(old) : new[i] = old[i]
      /\ \A i \in (Len(old) + 1)..(Len(old) + n) : new[i] = task[c][2]
  <2> HIDE DEF old
  <2> QED BY <1>1, AppendCopies, ZenonT(40)
<1>4. clean'[task[c][1]] = new /\ \A q \in Partitions \ {task[c][1]} : clean'[q] = clean[q]
  BY <1>1, <1>2
<1> HIDE DEF new
<1> QED BY <1>1, <1>3, <1>4

LEMMA StepGrows == TypeOK /\ Claims /\ [Next]_vars => Grows
<1> SUFFICES ASSUME TypeOK, Claims, [Next]_vars PROVE Grows
  OBVIOUS
<1>1. ASSUME NEW m \in Messages, Produce(m), UNCHANGED outputs PROVE Grows
  <2>1. \A p \in Partitions : log[p] \in Seq(Messages)
    BY DEF TypeOK, GroupTypeOK
  <2>2. \A p \in Partitions : log'[p] = log[p] \/ log'[p] = Append(log[p], m)
    BY <1>1 DEF TypeOK, GroupTypeOK, Produce
  <2>3. \A p \in Partitions : Extends(log'[p], log[p])
    BY <2>1, <2>2 DEF Extends
  <2> QED BY <1>1, <2>3 DEF Grows, Extends, outputs
<1>2. ASSUME NEW c \in Consumers, Publish(c) \/ PublishFail(c) PROVE Grows
  <2>1. pc[c] = "midway" /\ UNCHANGED <<log, db, dlq>>
    BY <1>2 DEF Publish, PublishFail
  <2>2. PICK n \in Nat : PublishClean(c, n)
    BY <1>2 DEF Publish, PublishFail
  <2> DEFINE t == task[c][1]
  <2>3. Extends(clean'[t], clean[t])
    <3>1. /\ DOMAIN clean[t] = 1..Len(clean[t]) /\ Len(clean[t]) \in Nat
          /\ DOMAIN clean'[t] = 1..(Len(clean[t]) + n)
          /\ \A i \in 1..Len(clean[t]) : clean'[t][i] = clean[t][i]
      BY <2>1, <2>2, PublishCleanAppends
    <3> HIDE DEF t
    <3> QED BY <3>1 DEF Extends
  <2>4. \A p \in Partitions \ {t} : clean'[p] = clean[p]
    BY <2>1, <2>2, PublishCleanAppends
  <2> QED BY <2>1, <2>3, <2>4 DEF Grows, Extends
<1>3. ASSUME NEW c \in Consumers, Insert(c) \/ InsertFail(c) PROVE Grows
  BY <1>3 DEF Insert, InsertFail, InsertReading, Grows, Extends
<1>4. ASSUME NEW c \in Consumers, DeadLetter(c) \/ DeadLetterFail(c) PROVE Grows
  BY <1>4 DEF DeadLetter, DeadLetterFail, Grows, Extends
<1>5. ASSUME UNCHANGED <<log, db, clean, dlq>> PROVE Grows
  BY <1>5 DEF Grows, Extends
<1>6. ASSUME NEW c \in Consumers, UNCHANGED outputs,
             \/ Start(c) \/ Cancel(c) \/ Kill(c) \/ Exit(c) \/ Stop(c) \/ FetchFail(c)
             \/ Commit(c) \/ CommitInterrupted(c) \/ CommitFail(c)
             \/ \E p \in Partitions : Assign(p, c) \/ Rebalance(p, c) \/ Fetch(c, p)
      PROVE  Grows
  <2>1. UNCHANGED log
    BY <1>6 DEF Start, Cancel, Kill, Exit, Stop, FetchFail, Commit, CommitInterrupted,
       CommitFail, Assign, AssignAt, Rebalance, RebalanceAt, Fetch
  <2> QED BY <1>5, <1>6, <2>1 DEF outputs
<1>7. CASE UNCHANGED vars
  BY <1>5, <1>7 DEF vars, groupVars, outputs
<1> QED
  BY <1>1, <1>2, <1>3, <1>4, <1>6, <1>7 DEF Next, GroupStep, LoopStep, ProcessEnds, Service

\* What has been dealt with stays dealt with.
LEMMA DisposedStable ==
  ASSUME Grows, NEW p \in Partitions, NEW o \in DOMAIN log[p], Disposed(p, o)
  PROVE  Disposed(p, o)' /\ o \in DOMAIN log'[p] /\ log'[p][o] = log[p][o]
  BY DEF Grows, Extends, Disposed, Published

(***************************************************************************)
(* Each conjunct of the invariant is preserved                             *)
(***************************************************************************)

\* A step of c changes no other replica's place in its loop.
OthersKeep(c) ==
  \A d \in Consumers \ {c} : pc'[d] = pc[d] /\ task'[d] = task[d]

\* A replica that keeps its record keeps its claim -- returning from Run
\* included -- and one without a record has nothing to claim.
LEMMA ClaimStable ==
  ASSUME TypeOK, Grows, NEW c \in Consumers, Claim(c),
         \/ pc'[c] \in {"fetch"} \cup Returned \cup Ended /\ ~Busy(c)'
         \/ (pc'[c] = pc[c] \/ pc'[c] \in Returned) /\ task'[c] = task[c]
  PROVE  Claim(c)'
<1>1. CASE ~Busy(c)' /\ pc'[c] \in {"fetch"} \cup Returned \cup Ended
  BY <1>1 DEF Claim, Busy, Returned, Ended
<1>2. CASE ~Busy(c)' /\ pc'[c] = pc[c] /\ task'[c] = task[c]
  BY <1>2 DEF Claim, Busy
<1>3. CASE Busy(c)' /\ task'[c] = task[c] /\ (pc'[c] = pc[c] \/ pc'[c] \in Returned)
  <2>1. PICK p \in Partitions, o \in Nat : task[c] = <<p, o>> /\ task'[c] = <<p, o>>
    <3>1. task[c] \in Partitions \X Nat
      BY <1>3 DEF Busy, TypeOK, GroupTypeOK
    <3> QED BY <1>3, <3>1
  <2>2. o \in DOMAIN log[p] /\ \A q \in 1..(o - 1) : Disposed(p, q)
    BY <1>3, <2>1 DEF Claim, Busy
  <2>3. \A q \in 1..(o - 1) : q \in DOMAIN log[p]
    BY <2>1, <2>2 DEF TypeOK, GroupTypeOK
  <2>4. \A q \in 1..(o - 1) : Disposed(p, q)'
    BY <2>2, <2>3, DisposedStable
  <2>5. o \in DOMAIN log'[p] /\ log'[p][o] = log[p][o]
    BY <2>2 DEF Grows, Extends
  <2>6. pc[c] = "midway" => log[p][o] \in db'
    BY <2>1 DEF Claim, Grows
  <2>7. pc[c] = "commit" => Disposed(p, o)'
    BY <2>1, <2>2, DisposedStable DEF Claim
  <2> QED BY <1>3, <2>1, <2>2, <2>4, <2>5, <2>6, <2>7 DEF Claim, Busy, Returned, Ended
<1> QED BY <1>1, <1>2, <1>3 DEF Busy

LEMMA LeaveKeeps ==
  ASSUME TypeOK, NEW c \in Consumers, NEW how \in Ended, Leave(c, how)
  PROVE  OthersKeep(c) /\ ~Busy(c)' /\ pc'[c] \in Ended
  BY DEF TypeOK, GroupTypeOK, Leave, Goto, OthersKeep, Busy

LEMMA ReturnKeeps ==
  ASSUME TypeOK, NEW c \in Consumers, NEW r \in Returned, Return(c, r)
  PROVE  OthersKeep(c) /\ task' = task /\ pc'[c] \in Returned
  BY DEF TypeOK, GroupTypeOK, Return, Goto, OthersKeep

\* It is enough to look at the replica that moves.
LEMMA ClaimsByActor ==
  ASSUME TypeOK, Grows, Claims, NEW c \in Consumers, OthersKeep(c), Claim(c)'
  PROVE  Claims'
<1> SUFFICES ASSUME NEW d \in Consumers PROVE Claim(d)'
  BY DEF Claims
<1>1. CASE d = c
  BY <1>1
<1>2. CASE d # c
  BY <1>2, ClaimStable DEF OthersKeep, Claims
<1> QED BY <1>1, <1>2

LEMMA ClaimsStep ==
  TypeOK /\ Claims /\ PositionOK /\ Grows /\ [Next]_vars => Claims'
<1> SUFFICES ASSUME TypeOK, Claims, PositionOK, Grows, [Next]_vars PROVE Claims'
  OBVIOUS
<1>1. ASSUME UNCHANGED <<pc, task>> PROVE Claims'
  BY <1>1, ClaimStable DEF Claims
<1>2. ASSUME NEW c \in Consumers, OthersKeep(c), ~Busy(c)', pc'[c] \in {"fetch"} \cup Ended
      PROVE  Claims'
  BY <1>2, ClaimStable, ClaimsByActor DEF Claims
<1>3. ASSUME NEW c \in Consumers, Start(c) \/ Commit(c) \/ CommitInterrupted(c)
      PROVE  Claims'
  <2>1. OthersKeep(c) /\ ~Busy(c)' /\ pc'[c] = "fetch"
    BY <1>3 DEF Start, Commit, CommitInterrupted, Goto, OthersKeep, Claims, Claim, Busy,
       TypeOK, GroupTypeOK
  <2> QED BY <1>2, <2>1
<1>4. ASSUME NEW c \in Consumers, Kill(c) \/ Exit(c) PROVE Claims'
  <2>1. \E how \in Ended : Leave(c, how)
    BY <1>4 DEF Kill, Exit, Ended
  <2> QED BY <1>2, <2>1, LeaveKeeps
<1>5. ASSUME NEW c \in Consumers,
             \/ Stop(c) \/ FetchFail(c) \/ CommitFail(c)
             \/ InsertFail(c) \/ PublishFail(c) \/ DeadLetterFail(c)
      PROVE  Claims'
  <2>1. \E r \in Returned : Return(c, r)
    BY <1>5 DEF Stop, FetchFail, CommitFail, InsertFail, PublishFail, DeadLetterFail, Returned
  <2> QED BY <2>1, ReturnKeeps, ClaimStable, ClaimsByActor DEF Claims
<1>6. ASSUME NEW c \in Consumers, NEW p \in Partitions, Fetch(c, p) PROVE Claims'
  <2> DEFINE o == position[p] + 1
  <2>1. /\ OthersKeep(c) /\ task'[c] = <<p, o>> /\ log' = log
        /\ pc'[c] = Decode(log[p][o])
    BY <1>6 DEF Fetch, Goto, OthersKeep, TypeOK, GroupTypeOK
  <2>2. position[p] \in Nat /\ log[p] \in Seq(Messages) /\ position[p] < Len(log[p])
    BY <1>6 DEF Fetch, TypeOK, GroupTypeOK
  <2>3. o \in Nat /\ o \in DOMAIN log[p] /\ o - 1 = position[p]
    BY <2>2
  <2>4. owner[p] = c /\ ~Busy(c) /\ c # None
    BY <1>6, GroupAssumption DEF Fetch, Claims, Claim, GroupAssumption
  <2>5. \A q \in 1..(o - 1) : Disposed(p, q)'
    <3> TAKE q \in 1..(o - 1)
    <3>1. Disposed(p, q) /\ q \in DOMAIN log[p]
      <4>1. q \in 1..position[p] /\ ~Holds(c, p, q)
        BY <2>3, <2>4, HoldsBusy
      <4> QED BY <2>4, <4>1 DEF PositionOK, PartitionOK
    <3> QED BY <3>1, DisposedStable
  <2>6. \/ pc'[c] = "handle" /\ log[p][o] \in Valid
        \/ pc'[c] = "deadletter" /\ log[p][o] \notin Valid
    BY <2>1 DEF Decode
  <2>7. Claim(c)'
    <3> HIDE DEF o
    <3>1. Busy(c)'
      BY <2>1, <2>3, GroupAssumption DEF Busy, GroupAssumption
    <3> QED BY <2>1, <2>3, <2>5, <2>6, <3>1 DEF Claim, Ended
  <2> QED BY <2>1, <2>7, ClaimsByActor
<1>7. ASSUME NEW c \in Consumers, Insert(c) \/ Publish(c) \/ DeadLetter(c) PROVE Claims'
  <2>1. /\ OthersKeep(c) /\ task' = task /\ log' = log
        /\ pc'[c] \in {"midway", "commit"}
    BY <1>7 DEF Insert, Publish, DeadLetter, Goto, OthersKeep, TypeOK, GroupTypeOK
  <2>2. PICK p \in Partitions, o \in Nat : task[c] = <<p, o>> /\ o \in DOMAIN log[p]
    BY <1>7, BusyRecord DEF Insert, Publish, DeadLetter
  <2>3. \A q \in 1..(o - 1) : Disposed(p, q)'
    <3> TAKE q \in 1..(o - 1)
    <3>1. Disposed(p, q)
      BY <1>7, <2>2 DEF Insert, Publish, DeadLetter, Claims, Claim
    <3>2. q \in DOMAIN log[p]
      BY <2>2 DEF TypeOK, GroupTypeOK
    <3> QED BY <3>1, <3>2, DisposedStable
  <2>4. /\ pc'[c] = "midway" => log[p][o] \in Valid /\ log[p][o] \in db'
        /\ pc'[c] = "commit" => Disposed(p, o)'
    <3>1. CASE Insert(c)
      BY <3>1, <2>1, <2>2 DEF Insert, InsertReading, Record, Goto, Claims, Claim, TypeOK, GroupTypeOK
    <3>2. CASE Publish(c)
      <4>1. PICK n \in 1..2 : PublishClean(c, n)
        BY <3>2 DEF Publish
      <4>2. clean'[p][Len(clean[p]) + 1] = o /\ Len(clean[p]) + 1 \in DOMAIN clean'[p]
        <5>1. n \in Nat /\ n >= 1
          BY <4>1
        <5>2. pc[c] = "midway"
          BY <3>2 DEF Publish
        <5>3. /\ Len(clean[p]) \in Nat
              /\ DOMAIN clean'[p] = 1..(Len(clean[p]) + n)
              /\ \A i \in (Len(clean[p]) + 1)..(Len(clean[p]) + n) : clean'[p][i] = o
          BY <2>2, <4>1, <5>1, <5>2, PublishCleanAppends
        <5> QED BY <5>1, <5>3
      <4>3. Published(p, o)'
        BY <4>2 DEF Published
      <4>4. log[p][o] \in Valid /\ log[p][o] \in db'
        BY <3>2, <2>1, <2>2 DEF Publish, Claims, Claim
      <4>5. pc'[c] = "commit"
        BY <3>2 DEF Publish, Goto, TypeOK, GroupTypeOK
      <4> QED BY <2>1, <4>3, <4>4, <4>5 DEF Disposed
    <3>3. CASE DeadLetter(c)
      <4>1. pc[c] = "deadletter" /\ pc'[c] = "commit" /\ <<p, o>> \in dlq'
        BY <3>3, <2>2 DEF DeadLetter, Goto, TypeOK, GroupTypeOK
      <4>2. log'[p][o] \notin Valid
        BY <4>1, <2>1, <2>2 DEF Claims, Claim
      <4> QED BY <4>1, <4>2 DEF Disposed
    <3> QED BY <1>7, <3>1, <3>2, <3>3
  <2>5. Claim(c)'
    BY <2>1, <2>2, <2>3, <2>4, GroupAssumption DEF Claim, Busy, Ended, GroupAssumption
  <2> QED BY <2>1, <2>5, ClaimsByActor
<1>8. ASSUME NEW c \in Consumers, NEW p \in Partitions, Assign(p, c) \/ Rebalance(p, c)
      PROVE  Claims'
  BY <1>1, <1>8 DEF Assign, AssignAt, Rebalance, RebalanceAt
<1>9. ASSUME NEW c \in Consumers, Cancel(c) PROVE Claims'
  BY <1>1, <1>9 DEF Cancel
<1>10. ASSUME NEW m \in Messages, Produce(m) PROVE Claims'
  BY <1>1, <1>10 DEF Produce
<1>11. CASE UNCHANGED vars
  BY <1>1, <1>11 DEF vars, groupVars
<1> QED
  BY <1>3, <1>4, <1>5, <1>6, <1>7, <1>8, <1>9, <1>10, <1>11 DEF Next, GroupStep, LoopStep, ProcessEnds, Service

\* A partition whose owner keeps it keeps its guarantee, if what the owner held
\* is still held or has been dealt with.
LEMMA PartitionStable ==
  ASSUME TypeOK, Grows, NEW p \in Partitions, PartitionOK(p),
         position'[p] = position[p],
         \/ owner'[p] = None
         \/ /\ owner'[p] = owner[p]
            /\ \A d \in Consumers : \A q \in 1..position[p] :
                 owner[p] = d /\ Holds(d, p, q) => Disposed(p, q)' \/ Holds(d, p, q)'
  PROVE  PartitionOK(p)'
<1> SUFFICES ASSUME NEW q \in 1..position[p]
             PROVE  /\ q \in DOMAIN log'[p]
                    /\ owner'[p] # None => Disposed(p, q)' \/ Holds(owner[p], p, q)'
  BY DEF PartitionOK
<1>1. q \in DOMAIN log[p] /\ q \in DOMAIN log'[p]
  BY DEF PartitionOK, Grows, Extends
<1>2. ASSUME owner'[p] # None PROVE Disposed(p, q)' \/ Holds(owner[p], p, q)'
  <2>1. PICK d \in Consumers : owner[p] = d /\ owner'[p] = d /\ owner[p] # None
    BY <1>2 DEF TypeOK, GroupTypeOK
  <2>2. CASE Disposed(p, q)
    BY <1>1, <2>2, DisposedStable
  <2>3. CASE Holds(d, p, q)
    <3>1. Disposed(p, q)' \/ Holds(d, p, q)'
      BY <2>1, <2>3
    <3> QED BY <2>1, <3>1 DEF Holds, Busy
  <2> QED BY <2>1, <2>2, <2>3 DEF PartitionOK
<1> QED BY <1>1, <1>2 DEF PartitionOK

LEMMA PositionStep ==
  TypeOK /\ Claims /\ PositionOK /\ NoSilentLoss /\ Grows /\ [Next]_vars => PositionOK'
<1> SUFFICES ASSUME TypeOK, Claims, PositionOK, NoSilentLoss, Grows, [Next]_vars,
                    NEW p \in Partitions
             PROVE  PartitionOK(p)'
  BY DEF PositionOK
<1> USE DEF PositionOK
\* The owner does not move, or moves without letting go of its record.
<1>1. ASSUME UNCHANGED <<owner, position, task>> PROVE PartitionOK(p)'
  BY <1>1, PartitionStable DEF Holds
<1>2. ASSUME NEW c \in Consumers, Start(c) \/ Cancel(c) PROVE PartitionOK(p)'
  BY <1>1, <1>2 DEF Start, Cancel
<1>3. ASSUME NEW c \in Consumers,
             Service(c) \/ Stop(c) \/ FetchFail(c) \/ CommitFail(c)
      PROVE  PartitionOK(p)'
  BY <1>1, <1>3 DEF Service, Stop, FetchFail, CommitFail, Return, Insert, InsertFail,
     Publish, PublishFail, DeadLetter, DeadLetterFail
\* The process ends and its partitions become free.
<1>4. ASSUME NEW c \in Consumers, Kill(c) \/ Exit(c) PROVE PartitionOK(p)'
  <2>1. \E how \in Ended : Leave(c, how)
    BY <1>4 DEF Kill, Exit, Ended
  <2>2. /\ OthersKeep(c) /\ position'[p] = position[p]
        /\ owner'[p] = None \/ (owner'[p] = owner[p] /\ owner[p] # c)
    BY <2>1, LeaveKeeps DEF Leave
  <2>3. \A d \in Consumers \ {c} : \A q : Holds(d, p, q) => Holds(d, p, q)'
    BY <2>2 DEF OthersKeep, Holds
  <2> QED BY <2>2, <2>3, PartitionStable
\* The replica lets go of a record it has dealt with.
<1>5. ASSUME NEW c \in Consumers, Commit(c) \/ CommitInterrupted(c) PROVE PartitionOK(p)'
  <2>1. UNCHANGED <<owner, position>> /\ OthersKeep(c) /\ pc[c] = "commit"
    BY <1>5 DEF Commit, CommitInterrupted, OthersKeep, Goto, TypeOK, GroupTypeOK
  <2>2. \A d \in Consumers \ {c} : \A q : Holds(d, p, q) => Holds(d, p, q)'
    BY <2>1 DEF OthersKeep, Holds
  <2>3. ASSUME NEW q \in 1..position[p], Holds(c, p, q) PROVE Disposed(p, q)'
    <3>1. Disposed(p, q) /\ q \in DOMAIN log[p]
      BY <2>1, <2>3, BusyRecord DEF Holds, Claims, Claim, Busy
    <3> QED BY <3>1, DisposedStable
  <2> QED BY <2>1, <2>2, <2>3, PartitionStable
\* A fetch: all that was fetched before has been dealt with.
<1>6. ASSUME NEW c \in Consumers, NEW f \in Partitions, Fetch(c, f) PROVE PartitionOK(p)'
  <2>1. /\ UNCHANGED owner /\ OthersKeep(c) /\ ~Busy(c) /\ owner[f] = c
        /\ task'[c] = <<f, position[f] + 1>> /\ log' = log
    BY <1>6 DEF Fetch, Goto, OthersKeep, Claims, Claim, TypeOK, GroupTypeOK
  <2>2. \A d \in Consumers : \A q \in Nat : Holds(d, p, q) => Holds(d, p, q)'
    BY <2>1, HoldsBusy DEF OthersKeep, Holds
  <2>3. CASE p # f
    <3>1. position'[p] = position[p]
      BY <1>6, <2>3 DEF Fetch, TypeOK, GroupTypeOK
    <3> QED BY <2>1, <2>2, <3>1, PartitionStable
  <2>4. CASE p = f
    <3>1. position[p] \in Nat /\ position'[p] = position[p] + 1
      BY <1>6, <2>4 DEF Fetch, TypeOK, GroupTypeOK
    <3>2. position[p] + 1 \in DOMAIN log[p]
      BY <1>6, <2>4, <3>1 DEF Fetch, TypeOK, GroupTypeOK
    <3>3. ASSUME NEW q \in 1..position[p] PROVE Disposed(p, q)' /\ q \in DOMAIN log'[p]
      <4>1. Disposed(p, q) /\ q \in DOMAIN log[p]
        BY <2>1, <2>4, HoldsBusy, GroupAssumption DEF PartitionOK, GroupAssumption
      <4> QED BY <4>1, DisposedStable
    <3>4. Holds(c, p, position[p])'
      BY <2>1, <2>4, <3>1 DEF Holds
    <3> QED BY <2>1, <2>4, <3>1, <3>2, <3>3, <3>4 DEF PartitionOK, Holds
  <2> QED BY <2>3, <2>4
\* An assignment starts from the committed offset.
<1>7. ASSUME NEW c \in Consumers, NEW f \in Partitions, Assign(f, c) \/ Rebalance(f, c)
      PROVE  PartitionOK(p)'
  <2>1. CASE p = f
    <3>1. position'[p] = committed[p] /\ log' = log
      BY <1>7, <2>1 DEF Assign, AssignAt, Rebalance, RebalanceAt, TypeOK, GroupTypeOK
    <3>2. \A q \in 1..committed[p] : q \in DOMAIN log'[p] /\ Disposed(p, q)'
      BY DisposedStable DEF NoSilentLoss
    <3> QED BY <3>1, <3>2 DEF PartitionOK
  <2>2. CASE p # f
    <3>1. position'[p] = position[p] /\ owner'[p] = owner[p] /\ UNCHANGED <<pc, task>>
      BY <1>7, <2>2 DEF Assign, AssignAt, Rebalance, RebalanceAt, TypeOK, GroupTypeOK
    <3> QED BY <3>1, PartitionStable DEF Holds
  <2> QED BY <2>1, <2>2
<1>8. ASSUME NEW m \in Messages, Produce(m) PROVE PartitionOK(p)'
  BY <1>1, <1>8 DEF Produce
<1>9. CASE UNCHANGED vars
  BY <1>1, <1>9 DEF vars, groupVars
<1> QED
  BY <1>2, <1>3, <1>4, <1>5, <1>6, <1>7, <1>8, <1>9 DEF Next, GroupStep, LoopStep, ProcessEnds

LEMMA NoSilentLossStep ==
  TypeOK /\ Claims /\ NoSilentLoss /\ Grows /\ [Next]_vars => NoSilentLoss'
<1> SUFFICES ASSUME TypeOK, Claims, NoSilentLoss, Grows, [Next]_vars,
                    NEW p \in Partitions, NEW o \in 1..committed'[p]
             PROVE  o \in DOMAIN log'[p] /\ Disposed(p, o)'
  BY DEF NoSilentLoss
<1>1. o \in 1..committed[p] \/ \E c \in Consumers : pc[c] = "commit" /\ Acknowledge(c)
  <2>1. CASE UNCHANGED committed
    BY <2>1
  <2>2. CASE \E c \in Consumers : pc[c] = "commit" /\ Acknowledge(c)
    BY <2>2
  <2> QED
    BY <2>1, <2>2 DEF Next, GroupStep, LoopStep, ProcessEnds, Service, vars, groupVars, Produce, Start, Cancel,
       Kill, Exit, Assign, AssignAt, Rebalance, RebalanceAt, Fetch, Stop, FetchFail, Commit, CommitInterrupted,
       CommitFail, Insert, InsertFail, Publish, PublishFail, DeadLetter, DeadLetterFail
\* Committed before this step.
<1>2. CASE o \in 1..committed[p]
  BY <1>2, DisposedStable DEF NoSilentLoss
\* A commit: its record is dealt with, and so is every record before it.
<1>3. CASE \E c \in Consumers : pc[c] = "commit" /\ Acknowledge(c)
  <2>1. PICK c \in Consumers : pc[c] = "commit" /\ Acknowledge(c)
    BY <1>3
  <2>2. PICK t \in Partitions, u \in Nat :
          /\ task[c] = <<t, u>> /\ u \in DOMAIN log[t]
          /\ Disposed(t, u) /\ \A q \in 1..(u - 1) : Disposed(t, q)
    BY <2>1, BusyRecord DEF Claims, Claim, Busy
  <2>3. \/ o \in 1..committed[p]
        \/ p = t /\ o \in 1..u
    BY <2>1, <2>2 DEF Acknowledge, TypeOK, GroupTypeOK
  <2>4. CASE p = t /\ o \in 1..u
    <3>1. o \in DOMAIN log[p]
      BY <2>2, <2>4 DEF TypeOK, GroupTypeOK
    <3>2. Disposed(p, o)
      BY <2>2, <2>4
    <3> QED BY <3>1, <3>2, DisposedStable
  <2> QED BY <1>2, <2>3, <2>4
<1> QED BY <1>1, <1>2, <1>3

\* An entry that was not on the clean topic before is the publisher's record.
LEMMA NewCleanEntry ==
  ASSUME TypeOK, Claims, NEW c \in Consumers, pc[c] = "midway",
         NEW n \in Nat, PublishClean(c, n),
         NEW p \in Partitions, NEW i \in DOMAIN clean'[p], i \notin DOMAIN clean[p]
  PROVE  /\ p = task[c][1] /\ clean'[p][i] = task[c][2]
         /\ DOMAIN clean[p] = 1..Len(clean[p]) /\ i \in Nat /\ i > Len(clean[p])
<1> DEFINE t == task[c][1]
<1>2. \A q \in Partitions \ {t} : clean'[q] = clean[q]
  BY PublishCleanAppends
<1>3. /\ DOMAIN clean[t] = 1..Len(clean[t]) /\ Len(clean[t]) \in Nat
      /\ DOMAIN clean'[t] = 1..(Len(clean[t]) + n)
  BY PublishCleanAppends
<1>4. \A k \in (Len(clean[t]) + 1)..(Len(clean[t]) + n) : clean'[t][k] = task[c][2]
  BY PublishCleanAppends
<1>5. p = t
  BY <1>2
<1>6. /\ i \in Nat /\ i > Len(clean[t])
      /\ i \in (Len(clean[t]) + 1)..(Len(clean[t]) + n)
  <2> HIDE DEF t
  <2> QED BY <1>3, <1>5
<1>7. clean'[t][i] = task[c][2]
  BY <1>4, <1>6
<1> QED BY <1>3, <1>5, <1>6, <1>7

LEMMA CleanContractStep ==
  TypeOK /\ Claims /\ CleanContract /\ Grows /\ [Next]_vars => CleanContract'
<1> SUFFICES ASSUME TypeOK, Claims, CleanContract, Grows, [Next]_vars PROVE CleanContract'
  OBVIOUS
<1> DEFINE Good(p, o) == o \in DOMAIN log[p] /\ log[p][o] \in Valid /\ log[p][o] \in db
           Poison(p, o) == o \in DOMAIN log[p] /\ log[p][o] \notin Valid
<1>1. \A p \in Partitions : \A o : Good(p, o) => Good(p, o)'
  BY DEF Grows, Extends
<1>2. \A p \in Partitions : \A o : Poison(p, o) => Poison(p, o)'
  BY DEF Grows, Extends
<1>3. ASSUME NEW p \in Partitions, NEW i \in DOMAIN clean'[p] PROVE Good(p, clean[p][i])'
  <2>1. CASE i \in DOMAIN clean[p]
    <3>1. clean'[p][i] = clean[p][i] /\ Good(p, clean[p][i])
      BY <2>1 DEF CleanContract, Grows, Extends
    <3> QED BY <3>1, <1>1
  <2>2. CASE i \notin DOMAIN clean[p]
    <3>1. PICK c \in Consumers : pc[c] = "midway" /\ \E n \in Nat : PublishClean(c, n)
      <4>1. clean' # clean
        BY <2>2
      <4> QED
        BY <4>1 DEF Next, GroupStep, LoopStep, ProcessEnds, Service, vars, groupVars, outputs, Insert, InsertFail,
           Publish, PublishFail, DeadLetter, DeadLetterFail
    <3>2. PICK n \in Nat : PublishClean(c, n)
      BY <3>1
    <3>3. PICK t \in Partitions, u \in Nat : task[c] = <<t, u>> /\ Good(t, u)
      BY <3>1, BusyRecord DEF Claims, Claim, Busy
    <3>4. p = t /\ clean'[p][i] = u
      BY <2>2, <3>1, <3>2, <3>3, NewCleanEntry
    <3> QED BY <1>1, <3>3, <3>4
  <2> QED BY <2>1, <2>2
<1>4. ASSUME NEW d \in dlq' PROVE Poison(d[1], d[2])'
  <2>1. CASE d \in dlq
    BY <1>2, <2>1 DEF CleanContract, TypeOK
  <2>2. CASE d \notin dlq
    <3>1. PICK c \in Consumers : pc[c] = "deadletter" /\ d = task[c]
      BY <2>2 DEF Next, GroupStep, LoopStep, ProcessEnds, Service, vars, groupVars, outputs, Insert, InsertFail,
         Publish, PublishFail, DeadLetter, DeadLetterFail
    <3>2. d[1] \in Partitions /\ Poison(d[1], d[2])
      BY <3>1, BusyRecord DEF Claims, Claim, Busy
    <3> QED BY <1>2, <3>2
  <2> QED BY <2>1, <2>2
<1> QED BY <1>3, <1>4 DEF CleanContract

LEMMA CleanInOrderStep ==
  TypeOK /\ Claims /\ CleanContract /\ CleanInOrder /\ Grows /\ [Next]_vars => CleanInOrder'
<1> SUFFICES ASSUME TypeOK, Claims, CleanContract, CleanInOrder, Grows, [Next]_vars,
                    NEW p \in Partitions, NEW i \in DOMAIN clean'[p],
                    NEW o \in 1..(clean'[p][i] - 1), log'[p][o] \in Valid
             PROVE  \E j \in 1..(i - 1) : clean'[p][j] = o
  BY DEF CleanInOrder
<1>1. log[p] \in Seq(Messages) /\ clean[p] \in Seq(Nat)
  BY DEF TypeOK, GroupTypeOK
\* An entry that was there already.
<1>2. CASE i \in DOMAIN clean[p]
  <2>1. clean'[p][i] = clean[p][i] /\ clean[p][i] \in DOMAIN log[p]
    BY <1>2 DEF CleanContract, Grows, Extends
  <2>2. o \in DOMAIN log[p] /\ log[p][o] \in Valid
    BY <1>1, <2>1 DEF Grows, Extends
  <2>3. PICK j \in 1..(i - 1) : clean[p][j] = o
    BY <1>2, <2>1, <2>2 DEF CleanInOrder
  <2>4. j \in DOMAIN clean[p]
    BY <1>1, <1>2
  <2> QED BY <2>3, <2>4 DEF Grows, Extends
\* A new entry: its publisher claims that every earlier record is dealt with.
<1>3. CASE i \notin DOMAIN clean[p]
  <2>1. PICK c \in Consumers : pc[c] = "midway" /\ \E n \in Nat : PublishClean(c, n)
    <3>1. clean' # clean
      BY <1>3
    <3> QED
      BY <3>1 DEF Next, GroupStep, LoopStep, ProcessEnds, Service, vars, groupVars, outputs, Insert, InsertFail,
         Publish, PublishFail, DeadLetter, DeadLetterFail
  <2>2. PICK n \in Nat : PublishClean(c, n)
    BY <2>1
  <2>3. PICK t \in Partitions, u \in Nat :
          /\ task[c] = <<t, u>> /\ u \in DOMAIN log[t]
          /\ \A q \in 1..(u - 1) : Disposed(t, q)
    BY <2>1, BusyRecord DEF Claims, Claim, Busy
  <2>4. /\ p = t /\ clean'[p][i] = u
        /\ DOMAIN clean[p] = 1..Len(clean[p]) /\ i \in Nat /\ i > Len(clean[p])
    BY <1>3, <2>1, <2>2, <2>3, NewCleanEntry
  <2>5. o \in DOMAIN log[p] /\ log[p][o] \in Valid /\ Disposed(p, o)
    <3>1. o \in 1..(u - 1) /\ o \in DOMAIN log[p]
      BY <1>1, <2>3, <2>4
    <3> QED BY <2>3, <2>4, <3>1 DEF Grows, Extends
  <2>6. PICK j \in DOMAIN clean[p] : clean[p][j] = o
    BY <2>5 DEF Disposed, Published
  <2>7. j \in 1..(i - 1) /\ clean'[p][j] = o
    BY <1>1, <2>4, <2>6 DEF Grows, Extends
  <2> QED BY <2>7
<1> QED BY <1>2, <1>3

(***************************************************************************)
(* How often a record is published.  Copies on the clean topic and         *)
(* handlings still due (RereadProofs) add up to one, plus what the faults  *)
(* have caused.                                                            *)
(***************************************************************************)
Rereads ==
  \A p \in Partitions : \A o \in Nat :
    Countable(p, o) /\ Copies(p, o) + Due(p, o) <= 1 + faults

\* Where record o of p is on the clean topic.
At(p, o) == {i \in DOMAIN clean[p] : clean[p][i] = o}

LEMMA FiniteAt ==
  ASSUME NEW s \in Seq(Nat), NEW o
  PROVE  LET S == {i \in DOMAIN s : s[i] = o} IN IsFiniteSet(S) /\ Cardinality(S) \in Nat
<1>1. DOMAIN s = 1..Len(s) /\ Len(s) \in Nat
  OBVIOUS
<1>2. IsFiniteSet(1..Len(s))
  BY <1>1, FS_Interval
<1> QED BY <1>1, <1>2, Fewer

LEMMA CopiesFinite ==
  ASSUME NEW p \in Partitions, NEW o
  PROVE  /\ TypeOK => IsFiniteSet(At(p, o)) /\ Copies(p, o) \in Nat
         /\ TypeOK' => IsFiniteSet(At(p, o)') /\ Copies(p, o)' \in Nat
         /\ Copies(p, o) = Cardinality(At(p, o)) /\ Copies(p, o)' = Cardinality(At(p, o)')
<1>1. Copies(p, o) = Cardinality(At(p, o)) /\ Copies(p, o)' = Cardinality(At(p, o)')
  BY DEF Copies, At
<1>2. ASSUME TypeOK PROVE IsFiniteSet(At(p, o)) /\ Copies(p, o) \in Nat
  <2>1. clean[p] \in Seq(Nat)
    BY <1>2 DEF TypeOK
  <2> QED BY <2>1, FiniteAt DEF At, Copies
<1>3. ASSUME TypeOK' PROVE IsFiniteSet(At(p, o)') /\ Copies(p, o)' \in Nat
  <2>1. clean'[p] \in Seq(Nat)
    BY <1>3 DEF TypeOK
  <2> QED BY <2>1, FiniteAt DEF At, Copies
<1> QED BY <1>1, <1>2, <1>3

\* n copies more of the publisher's record, and none of any other.
LEMMA CopiesGrow ==
  ASSUME TypeOK, TypeOK', Claims, NEW c \in Consumers, pc[c] = "midway",
         NEW n \in 0..2, PublishClean(c, n), NEW p \in Partitions, NEW o \in Nat
  PROVE  /\ Copies(p, o)' <= Copies(p, o) + n
         /\ task[c] # <<p, o>> => Copies(p, o)' = Copies(p, o)
<1> DEFINE t == task[c][1]  u == task[c][2]  l == Len(clean[t])
<1>1. /\ task[c] = <<t, u>> /\ t \in Partitions
      /\ \A q \in Partitions \ {t} : clean'[q] = clean[q]
      /\ DOMAIN clean[t] = 1..l /\ l \in Nat
      /\ DOMAIN clean'[t] = 1..(l + n)
      /\ \A i \in 1..l : clean'[t][i] = clean[t][i]
      /\ \A i \in (l + 1)..(l + n) : clean'[t][i] = u
  <2>1. n \in Nat
    OBVIOUS
  <2>2. task[c] = <<t, u>> /\ t \in Partitions
    BY BusyRecord
  <2>3. \A q \in Partitions \ {t} : clean'[q] = clean[q]
    BY <2>1, PublishCleanAppends
  <2>4. /\ DOMAIN clean[t] = 1..l /\ l \in Nat
        /\ DOMAIN clean'[t] = 1..(l + n)
    BY <2>1, PublishCleanAppends
  <2>5. /\ \A i \in 1..l : clean'[t][i] = clean[t][i]
        /\ \A i \in (l + 1)..(l + n) : clean'[t][i] = u
    BY <2>1, PublishCleanAppends
  <2> QED BY <2>2, <2>3, <2>4, <2>5
<1> HIDE DEF t, u, l
<1>2. n \in Nat
  OBVIOUS
<1>3. /\ IsFiniteSet(At(p, o)) /\ IsFiniteSet(At(p, o)')
      /\ Copies(p, o) = Cardinality(At(p, o)) /\ Copies(p, o)' = Cardinality(At(p, o)')
      /\ Copies(p, o) \in Nat /\ Copies(p, o)' \in Nat
  BY CopiesFinite
<1>4. task[c] # <<p, o>> => At(p, o)' = At(p, o)
  <2>1. CASE p # t
    BY <1>1, <2>1 DEF At
  <2>2. CASE p = t /\ o # u
    <3>1. \A i \in DOMAIN clean'[t] : i \in DOMAIN clean[t] \/ i \in (l + 1)..(l + n)
      BY <1>1, <1>2
    <3>2. DOMAIN clean[t] \subseteq DOMAIN clean'[t]
      BY <1>1, <1>2
    <3> QED BY <1>1, <2>2, <3>1, <3>2 DEF At
  <2> QED BY <1>1, <2>1, <2>2
<1>5. Copies(p, o)' <= Copies(p, o) + n
  <2>1. IsFiniteSet((l + 1)..(l + n)) /\ Cardinality((l + 1)..(l + n)) = n
    <3>1. Cardinality((l + 1)..(l + n)) = IF l + 1 > l + n THEN 0 ELSE (l + n) - (l + 1) + 1
      BY <1>1, <1>2, FS_Interval
    <3>2. IsFiniteSet((l + 1)..(l + n))
      BY <1>1, <1>2, FS_Interval
    <3> QED BY <1>1, <1>2, <3>1, <3>2
  <2> DEFINE all == At(p, o) \cup ((l + 1)..(l + n))
  <2>2. At(p, o)' \subseteq all
    <3>1. CASE p # t
      BY <1>1, <3>1 DEF At
    <3>2. CASE p = t
      <4>1. \A i \in DOMAIN clean'[t] : i \in DOMAIN clean[t] \/ i \in (l + 1)..(l + n)
        BY <1>1, <1>2
      <4> QED BY <1>1, <3>2, <4>1 DEF At
    <3> QED BY <3>1, <3>2
  <2>3. IsFiniteSet(all) /\ Cardinality(all)
          = Cardinality(At(p, o)) + n - Cardinality(At(p, o) \cap ((l + 1)..(l + n)))
    BY <1>3, <2>1, FS_Union
  <2>4. Cardinality(At(p, o) \cap ((l + 1)..(l + n))) \in Nat
    BY <1>3, FS_Intersection, FS_CardinalityType
  <2>5. Cardinality(At(p, o)') <= Cardinality(all) /\ Cardinality(all) \in Nat
    <3> HIDE DEF all
    <3> QED BY <2>2, <2>3, Fewer
  <2> HIDE DEF all
  <2> QED BY <1>2, <1>3, <2>3, <2>4, <2>5
<1> QED BY <1>3, <1>4, <1>5

\* A step that publishes nothing keeps within the bound if it pays for what it adds.
LEMMA RereadsPaid ==
  ASSUME TypeOK, TypeOK', UNCHANGED clean, NEW p \in Partitions, NEW o \in Nat, Paid(p, o),
         Countable(p, o), Copies(p, o) + Due(p, o) <= 1 + faults
  PROVE  Countable(p, o)' /\ Copies(p, o)' + Due(p, o)' <= 1 + faults'
<1>1. Copies(p, o)' = Copies(p, o) /\ Copies(p, o) \in Nat
  BY CopiesFinite DEF Copies
<1>2. faults \in Nat /\ faults' \in Nat
  BY DEF TypeOK, GroupTypeOK
<1>3. Due(p, o) \in Nat /\ (Countable(p, o)' => Due(p, o)' \in Nat)
  BY DueType
<1>4. Countable(p, o)' /\ Due(p, o)' <= Due(p, o) + (faults' - faults)
  BY DEF Paid, Adds
<1> QED BY <1>1, <1>2, <1>3, <1>4

LEMMA RereadsStep ==
  ASSUME TypeOK, TypeOK', Claims, Orderly, Rereads, [Next]_vars
  PROVE  Orderly' /\ Rereads'
<1>1. Orderly' /\ \A p \in Partitions : \A o \in Nat :
        Countable(p, o)' /\ Copies(p, o)' + Due(p, o)' <= 1 + faults'
  \* Steps of the group, which leave the outputs alone.
  <2>1. CASE /\ \/ \E m \in Messages : Produce(m)
                \/ \E c \in Consumers : GroupStep(c) \/ ProcessEnds(c)
             /\ UNCHANGED outputs
    <3>1. Orderly'
      BY <2>1, OrderlyGroup DEF TypeOK
    <3>2. \A p \in Partitions : \A o \in Nat : Paid(p, o)
      BY <2>1, GroupPaid DEF Rereads
    <3>3. UNCHANGED clean
      BY <2>1 DEF outputs
    <3> QED BY <3>1, <3>2, <3>3, RereadsPaid DEF Rereads
  <2>2. CASE UNCHANGED vars
    <3>1. UNCHANGED <<owner, position, pc, task, stopping, faults, clean>>
      BY <2>2 DEF vars, groupVars, outputs
    <3>2. Orderly'
      BY <3>1, OrderlyStill DEF TypeOK
    <3>3. \A p \in Partitions : \A o \in Nat : Paid(p, o)
      BY <3>1, StandsStill DEF Rereads
    <3> QED BY <3>1, <3>2, <3>3, RereadsPaid DEF Rereads
  <2>3. ASSUME NEW c \in Consumers, Insert(c) \/ DeadLetter(c)
        PROVE  Orderly' /\ \A p \in Partitions : \A o \in Nat :
                 Countable(p, o)' /\ Copies(p, o)' + Due(p, o)' <= 1 + faults'
    <3>1. /\ pc[c] \in {"handle", "deadletter"} /\ pc'[c] \in {"midway", "commit"}
          /\ \A d \in Consumers \ {c} : pc'[d] = pc[d]
          /\ UNCHANGED <<owner, stopping, task, faults, clean>>
      BY <2>3 DEF Insert, DeadLetter, Goto, TypeOK, GroupTypeOK
    <3>2. Orderly'
      BY <3>1, AtWork, OrderlyMove DEF TypeOK, Member, Ended, Working
    <3>3. \A p \in Partitions : \A o \in Nat : Adds(p, o, 0)
      <4>1. CASE Insert(c)
        BY <4>1, GoesMidway DEF Insert, Moves, Rereads
      <4>2. CASE DeadLetter(c)
        <5>1. Running(c) /\ Moves(c, {"deadletter", "commit", "fetch"})
          BY <4>2 DEF DeadLetter, Moves, Running, Loop
        <5> QED BY <3>1, <5>1, MovesOn DEF Rereads
      <4> QED BY <2>3, <4>1, <4>2
    <3> QED BY <3>1, <3>2, <3>3, RereadsPaid, Payment DEF Rereads
  <2>4. ASSUME NEW c \in Consumers, InsertFail(c) \/ DeadLetterFail(c)
        PROVE  Orderly' /\ \A p \in Partitions : \A o \in Nat :
                 Countable(p, o)' /\ Copies(p, o)' + Due(p, o)' <= 1 + faults'
    <3>1. /\ pc[c] \in Working /\ pc[c] \in Loop
          /\ Return(c, "err") /\ Failing(c) /\ UNCHANGED clean
      BY <2>4 DEF InsertFail, DeadLetterFail, Working, Loop
    <3>2. Orderly'
      BY <3>1, OrderlyReturn DEF TypeOK, Returned
    <3>3. \A p \in Partitions : \A o \in Nat : Paid(p, o)
      BY <3>1, AtWork, FailurePaid DEF Rereads, Returned
    <3> QED BY <3>1, <3>2, <3>3, RereadsPaid DEF Rereads
  \* The handler's last step: one handling less is due.
  <2>5. ASSUME NEW c \in Consumers, Publish(c)
        PROVE  Orderly' /\ \A p \in Partitions : \A o \in Nat :
                 Countable(p, o)' /\ Copies(p, o)' + Due(p, o)' <= 1 + faults'
    <3>1. /\ pc[c] = "midway" /\ pc'[c] = "commit"
          /\ \A d \in Consumers \ {c} : pc'[d] = pc[d]
          /\ Running(c) /\ Moves(c, {"deadletter", "commit", "fetch"})
          /\ UNCHANGED <<owner, stopping, task>>
      BY <2>5 DEF Publish, Goto, TypeOK, GroupTypeOK, Running, Loop, Moves
    <3>2. Orderly'
      BY <3>1, AtWork, OrderlyMove DEF TypeOK, Member, Ended, Working
    <3>3. PICK n \in 1..2 : PublishClean(c, n) /\ faults' = faults + (n - 1) /\ faults \in Nat
      BY <2>5 DEF Publish, Fault, TypeOK, GroupTypeOK
    <3>4. ASSUME NEW p \in Partitions, NEW o \in Nat
          PROVE  Countable(p, o)' /\ Copies(p, o)' + Due(p, o)' <= 1 + faults'
      <4>1. /\ Adds(p, o, 0) /\ (c \in Holding(p, o) => Adds(p, o, -1))
            /\ Countable(p, o) /\ Copies(p, o) + Due(p, o) <= 1 + faults
        BY <3>1, MovesOn DEF Rereads
      <4>2. /\ Copies(p, o)' <= Copies(p, o) + n
            /\ task[c] # <<p, o>> => Copies(p, o)' = Copies(p, o)
        BY <3>1, <3>3, CopiesGrow
      <4>3. Copies(p, o) \in Nat /\ Copies(p, o)' \in Nat /\ Due(p, o) \in Nat
              /\ (Countable(p, o)' => Due(p, o)' \in Nat)
        <5>1. Copies(p, o) \in Nat /\ Copies(p, o)' \in Nat
          BY CopiesFinite
        <5> QED BY <4>1, <5>1, DueType
      <4>4. task[c] = <<p, o>> => c \in Holding(p, o)
        BY <3>1 DEF Holding
      <4>5. CASE task[c] = <<p, o>>
        BY <3>3, <4>1, <4>2, <4>3, <4>4, <4>5 DEF Adds
      <4>6. CASE task[c] # <<p, o>>
        BY <3>3, <4>1, <4>2, <4>3, <4>6 DEF Adds
      <4> QED BY <4>5, <4>6
    <3> QED BY <3>2, <3>4
  \* A publish that fails: the record may be there, and is handled again only for a
  \* fault, or because c was bound to leave.
  <2>6. ASSUME NEW c \in Consumers, PublishFail(c)
        PROVE  Orderly' /\ \A p \in Partitions : \A o \in Nat :
                 Countable(p, o)' /\ Copies(p, o)' + Due(p, o)' <= 1 + faults'
    <3>1. /\ pc[c] = "midway" /\ pc[c] \in Working /\ pc[c] \in Loop
          /\ Return(c, "err") /\ Failing(c)
      BY <2>6 DEF PublishFail, Working, Loop
    <3>2. Orderly'
      BY <3>1, OrderlyReturn DEF TypeOK, Returned
    <3>3. PICK n \in 0..1 : PublishClean(c, n)
      BY <2>6 DEF PublishFail
    <3>4. faults \in Nat /\ faults' \in Nat
      BY DEF TypeOK, GroupTypeOK
    <3>5. ASSUME NEW p \in Partitions, NEW o \in Nat
          PROVE  Countable(p, o)' /\ Copies(p, o)' + Due(p, o)' <= 1 + faults'
      <4>1. /\ Paid(p, o) /\ (c \in Holding(p, o) => Handled(p, o))
            /\ Countable(p, o) /\ Copies(p, o) + Due(p, o) <= 1 + faults
        BY <3>1, AtWork, FailurePaid DEF Rereads, Returned
      <4>2. /\ Copies(p, o)' <= Copies(p, o) + n
            /\ task[c] # <<p, o>> => Copies(p, o)' = Copies(p, o)
        <5>1. n \in 0..2
          BY <3>3
        <5> QED BY <3>1, <3>3, <5>1, CopiesGrow
      <4>3. Copies(p, o) \in Nat /\ Copies(p, o)' \in Nat /\ Due(p, o) \in Nat
              /\ (Countable(p, o)' => Due(p, o)' \in Nat)
        <5>1. Copies(p, o) \in Nat /\ Copies(p, o)' \in Nat
          BY CopiesFinite
        <5> QED BY <4>1, <5>1, DueType
      <4>4. task[c] = <<p, o>> => c \in Holding(p, o)
        BY <3>1 DEF Holding
      <4>5. CASE task[c] = <<p, o>>
        BY <3>3, <3>4, <4>1, <4>2, <4>3, <4>4, <4>5 DEF Adds, Handled
      <4>6. CASE task[c] # <<p, o>>
        BY <3>4, <4>1, <4>2, <4>3, <4>6 DEF Adds, Paid
      <4> QED BY <4>5, <4>6
    <3> QED BY <3>2, <3>5
  <2> QED
    BY <2>1, <2>2, <2>3, <2>4, <2>5, <2>6 DEF Next, Service
<1> QED BY <1>1 DEF Rereads

(***************************************************************************)
(* The promise of AtLeastOnce.  A step disposes of one record at most, and *)
(* of none before those that precede it, so the disposed records of a      *)
(* partition are a prefix of its log, which a step lengthens by one or     *)
(* leaves alone.                                                           *)
(***************************************************************************)
InSequence ==
  \A p \in Partitions : \A o \in DOMAIN log[p] :
    Disposed(p, o) => \A q \in 1..(o - 1) : Disposed(p, q)

\* A set of natural numbers that is not empty has a least element.
LEMMA Least ==
  ASSUME NEW S \in SUBSET Nat, S # {}
  PROVE  \E m \in S : \A k \in S : m <= k
<1>1. PICK m \in S : \A k \in S : <<k, m>> \notin OpToRel(<, Nat)
  BY WFMin, NatLessThanWellFounded, Zenon
<1>2. \A k \in S : ~(k < m)
  BY <1>1, Zenon DEF OpToRel
<1> QED BY <1>2

\* n is the length of the longest run of members of D from 1, up to l.
IsRun(D, l, n) == n \in 0..l /\ (\A o \in 1..n : o \in D) /\ (n < l => (n + 1) \notin D)

LEMMA RunExists ==
  ASSUME NEW D, NEW l \in Nat
  PROVE  \E n \in 0..l : IsRun(D, l, n)
<1> DEFINE S == {k \in 0..l : k = l \/ (k + 1) \notin D}
<1>1. S \in SUBSET Nat /\ l \in S
  OBVIOUS
<1>2. PICK m \in S : \A k \in S : m <= k
  BY <1>1, Least
<1>3. ASSUME NEW o \in 1..m PROVE o \in D
  <2>1. o - 1 \in 0..l /\ o - 1 # l /\ ~(m <= o - 1) /\ (o - 1) + 1 = o
    OBVIOUS
  <2> QED BY <1>2, <2>1
<1> QED BY <1>2, <1>3 DEF IsRun

LEMMA RunUnique ==
  ASSUME NEW D, NEW l \in Nat, NEW n, NEW m, IsRun(D, l, n), IsRun(D, l, m)
  PROVE  n = m
<1>1. n \in 0..l /\ m \in 0..l
  BY DEF IsRun
<1>2. ~(n < m)
  <2> SUFFICES ASSUME n < m PROVE FALSE
    OBVIOUS
  <2>1. n < l /\ n + 1 \in 1..m
    BY <1>1
  <2> QED BY <2>1 DEF IsRun
<1>3. ~(m < n)
  <2> SUFFICES ASSUME m < n PROVE FALSE
    OBVIOUS
  <2>1. m < l /\ m + 1 \in 1..n
    BY <1>1
  <2> QED BY <2>1 DEF IsRun
<1> QED BY <1>1, <1>2, <1>3

\* The records of p that are disposed of.
Out(p) == {o \in 1..Len(log[p]) : Disposed(p, o)}

LEMMA PrefixRun ==
  ASSUME NEW p \in Partitions
  PROVE  /\ TypeOK => Len(log[p]) \in Nat /\ IsRun(Out(p), Len(log[p]), DisposedPrefix(p))
         /\ TypeOK' => Len(log[p])' \in Nat /\ IsRun(Out(p)', Len(log[p])', DisposedPrefix(p)')
<1>1. ASSUME TypeOK PROVE Len(log[p]) \in Nat /\ IsRun(Out(p), Len(log[p]), DisposedPrefix(p))
  <2>1. Len(log[p]) \in Nat
    BY <1>1 DEF TypeOK, GroupTypeOK
  <2>2. PICK k \in 0..Len(log[p]) : IsRun(Out(p), Len(log[p]), k)
    BY <2>1, RunExists
  <2>3. \A n \in 0..Len(log[p]) :
          IsRun(Out(p), Len(log[p]), n) <=> /\ \A o \in 1..n : Disposed(p, o)
                                            /\ n < Len(log[p]) => ~Disposed(p, n + 1)
    BY <2>1 DEF IsRun, Out
  <2>4. /\ DisposedPrefix(p) \in 0..Len(log[p])
        /\ \A o \in 1..DisposedPrefix(p) : Disposed(p, o)
        /\ DisposedPrefix(p) < Len(log[p]) => ~Disposed(p, DisposedPrefix(p) + 1)
    BY <2>2, <2>3 DEF DisposedPrefix
  <2> QED BY <2>1, <2>3, <2>4
<1>2. ASSUME TypeOK' PROVE Len(log[p])' \in Nat /\ IsRun(Out(p)', Len(log[p])', DisposedPrefix(p)')
  <2>1. Len(log[p])' \in Nat
    BY <1>2 DEF TypeOK, GroupTypeOK
  <2>2. PICK k \in 0..Len(log[p])' : IsRun(Out(p)', Len(log[p])', k)
    BY <2>1, RunExists
  <2>3. \A n \in 0..Len(log[p])' :
          IsRun(Out(p)', Len(log[p])', n) <=> /\ \A o \in 1..n : Disposed(p, o)'
                                              /\ n < Len(log[p])' => ~Disposed(p, n + 1)'
    BY <2>1 DEF IsRun, Out
  <2>4. /\ DisposedPrefix(p)' \in 0..Len(log[p])'
        /\ \A o \in 1..DisposedPrefix(p)' : Disposed(p, o)'
        /\ DisposedPrefix(p)' < Len(log[p])' => ~Disposed(p, DisposedPrefix(p) + 1)'
    BY <2>2, <2>3 DEF DisposedPrefix
  <2> QED BY <2>1, <2>3, <2>4
<1> QED BY <1>1, <1>2


\* The record is the one the acting replica has in hand.
LEMMA DisposesOnly ==
  ASSUME IInv, Grows, NEW c \in Consumers,
         Publish(c) \/ PublishFail(c) \/ DeadLetter(c) \/ DeadLetterFail(c),
         NEW p \in Partitions, NEW o \in DOMAIN log[p], Disposed(p, o)'
  PROVE  Disposed(p, o) \/ task[c] = <<p, o>>
<1>1. CASE \E i \in DOMAIN clean[p] : clean[p][i] = o
  BY <1>1 DEF IInv, CleanContract, Disposed, Published
<1>2. CASE <<p, o>> \in dlq
  <2>1. log[p][o] \notin Valid
    BY <1>2 DEF IInv, CleanContract
  <2> QED BY <1>2, <2>1 DEF Disposed
<1>3. ASSUME NEW i \in DOMAIN clean'[p], i \notin DOMAIN clean[p], clean'[p][i] = o
      PROVE  task[c] = <<p, o>>
  <2>1. pc[c] = "midway" /\ \E n \in Nat : PublishClean(c, n)
    BY <1>3 DEF Publish, PublishFail, DeadLetter, DeadLetterFail
  <2>2. PICK n \in Nat : PublishClean(c, n)
    BY <2>1
  <2>3. p = task[c][1] /\ o = task[c][2]
    BY <1>3, <2>1, <2>2, NewCleanEntry DEF IInv
  <2>4. task[c] = <<task[c][1], task[c][2]>>
    BY <2>1, BusyRecord DEF IInv
  <2> QED BY <2>3, <2>4
<1>4. CASE <<p, o>> \in dlq' /\ <<p, o>> \notin dlq
  BY <1>4 DEF Publish, PublishFail, DeadLetter, DeadLetterFail
<1>5. \/ \E i \in DOMAIN clean'[p] : clean'[p][i] = o
      \/ <<p, o>> \in dlq'
  BY DEF Disposed, Published
<1>6. \A i \in DOMAIN clean[p] : clean'[p][i] = clean[p][i]
  BY DEF Grows, Extends
<1> QED BY <1>1, <1>2, <1>3, <1>4, <1>5, <1>6

\* A step disposes of a record that a replica has in hand, or of none.
LEMMA NewlyDisposed ==
  ASSUME IInv, Grows, [Next]_vars,
         NEW p \in Partitions, NEW o \in DOMAIN log'[p], Disposed(p, o)'
  PROVE  \/ o \in DOMAIN log[p] /\ Disposed(p, o)
         \/ \E c \in Consumers :
              /\ Publish(c) \/ PublishFail(c) \/ DeadLetter(c) \/ DeadLetterFail(c)
              /\ task[c] = <<p, o>>
<1>1. CASE UNCHANGED <<clean, dlq>>
  <2>1. CASE <<p, o>> \in dlq
    <3>1. o \in DOMAIN log[p] /\ log[p][o] \notin Valid
      BY <2>1 DEF IInv, CleanContract
    <3> QED BY <2>1, <3>1 DEF Disposed
  <2>2. CASE \E i \in DOMAIN clean[p] : clean[p][i] = o
    BY <2>2 DEF IInv, CleanContract, Disposed, Published
  <2> QED BY <1>1, <2>1, <2>2 DEF Disposed, Published
<1>2. CASE ~UNCHANGED <<clean, dlq>>
  <2>1. PICK c \in Consumers :
          Publish(c) \/ PublishFail(c) \/ DeadLetter(c) \/ DeadLetterFail(c)
    BY <1>2 DEF Next, GroupStep, LoopStep, ProcessEnds, Service, vars, groupVars, outputs, Insert,
       InsertFail, Publish, PublishFail, DeadLetter, DeadLetterFail
  <2>2. UNCHANGED log
    BY <2>1 DEF Publish, PublishFail, DeadLetter, DeadLetterFail
  <2> QED BY <2>1, <2>2, DisposesOnly
<1> QED BY <1>1, <1>2

\* What its replica knows of a record it is working on.
LEMMA Predecessors ==
  ASSUME IInv, NEW c \in Consumers, pc[c] \in {"handle", "midway", "deadletter", "commit"}
  PROVE  /\ task[c] = <<task[c][1], task[c][2]>>
         /\ task[c][1] \in Partitions /\ task[c][2] \in DOMAIN log[task[c][1]]
         /\ \A q \in 1..(task[c][2] - 1) : Disposed(task[c][1], q)
         /\ pc[c] = "commit" => Disposed(task[c][1], task[c][2])
  BY BusyRecord DEF IInv, Claims, Claim, Busy

LEMMA InSequenceStep ==
  ASSUME IInv, InSequence, Grows, [Next]_vars
  PROVE  InSequence'
<1> SUFFICES ASSUME NEW p \in Partitions, NEW o \in DOMAIN log'[p], Disposed(p, o)',
                    NEW q \in 1..(o - 1)
             PROVE  Disposed(p, q)'
  BY DEF InSequence
<1>1. /\ o \in DOMAIN log[p]
      /\ \A r \in 1..(o - 1) : Disposed(p, r)
  <2>1. CASE o \in DOMAIN log[p] /\ Disposed(p, o)
    BY <2>1 DEF InSequence
  <2>2. ASSUME NEW c \in Consumers, task[c] = <<p, o>>,
               Publish(c) \/ PublishFail(c) \/ DeadLetter(c) \/ DeadLetterFail(c)
        PROVE  o \in DOMAIN log[p] /\ \A r \in 1..(o - 1) : Disposed(p, r)
    <3>1. pc[c] \in {"handle", "midway", "deadletter", "commit"}
      BY <2>2 DEF Publish, PublishFail, DeadLetter, DeadLetterFail
    <3> QED BY <2>2, <3>1, Predecessors
  <2> QED BY <2>1, <2>2, NewlyDisposed
<1>2. q \in DOMAIN log[p]
  BY <1>1 DEF IInv, TypeOK, GroupTypeOK
<1> QED BY <1>1, <1>2, DisposedStable

\* A step that disposes of no record of p.
LEMMA PrefixKept ==
  ASSUME TypeOK, TypeOK', Grows, NEW p \in Partitions,
         \A o \in DOMAIN log'[p] : Disposed(p, o)' => o \in DOMAIN log[p] /\ Disposed(p, o)
  PROVE  DisposedPrefix(p)' = DisposedPrefix(p)
<1>1. /\ Len(log[p]) \in Nat /\ DOMAIN log[p] = 1..Len(log[p])
      /\ Len(log[p])' \in Nat /\ DOMAIN log'[p] = 1..Len(log[p])'
  BY DEF TypeOK, GroupTypeOK
<1>2. Len(log[p]) <= Len(log[p])'
  <2>1. DOMAIN log[p] \subseteq DOMAIN log'[p]
    BY DEF Grows, Extends
  <2>2. Len(log[p]) = 0 \/ Len(log[p]) \in 1..Len(log[p])
    BY <1>1
  <2> QED BY <1>1, <2>1, <2>2
<1>3. Out(p)' = Out(p)
  <2>1. \A o \in DOMAIN log[p] : Disposed(p, o) => Disposed(p, o)' /\ o \in DOMAIN log'[p]
    BY DisposedStable
  <2> QED BY <1>1, <2>1 DEF Out
<1>4. IsRun(Out(p), Len(log[p]), DisposedPrefix(p))
  BY PrefixRun
<1>5. IsRun(Out(p)', Len(log[p])', DisposedPrefix(p))
  <2> DEFINE n == DisposedPrefix(p)  l == Len(log[p])  k == Len(log[p])'
  <2>1. \A x \in Out(p) : x \in 1..l
    BY DEF Out
  <2> HIDE DEF n, l, k
  <2>2. n \in 0..l /\ (\A o \in 1..n : o \in Out(p)) /\ (n < l => (n + 1) \notin Out(p))
    BY <1>4 DEF IsRun, n, l
  <2>3. l \in Nat /\ k \in Nat /\ l <= k
    BY <1>1, <1>2 DEF l, k
  <2>4. n \in 0..k
    BY <2>2, <2>3
  <2>5. (n + 1) \notin Out(p)
    BY <2>1, <2>2, <2>3
  <2>6. IsRun(Out(p), k, n)
    BY <2>2, <2>4, <2>5 DEF IsRun
  <2> QED BY <1>3, <2>6 DEF n, k
<1>6. IsRun(Out(p)', Len(log[p])', DisposedPrefix(p)')
  BY PrefixRun
<1> QED BY <1>1, <1>5, <1>6, RunUnique

\* A step that may dispose of the record o, all before it being disposed of.
LEMMA PrefixGrows ==
  ASSUME TypeOK, TypeOK', InSequence, Grows, UNCHANGED log,
         NEW p \in Partitions, NEW o \in DOMAIN log[p],
         \A q \in 1..(o - 1) : Disposed(p, q),
         \A x \in DOMAIN log[p] : Disposed(p, x)' => Disposed(p, x) \/ x = o
  PROVE  \/ DisposedPrefix(p)' = DisposedPrefix(p)
         \/ /\ DisposedPrefix(p)' = DisposedPrefix(p) + 1
            /\ DisposedPrefix(p) < Len(log[p])
<1>0. PICK n, l : n = DisposedPrefix(p) /\ l = Len(log[p])
  OBVIOUS
<1>1. l \in Nat /\ DOMAIN log[p] = 1..l /\ log'[p] = log[p] /\ IsRun(Out(p), l, n)
  <2>1. l \in Nat /\ DOMAIN log[p] = 1..l /\ log'[p] = log[p]
    BY <1>0 DEF TypeOK, GroupTypeOK
  <2> QED BY <1>0, <2>1, PrefixRun
<1>2. /\ n \in 0..l
      /\ \A x \in 1..n : Disposed(p, x)
      /\ n < l => ~Disposed(p, n + 1)
  BY <1>1 DEF IsRun, Out
<1>3. CASE Disposed(p, o) \/ ~Disposed(p, o)'
  <2>1. \A x \in DOMAIN log'[p] : Disposed(p, x)' => x \in DOMAIN log[p] /\ Disposed(p, x)
    BY <1>1, <1>3
  <2> QED BY <2>1, PrefixKept
<1>4. CASE ~Disposed(p, o) /\ Disposed(p, o)'
  <2>1. o \in 1..l /\ o \notin 1..n
    BY <1>1, <1>2, <1>4
  <2>2. n < l /\ ~Disposed(p, n + 1)
    BY <1>1, <1>2, <2>1
  <2>3. o = n + 1
    <3>1. (n + 1) \notin 1..(o - 1)
      BY <2>2
    <3> QED BY <1>1, <1>2, <2>1, <3>1
  <2>4. \A x \in 1..(n + 1) : Disposed(p, x)'
    <3>1. \A x \in 1..n : x \in DOMAIN log[p] /\ Disposed(p, x)'
      <4>1. \A x \in 1..n : x \in DOMAIN log[p]
        BY <1>1, <1>2
      <4> QED BY <1>2, <4>1, DisposedStable
    <3> QED BY <1>1, <1>2, <1>4, <2>3, <3>1
  <2>5. n + 1 < l => ~Disposed(p, n + 2)'
    <3> SUFFICES ASSUME n + 1 < l, Disposed(p, n + 2)' PROVE FALSE
      OBVIOUS
    <3>1. n + 2 \in DOMAIN log[p] /\ n + 2 # o /\ n + 1 \in 1..((n + 2) - 1)
      BY <1>1, <1>2, <2>3
    <3>2. Disposed(p, n + 2)
      BY <3>1
    <3> QED BY <2>2, <3>1, <3>2 DEF InSequence
  <2>6. IsRun(Out(p)', l, n + 1)
    <3>1. Out(p)' = {x \in 1..l : Disposed(p, x)'}
      BY <1>0, <1>1 DEF Out
    <3>2. n + 1 \in 0..l /\ \A x \in 1..(n + 1) : x \in 1..l
      BY <1>1, <1>2, <2>2
    <3>3. n + 1 < l => ((n + 1) + 1) \notin Out(p)'
      <4>1. (n + 1) + 1 = n + 2
        BY <1>2
      <4> QED BY <2>5, <3>1, <4>1
    <3> QED BY <2>4, <3>1, <3>2, <3>3 DEF IsRun
  <2>7. IsRun(Out(p)', l, DisposedPrefix(p)')
    BY <1>0, <1>1, PrefixRun
  <2>8. DisposedPrefix(p)' = n + 1
    BY <1>1, <2>6, <2>7, RunUnique
  <2> QED BY <1>0, <2>2, <2>8
<1> QED BY <1>3, <1>4

\* The state of the promise, and what leaves it alone.
Lengths  == [p \in Partitions |-> Len(log[p])]
Prefixes == [p \in Partitions |-> DisposedPrefix(p)]

LEMMA PromiseStep ==
  ASSUME IInv, IInv', InSequence, Grows, [Next]_vars
  PROVE  \/ UNCHANGED <<Lengths, Prefixes, committed>>
         \/ \E p \in Partitions :
              \/ /\ Lengths' = [Lengths EXCEPT ![p] = @ + 1]
                 /\ UNCHANGED <<Prefixes, committed>>
              \/ /\ Prefixes[p] < Lengths[p]
                 /\ Prefixes' = [Prefixes EXCEPT ![p] = @ + 1]
                 /\ UNCHANGED <<Lengths, committed>>
              \/ /\ \E n \in 1..Prefixes[p] : committed' = [committed EXCEPT ![p] = n]
                 /\ UNCHANGED <<Lengths, Prefixes>>
<1> USE DEF Lengths, Prefixes
<1>1. TypeOK /\ TypeOK' /\ committed \in [Partitions -> Nat]
  BY DEF IInv, TypeOK, GroupTypeOK
\* The record a replica is done with.
<1>2. CASE \E c \in Consumers :
             Publish(c) \/ PublishFail(c) \/ DeadLetter(c) \/ DeadLetterFail(c)
  <2>1. PICK c \in Consumers :
          Publish(c) \/ PublishFail(c) \/ DeadLetter(c) \/ DeadLetterFail(c)
    BY <1>2
  <2>2. PICK t, u : task[c] = <<t, u>>
    <3>1. task[c] = <<task[c][1], task[c][2]>>
      BY <2>1, Predecessors DEF Publish, PublishFail, DeadLetter, DeadLetterFail
    <3> QED BY <3>1
  <2>3. /\ t \in Partitions /\ u \in DOMAIN log[t] /\ \A q \in 1..(u - 1) : Disposed(t, q)
        /\ UNCHANGED <<log, committed>>
    BY <2>1, <2>2, Predecessors DEF Publish, PublishFail, DeadLetter, DeadLetterFail
  <2>4. \A p \in Partitions : \A o \in DOMAIN log[p] :
          Disposed(p, o)' => Disposed(p, o) \/ <<p, o>> = <<t, u>>
    BY <2>1, <2>2, <2>3, DisposesOnly
  <2>5. \A p \in Partitions \ {t} : DisposedPrefix(p)' = DisposedPrefix(p)
    BY <1>1, <2>3, <2>4, PrefixKept
  <2>6. \/ DisposedPrefix(t)' = DisposedPrefix(t)
        \/ /\ DisposedPrefix(t)' = DisposedPrefix(t) + 1
           /\ DisposedPrefix(t) < Len(log[t])
    BY <1>1, <2>3, <2>4, PrefixGrows
  <2>7. CASE DisposedPrefix(t)' = DisposedPrefix(t)
    <3>1. UNCHANGED <<Lengths, Prefixes, committed>>
      BY <2>3, <2>5, <2>7
    <3> QED BY <3>1
  <2>8. CASE DisposedPrefix(t)' = DisposedPrefix(t) + 1 /\ DisposedPrefix(t) < Len(log[t])
    <3>1. /\ Prefixes[t] < Lengths[t]
          /\ Prefixes' = [Prefixes EXCEPT ![t] = @ + 1]
          /\ UNCHANGED <<Lengths, committed>>
      BY <2>3, <2>5, <2>8
    <3> QED BY <2>3, <3>1
  <2> QED BY <2>6, <2>7, <2>8
\* Nothing is disposed of.
<1>3. CASE ~\E c \in Consumers :
             Publish(c) \/ PublishFail(c) \/ DeadLetter(c) \/ DeadLetterFail(c)
  <2>1. \A p \in Partitions : DisposedPrefix(p)' = DisposedPrefix(p)
    BY <1>1, <1>3, PrefixKept, NewlyDisposed
  <2>2. UNCHANGED Prefixes
    BY <2>1
  <2>3. ASSUME NEW m \in Messages, Produce(m)
        PROVE  /\ Lengths' = [Lengths EXCEPT ![Route[m]] = @ + 1]
               /\ Route[m] \in Partitions /\ UNCHANGED committed
    <3>1. Route[m] \in Partitions /\ log[Route[m]] \in Seq(Messages)
      BY GroupAssumption DEF GroupAssumption, IInv, TypeOK, GroupTypeOK
    <3>2. Len(Append(log[Route[m]], m)) = Len(log[Route[m]]) + 1
      BY <3>1
    <3>3. /\ log'[Route[m]] = Append(log[Route[m]], m)
          /\ \A p \in Partitions \ {Route[m]} : log'[p] = log[p]
      BY <2>3, <3>1 DEF Produce, IInv, TypeOK, GroupTypeOK
    <3> QED BY <2>3, <3>1, <3>2, <3>3 DEF Produce
  <2>4. ASSUME NEW c \in Consumers, pc[c] = "commit", Acknowledge(c), UNCHANGED log
        PROVE  \E p \in Partitions :
                 /\ \E n \in 1..Prefixes[p] : committed' = [committed EXCEPT ![p] = n]
                 /\ UNCHANGED Lengths
    <3>1. PICK t, u : t = task[c][1] /\ u = task[c][2]
      OBVIOUS
    <3>2. /\ t \in Partitions /\ u \in DOMAIN log[t] /\ committed' = [committed EXCEPT ![t] = u]
          /\ Disposed(t, u) /\ \A q \in 1..(u - 1) : Disposed(t, q)
      <4>1. committed' = [committed EXCEPT ![t] = u]
        BY <2>4, <3>1 DEF Acknowledge
      <4>2. /\ task[c][1] \in Partitions /\ task[c][2] \in DOMAIN log[task[c][1]]
            /\ \A q \in 1..(task[c][2] - 1) : Disposed(task[c][1], q)
            /\ Disposed(task[c][1], task[c][2])
        BY <2>4, Predecessors
      <4> QED BY <3>1, <4>1, <4>2
    <3>3. /\ Len(log[t]) \in Nat /\ DOMAIN log[t] = 1..Len(log[t])
          /\ IsRun(Out(t), Len(log[t]), DisposedPrefix(t))
      <4>1. IsRun(Out(t), Len(log[t]), DisposedPrefix(t))
        BY <1>1, <3>2, PrefixRun
      <4> QED BY <1>1, <3>2, <4>1 DEF TypeOK, GroupTypeOK
    <3>4. u \in 1..DisposedPrefix(t)
      <4> DEFINE n == DisposedPrefix(t)  l == Len(log[t])
      <4>1. n \in 0..l /\ (n < l => ~Disposed(t, n + 1)) /\ l \in Nat /\ u \in 1..l
        BY <3>2, <3>3 DEF IsRun, Out
      <4> HIDE DEF n, l
      <4>2. ~(n < u)
        <5> SUFFICES ASSUME n < u PROVE FALSE
          OBVIOUS
        <5>1. n < l /\ (n + 1 = u \/ n + 1 \in 1..(u - 1))
          BY <4>1
        <5> QED BY <3>2, <4>1, <5>1
      <4>3. u \in 1..n
        BY <4>1, <4>2
      <4> QED BY <4>3 DEF n
    <3> QED BY <2>4, <3>2, <3>4
  <2>5. CASE UNCHANGED <<log, committed>>
    <3>1. UNCHANGED <<Lengths, Prefixes, committed>>
      BY <2>2, <2>5
    <3> QED BY <3>1
  <2>6. \/ \E m \in Messages : Produce(m)
        \/ \E c \in Consumers : pc[c] = "commit" /\ Acknowledge(c) /\ UNCHANGED log
        \/ UNCHANGED <<log, committed>>
    BY <1>3 DEF Next, GroupStep, LoopStep, ProcessEnds, Service, vars, groupVars, Start, Cancel,
       Kill, Exit, Assign, AssignAt, Rebalance, RebalanceAt, Fetch, Stop, FetchFail, Return, Commit,
       CommitInterrupted, CommitFail, Insert, InsertFail
  <2> QED BY <2>2, <2>3, <2>4, <2>5, <2>6
<1> QED BY <1>2, <1>3

(***************************************************************************)
(* The theorems                                                            *)
(***************************************************************************)

\* IInv is an invariant of the ingestion service: every reachable state
\* satisfies it, whatever rebalances, kills, signals and failed calls occur.
THEOREM Invariance == Spec => []IInv
<1>1. Init => IInv
  <2> SUFFICES ASSUME Init PROVE IInv
    OBVIOUS
  <2>1. Claims
    BY DEF Init, GroupInit, Claims, Claim, Busy, Loop
  <2>2. PositionOK /\ NoSilentLoss /\ CleanContract /\ CleanInOrder
    BY DEF Init, GroupInit, PositionOK, PartitionOK, NoSilentLoss, CleanContract, CleanInOrder
  <2> QED BY <2>1, <2>2, TypeInit DEF IInv
<1>2. IInv /\ [Next]_vars => IInv'
  BY StepGrows, TypeStep, ClaimsStep, PositionStep, NoSilentLossStep, CleanContractStep,
     CleanInOrderStep DEF IInv
<1> QED BY <1>1, <1>2, PTL DEF Spec

\* Every variable of the service keeps its type; in particular only readings
\* that passed Validate reach the database.
THEOREM TypeCorrect == Spec => []TypeOK
  BY Invariance, PTL DEF IInv

\* No record is acknowledged before it has been stored and republished, or
\* dead-lettered ("a reading is never silently lost", consumer.go).
THEOREM NothingLost == Spec => []NoSilentLoss
  BY Invariance, PTL DEF IInv

\* The clean topic holds only valid readings that are in the database, the
\* dead-letter topic names only poison records.
THEOREM CleanTopicIsClean == Spec => []CleanContract
  BY Invariance, PTL DEF IInv

\* Readings first appear on the clean topic in the order of their partition.
THEOREM CleanTopicInOrder == Spec => []CleanInOrder
  BY Invariance, PTL DEF IInv

\* A reading is published at most once more than there were faults ("occasional
\* duplicates", Handle's comment), for any number of faults.
THEOREM DuplicatesAreBounded == Spec => []DuplicatesBounded
<1>1. Init /\ TypeOK => Orderly /\ Rereads
  <2> SUFFICES ASSUME Init, TypeOK PROVE Orderly /\ Rereads
    OBVIOUS
  <2>1. Orderly
    BY OrderlyInit DEF Init, TypeOK
  <2>2. ASSUME NEW p \in Partitions, NEW o \in Nat
        PROVE  Countable(p, o) /\ Copies(p, o) + Due(p, o) <= 1 + faults
    <3>1. At(p, o) = {}
      BY DEF Init, At
    <3>2. Copies(p, o) = 0
      BY <3>1, CopiesFinite, FS_EmptySet
    <3>3. Countable(p, o) /\ Due(p, o) = 1
      BY DueInit DEF Init
    <3> QED BY <3>2, <3>3 DEF Init, GroupInit
  <2> QED BY <2>1, <2>2 DEF Rereads
<1>2. IInv /\ IInv' /\ Orderly /\ Rereads /\ [Next]_vars => (Orderly /\ Rereads)'
  BY RereadsStep DEF IInv
<1>3. IInv /\ Rereads => DuplicatesBounded
  <2> SUFFICES ASSUME IInv, Rereads, NEW p \in Partitions, NEW o \in DOMAIN log[p]
               PROVE  Copies(p, o) <= 1 + faults
    BY DEF DuplicatesBounded
  <2>1. o \in Nat /\ faults \in Nat
    BY DEF IInv, TypeOK, GroupTypeOK
  <2>2. Copies(p, o) \in Nat
    BY <2>1, CopiesFinite DEF IInv
  <2>3. Due(p, o) \in Nat /\ Copies(p, o) + Due(p, o) <= 1 + faults
    BY <2>1, DueType DEF Rereads
  <2> QED BY <2>1, <2>2, <2>3
<1>4. IInv => TypeOK
  BY DEF IInv
<1> QED BY <1>1, <1>2, <1>3, <1>4, Invariance, PTL DEF Spec

\* The ingestion service implements the promise of AtLeastOnce: with respect to its
\* log, its outputs and its committed offsets, every step of it is a step of the
\* promise or leaves the promise's state as it is.
THEOREM KeepsPromise == Spec => Implements
<1>1. Init => Promise!Init
  <2> SUFFICES ASSUME Init PROVE Promise!Init
    OBVIOUS
  <2>1. \A p \in Partitions : Len(log[p]) = 0 /\ DisposedPrefix(p) = 0
    <3> TAKE p \in Partitions
    <3>1. Len(log[p]) = 0
      BY DEF Init, GroupInit
    <3>2. DisposedPrefix(p) \in 0..0
      BY <3>1, TypeInit, PrefixRun DEF IsRun
    <3> QED BY <3>1, <3>2
  <2> QED BY <2>1 DEF Promise!Init, Init, GroupInit
<1>2. Init => InSequence
  BY DEF Init, GroupInit, InSequence
<1>3. IInv /\ InSequence /\ [Next]_vars => InSequence'
  BY StepGrows, InSequenceStep DEF IInv
<1>4. IInv /\ IInv' /\ InSequence /\ [Next]_vars => [Promise!Next]_(Promise!vars)
  <2> SUFFICES ASSUME IInv, IInv', InSequence, [Next]_vars PROVE [Promise!Next]_(Promise!vars)
    OBVIOUS
  <2>1. Grows
    BY StepGrows DEF IInv
  <2> QED BY <2>1, PromiseStep DEF Lengths, Prefixes, Promise!Next, Promise!vars, Promise!Produce,
             Promise!Deliver, Promise!Acknowledge
<1> QED BY <1>1, <1>2, <1>3, <1>4, Invariance, PTL DEF Spec, Implements, Promise!Safe
=============================================================================

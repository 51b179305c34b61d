------------------------------ MODULE RereadProofs ------------------------------
(***************************************************************************)
(* How often a group reads a record, for any service that reads through    *)
(* ConsumerGroup.  At any moment a record is due to be handled again by    *)
(* those who hold it and have not handled it yet; once more, if the        *)
(* partition will be read from before it; and once for each member that    *)
(* is bound to end its process without a further fault, since its          *)
(* partitions are then read again from what is committed.  No step adds    *)
(* more to what is due than the faults it spends.                          *)
(***************************************************************************)
EXTENDS ConsumerGroup, FiniteSetTheorems, TLAPS

\* Who has the record in hand, not handled yet.
Holding(p, o) == {c \in Consumers : task[c] = <<p, o>> /\ pc[c] \in {"handle", "midway"}}

\* Who will leave for no further fault: the context is cancelled, or the broker is
\* going to refuse the commit of a record of another partition, lost meanwhile.
Strayed(c, p) == task[c] # None /\ task[c][1] # p /\ owner[task[c][1]] # c
Leaving(p) == {c \in Consumers : Running(c) /\ (stopping[c] \/ Strayed(c, p))}

\* The partition will be read from before the record; an owner whose Run has returned
\* reads nothing any more.
Ahead(p, o) == owner[p] # None => (pc[owner[p]] \in Returned \/ position[p] < o)

Due(p, o) ==
  Cardinality(Holding(p, o)) + (IF Ahead(p, o) THEN 1 ELSE 0) + Cardinality(Leaving(p))

Countable(p, o) == IsFiniteSet(Holding(p, o)) /\ IsFiniteSet(Leaving(p))

\* A step adds no more than n to what is due, or takes that much from it.
Adds(p, o, n) == Countable(p, o)' /\ Due(p, o)' <= Due(p, o) + n

\* The group's own invariant.
Working == {"handle", "midway", "deadletter", "commit"}

Orderly ==
  /\ GroupTypeOK
  /\ \A c \in Consumers :
       /\ pc[c] \in Working => Busy(c)
       /\ pc[c] \in {"fetch"} \cup Ended => ~Busy(c)
       /\ pc[c] \in Ended => ~stopping[c]
  /\ \A p \in Partitions : owner[p] # None => Member(owner[p])

(***************************************************************************)
(* Finite sets                                                             *)
(***************************************************************************)
\* A part of a finite set is no larger.
LEMMA Fewer ==
  ASSUME NEW S, IsFiniteSet(S), NEW T \in SUBSET S
  PROVE  /\ IsFiniteSet(T)
         /\ Cardinality(S) \in Nat /\ Cardinality(T) \in Nat
         /\ Cardinality(T) <= Cardinality(S)
  <1>1. IsFiniteSet(T) /\ Cardinality(T) <= Cardinality(S)
    BY FS_Subset
  <1>2. QED  BY <1>1, FS_CardinalityType

\* Nor larger by more than the element it has gained.
LEMMA OneMore ==
  ASSUME NEW S, IsFiniteSet(S), NEW x, NEW T \in SUBSET (S \cup {x})
  PROVE  /\ IsFiniteSet(T)
         /\ Cardinality(S) \in Nat /\ Cardinality(T) \in Nat
         /\ Cardinality(T) <= Cardinality(S) + 1
  <1>1. IsFiniteSet(S \cup {x})
    BY FS_AddElement
  <1>2. Cardinality(S \cup {x}) = IF x \in S THEN Cardinality(S) ELSE Cardinality(S) + 1
    BY FS_AddElement
  <1>3. IsFiniteSet(T) /\ Cardinality(T) \in Nat /\ Cardinality(T) <= Cardinality(S \cup {x})
    BY <1>1, Fewer
  <1>4. Cardinality(S) \in Nat
    BY FS_CardinalityType
  <1>5. QED  BY <1>2, <1>3, <1>4

\* And smaller for the element it has lost.
LEMMA OneLess ==
  ASSUME NEW S, IsFiniteSet(S), NEW x \in S, NEW T \in SUBSET (S \ {x})
  PROVE  /\ IsFiniteSet(T)
         /\ Cardinality(S) \in Nat /\ Cardinality(T) \in Nat
         /\ Cardinality(T) <= Cardinality(S) - 1
  <1>1. IsFiniteSet(S \ {x})
    BY FS_RemoveElement
  <1>2. Cardinality(S \ {x}) = Cardinality(S) - 1
    BY FS_RemoveElement
  <1>3. IsFiniteSet(T) /\ Cardinality(T) \in Nat /\ Cardinality(T) <= Cardinality(S \ {x})
    BY <1>1, Fewer
  <1>4. Cardinality(S) \in Nat
    BY FS_CardinalityType
  <1>5. QED  BY <1>2, <1>3, <1>4

\* What is due is a number, now and in the next state.
LEMMA DueType ==
  ASSUME NEW p, NEW o
  PROVE  /\ Countable(p, o) => Due(p, o) \in Nat
         /\ Countable(p, o)' => Due(p, o)' \in Nat
  <1>1. ASSUME Countable(p, o) PROVE Due(p, o) \in Nat
    <2>1. Cardinality(Holding(p, o)) \in Nat /\ Cardinality(Leaving(p)) \in Nat
      BY <1>1, FS_CardinalityType DEF Countable
    <2>2. QED  BY <2>1 DEF Due
  <1>2. ASSUME Countable(p, o)' PROVE Due(p, o)' \in Nat
    <2>1. Cardinality(Holding(p, o)') \in Nat /\ Cardinality(Leaving(p)') \in Nat
      BY <1>2, FS_CardinalityType DEF Countable
    <2>2. QED  BY <2>1 DEF Due
  <1>3. QED  BY <1>1, <1>2

\* At the start nobody reads: what is due of a record is its first reading.
LEMMA DueInit ==
  ASSUME GroupInit, NEW p \in Partitions, NEW o
  PROVE  Countable(p, o) /\ Due(p, o) = 1
  <1>1. Holding(p, o) = {} /\ Leaving(p) = {} /\ Ahead(p, o)
    BY DEF GroupInit, Holding, Leaving, Running, Loop, Ahead
  <1>2. IsFiniteSet({}) /\ Cardinality({}) = 0
    BY FS_EmptySet
  <1>3. QED  BY <1>1, <1>2 DEF Countable, Due

(***************************************************************************)
(* The kinds of steps                                                      *)
(***************************************************************************)

\* Nothing of the three grows.
LEMMA Quiet ==
  ASSUME NEW p, NEW o, Countable(p, o),
         Holding(p, o)' \subseteq Holding(p, o), Leaving(p)' \subseteq Leaving(p),
         Ahead(p, o)' => Ahead(p, o)
  PROVE  Adds(p, o, 0)
  BY Fewer DEF Adds, Due, Countable

\* One of the two grows by one.
LEMMA GrowsOnce ==
  ASSUME NEW p, NEW o, NEW c, Countable(p, o),
         Holding(p, o)' \subseteq Holding(p, o), Leaving(p)' \subseteq Leaving(p) \cup {c},
         Leaving(p)' \subseteq Leaving(p) \/ (Ahead(p, o)' => Ahead(p, o))
  PROVE  Adds(p, o, 1)
  <1>1. CASE Leaving(p)' \subseteq Leaving(p)
    BY <1>1, Fewer DEF Adds, Due, Countable
  <1>2. CASE Ahead(p, o)' => Ahead(p, o)
    <2>1. /\ IsFiniteSet(Leaving(p)')
          /\ Cardinality(Leaving(p)) \in Nat /\ Cardinality(Leaving(p)') \in Nat
          /\ Cardinality(Leaving(p)') <= Cardinality(Leaving(p)) + 1
      BY OneMore DEF Countable
    <2>2. /\ IsFiniteSet(Holding(p, o)')
          /\ Cardinality(Holding(p, o)) \in Nat /\ Cardinality(Holding(p, o)') \in Nat
          /\ Cardinality(Holding(p, o)') <= Cardinality(Holding(p, o))
      BY Fewer DEF Countable
    <2>3. QED  BY <1>2, <2>1, <2>2 DEF Adds, Due, Countable
  <1>3. QED  BY <1>1, <1>2

\* One of those bound to leave has done so.
LEMMA LeavesOnce ==
  ASSUME NEW p, NEW o, NEW c \in Leaving(p), Countable(p, o),
         Holding(p, o)' \subseteq Holding(p, o), Leaving(p)' \subseteq Leaving(p) \ {c}
  PROVE  Adds(p, o, 0)
  <1>1. /\ IsFiniteSet(Leaving(p)')
        /\ Cardinality(Leaving(p)) \in Nat /\ Cardinality(Leaving(p)') \in Nat
        /\ Cardinality(Leaving(p)') <= Cardinality(Leaving(p)) - 1
    BY OneLess DEF Countable
  <1>2. /\ IsFiniteSet(Holding(p, o)')
        /\ Cardinality(Holding(p, o)) \in Nat /\ Cardinality(Holding(p, o)') \in Nat
        /\ Cardinality(Holding(p, o)') <= Cardinality(Holding(p, o))
    BY Fewer DEF Countable
  <1>3. QED  BY <1>1, <1>2 DEF Adds, Due, Countable

\* One of those who hold the record is done with it.
LEMMA PutDown ==
  ASSUME NEW p, NEW o, NEW c \in Holding(p, o), Countable(p, o),
         Holding(p, o)' \subseteq Holding(p, o) \ {c}, Leaving(p)' \subseteq Leaving(p),
         Ahead(p, o)' => Ahead(p, o)
  PROVE  Adds(p, o, -1)
  <1>1. /\ IsFiniteSet(Holding(p, o)')
        /\ Cardinality(Holding(p, o)) \in Nat /\ Cardinality(Holding(p, o)') \in Nat
        /\ Cardinality(Holding(p, o)') <= Cardinality(Holding(p, o)) - 1
    BY OneLess DEF Countable
  <1>2. /\ IsFiniteSet(Leaving(p)')
        /\ Cardinality(Leaving(p)) \in Nat /\ Cardinality(Leaving(p)') \in Nat
        /\ Cardinality(Leaving(p)') <= Cardinality(Leaving(p))
    BY Fewer DEF Countable
  <1>3. QED  BY <1>1, <1>2 DEF Adds, Due, Countable

\* One of them drops it because its process has to go: at the cost of a fault, or
\* as one of those bound to leave.
LEMMA DropsAndFails ==
  ASSUME NEW p, NEW o, NEW c \in Holding(p, o), Countable(p, o),
         Holding(p, o)' \subseteq Holding(p, o) \ {c}, Leaving(p)' \subseteq Leaving(p)
  PROVE  Adds(p, o, 0)
  <1>1. /\ IsFiniteSet(Holding(p, o)')
        /\ Cardinality(Holding(p, o)) \in Nat /\ Cardinality(Holding(p, o)') \in Nat
        /\ Cardinality(Holding(p, o)') <= Cardinality(Holding(p, o)) - 1
    BY OneLess DEF Countable
  <1>2. /\ IsFiniteSet(Leaving(p)')
        /\ Cardinality(Leaving(p)) \in Nat /\ Cardinality(Leaving(p)') \in Nat
        /\ Cardinality(Leaving(p)') <= Cardinality(Leaving(p))
    BY Fewer DEF Countable
  <1>3. QED  BY <1>1, <1>2 DEF Adds, Due, Countable

\* The same of one that was bound to leave.
LEMMA DropsAndLeaves ==
  ASSUME NEW p, NEW o, NEW c \in Holding(p, o), c \in Leaving(p), Countable(p, o),
         Holding(p, o)' \subseteq Holding(p, o) \ {c}, Leaving(p)' \subseteq Leaving(p) \ {c}
  PROVE  Adds(p, o, -1)
  <1>1. /\ IsFiniteSet(Holding(p, o)')
        /\ Cardinality(Holding(p, o)) \in Nat /\ Cardinality(Holding(p, o)') \in Nat
        /\ Cardinality(Holding(p, o)') <= Cardinality(Holding(p, o)) - 1
    BY OneLess DEF Countable
  <1>2. /\ IsFiniteSet(Leaving(p)')
        /\ Cardinality(Leaving(p)) \in Nat /\ Cardinality(Leaving(p)') \in Nat
        /\ Cardinality(Leaving(p)') <= Cardinality(Leaving(p)) - 1
    BY OneLess DEF Countable
  <1>3. QED  BY <1>1, <1>2 DEF Adds, Due, Countable

\* One more takes the record in hand, and the partition is past it.
LEMMA PickedUp ==
  ASSUME NEW p, NEW o, NEW c, Countable(p, o),
         Holding(p, o)' \subseteq Holding(p, o) \cup {c}, Leaving(p)' \subseteq Leaving(p),
         Ahead(p, o), ~Ahead(p, o)'
  PROVE  Adds(p, o, 0)
  <1>1. /\ IsFiniteSet(Holding(p, o)')
        /\ Cardinality(Holding(p, o)) \in Nat /\ Cardinality(Holding(p, o)') \in Nat
        /\ Cardinality(Holding(p, o)') <= Cardinality(Holding(p, o)) + 1
    BY OneMore DEF Countable
  <1>2. /\ IsFiniteSet(Leaving(p)')
        /\ Cardinality(Leaving(p)) \in Nat /\ Cardinality(Leaving(p)') \in Nat
        /\ Cardinality(Leaving(p)') <= Cardinality(Leaving(p))
    BY Fewer DEF Countable
  <1>3. QED  BY <1>1, <1>2 DEF Adds, Due, Countable

(***************************************************************************)
(* The steps of the loop and of the broker                                 *)
(***************************************************************************)

\* A record held is a record of its partition.
LEMMA AtWork ==
  ASSUME Orderly, NEW c \in Consumers, pc[c] \in Working
  PROVE  /\ task[c] \in Partitions \X Nat /\ task[c] # None
         /\ task[c][1] \in Partitions /\ task[c][2] \in Nat
         /\ task[c] = <<task[c][1], task[c][2]>>
         /\ Running(c) /\ Member(c)
  BY DEF Orderly, GroupTypeOK, Busy, Working, Running, Member, Loop, Ended

\* What a step does that moves c within the loop, and nothing else of the group.
Moves(c, steps) ==
  /\ \E s \in steps : Goto(c, s)
  /\ UNCHANGED <<owner, position, stopping>>
  /\ \A d \in Consumers \ {c} : task'[d] = task[d]

\* A step after which c is not before its handler any more.
LEMMA MovesOn ==
  ASSUME Orderly, NEW p \in Partitions, NEW o \in Nat, Countable(p, o),
         NEW c \in Consumers, Running(c), Moves(c, {"deadletter", "commit", "fetch"}),
         task'[c] \in {task[c], None}
  PROVE  /\ Holding(p, o)' \subseteq Holding(p, o) \ {c}
         /\ Leaving(p)' \subseteq Leaving(p)
         /\ Ahead(p, o)' => Ahead(p, o)
         /\ Adds(p, o, 0)
         /\ c \in Holding(p, o) => Adds(p, o, -1)
  <1>1. Holding(p, o)' \subseteq Holding(p, o) \ {c}
    BY DEF Moves, Goto, Holding, Orderly, GroupTypeOK
  <1>2. Leaving(p)' \subseteq Leaving(p)
    BY DEF Moves, Goto, Leaving, Running, Strayed, Orderly, GroupTypeOK, Loop
  <1>3. Ahead(p, o)' => Ahead(p, o)
    BY DEF Moves, Goto, Ahead, Returned, Orderly, GroupTypeOK
  <1>4. Adds(p, o, 0)
    BY <1>1, <1>2, <1>3, Quiet
  <1>5. c \in Holding(p, o) => Adds(p, o, -1)
    BY <1>1, <1>2, <1>3, PutDown
  <1>6. QED  BY <1>1, <1>2, <1>3, <1>4, <1>5

\* From the first half of the handler to the second.
LEMMA GoesMidway ==
  ASSUME Orderly, NEW p \in Partitions, NEW o \in Nat, Countable(p, o),
         NEW c \in Consumers, pc[c] = "handle", Moves(c, {"midway"}), task'[c] = task[c]
  PROVE  Adds(p, o, 0)
  <1>1. Holding(p, o)' \subseteq Holding(p, o)
    BY DEF Moves, Goto, Holding, Orderly, GroupTypeOK
  <1>2. Leaving(p)' \subseteq Leaving(p)
    BY DEF Moves, Goto, Leaving, Running, Strayed, Orderly, GroupTypeOK, Loop
  <1>3. Ahead(p, o)' => Ahead(p, o)
    BY DEF Moves, Goto, Ahead, Returned, Orderly, GroupTypeOK
  <1>4. QED  BY <1>1, <1>2, <1>3, Quiet

\* Run returns an error or nil.  Either it costs a fault, or c was bound to leave, or
\* c does not read p.
LEMMA Returns ==
  ASSUME Orderly, NEW p \in Partitions, NEW o \in Nat, Countable(p, o),
         NEW c \in Consumers, Running(c), NEW r \in Returned, Return(c, r)
  PROVE  /\ Adds(p, o, 1)
         /\ c \in Holding(p, o) => Adds(p, o, 0)
         /\ c \in Leaving(p) \/ owner[p] # c => Adds(p, o, 0)
         /\ c \in Leaving(p) /\ c \in Holding(p, o) => Adds(p, o, -1)
  <1>1. Holding(p, o)' \subseteq Holding(p, o) \ {c}
    BY DEF Return, Goto, Holding, Orderly, GroupTypeOK, Returned
  <1>2. Leaving(p)' \subseteq Leaving(p) \ {c}
    BY DEF Return, Goto, Leaving, Running, Strayed, Orderly, GroupTypeOK, Loop, Returned
  <1>3. owner[p] # c /\ Ahead(p, o)' => Ahead(p, o)
    BY DEF Return, Goto, Ahead, Orderly, GroupTypeOK
  <1>4. Adds(p, o, 1)
    BY <1>1, <1>2, GrowsOnce
  <1>5. c \in Holding(p, o) => Adds(p, o, 0)
    BY <1>1, <1>2, DropsAndFails
  <1>6. c \in Leaving(p) => Adds(p, o, 0)
    BY <1>1, <1>2, LeavesOnce
  <1>7. owner[p] # c => Adds(p, o, 0)
    BY <1>1, <1>2, <1>3, Quiet
  <1>8. c \in Leaving(p) /\ c \in Holding(p, o) => Adds(p, o, -1)
    BY <1>1, <1>2, DropsAndLeaves
  <1>9. QED  BY <1>4, <1>5, <1>6, <1>7, <1>8

\* What a step adds is paid for by the faults it spends.
Paid(p, o) == Adds(p, o, faults' - faults)

\* And one of those who hold the record has handled it, or dropped it.
Handled(p, o) == Adds(p, o, faults' - faults - 1)

\* What a step may add, when it spends no fault and when it spends one.
LEMMA Payment ==
  ASSUME Orderly, NEW p, NEW o
  PROVE  /\ UNCHANGED faults => (Adds(p, o, 0) => Paid(p, o)) /\ (Adds(p, o, -1) => Handled(p, o))
         /\ Fault => (Adds(p, o, 1) => Paid(p, o)) /\ (Adds(p, o, 0) => Handled(p, o))
  <1>1. faults \in Nat
    BY DEF Orderly, GroupTypeOK
  <1>2. ASSUME UNCHANGED faults
        PROVE  (Adds(p, o, 0) => Paid(p, o)) /\ (Adds(p, o, -1) => Handled(p, o))
    <2>1. faults' - faults = 0 /\ faults' - faults - 1 = -1
      BY <1>1, <1>2
    <2>2. QED  BY <2>1 DEF Paid, Handled
  <1>3. ASSUME Fault
        PROVE  (Adds(p, o, 1) => Paid(p, o)) /\ (Adds(p, o, 0) => Handled(p, o))
    <2>1. faults' - faults = 1 /\ faults' - faults - 1 = 0
      BY <1>1, <1>3 DEF Fault
    <2>2. QED  BY <2>1 DEF Paid, Handled
  <1>4. QED  BY <1>2, <1>3

\* A call that fails: its error ends Run.
LEMMA FailurePaid ==
  ASSUME Orderly, NEW p \in Partitions, NEW o \in Nat, Countable(p, o),
         NEW c \in Consumers, Running(c), NEW r \in Returned, Return(c, r), Failing(c)
  PROVE  /\ Paid(p, o)
         /\ c \in Holding(p, o) => Handled(p, o)
  <1>1. CASE stopping[c] /\ UNCHANGED faults
    <2>1. c \in Leaving(p)
      BY <1>1 DEF Leaving
    <2>2. Adds(p, o, 0) /\ (c \in Holding(p, o) => Adds(p, o, -1))
      BY <2>1, Returns
    <2>3. QED  BY <1>1, <2>2, Payment
  <1>2. CASE Fault
    <2>1. Adds(p, o, 1) /\ (c \in Holding(p, o) => Adds(p, o, 0))
      BY Returns
    <2>2. QED  BY <1>2, <2>1, Payment
  <1>3. QED  BY <1>1, <1>2 DEF Failing

\* The group's variables stay as they are.
LEMMA StandsStill ==
  ASSUME Orderly, NEW p, NEW o, Countable(p, o),
         UNCHANGED <<owner, position, pc, task, stopping>>, UNCHANGED faults \/ Fault
  PROVE  Paid(p, o) /\ Adds(p, o, 0)
  <1>1. Holding(p, o)' = Holding(p, o) /\ Leaving(p)' = Leaving(p) /\ Ahead(p, o)' = Ahead(p, o)
    BY DEF Holding, Leaving, Running, Strayed, Ahead
  <1>2. Adds(p, o, 0) /\ Adds(p, o, 1)
    BY <1>1, Quiet, GrowsOnce
  <1>3. QED  BY <1>2, Payment

\* The steps outside the loop: a signal adds one that is bound to leave, for a fault.
LEMMA ProduceStartPaid ==
  ASSUME Orderly, NEW p \in Partitions, NEW o \in Nat, Countable(p, o),
         \/ \E m \in Messages : Produce(m)
         \/ \E c \in Consumers : Start(c) \/ Cancel(c)
  PROVE  Paid(p, o)
  <1>1. CASE \E m \in Messages : Produce(m)
    BY <1>1, StandsStill DEF Produce
  <1>2. ASSUME NEW c \in Consumers, Start(c) PROVE Paid(p, o)
    <2>1. Holding(p, o)' \subseteq Holding(p, o)
      BY <1>2 DEF Start, Goto, Holding, Orderly, GroupTypeOK
    <2>2. Leaving(p)' \subseteq Leaving(p)
      BY <1>2 DEF Start, Goto, Leaving, Running, Strayed, Busy, Orderly, GroupTypeOK
    <2>3. Ahead(p, o)' => Ahead(p, o)
      BY <1>2 DEF Start, Goto, Ahead, Returned, Ended, Orderly, GroupTypeOK, Member
    <2>4. QED  BY <1>2, <2>1, <2>2, <2>3, Quiet, Payment DEF Start
  <1>3. ASSUME NEW c \in Consumers, Cancel(c) PROVE Paid(p, o)
    <2>1. Holding(p, o)' \subseteq Holding(p, o)
      BY <1>3 DEF Cancel, Holding
    <2>2. Leaving(p)' \subseteq Leaving(p) \cup {c}
      BY <1>3 DEF Cancel, Leaving, Running, Strayed, Orderly, GroupTypeOK
    <2>3. Ahead(p, o)' => Ahead(p, o)
      BY <1>3 DEF Cancel, Ahead
    <2>4. QED  BY <1>3, <2>1, <2>2, <2>3, GrowsOnce, Payment DEF Cancel
  <1>4. QED  BY <1>1, <1>2, <1>3

\* An assignment goes on after what is committed; a rebalance may go back before the
\* record, or leave another member with a record of a partition it has lost.
LEMMA AssignPaid ==
  ASSUME Orderly, NEW p \in Partitions, NEW o \in Nat, Countable(p, o),
         NEW c \in Consumers, NEW f \in Partitions, Assign(f, c) \/ Rebalance(f, c)
  PROVE  Paid(p, o)
  <1>1. /\ owner' = [owner EXCEPT ![f] = c] /\ owner \in [Partitions -> Consumers \cup {None}]
        /\ position \in [Partitions -> Nat]
        /\ \A q \in Partitions \ {f} : position'[q] = position[q]
        /\ UNCHANGED <<pc, task, stopping>>
    BY DEF Assign, AssignAt, Rebalance, RebalanceAt, Orderly, GroupTypeOK
  <1>2. \A d \in Consumers : task[d] # None => task[d][1] \in Partitions
    BY DEF Orderly, GroupTypeOK
  <1>3. Holding(p, o)' \subseteq Holding(p, o)
    BY <1>1 DEF Holding
  \* The former owner may be left with a record of a partition it has lost.
  <1>4. \A d \in Consumers : Strayed(d, p)' => Strayed(d, p) \/ (f # p /\ d = owner[f])
    BY <1>1, <1>2 DEF Strayed
  <1>5. p # f => (Ahead(p, o)' => Ahead(p, o))
    BY <1>1 DEF Ahead
  <1>6. CASE Assign(f, c)
    <2>1. owner[f] = None /\ UNCHANGED faults
      BY <1>6 DEF Assign, AssignAt
    <2>2. Leaving(p)' \subseteq Leaving(p)
      BY <1>1, <1>4, <2>1, GroupAssumption DEF Leaving, Running, GroupAssumption
    <2>3. p = f => Ahead(p, o)
      BY <2>1 DEF Ahead
    <2>4. QED  BY <1>3, <1>5, <2>1, <2>2, <2>3, Quiet, Payment
  <1>7. CASE Rebalance(f, c)
    <2>1. Fault
      BY <1>7 DEF Rebalance, RebalanceAt
    <2>2. PICK d : d = owner[f]
      OBVIOUS
    <2>3. Leaving(p)' \subseteq Leaving(p) \cup {d}
      BY <1>1, <1>4, <2>2 DEF Leaving, Running
    <2>4. p = f => Leaving(p)' \subseteq Leaving(p)
      BY <1>1, <1>4 DEF Leaving, Running
    <2>5. Adds(p, o, 1)
      BY <1>3, <1>5, <2>3, <2>4, GrowsOnce
    <2>6. QED  BY <2>1, <2>5, Payment
  <1>8. QED  BY <1>6, <1>7

\* A fetch takes the record in hand, or another one.
LEMMA FetchPaid ==
  ASSUME Orderly, NEW p \in Partitions, NEW o \in Nat, Countable(p, o),
         NEW c \in Consumers, NEW f \in Partitions, Fetch(c, f)
  PROVE  Paid(p, o)
  <1>1. /\ owner[f] = c /\ ~Busy(c) /\ position[f] \in Nat
        /\ pc'[c] \in {"handle", "deadletter"} /\ pc[c] = "fetch"
        /\ \A d \in Consumers \ {c} : pc'[d] = pc[d] /\ task'[d] = task[d]
        /\ task'[c] = <<f, position[f] + 1>>
        /\ \A q \in Partitions \ {f} : position'[q] = position[q]
        /\ position'[f] = position[f] + 1
        /\ UNCHANGED <<owner, stopping, faults>>
    BY DEF Fetch, Decode, Goto, Orderly, GroupTypeOK
  <1>2. Leaving(p)' \subseteq Leaving(p)
    BY <1>1 DEF Leaving, Running, Strayed, Loop
  <1>3. CASE p = f /\ o = position[f] + 1
    <2>1. Holding(p, o)' \subseteq Holding(p, o) \cup {c}
      BY <1>1 DEF Holding
    <2>2. Ahead(p, o)
      BY <1>1, <1>3 DEF Ahead
    <2>3. owner'[p] = c /\ position'[p] = o /\ owner'[p] # None
      BY <1>1, <1>3, GroupAssumption DEF GroupAssumption
    <2>4. ~Ahead(p, o)'
      BY <1>1, <1>3, <2>3 DEF Ahead, Returned
    <2>5. QED  BY <1>1, <1>2, <2>1, <2>2, <2>4, PickedUp, Payment
  <1>4. CASE <<p, o>> # <<f, position[f] + 1>>
    <2>1. Holding(p, o)' \subseteq Holding(p, o)
      BY <1>1, <1>4 DEF Holding
    <2>2. Ahead(p, o)' => Ahead(p, o)
      <3>1. position[p] \in Nat /\ position'[p] \in Nat /\ position[p] <= position'[p]
        BY <1>1 DEF Orderly, GroupTypeOK
      <3>2. pc'[c] \notin Returned /\ pc[c] \notin Returned
        BY <1>1 DEF Returned
      <3>3. CASE owner[p] = c
        BY <1>1, <3>1, <3>2, <3>3 DEF Ahead
      <3>4. CASE owner[p] # c
        BY <1>1, <3>4, ZenonT(40) DEF Ahead, Orderly, GroupTypeOK
      <3>5. QED  BY <3>3, <3>4
    <2>3. QED  BY <1>1, <1>2, <2>1, <2>2, Quiet, Payment
  <1>5. QED  BY <1>3, <1>4

\* The steps of the loop but the handler.
LEMMA LoopPaid ==
  ASSUME Orderly, NEW p \in Partitions, NEW o \in Nat, Countable(p, o),
         NEW c \in Consumers, LoopStep(c) \/ SkipPoison(c)
  PROVE  Paid(p, o)
  <1>1. CASE \E f \in Partitions : Fetch(c, f)
    BY <1>1, FetchPaid
  <1>2. CASE Stop(c)
    <2>1. Running(c) /\ c \in Leaving(p) /\ Return(c, "nil") /\ UNCHANGED faults
      BY <1>2 DEF Stop, Leaving, Running, Loop
    <2>2. QED  BY <2>1, Returns, Payment DEF Returned
  <1>3. CASE FetchFail(c)
    <2>1. Running(c) /\ Return(c, "err") /\ Fault
      BY <1>3 DEF FetchFail, Running, Loop
    <2>2. QED  BY <2>1, Returns, Payment DEF Returned
  <1>4. CASE Commit(c) \/ CommitInterrupted(c) \/ SkipPoison(c)
    <2>1. /\ Running(c) /\ Moves(c, {"deadletter", "commit", "fetch"})
          /\ task'[c] \in {task[c], None} /\ UNCHANGED faults
      BY <1>4 DEF Commit, CommitInterrupted, SkipPoison, Running, Loop, Moves, Orderly, GroupTypeOK
    <2>2. QED  BY <2>1, MovesOn, Payment
  <1>5. CASE CommitFail(c)
    <2>1. Running(c) /\ Return(c, "err") /\ task[c] # None
      BY <1>5, AtWork DEF CommitFail, Working
    <2>2. CASE Fault
      BY <2>1, <2>2, Returns, Payment DEF Returned
    <2>3. CASE owner[task[c][1]] # c /\ UNCHANGED faults
      <3>1. c \in Leaving(p) \/ owner[p] # c
        BY <2>1, <2>3 DEF Leaving, Strayed
      <3>2. QED  BY <2>1, <2>3, <3>1, Returns, Payment DEF Returned
    <2>4. QED  BY <1>5, <2>2, <2>3 DEF CommitFail
  <1>6. QED  BY <1>1, <1>2, <1>3, <1>4, <1>5 DEF LoopStep

\* A process that ends gives its partitions back: Run had returned, or it costs a fault.
LEMMA EndPaid ==
  ASSUME Orderly, NEW p \in Partitions, NEW o \in Nat, Countable(p, o),
         NEW c \in Consumers, ProcessEnds(c)
  PROVE  Paid(p, o)
  <1>1. PICK how \in Ended : Leave(c, how)
    BY DEF ProcessEnds, Kill, Exit, Ended
  <1>2. /\ pc'[c] \in Ended /\ task'[c] = None
        /\ \A d \in Consumers \ {c} : pc'[d] = pc[d] /\ task'[d] = task[d] /\ stopping'[d] = stopping[d]
        /\ \A q \in Partitions : owner'[q] = IF owner[q] = c THEN None ELSE owner[q]
        /\ UNCHANGED position
    BY <1>1 DEF Leave, Goto, Orderly, GroupTypeOK
  <1>3. Holding(p, o)' \subseteq Holding(p, o)
    BY <1>2 DEF Holding, Ended
  <1>4. Leaving(p)' \subseteq Leaving(p)
    <2>1. \A d \in Consumers : task[d] # None => task[d][1] \in Partitions
      BY DEF Orderly, GroupTypeOK
    <2>2. ~Running(c)'
      BY <1>2 DEF Running, Ended, Loop
    <2>3. \A d \in Consumers \ {c} : Strayed(d, p)' => Strayed(d, p)
      BY <1>2, <2>1 DEF Strayed
    <2>4. QED  BY <1>2, <2>2, <2>3 DEF Leaving, Running
  <1>5. CASE Kill(c)
    BY <1>3, <1>4, <1>5, GrowsOnce, Payment DEF Kill
  <1>6. CASE Exit(c)
    <2>1. pc[c] \in Returned /\ UNCHANGED faults
      BY <1>6 DEF Exit, Returned
    <2>2. Ahead(p, o)' => Ahead(p, o)
      BY <1>2, <2>1 DEF Ahead, Orderly, GroupTypeOK
    <2>3. QED  BY <1>3, <1>4, <2>1, <2>2, Quiet, Payment
  <1>7. QED  BY <1>5, <1>6 DEF ProcessEnds

\* No step of the broker, of the loop or of the process adds more to what is due
\* than the faults it spends.
LEMMA GroupPaid ==
  ASSUME Orderly, NEW p \in Partitions, NEW o \in Nat, Countable(p, o),
         \/ \E m \in Messages : Produce(m)
         \/ \E c \in Consumers : GroupStep(c) \/ SkipPoison(c) \/ ProcessEnds(c)
  PROVE  Paid(p, o)
  BY ProduceStartPaid, AssignPaid, LoopPaid, EndPaid DEF GroupStep

(***************************************************************************)
(* The group's invariant                                                   *)
(***************************************************************************)
\* At the start nobody is at work.
LEMMA OrderlyInit == GroupInit /\ GroupTypeOK => Orderly
  BY DEF GroupInit, Orderly, Busy, Ended, Working

\* A step in which one replica goes from one place of the loop to another, c's claim
\* to its partitions being left as it is.
LEMMA OrderlyMove ==
  ASSUME Orderly, GroupTypeOK', NEW c \in Consumers, Member(c), Member(c)',
         \A d \in Consumers \ {c} : pc'[d] = pc[d] /\ task'[d] = task[d],
         pc'[c] \in Working => task'[c] # None,
         pc'[c] = "fetch" => task'[c] = None,
         UNCHANGED <<owner, stopping>>
  PROVE  Orderly'
  <1>1. \A d \in Consumers : /\ (pc[d] \in Working => Busy(d))'
                             /\ (pc[d] \in {"fetch"} \cup Ended => ~Busy(d))'
                             /\ (pc[d] \in Ended => ~stopping[d])'
    BY DEF Orderly, Busy, Member
  <1>2. \A q \in Partitions : (owner[q] # None => Member(owner[q]))'
    BY GroupAssumption DEF Orderly, GroupTypeOK, Member, GroupAssumption
  <1>3. QED  BY <1>1, <1>2 DEF Orderly

\* A step that moves nobody in the loop.
LEMMA OrderlyStill ==
  ASSUME Orderly, GroupTypeOK', UNCHANGED <<owner, pc, task>>,
         \A c \in Consumers : stopping'[c] = stopping[c] \/ Member(c)
  PROVE  Orderly'
  BY DEF Orderly, Busy, Member

\* Every step of the broker, of the loop and of the process.
LEMMA OrderlyGroup ==
  ASSUME Orderly, GroupTypeOK',
         \/ \E m \in Messages : Produce(m)
         \/ \E c \in Consumers : GroupStep(c) \/ SkipPoison(c) \/ ProcessEnds(c)
  PROVE  Orderly'
  <1> USE GroupAssumption DEF GroupAssumption
  <1>1. CASE \E m \in Messages : Produce(m)
    BY <1>1, OrderlyStill DEF Produce
  <1>2. ASSUME NEW c \in Consumers, Start(c) PROVE Orderly'
    <2>1. /\ pc[c] \in Ended /\ pc'[c] = "fetch" /\ task'[c] = None
          /\ \A d \in Consumers \ {c} : pc'[d] = pc[d]
          /\ UNCHANGED <<owner, stopping, task>>
      BY <1>2 DEF Start, Goto, Orderly, GroupTypeOK, Busy
    <2>2. \A d \in Consumers : /\ (pc[d] \in Working => Busy(d))'
                               /\ (pc[d] \in {"fetch"} \cup Ended => ~Busy(d))'
                               /\ (pc[d] \in Ended => ~stopping[d])'
      BY <2>1 DEF Orderly, Busy, Working, Ended
    <2>3. \A q \in Partitions : (owner[q] # None => Member(owner[q]))'
      BY <2>1 DEF Orderly, GroupTypeOK, Member, Ended
    <2>4. QED  BY <2>2, <2>3 DEF Orderly
  <1>3. ASSUME NEW c \in Consumers, Cancel(c) PROVE Orderly'
    BY <1>3, OrderlyStill DEF Cancel, Orderly, GroupTypeOK
  <1>4. ASSUME NEW c \in Consumers, NEW f \in Partitions, Assign(f, c) \/ Rebalance(f, c)
        PROVE  Orderly'
    <2>1. /\ owner' = [owner EXCEPT ![f] = c] /\ Member(c) /\ UNCHANGED <<pc, task, stopping>>
      BY <1>4 DEF Assign, AssignAt, Rebalance, RebalanceAt
    <2>2. \A q \in Partitions : (owner[q] # None => Member(owner[q]))'
      BY <2>1 DEF Orderly, GroupTypeOK, Member
    <2>3. QED  BY <2>1, <2>2 DEF Orderly, Busy
  <1>5. ASSUME NEW c \in Consumers, NEW f \in Partitions, Fetch(c, f) PROVE Orderly'
    <2>1. /\ pc[c] = "fetch" /\ pc'[c] \in {"handle", "deadletter"}
          /\ task'[c] = <<f, position[f] + 1>> /\ UNCHANGED <<owner, stopping>>
          /\ \A d \in Consumers \ {c} : pc'[d] = pc[d] /\ task'[d] = task[d]
          /\ position[f] + 1 \in Nat
      BY <1>5 DEF Fetch, Decode, Goto, Orderly, GroupTypeOK
    <2>2. task'[c] # None
      BY <2>1
    <2>3. QED  BY <2>1, <2>2, OrderlyMove DEF Member, Ended
  <1>6. ASSUME NEW c \in Consumers, Stop(c) \/ FetchFail(c) \/ CommitFail(c) PROVE Orderly'
    <2>1. /\ pc[c] \in Loop /\ pc'[c] \in Returned /\ UNCHANGED <<owner, stopping, task>>
          /\ \A d \in Consumers \ {c} : pc'[d] = pc[d]
      BY <1>6 DEF Stop, FetchFail, CommitFail, Return, Goto, Loop, Returned, Orderly, GroupTypeOK
    <2>2. pc[c] \notin Ended /\ pc'[c] \notin Ended \cup Working \cup {"fetch"}
      BY <2>1 DEF Loop, Returned, Ended, Working
    <2>3. QED  BY <2>1, <2>2, OrderlyMove DEF Member
  <1>7. ASSUME NEW c \in Consumers, Commit(c) \/ CommitInterrupted(c) PROVE Orderly'
    <2>1. /\ pc[c] = "commit" /\ pc'[c] = "fetch" /\ task'[c] = None /\ UNCHANGED <<owner, stopping>>
          /\ \A d \in Consumers \ {c} : pc'[d] = pc[d] /\ task'[d] = task[d]
      BY <1>7 DEF Commit, CommitInterrupted, Goto, Orderly, GroupTypeOK
    <2>2. QED  BY <2>1, OrderlyMove DEF Member, Ended, Working
  <1>8. ASSUME NEW c \in Consumers, SkipPoison(c) PROVE Orderly'
    <2>1. /\ pc[c] = "deadletter" /\ pc'[c] = "commit" /\ UNCHANGED <<owner, stopping, task>>
          /\ \A d \in Consumers \ {c} : pc'[d] = pc[d]
      BY <1>8 DEF SkipPoison, Goto, Orderly, GroupTypeOK
    <2>2. task'[c] # None
      BY <2>1 DEF Orderly, Working, Busy
    <2>3. QED  BY <2>1, <2>2, OrderlyMove DEF Member, Ended
  <1>9. ASSUME NEW c \in Consumers, ProcessEnds(c) PROVE Orderly'
    <2>1. PICK how \in Ended : Leave(c, how)
      BY <1>9 DEF ProcessEnds, Kill, Exit, Ended
    <2>2. /\ pc'[c] \in Ended /\ task'[c] = None /\ stopping'[c] = FALSE
          /\ \A d \in Consumers \ {c} : pc'[d] = pc[d] /\ task'[d] = task[d] /\ stopping'[d] = stopping[d]
          /\ \A q \in Partitions : owner'[q] = IF owner[q] = c THEN None ELSE owner[q]
      BY <2>1 DEF Leave, Goto, Orderly, GroupTypeOK
    <2>3. \A d \in Consumers : /\ (pc[d] \in Working => Busy(d))'
                               /\ (pc[d] \in {"fetch"} \cup Ended => ~Busy(d))'
                               /\ (pc[d] \in Ended => ~stopping[d])'
      BY <2>2 DEF Orderly, Busy, Working, Ended
    <2>4. \A q \in Partitions : (owner[q] # None => Member(owner[q]))'
      BY <2>2 DEF Orderly, GroupTypeOK, Member
    <2>5. QED  BY <2>3, <2>4 DEF Orderly
  <1>10. QED
    BY <1>1, <1>2, <1>3, <1>4, <1>5, <1>6, <1>7, <1>8, <1>9 DEF GroupStep, LoopStep

\* And the return of Run from wherever the handler is.
LEMMA OrderlyReturn ==
  ASSUME Orderly, GroupTypeOK', NEW c \in Consumers, pc[c] \in Loop,
         NEW r \in Returned, Return(c, r)
  PROVE  Orderly'
  <1>1. /\ pc'[c] \in Returned /\ UNCHANGED <<owner, stopping, task>>
        /\ \A d \in Consumers \ {c} : pc'[d] = pc[d]
    BY DEF Return, Goto, Orderly, GroupTypeOK
  <1>2. pc[c] \notin Ended /\ pc'[c] \notin Ended \cup Working \cup {"fetch"}
    BY <1>1 DEF Loop, Returned, Ended, Working
  <1>3. QED  BY <1>1, <1>2, OrderlyMove DEF Member
================================================================================

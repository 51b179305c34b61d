--------------------------- MODULE AggregatorProofs ---------------------------
(***************************************************************************)
(* Proofs about Aggregator, for any replicas, partitions, windows, event   *)
(* times and faults.                                                       *)
(***************************************************************************)
EXTENDS Aggregator, TLAPS

(***************************************************************************)
(* The inductive invariant: as for the ingestion, it follows every reading *)
(* that has been fetched, not only those committed.                        *)
(***************************************************************************)

\* Where a reading that Add has seen may be.
Placed == late \cup lost \cup ReadingsIn(Range(published))
            \cup UNION {Pending(c) : c \in Consumers}

Seen(p, o) == log[p][o] \in Valid => <<p, o>> \in Placed

\* What the loop of c has established about its record at each step.
Claim(c) ==
  LET p == task[c][1]  o == task[c][2] IN
  /\ pc[c] \in {"handle", "midway", "deadletter", "commit"} => Busy(c)
  /\ pc[c] \in {"fetch"} \cup Ended => ~Busy(c)
  /\ Busy(c) => o \in DOMAIN log[p] /\ \A q \in 1..(o - 1) : Seen(p, q)
  /\ pc[c] \in {"handle", "midway"} => log[p][o] \in Valid
  /\ pc[c] = "deadletter" => log[p][o] \notin Valid
  /\ pc[c] = "commit" => Seen(p, o)

Claims == \A c \in Consumers : Claim(c)

\* What has been fetched under the current assignment of p has been seen, or is in
\* the owner's hands.
Holds(c, p, q) == task[c] = <<p, q>>

PartitionOK(p) ==
  \A q \in 1..position[p] :
    /\ q \in DOMAIN log[p]
    /\ owner[p] # None => Seen(p, q) \/ Holds(owner[p], p, q)

PositionOK == \A p \in Partitions : PartitionOK(p)

\* What TypeOK leaves open: which functions, sets and sequences hold the buckets.
Harvested == [start : Nat, readings : Bucket]
PublishedRecord   == [by : Consumers, start : Nat, readings : Bucket]

Shape ==
  /\ DOMAIN buckets = Consumers /\ DOMAIN harvest = Consumers
  /\ \A c \in Consumers : harvest[c] \subseteq Harvested
  /\ published \in Seq(PublishedRecord)
  /\ \A p \in Partitions : Len(log[p]) <= MaxLog

IInv == TypeOK /\ Shape /\ Claims /\ PositionOK /\ Accounted

(***************************************************************************)
(* Windows and their readings                                              *)
(***************************************************************************)
LEMMA Times ==
  ASSUME NEW ts \in Nat
  PROVE  /\ WindowStart(ts) \in Nat
         /\ WindowStart(ts) <= ts /\ ts < WindowStart(ts) + Size
         /\ Key(ts) \in Nat
  <1>1. Size \in Nat \ {0} /\ Second \in Nat \ {0}
    BY TumblerAssumption DEF TumblerAssumption
  <1>2. ts % Size \in 0..(Size - 1) /\ ts \div Size \in Nat
    BY <1>1
  <1>3. ts - (ts % Size) = Size * (ts \div Size)
    BY <1>1
  <1>4. Size * (ts \div Size) \in Nat
    BY <1>1, <1>2
  <1>5. WindowStart(ts) \in Nat /\ WindowStart(ts) <= ts /\ ts < WindowStart(ts) + Size
    <2>1. ts % Size <= ts
      BY <1>1, <1>2, <1>3, <1>4
    <2>2. QED  BY <1>1, <1>2, <2>1 DEF WindowStart
  <1>6. \A w \in Nat : w \div Second \in Nat
    BY <1>1
  <1>7. QED  BY <1>5, <1>6 DEF Key

\* With windows of whole seconds the key loses nothing.
LEMMA WholeSeconds ==
  ASSUME Size % Second = 0, NEW ts \in Nat
  PROVE  KeyStart(Key(ts)) = WindowStart(ts)
  <1>1. Size \in Nat \ {0} /\ Second \in Nat \ {0}
    BY TumblerAssumption DEF TumblerAssumption
  <1> DEFINE k == Size \div Second
             n == ts \div Size
  <1>2. k \in Nat /\ n \in Nat
    BY <1>1
  <1>3. Size = Second * k
    BY <1>1
  <1>4. WindowStart(ts) = Size * n
    BY <1>1 DEF WindowStart
  <1> HIDE DEF k, n
  <1>5. WindowStart(ts) = Second * (k * n) /\ k * n \in Nat
    BY <1>1, <1>2, <1>3, <1>4
  <1>6. \A m \in Nat : (Second * m) \div Second = m
    BY <1>1
  <1>7. Key(ts) = k * n
    BY <1>5, <1>6 DEF Key
  <1>8. KeyStart(Key(ts)) = (k * n) * Second
    BY <1>7 DEF KeyStart
  <1>9. (k * n) * Second = Second * (k * n)
    BY <1>1, <1>5
  <1>10. QED  BY <1>5, <1>8, <1>9

LEMMA Appending ==
  ASSUME NEW S, NEW s \in Seq(S), NEW x \in S
  PROVE  /\ Append(s, x) \in Seq(S) /\ Append(s, x) # <<>>
         /\ DOMAIN s = 1..Len(s) /\ Len(s) \in Nat
         /\ DOMAIN Append(s, x) = 1..(Len(s) + 1)
         /\ \A i \in 1..Len(s) : Append(s, x)[i] = s[i]
         /\ Append(s, x)[Len(s) + 1] = x
  OBVIOUS

\* What Add leaves of a map of buckets.
Full(b) == \A k \in DOMAIN b : k \in Nat /\ b[k] \in Bucket

Added(b, ts, r, new) ==
  /\ DOMAIN new = DOMAIN b \cup {Key(ts)}
  /\ \A k \in DOMAIN b : \A i \in DOMAIN b[k] : i \in DOMAIN new[k] /\ new[k][i] = b[k][i]
  /\ \E i \in DOMAIN new[Key(ts)] : new[Key(ts)][i] = r
  /\ \A k \in DOMAIN new : \A i \in DOMAIN new[k] :
       \/ k \in DOMAIN b /\ i \in DOMAIN b[k] /\ new[k][i] = b[k][i]
       \/ k = Key(ts) /\ new[k][i] = r

LEMMA Adding ==
  ASSUME NEW b, Full(b), NEW ts \in Nat, NEW r \in Readings, NEW new, new = AddTo(b, ts, r)
  PROVE  Full(new) /\ Added(b, ts, r, new)
  <1> DEFINE key == Key(ts)
             old == BucketAt(b, key)
  <1>1. key \in Nat
    BY Times
  <1>2. old \in Seq(Readings) /\ (key \in DOMAIN b => old = b[key])
    BY DEF BucketAt, Bucket, Full
  <1>3. new = [k \in DOMAIN b \cup {key} |-> IF k = key THEN Append(old, r) ELSE b[k]]
    BY DEF AddTo
  <1> HIDE DEF old, key
  <1>4. /\ Append(old, r) \in Seq(Readings) /\ Append(old, r) # <<>>
        /\ DOMAIN old = 1..Len(old) /\ Len(old) \in Nat
        /\ DOMAIN Append(old, r) = 1..(Len(old) + 1)
        /\ \A i \in 1..Len(old) : Append(old, r)[i] = old[i]
        /\ Append(old, r)[Len(old) + 1] = r
    BY <1>2, Appending
  <1>5. new[key] = Append(old, r) /\ DOMAIN new = DOMAIN b \cup {key}
    BY <1>3
  <1>6. \A k \in DOMAIN b : k # key => new[k] = b[k]
    BY <1>3
  <1>7. \A k \in DOMAIN new : k \in Nat /\ new[k] \in Bucket
    <2>1. Append(old, r) \in Bucket
      BY <1>4 DEF Bucket
    <2>2. \A k \in DOMAIN b : k \in Nat /\ b[k] \in Bucket
      BY DEF Full
    <2>3. QED  BY <1>1, <1>5, <1>6, <2>1, <2>2
  <1>8. \A k \in DOMAIN b : \A i \in DOMAIN b[k] : i \in DOMAIN new[k] /\ new[k][i] = b[k][i]
    BY <1>2, <1>4, <1>5, <1>6
  <1>9. \E i \in DOMAIN new[key] : new[key][i] = r
    BY <1>4, <1>5
  <1>10. ASSUME NEW k \in DOMAIN new, NEW i \in DOMAIN new[k]
         PROVE  \/ k \in DOMAIN b /\ i \in DOMAIN b[k] /\ new[k][i] = b[k][i]
                \/ k = key /\ new[k][i] = r
    <2>1. CASE k # key
      BY <2>1, <1>5, <1>6
    <2>2. CASE k = key
      <3>1. i \in 1..(Len(old) + 1) /\ new[k][i] = Append(old, r)[i]
        BY <2>2, <1>4, <1>5
      <3>2. CASE i = Len(old) + 1
        BY <2>2, <3>1, <3>2, <1>4
      <3>3. CASE i # Len(old) + 1
        <4>1. i \in 1..Len(old)
          BY <3>1, <3>3, <1>4
        <4>2. old # <<>>
          BY <4>1, <1>4
        <4>3. key \in DOMAIN b
          BY <4>2 DEF BucketAt, old
        <4>4. QED  BY <2>2, <3>1, <4>1, <4>3, <1>2, <1>4
      <3>4. QED  BY <3>2, <3>3
    <2>3. QED  BY <2>1, <2>2
  <1>11. QED  BY <1>5, <1>7, <1>8, <1>9, <1>10 DEF key, Full, Added

(***************************************************************************)
(* Where a reading is, one place at a time                                 *)
(***************************************************************************)
InBucket(c, r)  == \E k \in DOMAIN buckets[c] : \E i \in DOMAIN buckets[c][k] : buckets[c][k][i] = r
InHarvest(c, r) == \E a \in harvest[c] : \E i \in DOMAIN a.readings : a.readings[i] = r
OnTopic(r)      == \E n \in DOMAIN published : \E i \in DOMAIN published[n].readings :
                     published[n].readings[i] = r

PlacesAre ==
  /\ \A c \in Consumers : \A r : r \in Pending(c) <=> InBucket(c, r) \/ InHarvest(c, r)
  /\ \A r : r \in ReadingsIn(Range(published)) <=> OnTopic(r)
  /\ \A r : r \in Placed <=> \/ r \in late \/ r \in lost \/ OnTopic(r)
                             \/ \E c \in Consumers : InBucket(c, r) \/ InHarvest(c, r)

LEMMA Places == PlacesAre
  <1>1. ASSUME NEW c \in Consumers, NEW r
        PROVE  r \in Pending(c) <=> InBucket(c, r) \/ InHarvest(c, r)
    <2>1. r \in ReadingsIn(harvest[c]) <=> InHarvest(c, r)
      BY DEF ReadingsIn, Range, InHarvest
    <2>2. r \in UNION {Range(buckets[c][k]) : k \in DOMAIN buckets[c]} <=> InBucket(c, r)
      BY DEF Range, InBucket
    <2>3. r \in Pending(c) <=> \/ r \in UNION {Range(buckets[c][k]) : k \in DOMAIN buckets[c]}
                              \/ r \in ReadingsIn(harvest[c])
      BY Zenon DEF Pending
    <2>4. QED  BY <2>1, <2>2, <2>3
  <1>2. \A r : r \in ReadingsIn(Range(published)) <=> OnTopic(r)
    BY DEF ReadingsIn, Range, OnTopic
  <1>3. QED  BY <1>1, <1>2 DEF PlacesAre, Placed

LEMMA PlacesNext == PlacesAre'
  BY Places, PTL

\* What is pending is readings.
LEMMA PendingType ==
  ASSUME TypeOK, Shape, NEW c \in Consumers
  PROVE  Pending(c) \subseteq Readings
  <1>1. \A k \in DOMAIN buckets[c] : \A i \in DOMAIN buckets[c][k] : buckets[c][k][i] \in Readings
    BY DEF TypeOK, Bucket
  <1>2. \A a \in harvest[c] : \A i \in DOMAIN a.readings : a.readings[i] \in Readings
    BY DEF Shape, Harvested, Bucket
  <1>3. QED  BY <1>1, <1>2, Places DEF PlacesAre, InBucket, InHarvest

\* A replica at work holds a reading.
LEMMA BusyRecord ==
  ASSUME TypeOK, Shape, Claims, NEW c \in Consumers,
         pc[c] \in {"handle", "midway", "deadletter", "commit"}
  PROVE  /\ task[c] \in Partitions \X Nat
         /\ task[c][1] \in Partitions /\ task[c][2] \in Nat
         /\ task[c] = <<task[c][1], task[c][2]>>
         /\ task[c][2] \in DOMAIN log[task[c][1]]
         /\ task[c] \in Readings
  <1>1. /\ task[c] \in Partitions \X Nat /\ task[c][2] \in DOMAIN log[task[c][1]]
        /\ log[task[c][1]] \in Seq(Messages) /\ Len(log[task[c][1]]) <= MaxLog
    BY DEF Claims, Claim, Busy, TypeOK, GroupTypeOK, Shape
  <1>2. MaxLog \in Nat
    BY GroupAssumption DEF GroupAssumption
  <1>3. \A p \in Partitions, o \in Nat : o >= 1 /\ o <= MaxLog => <<p, o>> \in Readings
    BY <1>2 DEF Readings
  <1>4. QED  BY <1>1, <1>2, <1>3

LEMMA EventTimes ==
  ASSUME TypeOK, Shape, Claims, NEW c \in Consumers, pc[c] \in {"handle", "midway"}
  PROVE  EventTime[Record(c)] \in Nat /\ TimeOf(task[c]) = EventTime[Record(c)]
  BY AggregatorAssumption DEF AggregatorAssumption, Claims, Claim, Record, TimeOf

(***************************************************************************)
(* The steps of the windows: what each does to the places of the readings, *)
(* and to their types                                                      *)
(***************************************************************************)
WindowsTyped ==
  /\ DOMAIN buckets = Consumers /\ DOMAIN harvest = Consumers
  /\ \A c \in Consumers :
       /\ Full(buckets[c])
       /\ harvest[c] \subseteq Harvested
  /\ published \in Seq(PublishedRecord)
  /\ late \cup lost \subseteq Readings
  /\ clock \in 0..MaxTime
  /\ flusherDone \in [Consumers -> BOOLEAN]

Onward == WindowsTyped' /\ Placed \subseteq Placed'

\* A reading in a place of a replica, or on the topic, is placed.
LEMMA Located ==
  ASSUME NEW r,
         \/ r \in late \/ r \in lost \/ OnTopic(r)
         \/ \E c \in Consumers : InBucket(c, r) \/ InHarvest(c, r)
  PROVE  r \in Placed
  BY Places DEF PlacesAre

LEMMA SameWindows ==
  ASSUME WindowsTyped, UNCHANGED windowVars
  PROVE  Onward
  <1>1. UNCHANGED <<clock, buckets, harvest, flusherDone, published, late, lost>>
    BY DEF windowVars
  <1>2. Placed' = Placed
    BY <1>1 DEF Placed, Pending, ReadingsIn
  <1>3. WindowsTyped'
    BY <1>1 DEF WindowsTyped
  <1>4. QED  BY <1>2, <1>3 DEF Onward

LEMMA TickOnward ==
  ASSUME WindowsTyped, Tick
  PROVE  Onward
  <1>1. UNCHANGED <<buckets, harvest, published, late, lost>>
    BY DEF Tick
  <1>2. Placed' = Placed
    BY <1>1 DEF Placed, Pending, ReadingsIn
  <1>3. clock' \in 0..MaxTime
    BY AggregatorAssumption DEF AggregatorAssumption, WindowsTyped, Tick
  <1>4. QED  BY <1>1, <1>2, <1>3 DEF Onward, WindowsTyped, Tick

LEMMA CheckOnward ==
  ASSUME TypeOK, Shape, Claims, WindowsTyped, NEW c \in Consumers, CheckLate(c)
  PROVE  Onward /\ (pc'[c] = "commit" => task[c] \in Placed')
  <1>1. UNCHANGED <<clock, buckets, harvest, flusherDone, published, lost>>
    BY DEF CheckLate
  <1>2. late \subseteq late' /\ late' \subseteq late \cup {task[c]}
    BY DEF CheckLate, Judge
  <1>3. task[c] \in Readings
    BY BusyRecord DEF CheckLate, Judge
  <1>4. Placed' = (Placed \cup late')
    BY <1>1, <1>2 DEF Placed, Pending, ReadingsIn
  <1>5. pc'[c] = "commit" => task[c] \in late'
    BY DEF CheckLate, Judge, Goto, TypeOK, GroupTypeOK
  <1>6. QED  BY <1>1, <1>2, <1>3, <1>4, <1>5 DEF Onward, WindowsTyped

LEMMA StoreOnward ==
  ASSUME TypeOK, Shape, Claims, WindowsTyped, NEW c \in Consumers, Store(c)
  PROVE  Onward /\ task[c] \in Placed'
  <1> DEFINE ts == EventTime[Record(c)]
             new == AddTo(buckets[c], ts, task[c])
  <1>1. ts \in Nat /\ task[c] \in Readings
    BY EventTimes, BusyRecord DEF Store
  <1>2. Full(buckets[c])
    BY DEF WindowsTyped
  <1>3. Full(new) /\ Added(buckets[c], ts, task[c], new)
    <2> HIDE DEF ts
    <2>1. QED  BY <1>1, <1>2, Adding
  <1>4. /\ buckets' = [buckets EXCEPT ![c] = new]
        /\ UNCHANGED <<clock, harvest, flusherDone, published, late, lost>>
    BY DEF Store, Fold
  <1> HIDE DEF new
  <1>5. buckets'[c] = new /\ \A d \in Consumers \ {c} : buckets'[d] = buckets[d]
    BY <1>4 DEF WindowsTyped
  <1>6. WindowsTyped'
    BY <1>3, <1>4, <1>5 DEF WindowsTyped
  <1>7. \A r : InBucket(c, r) => InBucket(c, r)'
    BY <1>3, <1>5 DEF InBucket, Added
  <1>8. ASSUME NEW r, r \in Placed
        PROVE  r \in Placed'
    <2>1. (OnTopic(r) <=> OnTopic(r)') /\ \A d \in Consumers : InHarvest(d, r) <=> InHarvest(d, r)'
      BY <1>4 DEF OnTopic, InHarvest
    <2>2. \A d \in Consumers : InBucket(d, r) => InBucket(d, r)'
      <3>1. \A d \in Consumers \ {c} : InBucket(d, r) => InBucket(d, r)'
        BY <1>5 DEF InBucket
      <3>2. QED  BY <1>7, <3>1
    <2>3. QED  BY <1>4, <1>8, <2>1, <2>2, Places, PlacesNext DEF PlacesAre
  <1>9. task[c] \in Placed'
    <2>1. task' = task
      BY DEF Store
    <2>2. \A r : InBucket(c, r)' => r \in Placed'
      BY PlacesNext DEF PlacesAre
    <2>3. \E k \in DOMAIN buckets'[c] : \E i \in DOMAIN buckets'[c][k] : buckets'[c][k][i] = task[c]
      BY <1>3, <1>5 DEF Added
    <2>4. QED  BY <2>2, <2>3 DEF InBucket
  <1>10. QED  BY <1>6, <1>8, <1>9 DEF Onward

\* Closed moves what it takes from the map into the harvest.
LEMMA HarvestOnward ==
  ASSUME WindowsTyped, NEW c \in Consumers, FlusherHarvest(c)
  PROVE  Onward
  <1>1. PICK now \in 0..clock :
          /\ harvest' = [harvest EXCEPT ![c] = Aggregates(buckets[c], now)]
          /\ buckets' = [buckets EXCEPT ![c] = StillOpen(buckets[c], now)]
    BY DEF FlusherHarvest
  <1> DEFINE gone == ClosedKeys(buckets[c], now)
             taken == Aggregates(buckets[c], now)
             left == StillOpen(buckets[c], now)
  <1>2. harvest[c] = {} /\ UNCHANGED <<clock, flusherDone, published, late, lost>>
    BY DEF FlusherHarvest
  <1>3. Full(buckets[c])
    BY DEF WindowsTyped
  <1>4. taken \subseteq Harvested
    <2>1. ASSUME NEW k \in gone
          PROVE  [start |-> KeyStart(k), readings |-> buckets[c][k]] \in Harvested
      <3>1. k \in Nat /\ buckets[c][k] \in Bucket
        BY <1>3 DEF ClosedKeys, Full
      <3>2. k * Second \in Nat
        BY <3>1, TumblerAssumption DEF TumblerAssumption
      <3>3. QED  BY <3>1, <3>2 DEF Harvested, KeyStart
    <2>2. QED  BY <2>1 DEF Aggregates
  <1>5. DOMAIN left = DOMAIN buckets[c] \ gone /\ \A k \in DOMAIN left : left[k] = buckets[c][k]
    BY DEF StillOpen, Restrict
  <1>6. ASSUME NEW k \in gone
        PROVE  \E a \in taken : a.readings = buckets[c][k]
    <2> DEFINE a == [start |-> KeyStart(k), readings |-> buckets[c][k]]
    <2>1. a \in taken
      BY DEF Aggregates
    <2>2. a.readings = buckets[c][k]
      OBVIOUS
    <2>3. QED  BY <2>1, <2>2
  <1> HIDE DEF gone, taken, left
  <1>7. /\ harvest'[c] = taken /\ buckets'[c] = left
        /\ \A d \in Consumers \ {c} : harvest'[d] = harvest[d] /\ buckets'[d] = buckets[d]
    BY <1>1 DEF WindowsTyped, taken, left
  <1>8. DOMAIN buckets' = Consumers /\ DOMAIN harvest' = Consumers
    BY <1>1 DEF WindowsTyped
  <1>9. Full(left)
    BY <1>3, <1>5 DEF Full
  <1>10. WindowsTyped'
    <2>1. ASSUME NEW d \in Consumers
          PROVE  Full(buckets'[d]) /\ harvest'[d] \subseteq Harvested
      <3>1. CASE d = c
        BY <3>1, <1>4, <1>7, <1>9
      <3>2. CASE d # c
        BY <3>2, <1>7 DEF WindowsTyped
      <3>3. QED  BY <3>1, <3>2
    <2>2. \A d \in Consumers : Full(buckets[d])'
      BY <2>1 DEF Full
    <2>3. QED  BY <1>2, <1>8, <2>1, <2>2 DEF WindowsTyped
  <1>11. ASSUME NEW r, NEW d \in Consumers, InBucket(d, r) \/ InHarvest(d, r)
         PROVE  InBucket(d, r)' \/ InHarvest(d, r)'
    <2>1. CASE d # c
      BY <1>7, <1>11, <2>1 DEF InBucket, InHarvest
    <2>2. CASE d = c
      <3>1. PICK k \in DOMAIN buckets[c] : \E i \in DOMAIN buckets[c][k] : buckets[c][k][i] = r
        BY <1>2, <1>11, <2>2 DEF InBucket, InHarvest
      <3>2. CASE k \in gone
        BY <3>1, <3>2, <1>6, <1>7, <2>2 DEF InHarvest
      <3>3. CASE k \notin gone
        BY <3>1, <3>3, <1>5, <1>7, <2>2 DEF InBucket
      <3>4. QED  BY <3>2, <3>3
    <2>3. QED  BY <2>1, <2>2
  <1>12. \A r : OnTopic(r) <=> OnTopic(r)'
    BY <1>2 DEF OnTopic
  <1>13. \A r \in Placed : r \in Placed'
    BY <1>2, <1>11, <1>12, Places, PlacesNext DEF PlacesAre
  <1>14. QED  BY <1>10, <1>13 DEF Onward

\* An aggregate leaves the harvest for the topic, or for good.
LEMMA TakenOnward ==
  ASSUME WindowsTyped, NEW c \in Consumers, NEW a \in harvest[c], TakeFromHarvest(c, a),
         NEW n \in 0..2, published' = published \o [i \in 1..n |-> Sent(c, a)],
         \/ n # 0 /\ UNCHANGED lost
         \/ lost' = lost \cup Range(a.readings)
  PROVE  Onward
  <1>1. a \in Harvested /\ a.readings \in Bucket
    BY DEF WindowsTyped, Harvested
  <1>2. Sent(c, a) \in PublishedRecord /\ Sent(c, a).readings = a.readings
    BY <1>1 DEF Sent, PublishedRecord, Harvested
  <1>3. /\ published' \in Seq(PublishedRecord)
        /\ \A i \in DOMAIN published : i \in DOMAIN published' /\ published'[i] = published[i]
        /\ n # 0 => \E i \in DOMAIN published' : published'[i] = Sent(c, a)
    <2> DEFINE x == Sent(c, a)
               new == [i \in 1..n |-> x]
    <2>1. x \in PublishedRecord /\ published \in Seq(PublishedRecord)
      BY <1>2 DEF WindowsTyped
    <2> HIDE DEF x
    <2>2. new \in Seq(PublishedRecord) /\ Len(new) = n /\ \A i \in 1..n : new[i] = x
      BY <2>1
    <2>3. published' = published \o new
      BY DEF x
    <2> HIDE DEF new
    <2>4. /\ published' \in Seq(PublishedRecord)
          /\ \A i \in DOMAIN published : i \in DOMAIN published' /\ published'[i] = published[i]
          /\ n # 0 => Len(published) + 1 \in DOMAIN published' /\ published'[Len(published) + 1] = x
      BY <2>1, <2>2, <2>3
    <2>5. QED  BY <2>4 DEF x
  <1>4. /\ UNCHANGED <<clock, buckets, flusherDone, late>>
        /\ harvest' = [harvest EXCEPT ![c] = @ \ {a}]
    BY DEF TakeFromHarvest
  <1>5. /\ DOMAIN harvest' = Consumers
        /\ \A d \in Consumers : harvest'[d] \subseteq harvest[d] /\ harvest[d] \subseteq harvest'[d] \cup {a}
        /\ \A d \in Consumers \ {c} : harvest'[d] = harvest[d]
    BY <1>4 DEF WindowsTyped
  <1>6. Range(a.readings) \subseteq Readings
    BY <1>1 DEF Bucket, Range
  <1>7. WindowsTyped'
    BY <1>3, <1>4, <1>5, <1>6 DEF WindowsTyped, Full
  <1>8. ASSUME NEW r, NEW i \in DOMAIN a.readings, a.readings[i] = r
        PROVE  OnTopic(r)' \/ r \in lost'
    <2>1. CASE n # 0
      BY <1>2, <1>3, <1>8, <2>1 DEF OnTopic
    <2>2. CASE lost' = lost \cup Range(a.readings)
      BY <1>8, <2>2 DEF Range
    <2>3. QED  BY <2>1, <2>2
  <1>9. \A r : OnTopic(r) => OnTopic(r)'
    BY <1>3, ZenonT(40) DEF OnTopic
  <1>10. \A r : \A d \in Consumers : InBucket(d, r) => InBucket(d, r)'
    BY <1>4 DEF InBucket
  <1>11. \A r : \A d \in Consumers : InHarvest(d, r) => InHarvest(d, r)' \/ OnTopic(r)' \/ r \in lost'
    BY <1>5, <1>8 DEF InHarvest
  <1>12. late \subseteq late' /\ lost \subseteq lost'
    BY <1>4
  <1>13. \A r \in Placed : r \in Placed'
    BY <1>9, <1>10, <1>11, <1>12, Places, PlacesNext DEF PlacesAre
  <1>14. QED  BY <1>7, <1>13 DEF Onward

LEMMA PublishOnward ==
  ASSUME WindowsTyped, NEW c \in Consumers, NEW a \in harvest[c],
         PublishAggregate(c, a) \/ PublishFail(c, a)
  PROVE  Onward
  <1>1. TakeFromHarvest(c, a)
    BY DEF PublishAggregate, PublishFail
  <1>2. published \in Seq(PublishedRecord)
    BY DEF WindowsTyped
  <1>3. PICK n \in 0..2 :
          /\ published' = published \o [i \in 1..n |-> Sent(c, a)]
          /\ \/ n # 0 /\ UNCHANGED lost
             \/ lost' = lost \cup Range(a.readings)
    <2> DEFINE x == Sent(c, a)
    <2> HIDE DEF x
    <2>1. /\ published = published \o [i \in 1..0 |-> x]
          /\ Append(published, x) = published \o [i \in 1..1 |-> x]
          /\ published \o <<x, x>> = published \o [i \in 1..2 |-> x]
      BY <1>2
    <2>2. \/ UNCHANGED published /\ lost' = lost \cup Range(a.readings)
          \/ published' = Append(published, x) /\ UNCHANGED lost
          \/ published' = published \o <<x, x>> /\ UNCHANGED lost
      BY DEF PublishAggregate, PublishFail, x
    <2>3. QED  BY <2>1, <2>2 DEF x
  <1>4. QED  BY <1>1, <1>3, TakenOnward

\* What a process had in memory is lost with it.
LEMMA ForgetOnward ==
  ASSUME TypeOK, Shape, WindowsTyped, NEW c \in Consumers, Forget(c)
  PROVE  Onward
  <1>1. /\ UNCHANGED <<clock, published, late>>
        /\ lost' = lost \cup Pending(c)
        /\ buckets' = [buckets EXCEPT ![c] = Empty]
        /\ harvest' = [harvest EXCEPT ![c] = {}]
        /\ flusherDone' = [flusherDone EXCEPT ![c] = FALSE]
    BY DEF Forget
  <1>2. /\ DOMAIN buckets' = Consumers /\ DOMAIN harvest' = Consumers
        /\ buckets'[c] = <<>> /\ harvest'[c] = {}
        /\ \A d \in Consumers \ {c} : harvest'[d] = harvest[d] /\ buckets'[d] = buckets[d]
    BY <1>1 DEF WindowsTyped, Empty
  <1>3. \A d \in Consumers : Full(buckets[d])' /\ harvest'[d] \subseteq Harvested
    BY <1>2 DEF WindowsTyped, Full
  <1>4. flusherDone' \in [Consumers -> BOOLEAN]
    BY <1>1 DEF WindowsTyped
  <1>5. WindowsTyped'
    BY <1>1, <1>2, <1>3, <1>4, PendingType DEF WindowsTyped
  <1>6. \A r : OnTopic(r) => OnTopic(r)'
    BY <1>1 DEF OnTopic
  <1>7. \A r : \A d \in Consumers \ {c} :
          InBucket(d, r) \/ InHarvest(d, r) => InBucket(d, r)' \/ InHarvest(d, r)'
    BY <1>2 DEF InBucket, InHarvest
  <1>8. \A r : InBucket(c, r) \/ InHarvest(c, r) => r \in lost'
    BY <1>1, Places DEF PlacesAre
  <1>9. \A r \in Placed : r \in Placed'
    BY <1>1, <1>6, <1>7, <1>8, Places, PlacesNext DEF PlacesAre
  <1>10. QED  BY <1>5, <1>9 DEF Onward

\* Every step of the service keeps each reading placed, and the types.
LEMMA StepOnward ==
  ASSUME TypeOK, Shape, Claims, [Next]_vars
  PROVE  Onward
  <1>1. WindowsTyped
    BY DEF TypeOK, Shape, WindowsTyped, Full
  <1>2. CASE Tick
    BY <1>1, <1>2, TickOnward
  <1>3. CASE UNCHANGED windowVars
    BY <1>1, <1>3, SameWindows
  <1>4. ASSUME NEW c \in Consumers, Service(c)
        PROVE  Onward
    <2>1. CASE CheckLate(c)
      BY <1>1, <2>1, CheckOnward
    <2>2. CASE Store(c)
      BY <1>1, <2>2, StoreOnward
    <2>3. CASE FlusherHarvest(c)
      BY <1>1, <2>3, HarvestOnward
    <2>4. CASE FlusherReturn(c)
      <3>1. UNCHANGED <<buckets, harvest, published, late, lost>>
        BY <2>4 DEF FlusherReturn
      <3>2. Placed' = Placed
        BY <3>1 DEF Placed, Pending, ReadingsIn
      <3>3. clock' = clock /\ flusherDone' \in [Consumers -> BOOLEAN]
        BY <1>1, <2>4 DEF FlusherReturn, WindowsTyped
      <3>4. QED  BY <1>1, <3>1, <3>2, <3>3 DEF Onward, WindowsTyped
    <2>5. ASSUME NEW a \in harvest[c], PublishAggregate(c, a) \/ PublishFail(c, a)
          PROVE  Onward
      BY <1>1, <2>5, PublishOnward
    <2>6. CASE Die(c) \/ Finish(c)
      <3>1. Forget(c)
        BY <2>6 DEF Die, Finish
      <3>2. QED  BY <1>1, <3>1, ForgetOnward
    <2>7. QED  BY <1>4, <2>1, <2>2, <2>3, <2>4, <2>5, <2>6 DEF Service
  <1>5. QED  BY <1>2, <1>3, <1>4 DEF Next, Arrive, vars

(***************************************************************************)
(* Type correctness                                                        *)
(***************************************************************************)
LEMMA FaultType ==
  ASSUME TypeOK, Fault \/ UNCHANGED faults
  PROVE  faults' \in 0..MaxFaults
  <1>1. faults \in Nat /\ MaxFaults \in Nat
    BY GroupAssumption DEF GroupAssumption, TypeOK, GroupTypeOK
  <1>2. QED  BY <1>1 DEF TypeOK, GroupTypeOK, Fault

LEMMA GotoType ==
  ASSUME TypeOK, NEW c \in Consumers, NEW step \in Loop \cup Returned \cup Ended, Goto(c, step)
  PROVE  pc' \in [Consumers -> Loop \cup Returned \cup Ended]
  BY DEF TypeOK, GroupTypeOK, Goto

\* What is left of the types is the group's.
Bounded == GroupTypeOK /\ \A p \in Partitions : Len(log[p]) <= MaxLog

LEMMA TypesTogether ==
  ASSUME Bounded', WindowsTyped'
  PROVE  TypeOK' /\ Shape'
  <1>1. published' \in Seq(PublishedRecord)
    BY DEF WindowsTyped
  <1>2. \A n \in DOMAIN published' : published'[n].readings \in Bucket
    <2>1. \A n \in DOMAIN published' : published'[n] \in PublishedRecord
      BY <1>1
    <2>2. QED  BY <2>1 DEF PublishedRecord
  <1>3. ReadingsIn(Range(published))' \subseteq Readings
    <2>1. \A r : OnTopic(r)' => r \in Readings
      BY <1>2 DEF OnTopic, Bucket
    <2>2. QED  BY <2>1, PlacesNext DEF PlacesAre
  <1>4. \A c \in Consumers : \A a \in harvest'[c] : a.start \in Nat /\ a.readings \in Bucket
    BY DEF WindowsTyped, Harvested
  <1>5. \A c \in Consumers : \A k \in DOMAIN buckets'[c] : k \in Nat /\ buckets'[c][k] \in Bucket
    BY DEF WindowsTyped, Full
  <1>6. TypeOK'
    BY <1>3, <1>4, <1>5 DEF TypeOK, WindowsTyped, Bounded
  <1>7. Shape'
    BY DEF Shape, WindowsTyped, Bounded
  <1>8. QED  BY <1>6, <1>7

LEMMA BoundedStep ==
  ASSUME TypeOK, Shape, Claims, [Next]_vars
  PROVE  Bounded'
  <1> USE GroupAssumption DEF GroupAssumption
  <1>0. GroupTypeOK /\ \A p \in Partitions : Len(log[p]) <= MaxLog
    BY DEF TypeOK, Shape
  <1> USE DEF GroupTypeOK, Bounded
  <1>1. ASSUME NEW m \in Messages, Produce(m) PROVE Bounded'
    <2> DEFINE q == Route[m]
    <2>1. q \in Partitions /\ log[q] \in Seq(Messages) /\ Len(log[q]) < MaxLog
      BY <1>0, <1>1 DEF Produce
    <2>2. Append(log[q], m) \in Seq(Messages) /\ Len(Append(log[q], m)) <= MaxLog
      <3> HIDE DEF q
      <3>1. QED  BY <2>1
    <2>3. log' = [log EXCEPT ![q] = Append(log[q], m)]
      BY <1>1 DEF Produce
    <2> HIDE DEF q
    <2>4. log' \in [Partitions -> Seq(Messages)] /\ \A p \in Partitions : Len(log'[p]) <= MaxLog
      BY <1>0, <2>1, <2>2, <2>3
    <2>5. QED  BY <1>0, <1>1, <2>4 DEF Produce
  <1>2. ASSUME NEW c \in Consumers, NEW p \in Partitions, Assign(p, c) \/ Rebalance(p, c)
        PROVE  Bounded'
    <2>1. faults' \in 0..MaxFaults
      BY <1>2, FaultType DEF Assign, AssignAt, Rebalance, RebalanceAt
    <2>2. /\ owner' = [owner EXCEPT ![p] = c]
          /\ position' = [position EXCEPT ![p] = committed[p]]
          /\ UNCHANGED <<log, committed, pc, task, stopping>>
      BY <1>2 DEF Assign, AssignAt, Rebalance, RebalanceAt
    <2>3. QED  BY <1>0, <2>1, <2>2
  <1>3. ASSUME NEW c \in Consumers, Start(c) \/ Cancel(c) PROVE Bounded'
    <2>1. faults' \in 0..MaxFaults
      BY <1>3, FaultType DEF Start, Cancel
    <2>2. pc' \in [Consumers -> Loop \cup Returned \cup Ended]
      BY <1>0, <1>3, GotoType DEF Start, Cancel, Loop
    <2>3. stopping' \in [Consumers -> BOOLEAN]
      BY <1>0, <1>3 DEF Start, Cancel
    <2>4. QED  BY <1>0, <1>3, <2>1, <2>2, <2>3 DEF Start, Cancel
  <1>4. ASSUME NEW c \in Consumers, Die(c) \/ Finish(c) PROVE Bounded'
    <2>1. UNCHANGED <<log, committed>> /\ \E how \in Ended : Leave(c, how)
      BY <1>4 DEF Die, Finish, Kill, Exit, Ended
    <2>2. faults' \in 0..MaxFaults
      BY <1>4, FaultType DEF Die, Finish, Kill, Exit
    <2>3. /\ owner' \in [Partitions -> Consumers \cup {None}]
          /\ pc' \in [Consumers -> Loop \cup Returned \cup Ended]
          /\ task' \in [Consumers -> (Partitions \X Nat) \cup {None}]
          /\ stopping' \in [Consumers -> BOOLEAN]
          /\ UNCHANGED position
      BY <1>0, <2>1 DEF Leave, Goto
    <2>4. QED  BY <1>0, <2>1, <2>2, <2>3
  <1>5. ASSUME NEW c \in Consumers, NEW p \in Partitions, Fetch(c, p) PROVE Bounded'
    <2>1. pc' \in [Consumers -> Loop \cup Returned \cup Ended]
      BY <1>5, GotoType DEF Fetch, Decode, Loop
    <2>2. position[p] + 1 \in Nat
      BY <1>0
    <2>3. position' \in [Partitions -> Nat] /\ task' \in [Consumers -> (Partitions \X Nat) \cup {None}]
      BY <1>0, <1>5, <2>2 DEF Fetch
    <2>4. QED  BY <1>0, <1>5, <2>1, <2>3 DEF Fetch
  <1>6. ASSUME NEW c \in Consumers,
               \/ Commit(c) \/ CommitInterrupted(c) \/ CommitFail(c)
               \/ Stop(c) \/ FetchFail(c) \/ SkipPoison(c)
        PROVE  Bounded'
    <2>1. pc' \in [Consumers -> Loop \cup Returned \cup Ended]
      BY <1>6, GotoType DEF Commit, CommitInterrupted, CommitFail, Stop, FetchFail, SkipPoison,
         Return, Loop, Returned
    <2>2. faults' \in 0..MaxFaults
      BY <1>6, FaultType DEF Commit, CommitInterrupted, CommitFail, Stop, FetchFail, SkipPoison
    <2>3. task' \in [Consumers -> (Partitions \X Nat) \cup {None}]
      BY <1>0, <1>6 DEF Commit, CommitInterrupted, CommitFail, Stop, FetchFail, SkipPoison, Return
    <2>4. committed' \in [Partitions -> Nat]
      <3>1. CASE UNCHANGED committed
        BY <1>0, <3>1
      <3>2. CASE pc[c] = "commit" /\ Acknowledge(c)
        BY <1>0, <3>2, BusyRecord DEF Acknowledge
      <3>3. QED  BY <1>6, <3>1, <3>2 DEF Commit, CommitInterrupted, CommitFail, Stop, FetchFail,
                 SkipPoison
    <2>5. UNCHANGED <<log, owner, position, stopping>>
      BY <1>6 DEF Commit, CommitInterrupted, CommitFail, Stop, FetchFail, SkipPoison, Return
    <2>6. QED  BY <1>0, <2>1, <2>2, <2>3, <2>4, <2>5
  <1>7. ASSUME NEW c \in Consumers, CheckLate(c) \/ Store(c) PROVE Bounded'
    <2>1. pc' \in [Consumers -> Loop \cup Returned \cup Ended]
      BY <1>7, GotoType DEF CheckLate, Judge, Store, Loop
    <2>2. QED  BY <1>0, <1>7, <2>1 DEF CheckLate, Judge, Store
  <1>8. ASSUME UNCHANGED <<log, committed, owner, position, pc, task, stopping>>,
               Fault \/ UNCHANGED faults
        PROVE  Bounded'
    <2>1. faults' \in 0..MaxFaults
      BY <1>8, FaultType
    <2>2. QED  BY <1>0, <1>8, <2>1
  <1>9. ASSUME NEW c \in Consumers, NEW a \in harvest[c], PublishAggregate(c, a) \/ PublishFail(c, a)
        PROVE  Bounded'
    BY <1>8, <1>9 DEF PublishAggregate, PublishFail, TakeFromHarvest, Failing
  <1>10. ASSUME NEW c \in Consumers, FlusherHarvest(c) \/ FlusherReturn(c) PROVE Bounded'
    BY <1>8, <1>10 DEF FlusherHarvest, FlusherReturn, groupVars
  <1>11. CASE Tick \/ UNCHANGED vars
    BY <1>8, <1>11 DEF Tick, vars, groupVars
  <1>12. QED
    BY <1>1, <1>2, <1>3, <1>4, <1>5, <1>6, <1>7, <1>9, <1>10, <1>11
    DEF Next, Arrive, GroupStep, LoopStep, Service

LEMMA TypeStep ==
  ASSUME TypeOK, Shape, Claims, [Next]_vars
  PROVE  TypeOK' /\ Shape'
  BY BoundedStep, StepOnward, TypesTogether DEF Onward

(***************************************************************************)
(* Logs only grow, and what Add has seen stays accounted for               *)
(***************************************************************************)
Extends(t, s) == DOMAIN s \subseteq DOMAIN t /\ \A i \in DOMAIN s : t[i] = s[i]

Grows ==
  /\ \A p \in Partitions : Extends(log'[p], log[p])
  /\ Placed \subseteq Placed'

LEMMA StepGrows ==
  ASSUME TypeOK, Shape, Claims, [Next]_vars
  PROVE  Grows
  <1>1. Placed \subseteq Placed'
    BY StepOnward DEF Onward
  <1>2. CASE UNCHANGED log
    BY <1>1, <1>2 DEF Grows, Extends
  <1>3. ASSUME NEW m \in Messages, Produce(m) PROVE Grows
    <2>1. \A p \in Partitions : log[p] \in Seq(Messages)
      BY DEF TypeOK, GroupTypeOK
    <2>2. \A p \in Partitions : log'[p] = log[p] \/ log'[p] = Append(log[p], m)
      BY <1>3 DEF TypeOK, GroupTypeOK, Produce
    <2>3. \A p \in Partitions : Extends(log'[p], log[p])
      BY <2>1, <2>2 DEF Extends
    <2>4. QED  BY <1>1, <2>3 DEF Grows
  <1>4. UNCHANGED log \/ \E m \in Messages : Produce(m)
    BY DEF Next, Arrive, GroupStep, LoopStep, Service, Tick, Start, Cancel, Assign, AssignAt, Rebalance,
       RebalanceAt, Fetch, Stop, FetchFail, Commit, CommitInterrupted, CommitFail, SkipPoison, CheckLate,
       Store, FlusherHarvest, FlusherReturn, PublishAggregate, PublishFail, TakeFromHarvest, Die, Finish,
       Kill, Exit, vars, groupVars
  <1>5. QED  BY <1>2, <1>3, <1>4

LEMMA SeenStable ==
  ASSUME Grows, NEW p \in Partitions, NEW o \in DOMAIN log[p], Seen(p, o)
  PROVE  Seen(p, o)' /\ o \in DOMAIN log'[p] /\ log'[p][o] = log[p][o]
  BY DEF Grows, Extends, Seen

LEMMA HoldsBusy ==
  ASSUME NEW c, NEW p \in Partitions, NEW q \in Nat, Holds(c, p, q)
  PROVE  Busy(c)
  <1>1. <<p, q>> \in Partitions \X Nat
    OBVIOUS
  <1>2. QED  BY <1>1, GroupAssumption DEF Holds, Busy, GroupAssumption

(***************************************************************************)
(* The claims of the loop                                                  *)
(***************************************************************************)

\* A step of c changes no other replica's place in its loop.
OthersKeep(c) ==
  \A d \in Consumers \ {c} : pc'[d] = pc[d] /\ task'[d] = task[d]

\* A replica that keeps its record keeps its claim -- returning from Run
\* included -- and one without a record has nothing to claim.
LEMMA ClaimStable ==
  ASSUME TypeOK, Grows, NEW c \in Consumers, Claim(c),
         \/ pc'[c] \in {"fetch"} \cup Returned \cup Ended /\ ~Busy(c)'
         \/ (pc'[c] = pc[c] \/ pc'[c] \in Returned) /\ task'[c] = task[c]
  PROVE  Claim(c)'
  <1>1. CASE ~Busy(c)' /\ pc'[c] \in {"fetch"} \cup Returned \cup Ended
    BY <1>1 DEF Claim, Busy, Returned, Ended
  <1>2. CASE ~Busy(c)' /\ pc'[c] = pc[c] /\ task'[c] = task[c]
    BY <1>2 DEF Claim, Busy
  <1>3. CASE Busy(c)' /\ task'[c] = task[c] /\ (pc'[c] = pc[c] \/ pc'[c] \in Returned)
    <2>1. PICK p \in Partitions, o \in Nat : task[c] = <<p, o>> /\ task'[c] = <<p, o>>
      <3>1. task[c] \in Partitions \X Nat
        BY <1>3 DEF Busy, TypeOK, GroupTypeOK
      <3>2. QED  BY <1>3, <3>1
    <2>2. o \in DOMAIN log[p] /\ \A q \in 1..(o - 1) : Seen(p, q)
      BY <1>3, <2>1 DEF Claim, Busy
    <2>3. \A q \in 1..(o - 1) : q \in DOMAIN log[p]
      BY <2>1, <2>2 DEF TypeOK, GroupTypeOK
    <2>4. \A q \in 1..(o - 1) : Seen(p, q)'
      BY <2>2, <2>3, SeenStable
    <2>5. o \in DOMAIN log'[p] /\ log'[p][o] = log[p][o]
      BY <2>2 DEF Grows, Extends
    <2>6. pc[c] = "commit" => Seen(p, o)'
      BY <2>1, <2>2, SeenStable DEF Claim
    <2>7. QED  BY <1>3, <2>1, <2>2, <2>4, <2>5, <2>6 DEF Claim, Busy, Returned, Ended
  <1>4. QED  BY <1>1, <1>2, <1>3 DEF Busy

LEMMA LeaveKeeps ==
  ASSUME TypeOK, NEW c \in Consumers, NEW how \in Ended, Leave(c, how)
  PROVE  OthersKeep(c) /\ ~Busy(c)' /\ pc'[c] \in Ended
  BY DEF TypeOK, GroupTypeOK, Leave, Goto, OthersKeep, Busy

\* It is enough to look at the replica that moves.
LEMMA ClaimsByActor ==
  ASSUME TypeOK, Grows, Claims, NEW c \in Consumers, OthersKeep(c), Claim(c)'
  PROVE  Claims'
  <1> SUFFICES ASSUME NEW d \in Consumers PROVE Claim(d)'
    BY DEF Claims
  <1>1. CASE d = c
    BY <1>1
  <1>2. CASE d # c
    BY <1>2, ClaimStable DEF OthersKeep, Claims
  <1>3. QED  BY <1>1, <1>2

\* A replica that has fetched a record and goes on with it.
LEMMA ClaimMoves ==
  ASSUME TypeOK, Shape, Claims, Grows, NEW c \in Consumers,
         pc[c] \in {"handle", "midway", "deadletter"},
         task' = task, OthersKeep(c), pc'[c] \in {"midway", "commit"},
         pc'[c] = "midway" => pc[c] = "handle",
         pc'[c] = "commit" => pc[c] = "deadletter" \/ task[c] \in Placed'
  PROVE  Claims'
  <1>1. PICK p \in Partitions, o \in Nat : task[c] = <<p, o>> /\ o \in DOMAIN log[p]
    BY BusyRecord
  <1>2. Busy(c) /\ Busy(c)'
    BY DEF Claims, Claim, Busy
  <1>3. \A q \in 1..(o - 1) : Seen(p, q)'
    <2> TAKE q \in 1..(o - 1)
    <2>1. Seen(p, q)
      BY <1>1, <1>2 DEF Claims, Claim
    <2>2. q \in DOMAIN log[p]
      BY <1>1 DEF TypeOK, GroupTypeOK
    <2>3. QED  BY <2>1, <2>2, SeenStable
  <1>4. o \in DOMAIN log'[p] /\ log'[p][o] = log[p][o]
    BY <1>1 DEF Grows, Extends
  <1>5. pc'[c] = "midway" => log'[p][o] \in Valid
    BY <1>1, <1>4 DEF Claims, Claim
  <1>6. pc'[c] = "commit" => Seen(p, o)'
    BY <1>1, <1>4 DEF Claims, Claim, Seen
  <1>7. Claim(c)'
    BY <1>1, <1>2, <1>3, <1>4, <1>5, <1>6 DEF Claim, Ended
  <1>8. QED  BY <1>7, ClaimsByActor

LEMMA ClaimsStep ==
  ASSUME TypeOK, Shape, Claims, PositionOK, Grows, [Next]_vars
  PROVE  Claims'
  <1>1. ASSUME UNCHANGED <<pc, task>> PROVE Claims'
    BY <1>1, ClaimStable DEF Claims
  <1>2. ASSUME NEW c \in Consumers, OthersKeep(c), ~Busy(c)', pc'[c] \in {"fetch"} \cup Ended
        PROVE  Claims'
    BY <1>2, ClaimStable, ClaimsByActor DEF Claims
  <1>3. ASSUME NEW c \in Consumers, Start(c) \/ Commit(c) \/ CommitInterrupted(c)
        PROVE  Claims'
    <2>1. OthersKeep(c) /\ ~Busy(c)' /\ pc'[c] = "fetch"
      BY <1>3 DEF Start, Commit, CommitInterrupted, Goto, OthersKeep, Claims, Claim, Busy,
         TypeOK, GroupTypeOK
    <2>2. QED  BY <1>2, <2>1
  <1>4. ASSUME NEW c \in Consumers, Die(c) \/ Finish(c) PROVE Claims'
    <2>1. \E how \in Ended : Leave(c, how)
      BY <1>4 DEF Die, Finish, Kill, Exit, Ended
    <2>2. QED  BY <1>2, <2>1, LeaveKeeps
  <1>5. ASSUME NEW c \in Consumers, Stop(c) \/ FetchFail(c) \/ CommitFail(c)
        PROVE  Claims'
    <2>1. \E r \in Returned : Return(c, r)
      BY <1>5 DEF Stop, FetchFail, CommitFail, Returned
    <2>2. OthersKeep(c) /\ task' = task /\ pc'[c] \in Returned
      BY <2>1 DEF TypeOK, GroupTypeOK, Return, Goto, OthersKeep
    <2>3. QED  BY <2>2, ClaimStable, ClaimsByActor DEF Claims
  <1>6. ASSUME NEW c \in Consumers, NEW p \in Partitions, Fetch(c, p) PROVE Claims'
    <2> DEFINE o == position[p] + 1
    <2>1. /\ OthersKeep(c) /\ task'[c] = <<p, o>> /\ log' = log
          /\ pc'[c] = Decode(log[p][o])
      BY <1>6 DEF Fetch, Goto, OthersKeep, TypeOK, GroupTypeOK
    <2>2. position[p] \in Nat /\ log[p] \in Seq(Messages) /\ position[p] < Len(log[p])
      BY <1>6 DEF Fetch, TypeOK, GroupTypeOK
    <2>3. o \in Nat /\ o \in DOMAIN log[p] /\ o - 1 = position[p]
      BY <2>2
    <2>4. owner[p] = c /\ ~Busy(c) /\ c # None
      BY <1>6, GroupAssumption DEF Fetch, Claims, Claim, GroupAssumption
    <2>5. \A q \in 1..(o - 1) : Seen(p, q)'
      <3> TAKE q \in 1..(o - 1)
      <3>1. q \in 1..position[p] /\ ~Holds(c, p, q)
        BY <2>3, <2>4, HoldsBusy
      <3>2. Seen(p, q) /\ q \in DOMAIN log[p]
        BY <2>4, <3>1 DEF PositionOK, PartitionOK
      <3>3. QED  BY <3>2, SeenStable
    <2>6. \/ pc'[c] = "handle" /\ log[p][o] \in Valid
          \/ pc'[c] = "deadletter" /\ log[p][o] \notin Valid
      BY <2>1 DEF Decode
    <2>7. Claim(c)'
      <3> HIDE DEF o
      <3>1. Busy(c)'
        BY <2>1, <2>3, GroupAssumption DEF Busy, GroupAssumption
      <3>2. QED  BY <2>1, <2>3, <2>5, <2>6, <3>1 DEF Claim, Ended
    <2>8. QED  BY <2>1, <2>7, ClaimsByActor
  <1>7. ASSUME NEW c \in Consumers, CheckLate(c) \/ Store(c) \/ SkipPoison(c) PROVE Claims'
    <2>1. WindowsTyped
      BY DEF TypeOK, Shape, WindowsTyped, Full
    <2>2. pc'[c] = "commit" => pc[c] = "deadletter" \/ task[c] \in Placed'
      BY <1>7, <2>1, CheckOnward, StoreOnward DEF SkipPoison
    <2>3. /\ OthersKeep(c) /\ task' = task /\ pc'[c] \in {"midway", "commit"}
          /\ pc[c] \in {"handle", "midway", "deadletter"}
          /\ pc'[c] = "midway" => pc[c] = "handle"
      BY <1>7 DEF CheckLate, Judge, Store, SkipPoison, Goto, OthersKeep, TypeOK, GroupTypeOK
    <2>4. QED  BY <2>2, <2>3, ClaimMoves
  <1>8. ASSUME NEW c \in Consumers, NEW p \in Partitions, Assign(p, c) \/ Rebalance(p, c)
        PROVE  Claims'
    BY <1>1, <1>8 DEF Assign, AssignAt, Rebalance, RebalanceAt
  <1>9. ASSUME NEW c \in Consumers, Cancel(c) PROVE Claims'
    BY <1>1, <1>9 DEF Cancel
  <1>10. ASSUME NEW m \in Messages, Produce(m) PROVE Claims'
    BY <1>1, <1>10 DEF Produce
  <1>11. ASSUME NEW c \in Consumers,
                \/ FlusherHarvest(c) \/ FlusherReturn(c)
                \/ \E a \in harvest[c] : PublishAggregate(c, a) \/ PublishFail(c, a)
         PROVE  Claims'
    BY <1>1, <1>11 DEF FlusherHarvest, FlusherReturn, PublishAggregate, PublishFail, TakeFromHarvest,
       groupVars
  <1>12. CASE Tick \/ UNCHANGED vars
    BY <1>1, <1>12 DEF Tick, vars, groupVars
  <1>13. QED
    BY <1>3, <1>4, <1>5, <1>6, <1>7, <1>8, <1>9, <1>10, <1>11, <1>12
    DEF Next, Arrive, GroupStep, LoopStep, Service

(***************************************************************************)
(* Positions and committed offsets                                         *)
(***************************************************************************)

\* A partition whose owner keeps it keeps its guarantee, if what the owner held
\* is still held or has been seen.
LEMMA PartitionStable ==
  ASSUME TypeOK, Grows, NEW p \in Partitions, PartitionOK(p),
         position'[p] = position[p],
         \/ owner'[p] = None
         \/ /\ owner'[p] = owner[p]
            /\ \A d \in Consumers : \A q \in 1..position[p] :
                 owner[p] = d /\ Holds(d, p, q) => Seen(p, q)' \/ Holds(d, p, q)'
  PROVE  PartitionOK(p)'
  <1> SUFFICES ASSUME NEW q \in 1..position[p]
               PROVE  /\ q \in DOMAIN log'[p]
                      /\ owner'[p] # None => Seen(p, q)' \/ Holds(owner[p], p, q)'
    BY DEF PartitionOK
  <1>1. q \in DOMAIN log[p] /\ q \in DOMAIN log'[p]
    BY DEF PartitionOK, Grows, Extends
  <1>2. ASSUME owner'[p] # None PROVE Seen(p, q)' \/ Holds(owner[p], p, q)'
    <2>1. PICK d \in Consumers : owner[p] = d /\ owner'[p] = d /\ owner[p] # None
      BY <1>2 DEF TypeOK, GroupTypeOK
    <2>2. CASE Seen(p, q)
      BY <1>1, <2>2, SeenStable
    <2>3. CASE Holds(d, p, q)
      <3>1. Seen(p, q)' \/ Holds(d, p, q)'
        BY <2>1, <2>3
      <3>2. QED  BY <2>1, <3>1 DEF Holds, Busy
    <2>4. QED  BY <2>1, <2>2, <2>3 DEF PartitionOK
  <1>3. QED  BY <1>1, <1>2 DEF PartitionOK

LEMMA PositionStep ==
  ASSUME TypeOK, Shape, Claims, PositionOK, Accounted, Grows, [Next]_vars
  PROVE  PositionOK'
  <1> SUFFICES ASSUME NEW p \in Partitions
               PROVE  PartitionOK(p)'
    BY DEF PositionOK
  <1> USE DEF PositionOK
  \* The owner does not move, or moves without letting go of its record.
  <1>1. ASSUME UNCHANGED <<owner, position, task>> PROVE PartitionOK(p)'
    BY <1>1, PartitionStable DEF Holds
  <1>2. ASSUME NEW c \in Consumers, Start(c) \/ Cancel(c) PROVE PartitionOK(p)'
    BY <1>1, <1>2 DEF Start, Cancel
  <1>3. ASSUME NEW c \in Consumers,
               \/ Stop(c) \/ FetchFail(c) \/ CommitFail(c) \/ SkipPoison(c)
               \/ CheckLate(c) \/ Store(c) \/ FlusherHarvest(c) \/ FlusherReturn(c)
               \/ \E a \in harvest[c] : PublishAggregate(c, a) \/ PublishFail(c, a)
        PROVE  PartitionOK(p)'
    BY <1>1, <1>3 DEF Stop, FetchFail, CommitFail, SkipPoison, Return, CheckLate, Store,
       FlusherHarvest, FlusherReturn, PublishAggregate, PublishFail, TakeFromHarvest, groupVars
  \* The process ends and its partitions become free.
  <1>4. ASSUME NEW c \in Consumers, Die(c) \/ Finish(c) PROVE PartitionOK(p)'
    <2>1. \E how \in Ended : Leave(c, how)
      BY <1>4 DEF Die, Finish, Kill, Exit, Ended
    <2>2. /\ OthersKeep(c) /\ position'[p] = position[p]
          /\ owner'[p] = None \/ (owner'[p] = owner[p] /\ owner[p] # c)
      BY <2>1, LeaveKeeps DEF Leave
    <2>3. \A d \in Consumers \ {c} : \A q : Holds(d, p, q) => Holds(d, p, q)'
      BY <2>2 DEF OthersKeep, Holds
    <2>4. QED  BY <2>2, <2>3, PartitionStable
  \* The replica lets go of a record it has dealt with.
  <1>5. ASSUME NEW c \in Consumers, Commit(c) \/ CommitInterrupted(c) PROVE PartitionOK(p)'
    <2>1. UNCHANGED <<owner, position>> /\ OthersKeep(c) /\ pc[c] = "commit"
      BY <1>5 DEF Commit, CommitInterrupted, OthersKeep, Goto, TypeOK, GroupTypeOK
    <2>2. \A d \in Consumers \ {c} : \A q : Holds(d, p, q) => Holds(d, p, q)'
      BY <2>1 DEF OthersKeep, Holds
    <2>3. ASSUME NEW q \in 1..position[p], Holds(c, p, q) PROVE Seen(p, q)'
      <3>1. Seen(p, q) /\ q \in DOMAIN log[p]
        BY <2>1, <2>3, BusyRecord DEF Holds, Claims, Claim, Busy
      <3>2. QED  BY <3>1, SeenStable
    <2>4. QED  BY <2>1, <2>2, <2>3, PartitionStable
  \* A fetch: all that was fetched before has been seen.
  <1>6. ASSUME NEW c \in Consumers, NEW f \in Partitions, Fetch(c, f) PROVE PartitionOK(p)'
    <2>1. /\ UNCHANGED owner /\ OthersKeep(c) /\ ~Busy(c) /\ owner[f] = c
          /\ task'[c] = <<f, position[f] + 1>> /\ log' = log
      BY <1>6 DEF Fetch, Goto, OthersKeep, Claims, Claim, TypeOK, GroupTypeOK
    <2>2. \A d \in Consumers : \A q \in Nat : Holds(d, p, q) => Holds(d, p, q)'
      BY <2>1, HoldsBusy DEF OthersKeep, Holds
    <2>3. CASE p # f
      <3>1. position'[p] = position[p]
        BY <1>6, <2>3 DEF Fetch, TypeOK, GroupTypeOK
      <3>2. QED  BY <2>1, <2>2, <3>1, PartitionStable
    <2>4. CASE p = f
      <3>1. position[p] \in Nat /\ position'[p] = position[p] + 1
        BY <1>6, <2>4 DEF Fetch, TypeOK, GroupTypeOK
      <3>2. position[p] + 1 \in DOMAIN log[p]
        BY <1>6, <2>4, <3>1 DEF Fetch, TypeOK, GroupTypeOK
      <3>3. ASSUME NEW q \in 1..position[p] PROVE Seen(p, q)' /\ q \in DOMAIN log'[p]
        <4>1. Seen(p, q) /\ q \in DOMAIN log[p]
          BY <2>1, <2>4, HoldsBusy, GroupAssumption DEF PartitionOK, GroupAssumption
        <4>2. QED  BY <4>1, SeenStable
      <3>4. Holds(c, p, position[p])'
        BY <2>1, <2>4, <3>1 DEF Holds
      <3>5. QED  BY <2>1, <2>4, <3>1, <3>2, <3>3, <3>4 DEF PartitionOK, Holds
    <2>5. QED  BY <2>3, <2>4
  \* An assignment starts from the committed offset.
  <1>7. ASSUME NEW c \in Consumers, NEW f \in Partitions, Assign(f, c) \/ Rebalance(f, c)
        PROVE  PartitionOK(p)'
    <2>1. CASE p = f
      <3>1. position'[p] = committed[p] /\ log' = log
        BY <1>7, <2>1 DEF Assign, AssignAt, Rebalance, RebalanceAt, TypeOK, GroupTypeOK
      <3>2. \A q \in 1..committed[p] : q \in DOMAIN log[p] /\ Seen(p, q)
        BY DEF Accounted, Seen, Placed
      <3>3. \A q \in 1..committed[p] : q \in DOMAIN log'[p] /\ Seen(p, q)'
        BY <3>2, SeenStable
      <3>4. QED  BY <3>1, <3>3 DEF PartitionOK
    <2>2. CASE p # f
      <3>1. position'[p] = position[p] /\ owner'[p] = owner[p] /\ UNCHANGED <<pc, task>>
        BY <1>7, <2>2 DEF Assign, AssignAt, Rebalance, RebalanceAt, TypeOK, GroupTypeOK
      <3>2. QED  BY <3>1, PartitionStable DEF Holds
    <2>3. QED  BY <2>1, <2>2
  <1>8. ASSUME NEW m \in Messages, Produce(m) PROVE PartitionOK(p)'
    BY <1>1, <1>8 DEF Produce
  <1>9. CASE Tick \/ UNCHANGED vars
    BY <1>1, <1>9 DEF Tick, vars, groupVars
  <1>10. QED
    BY <1>2, <1>3, <1>4, <1>5, <1>6, <1>7, <1>8, <1>9 DEF Next, Arrive, GroupStep, LoopStep, Service

LEMMA AccountedStep ==
  ASSUME TypeOK, Shape, Claims, Accounted, Grows, [Next]_vars
  PROVE  Accounted'
  <1> SUFFICES ASSUME NEW p \in Partitions, NEW o \in 1..committed'[p]
               PROVE  o \in DOMAIN log'[p] /\ Seen(p, o)'
    BY DEF Accounted, Seen, Placed
  <1>1. \/ UNCHANGED committed
        \/ \E c \in Consumers : pc[c] = "commit" /\ Acknowledge(c)
    BY DEF Next, Arrive, GroupStep, LoopStep, Service, Tick, Produce, Start, Cancel, Assign, AssignAt,
       Rebalance, RebalanceAt, Fetch, Stop, FetchFail, Commit, CommitInterrupted, CommitFail, SkipPoison,
       CheckLate, Store, FlusherHarvest, FlusherReturn, PublishAggregate, PublishFail, TakeFromHarvest,
       Die, Finish, Kill, Exit, vars, groupVars
  \* Committed before this step.
  <1>2. CASE o \in 1..committed[p]
    <2>1. o \in DOMAIN log[p] /\ Seen(p, o)
      BY <1>2 DEF Accounted, Seen, Placed
    <2>2. QED  BY <2>1, SeenStable
  \* A commit: its record has been seen, and so has every record before it.
  <1>3. CASE \E c \in Consumers : pc[c] = "commit" /\ Acknowledge(c)
    <2>1. PICK c \in Consumers : pc[c] = "commit" /\ Acknowledge(c)
      BY <1>3
    <2>2. PICK t \in Partitions, u \in Nat :
            /\ task[c] = <<t, u>> /\ u \in DOMAIN log[t]
            /\ Seen(t, u) /\ \A q \in 1..(u - 1) : Seen(t, q)
      BY <2>1, BusyRecord DEF Claims, Claim, Busy
    <2>3. \/ o \in 1..committed[p]
          \/ p = t /\ o \in 1..u
      BY <2>1, <2>2 DEF Acknowledge, TypeOK, GroupTypeOK
    <2>4. CASE p = t /\ o \in 1..u
      <3>1. o \in DOMAIN log[p]
        BY <2>2, <2>4 DEF TypeOK, GroupTypeOK
      <3>2. Seen(p, o)
        BY <2>2, <2>4
      <3>3. QED  BY <3>1, <3>2, SeenStable
    <2>5. QED  BY <1>2, <2>3, <2>4
  <1>4. QED  BY <1>1, <1>2, <1>3

(***************************************************************************)
(* The invariant                                                           *)
(***************************************************************************)
LEMMA InitInv == Init => IInv
  <1> SUFFICES ASSUME Init PROVE IInv
    OBVIOUS
  <1> USE DEF Init
  <1>1. GroupTypeOK /\ \A p \in Partitions : Len(log[p]) <= MaxLog
    BY GroupAssumption DEF GroupAssumption, GroupInit, GroupTypeOK, Loop, Returned, Ended
  <1>2. 0 \in 0..MaxTime /\ flusherDone \in [Consumers -> BOOLEAN]
    BY AggregatorAssumption DEF AggregatorAssumption
  <1>3. \A c \in Consumers : buckets[c] = <<>> /\ harvest[c] = {}
    BY DEF Empty
  <1>4. published = <<>> /\ late \cup lost = {}
    OBVIOUS
  <1>5. ReadingsIn(Range(published)) = {}
    BY <1>4 DEF ReadingsIn, Range
  <1>6. TypeOK
    BY <1>1, <1>2, <1>3, <1>4, <1>5 DEF TypeOK
  <1>7. Shape
    BY <1>1, <1>3, <1>4 DEF Shape
  <1>8. Claims
    BY DEF GroupInit, Claims, Claim, Busy, Loop
  <1>9. PositionOK /\ Accounted
    BY DEF GroupInit, PositionOK, PartitionOK, Accounted
  <1>10. QED  BY <1>6, <1>7, <1>8, <1>9 DEF IInv

\* IInv is an invariant of the aggregation service: every reachable state
\* satisfies it, whatever rebalances, kills, signals and failed calls occur.
THEOREM Invariance == Spec => []IInv
  <1>1. IInv /\ [Next]_vars => IInv'
    <2> SUFFICES ASSUME IInv, [Next]_vars PROVE IInv'
      OBVIOUS
    <2>1. TypeOK /\ Shape /\ Claims /\ PositionOK /\ Accounted
      BY DEF IInv
    <2>2. Grows /\ TypeOK' /\ Shape'
      BY <2>1, StepGrows, TypeStep
    <2>3. Claims' /\ PositionOK' /\ Accounted'
      BY <2>1, <2>2, ClaimsStep, PositionStep, AccountedStep
    <2>4. QED  BY <2>2, <2>3 DEF IInv
  <1>2. QED  BY <1>1, InitInv, PTL DEF Spec

\* Every variable keeps its type; in particular no bucket is ever empty, so that no
\* average is taken of nothing.
THEOREM TypeCorrect == Spec => []TypeOK
  BY Invariance, PTL DEF IInv

\* Nothing disappears between Add and the topic: a reading whose offset has been
\* committed is late, pending, published, or went down with a replica or a publish.
THEOREM AllAccounted == Spec => []Accounted
  BY Invariance, PTL DEF IInv

(***************************************************************************)
(* Windows hold what was measured in them                                  *)
(***************************************************************************)

\* A reading is a record of the log, measured in the window that starts at start.
Fits(r, start) ==
  /\ r \in Readings /\ r[2] \in DOMAIN log[r[1]]
  /\ start <= TimeOf(r) /\ TimeOf(r) < start + Size

AllFit(s, start) == \A i \in DOMAIN s : Fits(s[i], start)

Sorted ==
  /\ \A c \in Consumers : \A k \in DOMAIN buckets[c] : AllFit(buckets[c][k], KeyStart(k))
  /\ \A c \in Consumers : \A a \in harvest[c] : AllFit(a.readings, a.start)
  /\ \A n \in DOMAIN published : AllFit(published[n].readings, published[n].start)

LEMMA FitsStable ==
  ASSUME Grows, NEW r, NEW start, Fits(r, start)
  PROVE  Fits(r, start)'
  <1>1. r[1] \in Partitions
    BY DEF Fits, Readings
  <1>2. r[2] \in DOMAIN log'[r[1]] /\ log'[r[1]][r[2]] = log[r[1]][r[2]]
    BY <1>1 DEF Grows, Extends, Fits
  <1>3. QED  BY <1>2 DEF Fits, TimeOf

\* A bucket takes a reading of its own window.
LEMMA FoldFits ==
  ASSUME Size % Second = 0, TypeOK, Shape, Claims, NEW c \in Consumers, pc[c] = "midway"
  PROVE  Fits(task[c], KeyStart(Key(EventTime[Record(c)])))
  <1> DEFINE ts == EventTime[Record(c)]
  <1>1. ts \in Nat /\ TimeOf(task[c]) = ts
    BY EventTimes
  <1>2. task[c] \in Readings /\ task[c][2] \in DOMAIN log[task[c][1]]
    BY BusyRecord
  <1> HIDE DEF ts
  <1>3. KeyStart(Key(ts)) <= ts /\ ts < KeyStart(Key(ts)) + Size
    BY <1>1, WholeSeconds, Times
  <1>4. Fits(task[c], KeyStart(Key(ts)))
    BY <1>1, <1>2, <1>3 DEF Fits
  <1>5. QED  BY <1>4 DEF ts

\* A place that takes nothing new in.
LEMMA AllFitStable ==
  ASSUME Grows, NEW s, NEW start, AllFit(s, start)
  PROVE  AllFit(s, start)'
  BY FitsStable DEF AllFit

LEMMA SortedKeeps ==
  ASSUME Grows, Sorted,
         \A c \in Consumers : \A k \in DOMAIN buckets'[c] :
           k \in DOMAIN buckets[c] /\ buckets'[c][k] = buckets[c][k],
         \A c \in Consumers : \A a \in harvest'[c] :
           \/ a \in harvest[c]
           \/ \E k \in DOMAIN buckets[c] : a = [start |-> KeyStart(k), readings |-> buckets[c][k]],
         \A n \in DOMAIN published' :
           \/ n \in DOMAIN published /\ published'[n] = published[n]
           \/ \E c \in Consumers : \E a \in harvest[c] : published'[n] = Sent(c, a)
  PROVE  Sorted'
  <1>0. \A r, start : Fits(r, start) => Fits(r, start)'
    BY FitsStable
  <1>1. ASSUME NEW c \in Consumers, NEW k \in DOMAIN buckets'[c]
        PROVE  AllFit(buckets[c][k], KeyStart(k))'
    <2>1. k \in DOMAIN buckets[c] /\ buckets'[c][k] = buckets[c][k]
      OBVIOUS
    <2>2. AllFit(buckets[c][k], KeyStart(k))
      BY <2>1 DEF Sorted
    <2> DEFINE b == buckets'[c][k]
               start == KeyStart(k)
    <2>3. AllFit(b, start)
      BY <2>1, <2>2
    <2> HIDE DEF b, start
    <2>4. \A i \in DOMAIN b : Fits(b[i], start)
      BY <2>3 DEF AllFit
    <2>5. \A i \in DOMAIN b : /\ b[i] \in Readings /\ b[i][2] \in DOMAIN log'[b[i][1]]
                              /\ start <= EventTime[log'[b[i][1]][b[i][2]]]
                              /\ EventTime[log'[b[i][1]][b[i][2]]] < start + Size
      BY <1>0, <2>4 DEF Fits, TimeOf
    <2>6. QED  BY <2>5 DEF AllFit, Fits, TimeOf, b, start
  <1>2. ASSUME NEW c \in Consumers, NEW a \in harvest'[c]
        PROVE  AllFit(a.readings, a.start)'
    <2>1. AllFit(a.readings, a.start)
      BY DEF Sorted
    <2>2. QED  BY <2>1, AllFitStable
  <1>3. ASSUME NEW n \in DOMAIN published'
        PROVE  AllFit(published[n].readings, published[n].start)'
    <2> DEFINE x == published'[n]
    <2>1. AllFit(x.readings, x.start)
      BY DEF Sorted, Sent
    <2> HIDE DEF x
    <2> DEFINE b == x.readings
               start == x.start
    <2>2. \A i \in DOMAIN b : Fits(b[i], start)
      BY <2>1 DEF AllFit
    <2> HIDE DEF b, start
    <2>3. \A i \in DOMAIN b : /\ b[i] \in Readings /\ b[i][2] \in DOMAIN log'[b[i][1]]
                              /\ start <= EventTime[log'[b[i][1]][b[i][2]]]
                              /\ EventTime[log'[b[i][1]][b[i][2]]] < start + Size
      BY <1>0, <2>2 DEF Fits, TimeOf
    <2>4. QED  BY <2>3 DEF AllFit, Fits, TimeOf, b, start, x
  <1>4. QED  BY <1>1, <1>2, <1>3 DEF Sorted

LEMMA SortedStep ==
  ASSUME Size % Second = 0, TypeOK, Shape, Claims, Sorted, Grows, [Next]_vars
  PROVE  Sorted'
  <1>1. CASE UNCHANGED <<buckets, harvest, published>>
    BY <1>1, SortedKeeps
  <1>2. ASSUME NEW c \in Consumers, Store(c) PROVE Sorted'
    <2> DEFINE ts == EventTime[Record(c)]
               new == AddTo(buckets[c], ts, task[c])
    <2>1. ts \in Nat /\ task[c] \in Readings /\ Full(buckets[c])
      BY <1>2, EventTimes, BusyRecord DEF Store, TypeOK, Full
    <2>2. Added(buckets[c], ts, task[c], new)
      <3> HIDE DEF ts
      <3>1. QED  BY <2>1, Adding
    <2>3. Fits(task[c], KeyStart(Key(ts)))
      BY <1>2, FoldFits DEF Store
    <2>4. /\ buckets' = [buckets EXCEPT ![c] = new]
          /\ UNCHANGED <<harvest, published>>
      BY <1>2 DEF Store, Fold
    <2> HIDE DEF new, ts
    <2>5. buckets'[c] = new /\ \A d \in Consumers \ {c} : buckets'[d] = buckets[d]
      BY <2>4 DEF Shape
    <2>6. ASSUME NEW k \in DOMAIN new, NEW i \in DOMAIN new[k]
          PROVE  Fits(new[k][i], KeyStart(k))
      <3>1. CASE k \in DOMAIN buckets[c] /\ i \in DOMAIN buckets[c][k] /\ new[k][i] = buckets[c][k][i]
        BY <3>1 DEF Sorted, AllFit
      <3>2. CASE k = Key(ts) /\ new[k][i] = task[c]
        BY <3>2, <2>3
      <3>3. QED  BY <2>2, <3>1, <3>2 DEF Added
    <2>7. ASSUME NEW d \in Consumers, NEW k \in DOMAIN buckets'[d], NEW i \in DOMAIN buckets'[d][k]
          PROVE  Fits(buckets'[d][k][i], KeyStart(k))
      BY <2>5, <2>6 DEF Sorted, AllFit
    <2>8. \A r, start : Fits(r, start) => Fits(r, start)'
      BY FitsStable
    <2>9. \A d \in Consumers : \A k \in DOMAIN buckets'[d] : AllFit(buckets[d][k], KeyStart(k))'
      BY <2>7, <2>8 DEF AllFit, Fits, TimeOf
    <2>10. \A d \in Consumers : \A a \in harvest[d] : AllFit(a.readings, a.start)'
      BY <2>8 DEF Sorted, AllFit
    <2>11. \A n \in DOMAIN published : AllFit(published[n].readings, published[n].start)'
      BY <2>4, <2>8 DEF Sorted, AllFit, Fits, TimeOf
    <2>12. QED  BY <2>4, <2>9, <2>10, <2>11 DEF Sorted
  <1>3. ASSUME NEW c \in Consumers, FlusherHarvest(c) PROVE Sorted'
    <2>1. PICK now \in 0..clock :
            /\ harvest' = [harvest EXCEPT ![c] = Aggregates(buckets[c], now)]
            /\ buckets' = [buckets EXCEPT ![c] = StillOpen(buckets[c], now)]
      BY <1>3 DEF FlusherHarvest
    <2>2. published' = published
      BY <1>3 DEF FlusherHarvest
    <2>3. \A d \in Consumers : \A k \in DOMAIN buckets'[d] :
            k \in DOMAIN buckets[d] /\ buckets'[d][k] = buckets[d][k]
      BY <2>1 DEF StillOpen, Restrict, Shape
    <2>4. \A a \in Aggregates(buckets[c], now) :
            \E k \in DOMAIN buckets[c] : a = [start |-> KeyStart(k), readings |-> buckets[c][k]]
      BY DEF Aggregates, ClosedKeys
    <2>5. \A d \in Consumers : \A a \in harvest'[d] :
            \/ a \in harvest[d]
            \/ \E k \in DOMAIN buckets[d] : a = [start |-> KeyStart(k), readings |-> buckets[d][k]]
      BY <2>1, <2>4 DEF Shape
    <2>6. QED  BY <2>2, <2>3, <2>5, SortedKeeps
  <1>4. ASSUME NEW c \in Consumers, NEW a \in harvest[c], PublishAggregate(c, a) \/ PublishFail(c, a)
        PROVE  Sorted'
    <2>1. /\ buckets' = buckets
          /\ harvest' = [harvest EXCEPT ![c] = @ \ {a}]
      BY <1>4 DEF PublishAggregate, PublishFail, TakeFromHarvest
    <2>2. \A d \in Consumers : harvest'[d] \subseteq harvest[d]
      BY <2>1 DEF Shape
    <2>3. \A n \in DOMAIN published' :
            (n \in DOMAIN published /\ published'[n] = published[n]) \/ published'[n] = Sent(c, a)
      <3> DEFINE x == Sent(c, a)
      <3>1. published' \in {published, Append(published, x), published \o <<x, x>>}
        BY <1>4 DEF PublishAggregate, PublishFail
      <3>2. published \in Seq(PublishedRecord)
        BY DEF Shape
      <3> HIDE DEF x
      <3>3. \A t \in {published, Append(published, x), published \o <<x, x>>} : \A n \in DOMAIN t :
              (n \in DOMAIN published /\ t[n] = published[n]) \/ t[n] = x
        <4>1. \A n \in DOMAIN Append(published, x) :
                (n \in DOMAIN published /\ Append(published, x)[n] = published[n])
                  \/ Append(published, x)[n] = x
          BY <3>2
        <4>2. \A n \in DOMAIN (published \o <<x, x>>) :
                (n \in DOMAIN published /\ (published \o <<x, x>>)[n] = published[n])
                  \/ (published \o <<x, x>>)[n] = x
          BY <3>2
        <4>3. QED  BY <4>1, <4>2
      <3>4. QED  BY <3>1, <3>3 DEF x
    <2>4. QED  BY <2>1, <2>2, <2>3, SortedKeeps
  <1>5. ASSUME NEW c \in Consumers, Forget(c) PROVE Sorted'
    <2>1. \A d \in Consumers : \A k \in DOMAIN buckets'[d] :
            k \in DOMAIN buckets[d] /\ buckets'[d][k] = buckets[d][k]
      BY <1>5 DEF Forget, Empty, Shape
    <2>2. (\A d \in Consumers : harvest'[d] \subseteq harvest[d]) /\ published' = published
      BY <1>5 DEF Forget, Shape
    <2>3. QED  BY <2>1, <2>2, SortedKeeps
  <1>6. \/ UNCHANGED <<buckets, harvest, published>>
        \/ \E c \in Consumers :
             \/ Store(c) \/ FlusherHarvest(c) \/ Forget(c)
             \/ \E a \in harvest[c] : PublishAggregate(c, a) \/ PublishFail(c, a)
    BY DEF Next, Arrive, Service, Tick, CheckLate, FlusherReturn, Die, Finish, vars, windowVars
  <1>7. QED  BY <1>1, <1>2, <1>3, <1>4, <1>5, <1>6

\* With windows of whole seconds an aggregate holds only what was measured in its
\* window, however late it came and whichever replica folded it in.
THEOREM InTheirWindows == ASSUME Size % Second = 0 PROVE Spec => []InItsWindow
  <1>1. Init => Sorted
    BY DEF Init, Sorted, AllFit, Empty
  <1>2. IInv /\ Sorted /\ [Next]_vars => Sorted'
    BY StepGrows, SortedStep DEF IInv
  <1>3. Spec => []Sorted
    BY <1>1, <1>2, Invariance, PTL DEF Spec
  <1>4. Sorted => InItsWindow
    BY DEF Sorted, AllFit, Fits, InItsWindow, Range
  <1>5. QED  BY <1>3, <1>4, PTL

(***************************************************************************)
(* How far the past can be rewritten                                       *)
(***************************************************************************)

\* A window of c that Closed has taken: one of its aggregates is on the topic, or on
\* its way there.
OnSeries(c, start) == \E n \in DOMAIN published : published[n].by = c /\ published[n].start = start
Gone(c, start) == OnSeries(c, start) \/ \E a \in harvest[c] : a.start = start

\* c is between the lateness check and the mutex with a reading of bucket k.
Between(c, k) == pc[c] = "midway" /\ Key(TimeOf(task[c])) = k

\* A window that is gone is past its grace period, so that the check lets nothing
\* more into it; its bucket, if there is one again, took the reading that was between
\* the check and the mutex, and no further one is.
Rewriting ==
  /\ \A c \in Consumers : \A start \in Nat : Gone(c, start) => clock >= CloseTime(start)
  /\ \A c \in Consumers : \A k \in DOMAIN buckets[c] :
       Gone(c, KeyStart(k)) => Len(buckets[c][k]) = 1 /\ ~Between(c, k)
  /\ \A c \in Consumers : \A a \in harvest[c] : OnSeries(c, a.start) => Len(a.readings) = 1
  /\ \A c \in Consumers : \A a, b \in harvest[c] : a.start = b.start => a = b
  /\ RewriteBounded

\* Steps that leave the windows alone: no reading gets past the check into a window
\* that is gone.
LEMMA CheckKeeps ==
  ASSUME TypeOK, Shape, Rewriting, clock' \in Nat, clock <= clock',
         UNCHANGED <<buckets, harvest, published>>,
         \A c \in Consumers : \A k \in DOMAIN buckets[c] :
           Between(c, k)' => Between(c, k) \/ ~Gone(c, KeyStart(k))
  PROVE  Rewriting'
  <1>1. \A c, start : /\ OnSeries(c, start)' <=> OnSeries(c, start)
                      /\ Gone(c, start)' <=> Gone(c, start)
    BY DEF Gone, OnSeries
  <1>2. ASSUME NEW c \in Consumers, NEW start \in Nat, Gone(c, start)'
        PROVE  clock' >= CloseTime(start)
    <2>1. clock \in Nat /\ clock >= CloseTime(start) /\ CloseTime(start) \in Nat
      BY <1>1, <1>2, TumblerAssumption, AggregatorAssumption
         DEF Rewriting, TypeOK, CloseTime, TumblerAssumption, AggregatorAssumption
    <2>2. QED  BY <2>1
  <1>3. ASSUME NEW c \in Consumers, NEW k \in DOMAIN buckets'[c], Gone(c, KeyStart(k))'
        PROVE  Len(buckets'[c][k]) = 1 /\ ~Between(c, k)'
    BY <1>1, <1>3 DEF Rewriting
  <1>4. \A c \in Consumers : \A a \in harvest'[c] : OnSeries(c, a.start)' => Len(a.readings) = 1
    BY <1>1 DEF Rewriting
  <1>5. QED
    BY <1>2, <1>3, <1>4 DEF Rewriting, RewriteBounded, SameWindow

\* Under the mutex: the one reading that was between.
LEMMA StoreKeeps ==
  ASSUME Size % Second = 0, TypeOK, Shape, Claims, Rewriting, NEW c \in Consumers, Store(c)
  PROVE  Rewriting'
  <1> DEFINE ts == EventTime[Record(c)]
             new == AddTo(buckets[c], ts, task[c])
  <1>1. ts \in Nat /\ TimeOf(task[c]) = ts
    BY EventTimes DEF Store
  <1>2. /\ buckets' = [buckets EXCEPT ![c] = new]
        /\ UNCHANGED <<log, task, clock, harvest, published>>
        /\ pc[c] = "midway" /\ pc' = [pc EXCEPT ![c] = "commit"]
    BY DEF Store, Fold, Goto
  <1>3. \A d, start : /\ OnSeries(d, start)' <=> OnSeries(d, start)
                      /\ Gone(d, start)' <=> Gone(d, start)
    BY <1>2 DEF Gone, OnSeries
  <1>4. Between(c, Key(ts))
    BY <1>1, <1>2 DEF Between
  \* If the window is gone, its bucket was not there.
  <1>5. Gone(c, KeyStart(Key(ts))) => Key(ts) \notin DOMAIN buckets[c]
    BY <1>4 DEF Rewriting
  <1>6. /\ DOMAIN new = DOMAIN buckets[c] \cup {Key(ts)}
        /\ \A k \in DOMAIN buckets[c] : k # Key(ts) => new[k] = buckets[c][k]
        /\ Key(ts) \notin DOMAIN buckets[c] => Len(new[Key(ts)]) = 1
    <2> DEFINE key == Key(ts)
    <2>1. new = [k \in DOMAIN buckets[c] \cup {key} |->
                   IF k = key THEN Append(BucketAt(buckets[c], k), task[c]) ELSE buckets[c][k]]
      BY DEF AddTo
    <2> HIDE DEF key
    <2>2. key \notin DOMAIN buckets[c] => new[key] = Append(<<>>, task[c])
      BY <2>1 DEF BucketAt
    <2>3. Len(Append(<<>>, task[c])) = 1
      OBVIOUS
    <2>4. QED  BY <2>1, <2>2, <2>3 DEF key
  <1> HIDE DEF new, ts
  <1>7. buckets'[c] = new /\ \A d \in Consumers \ {c} : buckets'[d] = buckets[d] /\ pc'[d] = pc[d]
    BY <1>2 DEF Shape
  <1>8. pc'[c] = "commit"
    BY <1>2 DEF TypeOK, GroupTypeOK
  <1>9. ASSUME NEW d \in Consumers, NEW k \in DOMAIN buckets'[d], Gone(d, KeyStart(k))'
        PROVE  Len(buckets'[d][k]) = 1 /\ ~Between(d, k)'
    <2>1. CASE d # c
      BY <1>2, <1>3, <1>7, <1>9, <2>1 DEF Rewriting, Between, TimeOf
    <2>2. CASE d = c
      <3>1. ~Between(c, k)'
        BY <1>8 DEF Between
      <3>2. CASE k = Key(ts)
        BY <1>3, <1>5, <1>6, <1>7, <1>9, <2>2, <3>1, <3>2
      <3>3. CASE k # Key(ts)
        BY <1>3, <1>6, <1>7, <1>9, <2>2, <3>1, <3>3 DEF Rewriting
      <3>4. QED  BY <3>2, <3>3
    <2>3. QED  BY <2>1, <2>2
  <1>10. \A d \in Consumers : \A start \in Nat : Gone(d, start)' => clock' >= CloseTime(start)
    BY <1>2, <1>3 DEF Rewriting
  <1>11. \A d \in Consumers : \A a \in harvest'[d] : OnSeries(d, a.start)' => Len(a.readings) = 1
    BY <1>2, <1>3 DEF Rewriting
  <1>12. QED
    BY <1>2, <1>9, <1>10, <1>11 DEF Rewriting, RewriteBounded, SameWindow

\* Closed takes windows whose grace period is over.
LEMMA HarvestKeeps ==
  ASSUME TypeOK, Shape, Rewriting, NEW c \in Consumers, FlusherHarvest(c)
  PROVE  Rewriting'
  <1>1. PICK now \in 0..clock :
          /\ harvest' = [harvest EXCEPT ![c] = Aggregates(buckets[c], now)]
          /\ buckets' = [buckets EXCEPT ![c] = StillOpen(buckets[c], now)]
    BY DEF FlusherHarvest
  <1>2. /\ harvest[c] = {} /\ UNCHANGED <<clock, published, log, pc, task>>
    BY DEF FlusherHarvest, groupVars
  <1> DEFINE gone == ClosedKeys(buckets[c], now)
  <1>3. /\ harvest'[c] = Aggregates(buckets[c], now) /\ buckets'[c] = StillOpen(buckets[c], now)
        /\ \A d \in Consumers \ {c} : harvest'[d] = harvest[d] /\ buckets'[d] = buckets[d]
    BY <1>1 DEF Shape
  <1>4. \A a \in harvest'[c] : \E k \in gone : a = [start |-> KeyStart(k), readings |-> buckets[c][k]]
    BY <1>3 DEF Aggregates
  <1>5. /\ DOMAIN buckets'[c] = DOMAIN buckets[c] \ gone
        /\ \A k \in DOMAIN buckets'[c] : buckets'[c][k] = buckets[c][k]
    BY <1>3 DEF StillOpen, Restrict
  <1>6. \A k \in gone : k \in DOMAIN buckets[c] /\ k \in Nat /\ now >= CloseTime(KeyStart(k))
    BY DEF ClosedKeys, TypeOK
  <1>7. \A k, l \in Nat : KeyStart(k) = KeyStart(l) => k = l
    BY TumblerAssumption DEF TumblerAssumption, KeyStart
  <1>8. \A k \in Nat : KeyStart(k) \in Nat /\ CloseTime(KeyStart(k)) \in Nat
    BY TumblerAssumption DEF TumblerAssumption, KeyStart, CloseTime
  <1>9. \A k \in gone : clock >= CloseTime(KeyStart(k))
    BY <1>6, <1>8, AggregatorAssumption DEF TypeOK, AggregatorAssumption
  <1> HIDE DEF gone
  <1>10. \A d, start : OnSeries(d, start)' <=> OnSeries(d, start)
    BY <1>2 DEF OnSeries
  <1>11. /\ \A d \in Consumers \ {c} : \A start : Gone(d, start)' <=> Gone(d, start)
         /\ \A start : Gone(c, start)' =>
              Gone(c, start) \/ \E k \in gone : start = KeyStart(k)
    BY <1>3, <1>4, <1>10 DEF Gone
  <1>12. ASSUME NEW d \in Consumers, NEW start \in Nat, Gone(d, start)'
         PROVE  clock' >= CloseTime(start)
    BY <1>2, <1>9, <1>11, <1>12 DEF Rewriting
  <1>13. ASSUME NEW d \in Consumers, NEW k \in DOMAIN buckets'[d], Gone(d, KeyStart(k))'
         PROVE  Len(buckets'[d][k]) = 1 /\ ~Between(d, k)'
    <2>1. Between(d, k)' <=> Between(d, k)
      BY <1>2 DEF Between, TimeOf
    <2>2. CASE d # c
      BY <1>3, <1>11, <1>13, <2>1, <2>2 DEF Rewriting
    <2>3. CASE d = c
      <3>1. k \in DOMAIN buckets[c] /\ k \notin gone /\ k \in Nat
        BY <1>5, <2>3 DEF TypeOK
      <3>2. \A l \in gone : KeyStart(l) # KeyStart(k)
        BY <1>6, <1>7, <3>1
      <3>3. Gone(c, KeyStart(k))
        BY <1>11, <1>13, <2>3, <3>2
      <3>4. QED  BY <1>5, <2>1, <2>3, <3>1, <3>3 DEF Rewriting
    <2>4. QED  BY <2>2, <2>3
  <1>14. ASSUME NEW d \in Consumers, NEW a \in harvest'[d], OnSeries(d, a.start)'
         PROVE  Len(a.readings) = 1
    <2>1. CASE d # c
      BY <1>3, <1>10, <1>14, <2>1 DEF Rewriting
    <2>2. CASE d = c
      <3>1. PICK k \in gone : a = [start |-> KeyStart(k), readings |-> buckets[c][k]]
        BY <1>4, <2>2
      <3>2. Gone(c, KeyStart(k)) /\ k \in DOMAIN buckets[c]
        BY <1>6, <1>10, <1>14, <2>2, <3>1 DEF Gone
      <3>3. QED  BY <3>1, <3>2 DEF Rewriting
    <2>3. QED  BY <2>1, <2>2
  <1>15. ASSUME NEW d \in Consumers, NEW a \in harvest'[d], NEW b \in harvest'[d], a.start = b.start
         PROVE  a = b
    <2>1. CASE d # c
      BY <1>3, <1>15, <2>1 DEF Rewriting
    <2>2. CASE d = c
      <3>1. PICK k \in gone : a = [start |-> KeyStart(k), readings |-> buckets[c][k]]
        BY <1>4, <2>2
      <3>2. PICK l \in gone : b = [start |-> KeyStart(l), readings |-> buckets[c][l]]
        BY <1>4, <2>2
      <3>3. k = l
        BY <1>6, <1>7, <1>15, <3>1, <3>2
      <3>4. QED  BY <3>1, <3>2, <3>3
    <2>3. QED  BY <2>1, <2>2
  <1>16. QED
    BY <1>2, <1>12, <1>13, <1>14, <1>15 DEF Rewriting, RewriteBounded, SameWindow

\* An aggregate that leaves the harvest: to the topic, once or twice, or not at all.
LEMMA PublishKeeps ==
  ASSUME TypeOK, Shape, Rewriting, NEW c \in Consumers, NEW a \in harvest[c],
         TakeFromHarvest(c, a), 
         published' \in {published, Append(published, Sent(c, a)),
                        published \o <<Sent(c, a), Sent(c, a)>>}
  PROVE  Rewriting'
  <1> DEFINE x == Sent(c, a)
  <1>1. x.by = c /\ x.start = a.start /\ x.readings = a.readings
    BY DEF Sent
  <1>2. /\ \A d \in Consumers : harvest'[d] \subseteq harvest[d]
        /\ a \notin harvest'[c]
        /\ UNCHANGED <<log, pc, task, clock, buckets>>
    BY DEF TakeFromHarvest, Shape
  <1> HIDE DEF x
  <1>3. \A n \in DOMAIN published' :
          \/ n \in DOMAIN published /\ published'[n] = published[n]
          \/ n > Len(published) /\ published'[n] = x
    <2>1. published \in Seq(PublishedRecord)
      BY DEF Shape
    <2>2. published' \in {published, Append(published, x), published \o <<x, x>>}
      BY DEF x
    <2>3. CASE published' = published \o <<x, x>>
      BY <2>1, <2>3
    <2>4. CASE published' \in {published, Append(published, x)}
      BY <2>1, <2>4
    <2>5. QED  BY <2>2, <2>3, <2>4
  <1>4. DOMAIN published = 1..Len(published) /\ Len(published) \in Nat
    BY DEF Shape
  <1>5. \A d, start : OnSeries(d, start)' => OnSeries(d, start) \/ (d = c /\ start = a.start)
    BY <1>1, <1>3 DEF OnSeries
  <1>6. \A d \in Consumers : \A start : Gone(d, start)' => Gone(d, start)
    BY <1>2, <1>5 DEF Gone
  <1>7. ASSUME NEW d \in Consumers, NEW start \in Nat, Gone(d, start)'
        PROVE  clock' >= CloseTime(start)
    BY <1>2, <1>6, <1>7 DEF Rewriting
  <1>8. ASSUME NEW d \in Consumers, NEW k \in DOMAIN buckets'[d], Gone(d, KeyStart(k))'
        PROVE  Len(buckets'[d][k]) = 1 /\ ~Between(d, k)'
    BY <1>2, <1>6, <1>8 DEF Rewriting, Between, TimeOf
  <1>9. ASSUME NEW d \in Consumers, NEW b \in harvest'[d], OnSeries(d, b.start)'
        PROVE  Len(b.readings) = 1
    <2>1. b \in harvest[d]
      BY <1>2
    <2>2. ~(d = c /\ b.start = a.start)
      BY <1>2, <2>1 DEF Rewriting
    <2>3. QED  BY <1>5, <1>9, <2>1, <2>2 DEF Rewriting
  <1>10. \A d \in Consumers : \A b, e \in harvest'[d] : b.start = e.start => b = e
    BY <1>2 DEF Rewriting
  <1>11. ASSUME NEW i \in DOMAIN published', NEW j \in DOMAIN published', i < j, SameWindow(i, j)'
         PROVE  published'[j] = published'[i] \/ Len(published'[j].readings) = 1
    <2>1. CASE j \in DOMAIN published /\ published'[j] = published[j]
      <3>1. i \in DOMAIN published /\ published'[i] = published[i]
        BY <1>3, <1>4, <1>11, <2>1
      <3>2. QED  BY <1>11, <2>1, <3>1 DEF SameWindow, Rewriting, RewriteBounded
    <2>2. CASE published'[j] = x /\ published'[i] = x
      BY <2>2
    <2>3. CASE published'[j] = x /\ i \in DOMAIN published /\ published'[i] = published[i]
      <3>1. OnSeries(c, a.start)
        BY <1>1, <1>11, <2>3 DEF SameWindow, OnSeries
      <3>2. QED  BY <1>1, <2>3, <3>1 DEF Rewriting
    <2>4. QED  BY <1>3, <2>1, <2>2, <2>3
  <1>12. RewriteBounded'
    BY <1>11 DEF RewriteBounded
  <1>13. QED
    BY <1>7, <1>8, <1>9, <1>10, <1>12 DEF Rewriting

\* The end of a process takes its windows away.
LEMMA ForgetKeeps ==
  ASSUME TypeOK, Shape, Rewriting, NEW c \in Consumers, Forget(c),
         \A d \in Consumers \ {c} : pc'[d] = pc[d] /\ task'[d] = task[d], UNCHANGED log
  PROVE  Rewriting'
  <1>1. /\ buckets'[c] = <<>> /\ harvest'[c] = {}
        /\ \A d \in Consumers \ {c} : buckets'[d] = buckets[d] /\ harvest'[d] = harvest[d]
        /\ UNCHANGED <<clock, published>>
    BY DEF Forget, Empty, Shape
  <1>2. \A d, start : OnSeries(d, start)' <=> OnSeries(d, start)
    BY <1>1 DEF OnSeries
  <1>3. \A d \in Consumers : \A start : Gone(d, start)' => Gone(d, start)
    BY <1>1, <1>2 DEF Gone
  <1>4. \A d \in Consumers : \A start \in Nat : Gone(d, start)' => clock' >= CloseTime(start)
    BY <1>1, <1>3 DEF Rewriting
  <1>5. ASSUME NEW d \in Consumers, NEW k \in DOMAIN buckets'[d], Gone(d, KeyStart(k))'
        PROVE  Len(buckets'[d][k]) = 1 /\ ~Between(d, k)'
    <2>1. d # c
      BY <1>1
    <2>2. Between(d, k)' <=> Between(d, k)
      BY <2>1 DEF Between, TimeOf
    <2>3. QED  BY <1>1, <1>3, <1>5, <2>1, <2>2 DEF Rewriting
  <1>6. \A d \in Consumers : \A a \in harvest'[d] : OnSeries(d, a.start)' => Len(a.readings) = 1
    BY <1>1, <1>2 DEF Rewriting
  <1>7. \A d \in Consumers : \A a, b \in harvest'[d] : a.start = b.start => a = b
    BY <1>1 DEF Rewriting
  <1>8. QED
    BY <1>1, <1>4, <1>5, <1>6, <1>7 DEF Rewriting, RewriteBounded, SameWindow

\* Every step.
LEMMA RewritingStep ==
  ASSUME Size % Second = 0, TypeOK, TypeOK', Shape, Claims, Grows, Rewriting, [Next]_vars
  PROVE  Rewriting'
  \* No step takes a reading past the check but CheckLate.
  <1>1. ASSUME UNCHANGED <<buckets, harvest, published>>,
               \A c \in Consumers :
                 \/ pc'[c] = "midway" => pc[c] = "midway" /\ task'[c] = task[c]
                 \/ Judge(c) /\ task' = task
        PROVE  Rewriting'
    <2>1. clock \in Nat /\ clock' \in Nat /\ clock <= clock'
      <3>1. clock \in 0..MaxTime /\ clock' \in 0..MaxTime /\ MaxTime \in Nat
        BY AggregatorAssumption DEF AggregatorAssumption, TypeOK
      <3>2. clock' \in {clock, clock + 1}
        BY DEF Next, Arrive, Service, Tick, CheckLate, Store, FlusherHarvest, FlusherReturn,
           PublishAggregate, PublishFail, TakeFromHarvest, Die, Finish, Forget, vars, windowVars
      <3>3. QED  BY <3>1, <3>2
    <2>2. ASSUME NEW c \in Consumers, NEW k \in DOMAIN buckets[c], Between(c, k)'
          PROVE  Between(c, k) \/ ~Gone(c, KeyStart(k))
      <3>1. CASE pc[c] = "midway" /\ task'[c] = task[c]
        <4>1. /\ task[c][1] \in Partitions /\ task[c][2] \in DOMAIN log[task[c][1]]
          BY <3>1, BusyRecord
        <4>2. TimeOf(task[c])' = TimeOf(task[c])
          BY <3>1, <4>1 DEF TimeOf, Grows, Extends
        <4>3. QED  BY <2>2, <3>1, <4>2 DEF Between
      <3>2. CASE Judge(c) /\ task' = task
        <4>1. pc[c] = "handle" /\ pc'[c] = "midway"
          BY <2>2, <3>2 DEF Judge, Between
        <4>2. /\ task[c][1] \in Partitions /\ task[c][2] \in DOMAIN log[task[c][1]]
              /\ EventTime[Record(c)] \in Nat /\ TimeOf(task[c]) = EventTime[Record(c)]
          BY <4>1, BusyRecord, EventTimes
        <4>3. TimeOf(task[c])' = TimeOf(task[c])
          BY <3>2, <4>2 DEF TimeOf, Grows, Extends
        <4> DEFINE ts == EventTime[Record(c)]
        <4>4. k = Key(ts)
          BY <2>2, <3>2, <4>2, <4>3 DEF Between
        <4>5. ~(clock >= CloseTime(WindowStart(ts)))
          BY <3>2, <4>1 DEF Judge, Goto, IsLate, TypeOK, GroupTypeOK
        <4> HIDE DEF ts
        <4>6. KeyStart(k) = WindowStart(ts) /\ WindowStart(ts) \in Nat
          BY <4>2, <4>4, WholeSeconds, Times DEF ts
        <4>7. QED  BY <4>5, <4>6 DEF Rewriting
      <3>3. QED  BY <1>1, <2>2, <3>1, <3>2 DEF Between
    <2>3. QED  BY <1>1, <2>1, <2>2, CheckKeeps
  <1>2. CASE Tick \/ UNCHANGED vars
    BY <1>1, <1>2 DEF Tick, groupVars, vars, windowVars
  <1>3. CASE \E m \in Messages : Arrive(m)
    BY <1>1, <1>3 DEF Arrive, Produce, windowVars
  <1>4. ASSUME NEW c \in Consumers, GroupStep(c) \/ SkipPoison(c), UNCHANGED windowVars
        PROVE  Rewriting'
    <2>1. \A d \in Consumers : pc'[d] = "midway" => pc[d] = "midway" /\ task'[d] = task[d]
      BY <1>4 DEF GroupStep, LoopStep, Start, Cancel, Assign, AssignAt, Rebalance, RebalanceAt, Fetch,
         Decode, Stop, FetchFail, Commit, CommitInterrupted, CommitFail, SkipPoison, Return, Goto,
         TypeOK, GroupTypeOK
    <2>2. QED  BY <1>1, <1>4, <2>1 DEF windowVars
  <1>5. ASSUME NEW c \in Consumers, CheckLate(c) \/ FlusherReturn(c) PROVE Rewriting'
    <2>1. \A d \in Consumers \ {c} : pc'[d] = pc[d]
      BY <1>5 DEF CheckLate, Judge, Goto, FlusherReturn, groupVars, TypeOK, GroupTypeOK
    <2>2. QED  BY <1>1, <1>5, <2>1 DEF CheckLate, FlusherReturn, groupVars
  <1>6. ASSUME NEW c \in Consumers, NEW a \in harvest[c], PublishAggregate(c, a) \/ PublishFail(c, a)
        PROVE  Rewriting'
    BY <1>6, PublishKeeps DEF PublishAggregate, PublishFail
  <1>7. ASSUME NEW c \in Consumers, Die(c) \/ Finish(c) PROVE Rewriting'
    <2>1. Forget(c) /\ UNCHANGED log /\ \E how \in Ended : Leave(c, how)
      BY <1>7 DEF Die, Finish, Kill, Exit, Ended
    <2>2. \A d \in Consumers \ {c} : pc'[d] = pc[d] /\ task'[d] = task[d]
      BY <2>1 DEF Leave, Goto, TypeOK, GroupTypeOK
    <2>3. QED  BY <2>1, <2>2, ForgetKeeps
  <1>8. QED
    BY <1>2, <1>3, <1>4, <1>5, <1>6, <1>7, StoreKeeps, HarvestKeeps DEF Next, Service

\* With windows of whole seconds a window comes out of a replica again only as the
\* same record, or with the one reading that was between its lateness check and the
\* mutex when the window closed: also when the replica is restarted, loses its
\* partition, or cannot publish.
THEOREM RewriteIsBounded == ASSUME Size % Second = 0 PROVE Spec => []RewriteBounded
  <1>1. Init => Rewriting
    BY DEF Init, Rewriting, Gone, OnSeries, Empty, RewriteBounded
  <1>2. IInv /\ IInv' /\ Rewriting /\ [Next]_vars => Rewriting'
    BY RewritingStep, StepGrows DEF IInv
  <1>3. Rewriting => RewriteBounded
    BY DEF Rewriting
  <1>4. QED  BY <1>1, <1>2, <1>3, Invariance, PTL DEF Spec
=============================================================================

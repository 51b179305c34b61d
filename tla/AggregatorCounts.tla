----------------------------- MODULE AggregatorCounts -----------------------------
(***************************************************************************)
(* How often a reading is counted, for any replicas, partitions, windows,  *)
(* event times and faults.  The copies of a reading on the topic, on their *)
(* way there and in the open windows are weighed against the times it is   *)
(* still due to be handled (RereadProofs) and the faults spent.            *)
(***************************************************************************)
EXTENDS AggregatorProofs, RereadProofs

(***************************************************************************)
(* The copies, one at a time                                               *)
(***************************************************************************)
IsTopicCopy(x, r) ==
  \E n \in DOMAIN published : \E i \in Copies(published[n].readings, r) : x = <<n, i>>
IsWayCopy(x, r) ==
  \E c \in Consumers : \E a \in harvest[c] : \E i \in Copies(a.readings, r) : x = <<<<c, a>>, i>>
IsOpenCopy(x, r) ==
  \E c \in Consumers : \E k \in DOMAIN buckets[c] : \E i \in Copies(buckets[c][k], r) :
    x = <<<<c, k>>, i>>

CopiesAre ==
  \A r : /\ \A x : x \in TopicCopies(r) <=> IsTopicCopy(x, r)
         /\ \A x : x \in WayCopies(r) <=> IsWayCopy(x, r)
         /\ \A x : x \in OpenCopies(r) <=> IsOpenCopy(x, r)

\* The sets of copies hold what they say.
LEMMA CopiesHold == CopiesAre
  <1>1. ASSUME NEW r, NEW x PROVE x \in TopicCopies(r) <=> IsTopicCopy(x, r)
    BY DEF TopicCopies, IsTopicCopy
  <1>2. ASSUME NEW r, NEW x PROVE x \in WayCopies(r) <=> IsWayCopy(x, r)
    BY DEF WayCopies, IsWayCopy
  <1>3. ASSUME NEW r, NEW x PROVE x \in OpenCopies(r) <=> IsOpenCopy(x, r)
    BY DEF OpenCopies, IsOpenCopy
  <1>4. QED  BY <1>1, <1>2, <1>3 DEF CopiesAre

\* So they do in the next state.
LEMMA CopiesHoldNext == CopiesAre'
  BY CopiesHold, PTL

\* How many copies there are.
Finite(r) == IsFiniteSet(TopicCopies(r)) /\ IsFiniteSet(WayCopies(r)) /\ IsFiniteSet(OpenCopies(r))
OnIt(r)   == Cardinality(TopicCopies(r))
Before(r) == Cardinality(WayCopies(r)) + Cardinality(OpenCopies(r))

\* The numbers of copies are numbers.
LEMMA CopiesCount ==
  ASSUME NEW r
  PROVE  /\ Finite(r) => /\ OnIt(r) \in Nat /\ Before(r) \in Nat
                         /\ Cardinality(WayCopies(r)) \in Nat /\ Cardinality(OpenCopies(r)) \in Nat
         /\ Finite(r)' => OnIt(r)' \in Nat /\ Before(r)' \in Nat
  <1>1. ASSUME Finite(r)
        PROVE  /\ OnIt(r) \in Nat /\ Before(r) \in Nat
               /\ Cardinality(WayCopies(r)) \in Nat /\ Cardinality(OpenCopies(r)) \in Nat
    BY <1>1, FS_CardinalityType DEF Finite, OnIt, Before
  <1>2. ASSUME Finite(r)' PROVE OnIt(r)' \in Nat /\ Before(r)' \in Nat
    <2>1. /\ Cardinality(TopicCopies(r)') \in Nat /\ Cardinality(WayCopies(r)') \in Nat
          /\ Cardinality(OpenCopies(r)') \in Nat
      BY <1>2, FS_CardinalityType DEF Finite
    <2>2. QED  BY <2>1 DEF OnIt, Before
  <1>3. QED  BY <1>1, <1>2

\* A step puts no more than m copies on the topic, and no more than n before it.
Puts(r, m, n) == Finite(r)' /\ OnIt(r)' <= OnIt(r) + m /\ Before(r)' <= Before(r) + n

(***************************************************************************)
(* What each step does to the copies                                       *)
(***************************************************************************)
\* No copy that was not there.
LEMMA NothingPut ==
  ASSUME NEW r, Finite(r),
         TopicCopies(r)' \subseteq TopicCopies(r), WayCopies(r)' \subseteq WayCopies(r),
         OpenCopies(r)' \subseteq OpenCopies(r)
  PROVE  Puts(r, 0, 0)
  <1>1. /\ IsFiniteSet(TopicCopies(r)')
        /\ Cardinality(TopicCopies(r)) \in Nat /\ Cardinality(TopicCopies(r)') \in Nat
        /\ Cardinality(TopicCopies(r)') <= Cardinality(TopicCopies(r))
    BY Fewer DEF Finite
  <1>2. /\ IsFiniteSet(WayCopies(r)')
        /\ Cardinality(WayCopies(r)) \in Nat /\ Cardinality(WayCopies(r)') \in Nat
        /\ Cardinality(WayCopies(r)') <= Cardinality(WayCopies(r))
    BY Fewer DEF Finite
  <1>3. /\ IsFiniteSet(OpenCopies(r)')
        /\ Cardinality(OpenCopies(r)) \in Nat /\ Cardinality(OpenCopies(r)') \in Nat
        /\ Cardinality(OpenCopies(r)') <= Cardinality(OpenCopies(r))
    BY Fewer DEF Finite
  <1>4. QED  BY <1>1, <1>2, <1>3 DEF Puts, Finite, OnIt, Before

\* The windows are left alone.
LEMMA WindowsPut ==
  ASSUME NEW r, Finite(r), UNCHANGED <<buckets, harvest, published>>
  PROVE  Puts(r, 0, 0)
  <1>1. /\ TopicCopies(r)' = TopicCopies(r) /\ WayCopies(r)' = WayCopies(r)
        /\ OpenCopies(r)' = OpenCopies(r)
    BY DEF TopicCopies, WayCopies, OpenCopies
  <1>2. QED  BY <1>1, NothingPut

\* The windows of a replica go with its process.
LEMMA ForgetPuts ==
  ASSUME TypeOK, Shape, NEW r, Finite(r), NEW c \in Consumers, Forget(c)
  PROVE  Puts(r, 0, 0)
  <1>1. /\ buckets'[c] = <<>> /\ harvest'[c] = {}
        /\ \A d \in Consumers \ {c} : buckets'[d] = buckets[d] /\ harvest'[d] = harvest[d]
        /\ UNCHANGED published
    BY DEF Forget, Empty, Shape
  <1>2. TopicCopies(r)' = TopicCopies(r)
    BY <1>1 DEF TopicCopies
  <1>3. \A x : IsWayCopy(x, r)' => IsWayCopy(x, r)
    BY <1>1 DEF IsWayCopy
  <1>4. \A x : IsOpenCopy(x, r)' => IsOpenCopy(x, r)
    BY <1>1 DEF IsOpenCopy
  <1>5. /\ WayCopies(r)' \subseteq WayCopies(r)
        /\ OpenCopies(r)' \subseteq OpenCopies(r)
    BY <1>3, <1>4, CopiesHold, CopiesHoldNext DEF CopiesAre
  <1>6. QED  BY <1>2, <1>5, NothingPut

\* Add appends one reading to one bucket.
LEMMA AddsOne ==
  ASSUME NEW b, Full(b), NEW ts \in Nat, NEW s \in Readings, NEW new, new = AddTo(b, ts, s)
  PROVE  \E n : \A k \in DOMAIN new : \A i \in DOMAIN new[k] :
           \/ k \in DOMAIN b /\ i \in DOMAIN b[k] /\ new[k][i] = b[k][i]
           \/ k = Key(ts) /\ i = n /\ new[k][i] = s
  <1> DEFINE key == Key(ts)
             old == BucketAt(b, key)
  <1>1. old \in Seq(Readings) /\ (key \in DOMAIN b => old = b[key])
    BY DEF BucketAt, Bucket, Full
  <1>2. key \notin DOMAIN b => old = <<>>
    BY DEF BucketAt
  <1>3. new = [k \in DOMAIN b \cup {key} |-> IF k = key THEN Append(old, s) ELSE b[k]]
    BY DEF AddTo
  <1> HIDE DEF old, key
  <1>4. /\ DOMAIN old = 1..Len(old) /\ Len(old) \in Nat
        /\ DOMAIN Append(old, s) = 1..(Len(old) + 1)
        /\ \A i \in 1..Len(old) : Append(old, s)[i] = old[i]
        /\ Append(old, s)[Len(old) + 1] = s
    BY <1>1, Appending
  <1>5. ASSUME NEW k \in DOMAIN new, NEW i \in DOMAIN new[k]
        PROVE  \/ k \in DOMAIN b /\ i \in DOMAIN b[k] /\ new[k][i] = b[k][i]
               \/ k = key /\ i = Len(old) + 1 /\ new[k][i] = s
    <2>1. CASE k # key
      BY <1>3, <2>1
    <2>2. CASE k = key
      <3>1. i \in 1..(Len(old) + 1) /\ new[k][i] = Append(old, s)[i]
        BY <1>3, <1>4, <2>2
      <3>2. CASE i = Len(old) + 1
        BY <1>4, <2>2, <3>1, <3>2
      <3>3. CASE i # Len(old) + 1
        <4>1. i \in 1..Len(old)
          BY <1>4, <3>1, <3>3
        <4>2. key \in DOMAIN b
          BY <1>2, <4>1
        <4>3. QED  BY <1>1, <1>4, <2>2, <3>1, <4>1, <4>2
      <3>4. QED  BY <3>2, <3>3
    <2>3. QED  BY <2>1, <2>2
  <1> DEFINE spot == Len(old) + 1
  <1>6. \A k \in DOMAIN new : \A i \in DOMAIN new[k] :
           \/ k \in DOMAIN b /\ i \in DOMAIN b[k] /\ new[k][i] = b[k][i]
           \/ k = key /\ i = spot /\ new[k][i] = s
    BY <1>5
  <1> HIDE DEF spot
  <1>7. QED  BY <1>6 DEF key

\* The reading of the replica that stores has one more copy, any other has none.
LEMMA StorePuts ==
  ASSUME TypeOK, Shape, Claims, NEW r, Finite(r), NEW c \in Consumers, Store(c)
  PROVE  IF task[c] = r THEN Puts(r, 0, 1) ELSE Puts(r, 0, 0)
  <1> DEFINE ts == EventTime[Record(c)]
             new == AddTo(buckets[c], ts, task[c])
  <1>1. ts \in Nat /\ task[c] \in Readings /\ Full(buckets[c])
    BY EventTimes, BusyRecord DEF Store, TypeOK, Full
  <1>2. PICK n : \A k \in DOMAIN new : \A i \in DOMAIN new[k] :
           \/ k \in DOMAIN buckets[c] /\ i \in DOMAIN buckets[c][k] /\ new[k][i] = buckets[c][k][i]
           \/ k = Key(ts) /\ i = n /\ new[k][i] = task[c]
    <2> HIDE DEF ts
    <2>1. QED  BY <1>1, AddsOne
  <1>3. buckets' = [buckets EXCEPT ![c] = new] /\ UNCHANGED <<harvest, published>>
    BY DEF Store, Fold
  <1> HIDE DEF new, ts
  <1>4. buckets'[c] = new /\ \A d \in Consumers \ {c} : buckets'[d] = buckets[d]
    BY <1>3 DEF Shape
  <1> DEFINE x == <<<<c, Key(ts)>>, n>>
  <1>5. ASSUME NEW y, IsOpenCopy(y, r)'
        PROVE  IsOpenCopy(y, r) \/ (task[c] = r /\ y = x)
    <2>1. PICK d \in Consumers : \E k \in DOMAIN buckets'[d] : \E i \in Copies(buckets'[d][k], r) :
            y = <<<<d, k>>, i>>
      BY <1>5 DEF IsOpenCopy, Copies
    <2>2. PICK k \in DOMAIN buckets'[d] : \E i \in Copies(buckets'[d][k], r) : y = <<<<d, k>>, i>>
      BY <2>1
    <2>3. PICK i \in Copies(buckets'[d][k], r) : y = <<<<d, k>>, i>>
      BY <2>2
    <2>4. CASE d # c
      BY <1>4, <2>3, <2>4 DEF IsOpenCopy
    <2>5. CASE d = c
      <3>1. k \in DOMAIN new /\ i \in DOMAIN new[k] /\ new[k][i] = r
        BY <1>4, <2>3, <2>5 DEF Copies
      <3>2. CASE k \in DOMAIN buckets[c] /\ i \in DOMAIN buckets[c][k] /\ new[k][i] = buckets[c][k][i]
        BY <2>3, <2>5, <3>1, <3>2 DEF IsOpenCopy, Copies
      <3>3. CASE k = Key(ts) /\ i = n /\ new[k][i] = task[c]
        BY <2>3, <2>5, <3>1, <3>3
      <3>4. QED  BY <1>2, <3>1, <3>2, <3>3
    <2>6. QED  BY <2>4, <2>5
  <1>6. TopicCopies(r)' = TopicCopies(r) /\ WayCopies(r)' = WayCopies(r)
    BY <1>3 DEF TopicCopies, WayCopies
  <1> HIDE DEF x
  <1>7. CASE task[c] # r
    <2>1. OpenCopies(r)' \subseteq OpenCopies(r)
      BY <1>5, <1>7, CopiesHold, CopiesHoldNext DEF CopiesAre
    <2>2. QED  BY <1>6, <1>7, <2>1, NothingPut
  <1>8. CASE task[c] = r
    <2>1. OpenCopies(r)' \subseteq OpenCopies(r) \cup {x}
      BY <1>5, CopiesHold, CopiesHoldNext DEF CopiesAre
    <2>2. /\ IsFiniteSet(OpenCopies(r)')
          /\ Cardinality(OpenCopies(r)) \in Nat /\ Cardinality(OpenCopies(r)') \in Nat
          /\ Cardinality(OpenCopies(r)') <= Cardinality(OpenCopies(r)) + 1
      BY <2>1, OneMore DEF Finite
    <2>3. /\ Finite(r)' /\ OnIt(r)' = OnIt(r)
          /\ OnIt(r) \in Nat /\ Cardinality(WayCopies(r)) \in Nat
      BY <1>6, <2>2, CopiesCount DEF Finite, OnIt
    <2>4. QED  BY <1>6, <1>8, <2>2, <2>3 DEF Puts, Before
  <1>9. QED  BY <1>7, <1>8

\* A set is smaller for the elements it has let go.
LEMMA LetGo ==
  ASSUME NEW S, IsFiniteSet(S), NEW M \in SUBSET S, NEW T \in SUBSET (S \ M)
  PROVE  /\ IsFiniteSet(T)
         /\ Cardinality(S) \in Nat /\ Cardinality(T) \in Nat /\ Cardinality(M) \in Nat
         /\ Cardinality(T) <= Cardinality(S) - Cardinality(M)
  <1>1. IsFiniteSet(S \ M)
    BY FS_Difference
  <1>2. Cardinality(S \ M) = Cardinality(S) - Cardinality(S \cap M)
    BY FS_Difference
  <1>3. S \cap M = M
    OBVIOUS
  <1>4. IsFiniteSet(T) /\ Cardinality(T) \in Nat /\ Cardinality(T) <= Cardinality(S \ M)
    BY <1>1, Fewer
  <1>5. Cardinality(S) \in Nat /\ Cardinality(M) \in Nat
    BY Fewer
  <1>6. QED  BY <1>2, <1>3, <1>4, <1>5

\* And no larger than by those it has taken in.
LEMMA TakeIn ==
  ASSUME NEW S, IsFiniteSet(S), NEW M, IsFiniteSet(M), NEW T \in SUBSET (S \cup M)
  PROVE  /\ IsFiniteSet(T)
         /\ Cardinality(S) \in Nat /\ Cardinality(T) \in Nat /\ Cardinality(M) \in Nat
         /\ Cardinality(T) <= Cardinality(S) + Cardinality(M)
  <1>1. IsFiniteSet(S \cup M)
    BY FS_Union
  <1>2. Cardinality(S \cup M) = Cardinality(S) + Cardinality(M) - Cardinality(S \cap M)
    BY FS_Union
  <1>3. IsFiniteSet(S \cap M)
    BY FS_Subset
  <1>4. Cardinality(S) \in Nat /\ Cardinality(M) \in Nat /\ Cardinality(S \cap M) \in Nat
    BY <1>3, FS_CardinalityType
  <1>5. IsFiniteSet(T) /\ Cardinality(T) \in Nat /\ Cardinality(T) <= Cardinality(S \cup M)
    BY <1>1, Fewer
  <1>6. QED  BY <1>2, <1>4, <1>5

\* Closed moves copies from the open windows to the harvest, each to one place.
LEMMA HarvestPuts ==
  ASSUME TypeOK, Shape, NEW r, Finite(r), NEW c \in Consumers, FlusherHarvest(c)
  PROVE  Puts(r, 0, 0)
  <1>1. PICK now \in 0..clock :
          /\ harvest' = [harvest EXCEPT ![c] = Aggregates(buckets[c], now)]
          /\ buckets' = [buckets EXCEPT ![c] = StillOpen(buckets[c], now)]
    BY DEF FlusherHarvest
  <1>2. harvest[c] = {} /\ UNCHANGED published
    BY DEF FlusherHarvest
  <1> DEFINE gone == ClosedKeys(buckets[c], now)
             agg(k) == [start |-> KeyStart(k), readings |-> buckets[c][k]]
             moved == {x \in OpenCopies(r) : x[1][1] = c /\ x[1][2] \in gone}
             place == [x \in moved |-> <<<<c, agg(x[1][2])>>, x[2]>>]
             taken == {place[x] : x \in moved}
  <1>3. /\ harvest'[c] = {agg(k) : k \in gone}
        /\ DOMAIN buckets'[c] = DOMAIN buckets[c] \ gone
        /\ \A k \in DOMAIN buckets'[c] : buckets'[c][k] = buckets[c][k]
        /\ gone \subseteq DOMAIN buckets[c]
        /\ \A d \in Consumers \ {c} : harvest'[d] = harvest[d] /\ buckets'[d] = buckets[d]
    BY <1>1 DEF Shape, Aggregates, StillOpen, Restrict, ClosedKeys
  <1> HIDE DEF gone
  <1>4. ASSUME NEW y, IsWayCopy(y, r)'
        PROVE  IsWayCopy(y, r) \/ y \in taken
    <2>1. PICK d \in Consumers : \E a \in harvest'[d] : \E i \in Copies(a.readings, r) :
            y = <<<<d, a>>, i>>
      BY <1>4 DEF IsWayCopy, Copies
    <2>2. PICK a \in harvest'[d] : \E i \in Copies(a.readings, r) : y = <<<<d, a>>, i>>
      BY <2>1
    <2>3. PICK i \in Copies(a.readings, r) : y = <<<<d, a>>, i>>
      BY <2>2
    <2>4. CASE d # c
      BY <1>3, <2>3, <2>4 DEF IsWayCopy
    <2>5. CASE d = c
      <3>1. PICK k \in gone : a = agg(k)
        BY <1>3, <2>5
      <3> DEFINE x == <<<<c, k>>, i>>
      <3>2. a.readings = buckets[c][k] /\ k \in DOMAIN buckets[c]
        BY <1>3, <3>1
      <3>3. IsOpenCopy(x, r)
        BY <2>3, <3>2 DEF IsOpenCopy
      <3>4. x \in moved
        BY <3>3, CopiesHold DEF CopiesAre
      <3>5. place[x] = y
        BY <2>3, <2>5, <3>1, <3>4
      <3>6. QED  BY <3>4, <3>5
    <2>6. QED  BY <2>4, <2>5
  <1>5. ASSUME NEW y, IsOpenCopy(y, r)'
        PROVE  IsOpenCopy(y, r) /\ ~(y[1][1] = c /\ y[1][2] \in gone)
    <2>1. PICK d \in Consumers : \E k \in DOMAIN buckets'[d] : \E i \in Copies(buckets'[d][k], r) :
            y = <<<<d, k>>, i>>
      BY <1>5 DEF IsOpenCopy, Copies
    <2>2. PICK k \in DOMAIN buckets'[d] : \E i \in Copies(buckets'[d][k], r) : y = <<<<d, k>>, i>>
      BY <2>1
    <2>3. PICK i \in Copies(buckets'[d][k], r) : y = <<<<d, k>>, i>>
      BY <2>2
    <2>4. k \in DOMAIN buckets[d] /\ buckets'[d][k] = buckets[d][k] /\ ~(d = c /\ k \in gone)
      BY <1>3
    <2>5. y[1][1] = d /\ y[1][2] = k
      BY <2>3
    <2>6. QED  BY <2>3, <2>4, <2>5 DEF IsOpenCopy
  <1>6. /\ WayCopies(r)' \subseteq WayCopies(r) \cup taken
        /\ OpenCopies(r)' \subseteq OpenCopies(r) \ moved
        /\ TopicCopies(r)' = TopicCopies(r)
    <2>1. WayCopies(r)' \subseteq WayCopies(r) \cup taken
      BY <1>4, CopiesHold, CopiesHoldNext DEF CopiesAre
    <2>2. OpenCopies(r)' \subseteq OpenCopies(r) \ moved
      BY <1>5, CopiesHold, CopiesHoldNext DEF CopiesAre
    <2>3. TopicCopies(r)' = TopicCopies(r)
      BY <1>2 DEF TopicCopies
    <2>4. QED  BY <2>1, <2>2, <2>3
  <1>7. moved \subseteq OpenCopies(r) /\ place \in Surjection(moved, taken)
    BY DEF Surjection
  <1> HIDE DEF moved, place, taken
  <1>8. /\ IsFiniteSet(moved) /\ Cardinality(moved) \in Nat
        /\ IsFiniteSet(taken) /\ Cardinality(taken) \in Nat
        /\ Cardinality(taken) <= Cardinality(moved)
    <2>1. IsFiniteSet(moved) /\ Cardinality(moved) \in Nat
      BY <1>7, Fewer DEF Finite
    <2>2. IsFiniteSet(taken) /\ Cardinality(taken) <= Cardinality(moved)
      BY <1>7, <2>1, FS_Surjection
    <2>3. QED  BY <2>1, <2>2, FS_CardinalityType
  <1>9. /\ IsFiniteSet(WayCopies(r)')
        /\ Cardinality(WayCopies(r)) \in Nat /\ Cardinality(WayCopies(r)') \in Nat
        /\ Cardinality(WayCopies(r)') <= Cardinality(WayCopies(r)) + Cardinality(taken)
    BY <1>6, <1>8, TakeIn DEF Finite
  <1>10. /\ IsFiniteSet(OpenCopies(r)')
         /\ Cardinality(OpenCopies(r)) \in Nat /\ Cardinality(OpenCopies(r)') \in Nat
         /\ Cardinality(OpenCopies(r)') <= Cardinality(OpenCopies(r)) - Cardinality(moved)
    BY <1>6, <1>7, LetGo DEF Finite
  <1>11. Before(r)' <= Before(r)
    BY <1>8, <1>9, <1>10 DEF Before
  <1>12. Finite(r)' /\ OnIt(r)' = OnIt(r) /\ OnIt(r) \in Nat /\ Before(r) \in Nat
    BY <1>6, <1>9, <1>10, CopiesCount DEF Finite, OnIt
  <1>13. QED  BY <1>11, <1>12 DEF Puts

\* An aggregate takes the copies it holds out of the harvest, and puts them on the
\* topic as often as it is written there.
LEMMA PublishPuts ==
  ASSUME TypeOK, Shape, NEW r, Finite(r), NEW c \in Consumers, NEW a \in harvest[c],
         TakeFromHarvest(c, a)
  PROVE  \E n \in Nat :
           /\ published' = published => Puts(r, 0, -n)
           /\ published' = Append(published, Sent(c, a)) => Puts(r, n, -n)
           /\ published' = published \o <<Sent(c, a), Sent(c, a)>> => Puts(r, n + n, -n)
  <1> DEFINE held == Copies(a.readings, r)
             gone == {<<c, a>>} \X held
             n == Cardinality(held)
             x == Sent(c, a)
             l == Len(published)
  <1>1. /\ harvest' = [harvest EXCEPT ![c] = @ \ {a}] /\ buckets' = buckets
        /\ \A d \in Consumers : harvest'[d] \subseteq harvest[d]
        /\ a \notin harvest'[c]
    BY DEF TakeFromHarvest, Shape
  <1>2. x.readings = a.readings
    BY DEF Sent
  <1>3. published \in Seq(PublishedRecord) /\ l \in Nat /\ DOMAIN published = 1..l
    BY DEF Shape
  <1>4. IsFiniteSet(held) /\ n \in Nat
    <2>1. a.readings \in Seq(Readings)
      BY DEF Shape, Harvested, Bucket
    <2>2. held \subseteq 1..Len(a.readings) /\ Len(a.readings) \in Nat
      BY <2>1 DEF Copies
    <2>3. IsFiniteSet(1..Len(a.readings))
      BY <2>2, FS_Interval
    <2>4. IsFiniteSet(held)
      BY <2>2, <2>3, FS_Subset
    <2>5. QED  BY <2>4, FS_CardinalityType
  \* As many wherever they are.
  <1>5. \A y : IsFiniteSet({y} \X held) /\ Cardinality({y} \X held) = n
    <2>1. ASSUME NEW y
          PROVE  IsFiniteSet({y} \X held) /\ Cardinality({y} \X held) = n
      <3>1. IsFiniteSet({y}) /\ Cardinality({y}) = 1
        BY FS_Singleton
      <3> HIDE DEF held
      <3>2. IsFiniteSet({y} \X held)
        BY <1>4, <3>1, FS_Product
      <3>3. Cardinality({y} \X held) = Cardinality({y}) * n
        BY <1>4, <3>1, FS_Product
      <3>4. QED  BY <1>4, <3>1, <3>2, <3>3
    <2>2. QED  BY <2>1
  <1>6. gone \subseteq WayCopies(r)
    <2>1. \A y \in gone : IsWayCopy(y, r)
      BY DEF IsWayCopy
    <2>2. QED  BY <2>1, CopiesHold DEF CopiesAre
  <1>7. WayCopies(r)' \subseteq WayCopies(r) \ gone
    <2>1. ASSUME NEW y, IsWayCopy(y, r)'
          PROVE  IsWayCopy(y, r) /\ y \notin gone
      <3>1. PICK d \in Consumers : \E b \in harvest'[d] : \E i \in Copies(b.readings, r) :
              y = <<<<d, b>>, i>>
        BY <2>1 DEF IsWayCopy, Copies
      <3>2. PICK b \in harvest'[d] : \E i \in Copies(b.readings, r) : y = <<<<d, b>>, i>>
        BY <3>1
      <3>3. b \in harvest[d] /\ ~(d = c /\ b = a)
        BY <1>1
      <3>4. y[1] # <<c, a>>
        BY <3>2, <3>3
      <3>5. QED  BY <3>2, <3>3, <3>4 DEF IsWayCopy
    <2>2. QED  BY <2>1, CopiesHold, CopiesHoldNext DEF CopiesAre
  <1>8. OpenCopies(r)' = OpenCopies(r)
    BY <1>1 DEF OpenCopies
  <1>9. ASSUME NEW slots,
               \A i \in DOMAIN published' :
                 \/ i \in DOMAIN published /\ published'[i] = published[i]
                 \/ i \in slots /\ published'[i] = x
        PROVE  TopicCopies(r)' \subseteq TopicCopies(r) \cup (slots \X held)
    <2>1. ASSUME NEW y, IsTopicCopy(y, r)'
          PROVE  IsTopicCopy(y, r) \/ y \in slots \X held
      <3>1. PICK i \in DOMAIN published' : \E j \in Copies(published'[i].readings, r) : y = <<i, j>>
        BY <2>1 DEF IsTopicCopy, Copies
      <3>2. PICK j \in Copies(published'[i].readings, r) : y = <<i, j>>
        BY <3>1
      <3>3. CASE i \in DOMAIN published /\ published'[i] = published[i]
        BY <3>2, <3>3 DEF IsTopicCopy
      <3>4. CASE i \in slots /\ published'[i] = x
        BY <1>2, <3>2, <3>4
      <3>5. QED  BY <1>9, <3>3, <3>4
    <2>2. QED  BY <2>1, CopiesHold, CopiesHoldNext DEF CopiesAre
  <1> DEFINE first == {l + 1} \X held
             second == {l + 2} \X held
  <1>10. /\ IsFiniteSet(first) /\ Cardinality(first) = n
         /\ IsFiniteSet(second) /\ Cardinality(second) = n
         /\ IsFiniteSet(gone) /\ Cardinality(gone) = n
    BY <1>5
  <1> HIDE DEF x
  <1>11. published' = published => TopicCopies(r)' \subseteq TopicCopies(r)
    BY DEF TopicCopies
  <1>12. published' = Append(published, x) => TopicCopies(r)' \subseteq TopicCopies(r) \cup first
    <2>1. \A i \in DOMAIN Append(published, x) :
            \/ i \in DOMAIN published /\ Append(published, x)[i] = published[i]
            \/ i \in {l + 1} /\ Append(published, x)[i] = x
      BY <1>3
    <2>2. QED  BY <1>9, <2>1
  <1>13. published' = published \o <<x, x>> =>
           TopicCopies(r)' \subseteq (TopicCopies(r) \cup first) \cup second
    <2>1. \A i \in DOMAIN (published \o <<x, x>>) :
            \/ i \in DOMAIN published /\ (published \o <<x, x>>)[i] = published[i]
            \/ i \in {l + 1, l + 2} /\ (published \o <<x, x>>)[i] = x
      BY <1>3
    <2>2. {l + 1, l + 2} \X held = first \cup second
      OBVIOUS
    <2>3. QED  BY <1>9, <2>1, <2>2
  <1> HIDE DEF held, gone, n, first, second
  <1>14. /\ IsFiniteSet(WayCopies(r)')
         /\ Cardinality(WayCopies(r)) \in Nat /\ Cardinality(WayCopies(r)') \in Nat
         /\ Cardinality(WayCopies(r)') <= Cardinality(WayCopies(r)) - n
    BY <1>6, <1>7, <1>10, LetGo DEF Finite
  <1>15. /\ IsFiniteSet(OpenCopies(r)') /\ Cardinality(OpenCopies(r)') = Cardinality(OpenCopies(r))
         /\ Cardinality(OpenCopies(r)) \in Nat
    BY <1>8, FS_CardinalityType DEF Finite
  <1>16. Before(r)' <= Before(r) - n /\ Before(r) \in Nat
    BY <1>4, <1>14, <1>15 DEF Before
  <1>17. published' = published => Puts(r, 0, -n)
    <2>1. published' = published => /\ IsFiniteSet(TopicCopies(r)')
                                    /\ OnIt(r)' <= OnIt(r) + 0
      BY <1>11, Fewer DEF Finite, OnIt
    <2>2. QED  BY <1>4, <1>14, <1>15, <1>16, <2>1 DEF Puts, Finite
  <1>18. ASSUME TopicCopies(r)' \subseteq TopicCopies(r) \cup first
         PROVE  Puts(r, n, -n)
    <2>1. IsFiniteSet(TopicCopies(r)') /\ OnIt(r)' <= OnIt(r) + n
      BY <1>10, <1>18, TakeIn DEF Finite, OnIt
    <2>2. QED  BY <1>4, <1>14, <1>15, <1>16, <2>1 DEF Puts, Finite
  <1>19. ASSUME TopicCopies(r)' \subseteq (TopicCopies(r) \cup first) \cup second
         PROVE  Puts(r, n + n, -n)
    <2>1. /\ IsFiniteSet(TopicCopies(r) \cup first)
          /\ Cardinality(TopicCopies(r) \cup first) \in Nat /\ Cardinality(TopicCopies(r)) \in Nat
          /\ Cardinality(TopicCopies(r) \cup first) <= Cardinality(TopicCopies(r)) + n
      BY <1>10, TakeIn DEF Finite
    <2>2. /\ IsFiniteSet(TopicCopies(r)') /\ Cardinality(TopicCopies(r)') \in Nat
          /\ Cardinality(TopicCopies(r)') <= Cardinality(TopicCopies(r) \cup first) + n
      BY <1>10, <1>19, <2>1, TakeIn
    <2>3. OnIt(r)' <= OnIt(r) + (n + n)
      BY <1>4, <2>1, <2>2 DEF OnIt
    <2>4. QED  BY <1>4, <1>14, <1>15, <1>16, <2>2, <2>3 DEF Puts, Finite
  <1>20. QED  BY <1>4, <1>12, <1>13, <1>17, <1>18, <1>19 DEF x

(***************************************************************************)
(* The balance                                                             *)
(***************************************************************************)

\* What may still come to the topic: the copies before it, and those still due.
Coming(p, o) == Before(<<p, o>>) + Due(p, o)

\* Each fault pays for one more reading of the record, or for a second copy of every
\* copy that comes to the topic: the first is the sum, the second the doubling.
Balanced(p, o) ==
  /\ Finite(<<p, o>>) /\ Countable(p, o)
  /\ \/ OnIt(<<p, o>>) + Coming(p, o) <= 1 + faults
     \/ OnIt(<<p, o>>) + 2 * Coming(p, o) <= 2 * faults

\* What a step may put on the topic and take from what comes, n copies at a time.
LEMMA Balance ==
  ASSUME NEW x \in Nat, NEW u \in Nat, NEW f \in Nat, NEW y \in Nat, NEW v \in Nat, NEW g \in Nat,
         NEW n \in Nat, x + u <= 1 + f \/ x + 2 * u <= 2 * f,
         \/ y <= x + n /\ v <= u - n + (g - f) /\ f <= g
         \/ y <= x + (n + n) /\ v <= u - n /\ g = f + 1
  PROVE  y + v <= 1 + g \/ y + 2 * v <= 2 * g
  OBVIOUS

\* The balance after a step, by what the step puts and what it adds to what is due.
LEMMA BalanceKept ==
  ASSUME TypeOK, TypeOK', NEW p, NEW o, Balanced(p, o), NEW n \in Nat,
         \/ /\ Puts(<<p, o>>, n, -n) \/ Puts(<<p, o>>, 0, -n)
            /\ Paid(p, o)
         \/ Puts(<<p, o>>, 0, 0) /\ Paid(p, o)
         \/ Puts(<<p, o>>, 0, 1) /\ Handled(p, o)
         \/ Puts(<<p, o>>, n + n, -n) /\ Adds(p, o, 0) /\ Fault,
         faults <= faults'
  PROVE  Balanced(p, o)'
  <1> DEFINE r == <<p, o>>
  <1>1. Finite(r) /\ Countable(p, o) /\ Finite(r)' /\ Countable(p, o)'
    BY DEF Balanced, Puts, Paid, Handled, Adds
  <1>2. /\ OnIt(r) \in Nat /\ Before(r) \in Nat /\ Due(p, o) \in Nat /\ faults \in Nat
        /\ OnIt(r)' \in Nat /\ Before(r)' \in Nat /\ Due(p, o)' \in Nat /\ faults' \in Nat
    BY <1>1, CopiesCount, DueType DEF TypeOK, GroupTypeOK
  <1>3. Coming(p, o) \in Nat /\ Coming(p, o)' \in Nat
    BY <1>2 DEF Coming
  <1>4. PICK m \in Nat :
          \/ OnIt(r)' <= OnIt(r) + m /\ Coming(p, o)' <= Coming(p, o) - m + (faults' - faults)
          \/ OnIt(r)' <= OnIt(r) + (m + m) /\ Coming(p, o)' <= Coming(p, o) - m /\ faults' = faults + 1
    <2>1. CASE (Puts(r, n, -n) \/ Puts(r, 0, -n)) /\ Paid(p, o)
      <3>1. /\ OnIt(r)' <= OnIt(r) + n /\ Before(r)' <= Before(r) - n
            /\ Due(p, o)' <= Due(p, o) + (faults' - faults)
        BY <1>2, <2>1 DEF Puts, Paid, Adds
      <3>2. Coming(p, o)' <= Coming(p, o) - n + (faults' - faults)
        BY <1>2, <3>1 DEF Coming
      <3>3. QED  BY <3>1, <3>2
    <2>2. CASE Puts(r, 0, 0) /\ Paid(p, o)
      <3>1. /\ OnIt(r)' <= OnIt(r) + 0 /\ Before(r)' <= Before(r)
            /\ Due(p, o)' <= Due(p, o) + (faults' - faults)
        BY <1>2, <2>2 DEF Puts, Paid, Adds
      <3>2. Coming(p, o)' <= Coming(p, o) - 0 + (faults' - faults)
        BY <1>2, <3>1 DEF Coming
      <3>3. QED  BY <3>1, <3>2
    <2>3. CASE Puts(r, 0, 1) /\ Handled(p, o)
      <3>1. /\ OnIt(r)' <= OnIt(r) + 0 /\ Before(r)' <= Before(r) + 1
            /\ Due(p, o)' <= Due(p, o) + (faults' - faults - 1)
        BY <1>2, <2>3 DEF Puts, Handled, Adds
      <3>2. Coming(p, o)' <= Coming(p, o) - 0 + (faults' - faults)
        BY <1>2, <3>1 DEF Coming
      <3>3. QED  BY <3>1, <3>2
    <2>4. CASE Puts(r, n + n, -n) /\ Adds(p, o, 0) /\ Fault
      <3>1. /\ OnIt(r)' <= OnIt(r) + (n + n) /\ Before(r)' <= Before(r) - n
            /\ Due(p, o)' <= Due(p, o) + 0 /\ faults' = faults + 1
        BY <1>2, <2>4 DEF Puts, Adds, Fault
      <3>2. Coming(p, o)' <= Coming(p, o) - n
        BY <1>2, <3>1 DEF Coming
      <3>3. QED  BY <3>1, <3>2
    <2>5. QED  BY <2>1, <2>2, <2>3, <2>4
  <1>5. \/ OnIt(r) + Coming(p, o) <= 1 + faults
        \/ OnIt(r) + 2 * Coming(p, o) <= 2 * faults
    BY DEF Balanced
  <1>6. \/ OnIt(r)' + Coming(p, o)' <= 1 + faults'
        \/ OnIt(r)' + 2 * Coming(p, o)' <= 2 * faults'
    BY <1>2, <1>3, <1>4, <1>5, Balance
  <1>7. QED  BY <1>1, <1>6 DEF Balanced

(***************************************************************************)
(* Every step                                                              *)
(***************************************************************************)
\* Every step of the service keeps the group's invariant ...
LEMMA OrderlyStep ==
  ASSUME Orderly, GroupTypeOK', [Next]_vars
  PROVE  Orderly'
  <1>1. CASE Tick \/ UNCHANGED vars
    BY <1>1, OrderlyStill DEF Tick, vars, groupVars
  <1>2. ASSUME NEW m \in Messages, Arrive(m) PROVE Orderly'
    BY <1>2, OrderlyGroup DEF Arrive
  <1>3. ASSUME NEW c \in Consumers, GroupStep(c) \/ SkipPoison(c) PROVE Orderly'
    BY <1>3, OrderlyGroup
  <1>4. ASSUME NEW c \in Consumers, Die(c) \/ Finish(c) PROVE Orderly'
    BY <1>4, OrderlyGroup DEF Die, Finish, ProcessEnds
  <1>5. ASSUME NEW c \in Consumers, CheckLate(c) \/ Store(c) PROVE Orderly'
    <2>1. /\ pc[c] \in {"handle", "midway"} /\ pc'[c] \in {"midway", "commit"}
          /\ \A d \in Consumers \ {c} : pc'[d] = pc[d]
          /\ UNCHANGED <<owner, task, stopping>>
      BY <1>5 DEF CheckLate, Judge, Store, Goto, Orderly, GroupTypeOK
    <2>2. task'[c] # None
      BY <2>1 DEF Orderly, Working, Busy
    <2>3. QED  BY <2>1, <2>2, OrderlyMove DEF Member, Ended
  <1>6. ASSUME NEW c \in Consumers, FlusherHarvest(c) \/ FlusherReturn(c) PROVE Orderly'
    BY <1>6, OrderlyStill DEF FlusherHarvest, FlusherReturn, groupVars
  <1>7. ASSUME NEW c \in Consumers, NEW a \in harvest[c], PublishAggregate(c, a) \/ PublishFail(c, a)
        PROVE  Orderly'
    <2>1. UNCHANGED <<owner, pc, task, stopping>>
      BY <1>7 DEF PublishAggregate, PublishFail, TakeFromHarvest
    <2>2. QED  BY <2>1, OrderlyStill
  <1>8. QED  BY <1>1, <1>2, <1>3, <1>4, <1>5, <1>6, <1>7 DEF Next, Service

\* ... and the balance of every record.
LEMMA BalancedStep ==
  ASSUME TypeOK, TypeOK', Shape, Claims, Orderly, [Next]_vars,
         NEW p \in Partitions, NEW o \in Nat, Balanced(p, o)
  PROVE  Balanced(p, o)'
  <1> DEFINE r == <<p, o>>
  <1>1. Finite(r) /\ Countable(p, o)
    BY DEF Balanced
  <1>2. faults <= faults'
    <2>1. faults \in Nat
      BY DEF TypeOK, GroupTypeOK
    <2>2. UNCHANGED faults \/ Fault
      BY DEF Next, Arrive, GroupStep, LoopStep, Service, Tick, Produce, Start, Cancel, Assign, AssignAt,
         Rebalance, RebalanceAt, Fetch, Stop, FetchFail, Commit, CommitInterrupted, CommitFail,
         SkipPoison, CheckLate, Store, FlusherHarvest, FlusherReturn, PublishAggregate, PublishFail,
         Failing, Die, Finish, Kill, Exit, vars, groupVars
    <2>3. QED  BY <2>1, <2>2 DEF Fault
  \* Steps that put no copy anywhere, and are paid for.
  <1>3. Puts(r, 0, 0) /\ Paid(p, o) => Balanced(p, o)'
    BY <1>2, BalanceKept
  <1>4. CASE Tick \/ UNCHANGED vars
    <2>1. Paid(p, o)
      BY <1>1, <1>4, StandsStill DEF Tick, vars, groupVars
    <2>2. QED  BY <1>1, <1>3, <1>4, <2>1, WindowsPut DEF Tick, vars, windowVars
  <1>5. ASSUME NEW m \in Messages, Arrive(m) PROVE Balanced(p, o)'
    BY <1>1, <1>3, <1>5, GroupPaid, WindowsPut DEF Arrive, windowVars
  <1>6. ASSUME NEW c \in Consumers, GroupStep(c) \/ SkipPoison(c), UNCHANGED windowVars
        PROVE  Balanced(p, o)'
    BY <1>1, <1>3, <1>6, GroupPaid, WindowsPut DEF windowVars
  <1>7. ASSUME NEW c \in Consumers, Die(c) \/ Finish(c) PROVE Balanced(p, o)'
    BY <1>1, <1>3, <1>7, GroupPaid, ForgetPuts DEF Die, Finish, ProcessEnds
  \* The check hands the reading on, or is done with it.
  <1>8. ASSUME NEW c \in Consumers, CheckLate(c) PROVE Balanced(p, o)'
    <2>1. pc[c] = "handle" /\ Running(c) /\ task' = task /\ UNCHANGED faults
      BY <1>8 DEF CheckLate, Judge, Running, Loop
    <2>2. Moves(c, {"midway"}) \/ Moves(c, {"deadletter", "commit", "fetch"})
      BY <1>8 DEF CheckLate, Judge, Moves
    <2>3. Adds(p, o, 0)
      BY <1>1, <2>1, <2>2, GoesMidway, MovesOn
    <2>4. Paid(p, o)
      BY <2>1, <2>3, Payment
    <2>5. QED  BY <1>1, <1>3, <1>8, <2>4, WindowsPut DEF CheckLate
  \* The store turns a reading that is due into a copy.
  <1>9. ASSUME NEW c \in Consumers, Store(c) PROVE Balanced(p, o)'
    <2>1. /\ pc[c] = "midway" /\ Running(c) /\ task' = task /\ UNCHANGED faults
          /\ Moves(c, {"deadletter", "commit", "fetch"})
      BY <1>9 DEF Store, Moves, Running, Loop
    <2>2. CASE task[c] = r
      <3>1. c \in Holding(p, o)
        BY <2>1, <2>2 DEF Holding
      <3>2. Adds(p, o, -1)
        BY <1>1, <2>1, <3>1, MovesOn
      <3>3. Handled(p, o)
        BY <2>1, <3>2, Payment
      <3>4. Puts(r, 0, 1)
        BY <1>1, <1>9, <2>2, StorePuts
      <3>5. QED  BY <1>2, <3>3, <3>4, BalanceKept
    <2>3. CASE task[c] # r
      <3>1. Paid(p, o)
        BY <1>1, <2>1, MovesOn, Payment
      <3>2. QED  BY <1>1, <1>3, <1>9, <2>3, <3>1, StorePuts
    <2>4. QED  BY <2>2, <2>3
  <1>10. ASSUME NEW c \in Consumers, FlusherHarvest(c) \/ FlusherReturn(c) PROVE Balanced(p, o)'
    <2>1. Paid(p, o)
      BY <1>1, <1>10, StandsStill DEF FlusherHarvest, FlusherReturn, groupVars
    <2>2. Puts(r, 0, 0)
      BY <1>1, <1>10, HarvestPuts, WindowsPut DEF FlusherReturn
    <2>3. QED  BY <1>3, <2>1, <2>2
  <1>11. ASSUME NEW c \in Consumers, NEW a \in harvest[c], PublishAggregate(c, a) \/ PublishFail(c, a)
         PROVE  Balanced(p, o)'
    <2>1. /\ TakeFromHarvest(c, a) /\ UNCHANGED <<owner, position, pc, task, stopping>>
          /\ UNCHANGED faults \/ Fault
      BY <1>11 DEF PublishAggregate, PublishFail, TakeFromHarvest, Failing
    <2>2. Paid(p, o) /\ Adds(p, o, 0)
      BY <1>1, <2>1, StandsStill
    <2>3. PICK n \in Nat :
            /\ published' = published => Puts(r, 0, -n)
            /\ published' = Append(published, Sent(c, a)) => Puts(r, n, -n)
            /\ published' = published \o <<Sent(c, a), Sent(c, a)>> => Puts(r, n + n, -n)
      BY <1>1, <2>1, PublishPuts
    <2>4. \/ Puts(r, n, -n) \/ Puts(r, 0, -n)
          \/ Puts(r, n + n, -n) /\ Fault
      BY <1>11, <2>3 DEF PublishAggregate, PublishFail
    <2>5. QED  BY <1>2, <2>2, <2>4, BalanceKept
  <1>12. QED
    BY <1>4, <1>5, <1>6, <1>7, <1>8, <1>9, <1>10, <1>11 DEF Next, Service

(***************************************************************************)
(* The invariant                                                           *)
(***************************************************************************)
AllBalanced == Orderly /\ \A p \in Partitions : \A o \in 1..MaxLog : Balanced(p, o)

\* At the start a record is due once, and has no copy.
LEMMA BalancedInit == Init => AllBalanced
  <1> SUFFICES ASSUME Init PROVE AllBalanced
    OBVIOUS
  <1>1. GroupInit /\ GroupTypeOK
    BY InitInv DEF Init, IInv, TypeOK
  <1>2. ASSUME NEW p \in Partitions, NEW o PROVE Balanced(p, o)
    <2> DEFINE r == <<p, o>>
    <2>1. Countable(p, o) /\ Due(p, o) = 1 /\ faults = 0
      BY <1>1, DueInit DEF GroupInit
    <2>2. TopicCopies(r) = {} /\ WayCopies(r) = {} /\ OpenCopies(r) = {}
      BY CopiesHold DEF CopiesAre, IsTopicCopy, IsWayCopy, IsOpenCopy, Init, Empty
    <2>3. IsFiniteSet({}) /\ Cardinality({}) = 0
      BY FS_EmptySet
    <2>4. Finite(r) /\ OnIt(r) = 0 /\ Before(r) = 0
      BY <2>2, <2>3 DEF Finite, OnIt, Before
    <2>5. QED  BY <2>1, <2>4 DEF Balanced, Coming
  <1>3. QED  BY <1>1, <1>2, OrderlyInit DEF AllBalanced

\* A reading is counted once while nothing goes wrong, over all windows, replicas and
\* restarts, and at most twice for each fault.
THEOREM EachCountedOnce == Spec => []CountedOnce
  <1>1. IInv /\ IInv' /\ AllBalanced /\ [Next]_vars => AllBalanced'
    <2> SUFFICES ASSUME IInv, IInv', AllBalanced, [Next]_vars PROVE AllBalanced'
      OBVIOUS
    <2>1. Orderly'
      BY OrderlyStep DEF IInv, TypeOK, AllBalanced
    <2>2. ASSUME NEW p \in Partitions, NEW o \in 1..MaxLog PROVE Balanced(p, o)'
      <3>1. o \in Nat
        OBVIOUS
      <3>2. Balanced(p, o)
        BY DEF AllBalanced
      <3>3. QED  BY <3>1, <3>2, BalancedStep DEF IInv, AllBalanced
    <2>3. QED  BY <2>1, <2>2 DEF AllBalanced
  <1>2. Spec => []AllBalanced
    <2>1. QED  BY <1>1, BalancedInit, Invariance, PTL DEF Spec
  <1>3. IInv /\ AllBalanced => CountedOnce
    <2> SUFFICES ASSUME IInv, AllBalanced, NEW p \in Partitions, NEW o \in 1..MaxLog
                 PROVE  Counted(<<p, o>>) <= IF faults = 0 THEN 1 ELSE 2 * faults
      BY DEF CountedOnce, Readings
    <2> DEFINE r == <<p, o>>
    <2>1. Balanced(p, o) /\ faults \in Nat
      BY DEF AllBalanced, IInv, TypeOK, GroupTypeOK
    <2>2. /\ OnIt(r) \in Nat /\ Before(r) \in Nat /\ Due(p, o) \in Nat
          /\ Cardinality(WayCopies(r)) \in Nat /\ Cardinality(OpenCopies(r)) \in Nat
      BY <2>1, CopiesCount, DueType DEF Balanced
    <2>3. Counted(r) = OnIt(r) + Before(r)
      BY <2>2 DEF Counted, OnIt, Before
    <2>4. OnIt(r) + Before(r) <= IF faults = 0 THEN 1 ELSE 2 * faults
      BY <2>1, <2>2 DEF Balanced, Coming
    <2>5. QED  BY <2>3, <2>4
  <1>4. QED  BY <1>2, <1>3, Invariance, PTL
=============================================================================

-------------------------------- MODULE Tumbler --------------------------------
(***************************************************************************)
(* The arithmetic of the tumbling windows (window.go of the aggregation    *)
(* service).  Time is counted in ticks, from an instant that starts both a *)
(* window and a second.  A bucket is the sequence of readings folded into  *)
(* it: sum, minimum, maximum and count are functions of that sequence.     *)
(***************************************************************************)
EXTENDS Integers, Sequences, Functions

CONSTANTS
  Size,      \* WINDOW_SIZE, in ticks
  Lateness,  \* ALLOWED_LATENESS, in ticks
  Second     \* ticks in a second

ASSUME TumblerAssumption ==
  /\ Size \in Nat \ {0}
  /\ Lateness \in Nat
  /\ Second \in Nat \ {0}

\* r.Time.Truncate(size): a boundary belongs to the window it starts.
WindowStart(ts) == ts - (ts % Size)

\* A window closes at its end plus the grace period.
CloseTime(start) == start + Size + Lateness

IsLate(ts, now) == now >= CloseTime(WindowStart(ts))

\* The key of a bucket is the window's start in whole seconds, and Closed reads
\* the start back from the key.
Key(ts)     == WindowStart(ts) \div Second
KeyStart(k) == k * Second

\* Every bucket folds readings in, so an empty one is never stored.
BucketAt(buckets, k) == IF k \in DOMAIN buckets THEN buckets[k] ELSE <<>>

\* Add, once it holds the mutex.
AddTo(buckets, ts, r) ==
  [k \in DOMAIN buckets \cup {Key(ts)} |->
     IF k = Key(ts) THEN Append(BucketAt(buckets, k), r) ELSE buckets[k]]

\* Closed: the windows whose grace period has expired ...
ClosedByReadings(buckets, now) ==       \* variant: a newer reading closes a window
  {k \in DOMAIN buckets : \E j \in DOMAIN buckets : KeyStart(j) >= CloseTime(KeyStart(k))}
ClosedKeys(buckets, now) == {k \in DOMAIN buckets : now >= CloseTime(KeyStart(k))}

\* ... as aggregates, which the map yields in no particular order ...
Aggregates(buckets, now) ==
  {[start |-> KeyStart(k), readings |-> buckets[k]] : k \in ClosedKeys(buckets, now)}

\* ... and what is left of the map.
KeepAll(buckets, now) == buckets        \* variant: the bucket is not deleted
DropAll(buckets, now) == <<>>           \* variant: a new map for every harvest
ResetClosed(buckets, now) ==            \* variant: the bucket is reset, not deleted
  [k \in DOMAIN buckets |-> IF k \in ClosedKeys(buckets, now) THEN <<>> ELSE buckets[k]]
StillOpen(buckets, now) == Restrict(buckets, DOMAIN buckets \ ClosedKeys(buckets, now))
=============================================================================

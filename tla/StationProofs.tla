----------------------------- MODULE StationProofs -----------------------------
(***************************************************************************)
(* Proofs about Station, for all places, start temperatures and intervals  *)
(* a request may give.                                                     *)
(***************************************************************************)
EXTENDS Station, TLAPS

Sensors == [place : Hungary, temp : Int, pattern : Patterns, interval : Int]

\* The hash of a sensor parses, and gives the sensor back.
LEMMA RoundTrip ==
  ASSUME NEW s \in Sensors
  PROVE  Parses(toMap(s)) /\ sensorFromMap(toMap(s)) = s
  <1>1. Parses(toMap(s))
    BY DEF Parses, toMap, Text
  <1>2. /\ toMap(s).place.value = s.place
        /\ toMap(s).temp.value = s.temp
        /\ toMap(s).pattern.value = s.pattern
        /\ toMap(s).interval.value = s.interval
    BY DEF toMap, Text
  <1>3. \A field \in {"place", "temp", "pattern", "interval"} : toMap(s)[field].value = s[field]
    BY <1>2
  <1>4. sensorFromMap(toMap(s)) = s
    <2>1. sensorFromMap(toMap(s)) = [field \in {"place", "temp", "pattern", "interval"} |-> s[field]]
      BY <1>3 DEF sensorFromMap
    <2>2. s = [field \in {"place", "temp", "pattern", "interval"} |-> s[field]]
      BY DEF Sensors
    <2>3. QED  BY <2>1, <2>2
  <1>5. QED  BY <1>1, <1>4

\* What the gateway accepts is a sensor, whatever the request left out.
LEMMA Accepted ==
  ASSUME NEW r \in Requests, r.interval # Malformed, SensorOK(FromRequest(r))
  PROVE  FromRequest(r) \in Sensors
  <1>1. /\ r.temp \in StartTemps \cup {Absent}
        /\ r.interval \in Intervals \cup {Absent}
    BY DEF Requests
  <1>2. OrElse(r.temp, 1500) \in Int
    <2>1. CASE r.temp = Absent
      BY <2>1 DEF OrElse
    <2>2. CASE r.temp # Absent
      <3>1. r.temp \in StartTemps
        BY <1>1, <2>2
      <3>2. \A x \in StartTemps : x \in Int
        BY StationAssumption DEF StationAssumption
      <3>3. OrElse(r.temp, 1500) = r.temp
        BY <2>2 DEF OrElse
      <3>4. QED  BY <3>1, <3>2, <3>3
    <2>3. QED  BY <2>1, <2>2
  <1>3. OrElse(r.interval, 5000) \in Int
    <2>1. CASE r.interval = Absent
      BY <2>1 DEF OrElse
    <2>2. CASE r.interval # Absent
      <3>1. r.interval \in Intervals
        BY <1>1, <2>2
      <3>2. \A x \in Intervals : x \in Int
        BY StationAssumption DEF StationAssumption
      <3>3. OrElse(r.interval, 5000) = r.interval
        BY <2>2 DEF OrElse
      <3>4. QED  BY <3>1, <3>2, <3>3
    <2>3. QED  BY <2>1, <2>2
  <1>4. QED  BY <1>2, <1>3 DEF FromRequest, Sensors, SensorOK, ReadingOK

\* Rounding to tenths moves a temperature by at most half a tenth.
LEMMA Rounding ==
  ASSUME NEW t \in Int
  PROVE  Rounded(t) \in Int /\ t - 5 <= Rounded(t) /\ Rounded(t) <= t + 5
  <1>1. 10 \div 2 = 5
    BY SMT
  <1>2. CASE t >= 0
    <2>1. Rounded(t) = 10 * ((t + 5) \div 10)
      BY <1>1, <1>2 DEF Rounded, RoundTo
    <2>2. QED  BY <2>1, SMT
  <1>3. CASE ~(t >= 0)
    <2>1. Rounded(t) = -(10 * ((5 - t) \div 10))
      BY <1>1, <1>3 DEF Rounded, RoundTo
    <2>2. QED  BY <2>1, SMT
  <1>4. QED  BY <1>2, <1>3

LEMMA Clamping ==
  ASSUME NEW t \in Int
  PROVE  /\ clamp(t) \in Int
         /\ minSimTempC <= clamp(t) /\ clamp(t) <= maxSimTempC
         /\ clamp(t) = t \/ (t < minSimTempC /\ clamp(t) = minSimTempC)
                         \/ (t > maxSimTempC /\ clamp(t) = maxSimTempC)
  BY DEF clamp, minSimTempC, maxSimTempC

\* One step of the drift, from any temperature at all.
LEMMA DriftStep ==
  ASSUME NEW pattern \in Patterns, NEW old \in Int, NEW j \in -jitter[pattern]..jitter[pattern],
         NEW new, new = NextTemp(pattern, old, j)
  PROVE  /\ new \in Int /\ minSimTempC <= new /\ new <= maxSimTempC
         /\ pattern = "rising"  => new > old \/ new = maxSimTempC
         /\ pattern = "falling" => new < old \/ new = minSimTempC
         /\ minSimTempC <= old /\ old <= maxSimTempC =>
              old - Reach(pattern) <= new /\ new <= old + Reach(pattern)
  <1> DEFINE moved == old + trend[pattern] + j
  <1>1. trend[pattern] \in Int /\ j \in Int
    BY DEF trend, jitter, Patterns
  <1>2. moved \in Int
    BY <1>1
  <1>3. Rounded(moved) \in Int /\ moved - 5 <= Rounded(moved) /\ Rounded(moved) <= moved + 5
    BY <1>2, Rounding
  <1>4. new = clamp(Rounded(moved))
    BY DEF NextTemp
  <1>5. /\ new \in Int /\ minSimTempC <= new /\ new <= maxSimTempC
        /\ new = Rounded(moved) \/ (Rounded(moved) < minSimTempC /\ new = minSimTempC)
                                \/ (Rounded(moved) > maxSimTempC /\ new = maxSimTempC)
    BY <1>3, <1>4, Clamping
  <1>6. /\ pattern = "rising" => old + 15 <= moved /\ moved <= old + 25
        /\ pattern = "falling" => old - 25 <= moved /\ moved <= old - 15
        /\ pattern = "noisy" => old - 150 <= moved /\ moved <= old + 150
        /\ pattern = "steady" => old - 10 <= moved /\ moved <= old + 10
    BY <1>1 DEF trend, jitter
  <1>7. /\ pattern \in {"rising", "falling"} => Reach(pattern) = 30
        /\ pattern = "noisy" => Reach(pattern) = 155
        /\ pattern = "steady" => Reach(pattern) = 15
    BY DEF Reach, trend, jitter
  <1> HIDE DEF moved
  <1>8. QED  BY <1>2, <1>3, <1>5, <1>6, <1>7 DEF Patterns, minSimTempC, maxSimTempC

(***************************************************************************)
(* The inductive invariant: a hash gives back the sensor that was answered *)
(* 201, and what runs is that sensor at a temperature Validate accepts.    *)
(***************************************************************************)
Same(s, t) == s.place = t.place /\ s.pattern = t.pattern /\ s.interval = t.interval

IInv ==
  /\ stored # Absent =>
       /\ answer \in Sensors /\ SensorOK(answer)
       /\ Parses(stored) /\ sensorFromMap(stored) = answer
  /\ sensor # Absent =>
       /\ sensor \in Sensors /\ SensorOK(sensor)
       /\ Same(sensor, answer)
  /\ reading # Absent => ReadingOK(reading)

LEMMA InitInv == Init => IInv
  BY DEF Init, IInv

LEMMA TickInv ==
  ASSUME IInv, Tick
  PROVE  IInv'
  <1>1. PICK j \in -jitter[sensor.pattern]..jitter[sensor.pattern] :
          sensor' = [sensor EXCEPT !.temp = NextTemp(sensor.pattern, sensor.temp, j)]
    BY DEF Tick
  <1>2. sensor \in Sensors /\ SensorOK(sensor) /\ Same(sensor, answer)
    BY DEF Tick, IInv
  <1> DEFINE new == NextTemp(sensor.pattern, sensor.temp, j)
  <1>3. new \in Int /\ minSimTempC <= new /\ new <= maxSimTempC
    BY <1>2, DriftStep DEF Sensors
  <1> HIDE DEF new
  <1>4. sensor' = [sensor EXCEPT !.temp = new]
    BY <1>1 DEF new
  <1>5. sensor' \in Sensors /\ sensor'.temp = new /\ Same(sensor', sensor)
    BY <1>2, <1>3, <1>4 DEF Sensors, Same
  <1>6. SensorOK(sensor')
    BY <1>2, <1>3, <1>5
    DEF SensorOK, ReadingOK, Same, minTempC, maxTempC, minSimTempC, maxSimTempC
  <1>7. ReadingOK(reading')
    BY <1>2, <1>3, <1>5
    DEF Tick, SensorOK, ReadingOK, minTempC, maxTempC, minSimTempC, maxSimTempC
  <1>8. UNCHANGED <<answer, stored>>
    BY DEF Tick
  <1>9. QED  BY <1>2, <1>5, <1>6, <1>7, <1>8 DEF IInv, Same

LEMMA StepInv == IInv /\ [Next]_vars => IInv'
  <1> SUFFICES ASSUME IInv, [Next]_vars
               PROVE  IInv'
    OBVIOUS
  <1>1. ASSUME NEW r \in Requests, Create(r)
        PROVE  IInv'
    <2>1. CASE r.interval # Malformed /\ SensorOK(FromRequest(r))
      <3>1. FromRequest(r) \in Sensors
        BY <2>1, Accepted
      <3>2. Parses(toMap(FromRequest(r))) /\ sensorFromMap(toMap(FromRequest(r))) = FromRequest(r)
        BY <3>1, RoundTrip
      <3>3. answer' = FromRequest(r) /\ stored' = toMap(FromRequest(r)) /\ sensor' = Absent
        BY <1>1, <2>1 DEF Create
      <3>4. reading' = reading
        BY <1>1 DEF Create
      <3>5. QED  BY <2>1, <3>1, <3>2, <3>3, <3>4 DEF IInv
    <2>2. CASE ~(r.interval # Malformed /\ SensorOK(FromRequest(r)))
      <3>1. stored' = Absent /\ sensor' = Absent /\ reading' = reading
        BY <1>1, <2>2 DEF Create
      <3>2. QED  BY <3>1 DEF IInv
    <2>3. QED  BY <2>1, <2>2
  <1>2. CASE Remove
    BY <1>2 DEF Remove, IInv
  <1>3. CASE StartSensor
    <2>1. sensor' = answer /\ UNCHANGED <<answer, stored, reading>>
      BY <1>3 DEF StartSensor, IInv
    <2>2. answer \in Sensors /\ SensorOK(answer)
      BY <1>3 DEF StartSensor, IInv
    <2>3. QED  BY <2>1, <2>2 DEF IInv, Same
  <1>4. CASE StopSensor
    BY <1>4 DEF StopSensor, IInv
  <1>5. CASE Tick
    BY <1>5, TickInv
  <1>6. CASE UNCHANGED vars
    BY <1>6 DEF vars, IInv
  <1>7. QED  BY <1>1, <1>2, <1>3, <1>4, <1>5, <1>6 DEF Next

LEMMA Invariance == Spec => []IInv
  BY InitInv, StepInv, PTL DEF Spec

\* What a client was answered is what is stored and what runs, for every request.
THEOREM AnsweredRuns == Spec => []RunsAsAnswered
  <1>1. IInv => RunsAsAnswered
    BY DEF IInv, RunsAsAnswered, Same, SensorOK
  <1>2. QED  BY <1>1, Invariance, PTL

\* No reading is ever refused by Publish, whatever the start temperature and
\* however long the sensor runs.
THEOREM NeverRefused == Spec => []PublishAccepts
  <1>1. IInv => PublishAccepts
    BY DEF IInv, PublishAccepts
  <1>2. QED  BY <1>1, Invariance, PTL

\* The trends survive rounding and clamping at every temperature.
THEOREM TrendsHold == Spec => TrendHolds
  <1> DEFINE Held ==
        sensor # Absent /\ sensor' # Absent /\ stored' = stored =>
          LET old == sensor.temp
              new == sensor'.temp
          IN /\ sensor.pattern = "rising"  => new > old \/ new = maxSimTempC
             /\ sensor.pattern = "falling" => new < old \/ new = minSimTempC
             /\ minSimTempC <= old /\ old <= maxSimTempC =>
                  old - Reach(sensor.pattern) <= new /\ new <= old + Reach(sensor.pattern)
  <1>1. ASSUME IInv, Next
        PROVE  Held \/ UNCHANGED vars
    <2>1. CASE Tick
      <3>1. PICK j \in -jitter[sensor.pattern]..jitter[sensor.pattern] :
              sensor' = [sensor EXCEPT !.temp = NextTemp(sensor.pattern, sensor.temp, j)]
        BY <2>1 DEF Tick
      <3>2. sensor \in Sensors
        BY <2>1, <1>1 DEF Tick, IInv
      <3>3. sensor'.temp = NextTemp(sensor.pattern, sensor.temp, j)
        BY <3>1, <3>2 DEF Sensors
      <3>4. sensor.pattern \in Patterns /\ sensor.temp \in Int
        BY <3>2 DEF Sensors
      <3>5. QED  BY <3>3, <3>4, DriftStep
    <2>2. CASE StopSensor
      BY <2>2 DEF StopSensor
    <2>3. CASE StartSensor \/ \E r \in Requests : Create(r)
      BY <2>3 DEF StartSensor, Create
    <2>4. CASE Remove
      BY <2>4 DEF Remove
    <2>5. QED  BY <1>1, <2>1, <2>2, <2>3, <2>4 DEF Next
  <1>2. IInv /\ [Next]_vars => [Held]_vars
    BY <1>1
  <1>3. QED  BY <1>2, Invariance, PTL DEF Spec, TrendHolds
=============================================================================

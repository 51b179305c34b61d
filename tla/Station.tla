-------------------------------- MODULE Station --------------------------------
(***************************************************************************)
(* One sensor from its POST to its readings: the gateway fills in defaults *)
(* and validates once, the registry keeps the sensor as a Redis hash of    *)
(* strings, the simulator reads it back and lets the temperature drift,    *)
(* and Publish validates each reading (sensors.go of the gateway,          *)
(* sensor.go of the registry, drift.go and sensor.go of the simulator,     *)
(* reading.go).  Nothing between the two validations checks again.         *)
(*                                                                         *)
(* Temperatures are hundredths of a degree, intervals milliseconds; the    *)
(* coordinates are one place.                                              *)
(***************************************************************************)
EXTENDS Integers

CONSTANTS
  Places,      \* the coordinates a request may give
  Hungary,     \* those inside the bounding box
  StartTemps,  \* the start temperatures it may give
  Intervals,   \* the durations it may give
  Absent,      \* a field left out, or an empty string
  Malformed    \* an interval that is not a duration

ASSUME StationAssumption ==
  /\ Hungary \subseteq Places
  /\ StartTemps \subseteq Int
  /\ Intervals \subseteq Int

VARIABLES
  answer,   \* the sensor of the last 201, or Absent after a 400 or before
  stored,   \* the sensor's hash, or Absent
  sensor,   \* the sensor the simulator runs, with its current temperature, or Absent
  reading   \* the last reading it handed to Publish, or Absent

vars == <<answer, stored, sensor, reading>>

Patterns == {"steady", "rising", "falling", "noisy"}

(***************************************************************************)
(* The two validations                                                     *)
(***************************************************************************)
minTempC == -5000
maxTempC == 6000
ReadingOK(r) == r.place \in Hungary /\ minTempC <= r.temp /\ r.temp <= maxTempC

MinInterval == 1000
MaxInterval == 30000
SensorOK(s) ==
  /\ ReadingOK(s)
  /\ s.pattern \in Patterns
  /\ MinInterval <= s.interval /\ s.interval <= MaxInterval

(***************************************************************************)
(* The request                                                             *)
(***************************************************************************)
Requests == [place : Places,
             temp : StartTemps \cup {Absent},
             pattern : Patterns \cup {"sunny", Absent},
             interval : Intervals \cup {Absent, Malformed}]

OrElse(field, default) == IF field = Absent THEN default ELSE field

FromRequest(r) ==
  [place    |-> r.place,
   temp     |-> OrElse(r.temp, 1500),
   pattern  |-> OrElse(r.pattern, "noisy"),
   interval |-> OrElse(r.interval, 5000)]

(***************************************************************************)
(* The hash: every field a string in some notation                         *)
(***************************************************************************)
Text(notation, value) == [as |-> notation, value |-> value]

toMapInSeconds(s) ==                    \* variant: the interval as a number
  [place    |-> Text("decimal", s.place),
   temp     |-> Text("decimal", s.temp),
   pattern  |-> Text("name", s.pattern),
   interval |-> Text("decimal", s.interval)]

toMap(s) ==
  [place    |-> Text("decimal", s.place),
   temp     |-> Text("decimal", s.temp),
   pattern  |-> Text("name", s.pattern),
   interval |-> Text("duration", s.interval)]

\* ParseFloat and ParseDuration read their own notation only; a pattern is any
\* string at all.
Parses(m) ==
  /\ m.place.as = "decimal" /\ m.temp.as = "decimal"
  /\ m.interval.as = "duration"

sensorFromMap(m) == [field \in {"place", "temp", "pattern", "interval"} |-> m[field].value]

(***************************************************************************)
(* Drift                                                                   *)
(***************************************************************************)
trend  == [steady |-> 0, rising |-> 20, falling |-> -20, noisy |-> 0]
jitter == [steady |-> 10, rising |-> 5, falling |-> 5, noisy |-> 150]

\* math.Round: half away from zero.
RoundTo(unit, t) ==
  IF t >= 0 THEN unit * ((t + unit \div 2) \div unit)
            ELSE -(unit * ((unit \div 2 - t) \div unit))

minSimTempC == -4500
maxSimTempC == 5500
Unclamped(t) == t                       \* variant: no bounds
clamp(t) == IF t < minSimTempC THEN minSimTempC ELSE IF t > maxSimTempC THEN maxSimTempC ELSE t

RoundToDegrees(t) == RoundTo(100, t)    \* variant: rounded to whole degrees
Rounded(t) == RoundTo(10, t)

NextTemp(pattern, current, j) == clamp(Rounded(current + trend[pattern] + j))

(***************************************************************************)
(* The actions                                                             *)
(***************************************************************************)
Init ==
  /\ answer = Absent
  /\ stored = Absent
  /\ sensor = Absent
  /\ reading = Absent

\* POST, for an id not used before: 201 and stored, or 400 and nothing.
Create(r) ==
  /\ stored = Absent
  /\ sensor = Absent
  /\ IF r.interval # Malformed /\ SensorOK(FromRequest(r))
     THEN answer' = FromRequest(r) /\ stored' = toMap(FromRequest(r))
     ELSE answer' = Absent /\ UNCHANGED stored
  /\ UNCHANGED <<sensor, reading>>

Remove ==
  /\ stored # Absent
  /\ stored' = Absent
  /\ UNCHANGED <<answer, sensor, reading>>

\* A reconcile starts the sensor: List, then NewSensor.  A hash that does not
\* parse fails the List.
StartSensor ==
  /\ sensor = Absent
  /\ stored # Absent
  /\ Parses(stored)
  /\ sensor' = sensorFromMap(stored)
  /\ UNCHANGED <<answer, stored, reading>>

\* A reconcile stops a sensor that was removed, the end of the process any.
StopSensor ==
  /\ sensor # Absent
  /\ sensor' = Absent
  /\ reading' = Absent
  /\ UNCHANGED <<answer, stored>>

\* The ticker of Sensor.Run fires.
Tick ==
  /\ sensor # Absent
  /\ \E j \in -jitter[sensor.pattern]..jitter[sensor.pattern] :
       sensor' = [sensor EXCEPT !.temp = NextTemp(sensor.pattern, sensor.temp, j)]
  /\ reading' = [place |-> sensor.place, temp |-> sensor'.temp]
  /\ UNCHANGED <<answer, stored>>

Next ==
  \/ \E r \in Requests : Create(r)
  \/ Remove \/ StartSensor \/ StopSensor \/ Tick

Spec == Init /\ [][Next]_vars

(***************************************************************************)
(* Properties                                                              *)
(***************************************************************************)

\* Whatever a client was answered 201 for is what the registry hands back and
\* what the simulator runs ("so nothing downstream ever has to re-check",
\* sensor.go), with an interval time.NewTicker does not panic on.
RunsAsAnswered ==
  /\ stored # Absent => Parses(stored) /\ sensorFromMap(stored) = answer
  /\ sensor # Absent =>
       /\ sensor.place = answer.place
       /\ sensor.pattern = answer.pattern
       /\ sensor.interval = answer.interval
       /\ sensor.pattern \in Patterns
       /\ MinInterval <= sensor.interval /\ sensor.interval <= MaxInterval

\* However long it runs, a sensor never drifts to a reading that Validate refuses
\* and that Publish would reject for ever after (drift.go: "so a long-running
\* rising sensor can't ... start failing its own validation"), from any start
\* temperature the gateway accepts, those outside the drift's own bounds included.
PublishAccepts == reading # Absent => ReadingOK(reading)

\* Rounding does not swallow a trend: a rising sensor warms with every reading and
\* a falling one cools, until the bound; and inside the bounds no reading is
\* further from the one before than the pattern allows.
Reach(pattern) == jitter[pattern] + 5 + (IF trend[pattern] = 0 THEN 0 ELSE 20)

TrendHolds ==
  [][sensor # Absent /\ sensor' # Absent /\ stored' = stored =>
       LET old == sensor.temp
           new == sensor'.temp
       IN /\ sensor.pattern = "rising"  => new > old \/ new = maxSimTempC
          /\ sensor.pattern = "falling" => new < old \/ new = minSimTempC
          /\ minSimTempC <= old /\ old <= maxSimTempC =>
               old - Reach(sensor.pattern) <= new /\ new <= old + Reach(sensor.pattern)]_vars
=============================================================================

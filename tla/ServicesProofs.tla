---------------------------- MODULE ServicesProofs ----------------------------
(***************************************************************************)
(* Proofs about Services, for any number of containers of the six programs *)
(* and any number of requests and faults.                                  *)
(***************************************************************************)
EXTENDS Services, TLAPS

Booting(i) == at[i] \in {"boot", "schema"}

\* Of a boot, the calls before the next one have been made: their topics exist.
Prepared ==
  \A i \in Processes : Booting(i) =>
    /\ step[i] \in 1..Len(Plan[Program[i]])
    /\ \A k \in 1..(step[i] - 1) :
         Plan[Program[i]][k] \in Topics =>
           topics[Plan[Program[i]][k]] = Sizing[Plan[Program[i]][k]]

\* Once Shutdown has returned nothing is in flight.
Quiet == \A i \in Processes : at[i] = "receive" => inFlight[i] = {}

\* Shutdown is called upon a signal only.
Told == \A i \in Processes : at[i] \in {"drain", "receive"} => stopping[i]

\* The database executes the schema only when that call has come.
InSchema == \A i \in Processes : at[i] = "schema" => Plan[Program[i]][step[i]] = "schema"

Inv == TypeOK /\ Prepared /\ InSchema /\ TopicsReady /\ Quiet /\ Told

\* A topic that exists stays as it is.
Kept ==
  /\ topics' \in [Topics -> Nat]
  /\ \A t \in Topics : topics'[t] \in {0, Sizing[t]}
  /\ \A t \in Topics : topics[t] = Sizing[t] => topics'[t] = Sizing[t]

\* Every topic a program touches is one its boot ensures.
LEMMA PlanCovers ==
  ASSUME NEW p \in Programs
  PROVE  /\ Len(Plan[p]) \in Nat
         /\ Touches[p] \subseteq Topics
         /\ \A t \in Touches[p] : \E k \in 1..Len(Plan[p]) : Plan[p][k] = t
  <1>1. CASE p = "gateway"
    BY <1>1 DEF Plan, Touches
  <1>2. CASE p = "telemetry"
    BY <1>2 DEF Plan, Touches
  <1>3. CASE p = "simulator"
    <2>1. Touches[p] = {"readings"} /\ Plan[p] = <<"redis", "readings">>
      BY <1>3 DEF Touches, Plan
    <2>2. Len(Plan[p]) = 2 /\ Plan[p][2] = "readings"
      BY <2>1
    <2>3. QED  BY <2>1, <2>2 DEF Topics, Sizing
  <1>4. CASE p = "ingestion"
    <2>1. /\ Touches[p] = {"readings", "clean", "deadletters"}
          /\ Plan[p] = <<"postgres", "schema", "readings", "clean", "deadletters">>
      BY <1>4 DEF Touches, Plan
    <2>2. /\ Len(Plan[p]) = 5
          /\ Plan[p][3] = "readings" /\ Plan[p][4] = "clean" /\ Plan[p][5] = "deadletters"
      BY <2>1
    <2>3. QED  BY <2>1, <2>2 DEF Topics, Sizing
  <1>5. CASE p = "aggregator"
    <2>1. Touches[p] = {"clean", "aggregates"} /\ Plan[p] = <<"clean", "aggregates">>
      BY <1>5 DEF Touches, Plan
    <2>2. Len(Plan[p]) = 2 /\ Plan[p][1] = "clean" /\ Plan[p][2] = "aggregates"
      BY <2>1
    <2>3. QED  BY <2>1, <2>2 DEF Topics, Sizing
  <1>6. CASE p = "notifier"
    <2>1. Touches[p] = {"aggregates"} /\ Plan[p] = <<"aggregates">>
      BY <1>6 DEF Touches, Plan
    <2>2. Len(Plan[p]) = 1 /\ Plan[p][1] = "aggregates"
      BY <2>1
    <2>3. QED  BY <2>1, <2>2 DEF Topics, Sizing
  <1>7. QED  BY <1>1, <1>2, <1>3, <1>4, <1>5, <1>6 DEF Programs

LEMMA Creating ==
  ASSUME TypeOK, NEW t \in Topics, Create(t)
  PROVE  Kept /\ topics'[t] = Sizing[t]
  <1>1. Sizing \in [Topics -> Nat]
    BY DEF Sizing, Topics
  <1>2. topics' \in [Topics -> Nat]
    BY <1>1 DEF TypeOK, Create
  <1>3. topics'[t] = Sizing[t]
    BY <1>1 DEF TypeOK, Create
  <1>4. \A u \in Topics : u # t => topics'[u] = topics[u]
    BY DEF TypeOK, Create
  <1>5. QED  BY <1>2, <1>3, <1>4 DEF Kept, TypeOK

LEMMA Leaving ==
  ASSUME TypeOK, UNCHANGED topics
  PROVE  Kept
  BY DEF TypeOK, Kept

\* A process that goes on to a call, or past the last one.
LEMMA Entering ==
  ASSUME Inv, NEW i \in Processes, NEW n \in 1..(Len(Plan[Program[i]]) + 1), Enter(i, n),
         Kept, table' \in BOOLEAN, found' \in [Processes -> BOOLEAN], faults' \in 0..MaxFaults,
         \A k \in 1..Len(Plan[Program[i]]) :
           k < n /\ Plan[Program[i]][k] \in Topics =>
             topics'[Plan[Program[i]][k]] = Sizing[Plan[Program[i]][k]]
  PROVE  Inv'
  <1> DEFINE p == Program[i]
  <1>1. p \in Programs /\ Len(Plan[p]) \in Nat
    BY ServicesAssumption, PlanCovers DEF ServicesAssumption
  <1>2. /\ at' = [at EXCEPT ![i] = IF n <= Len(Plan[p]) THEN "boot" ELSE "up"]
        /\ step' = [step EXCEPT ![i] = n]
        /\ server' = [server EXCEPT ![i] = IF Serves(i) /\ ~(n <= Len(Plan[p])) THEN "starting" ELSE @]
        /\ UNCHANGED <<stopping, errCh, inFlight>>
    BY DEF Enter, Goto
  <1>3. TypeOK'
    <2>1. at' \in [Processes -> {"boot", "schema", "up", "waiting", "drain", "receive"} \cup Ended]
      BY <1>2 DEF Inv, TypeOK
    <2>2. step' \in [Processes -> Nat] /\ \A j \in Processes : step'[j] \in 0..(Len(Plan[Program[j]]) + 1)
      BY <1>1, <1>2 DEF Inv, TypeOK
    <2>3. server' \in [Processes -> {"none", "starting", "listening", "returned"}]
      BY <1>2 DEF Inv, TypeOK
    <2>4. QED  BY <1>2, <2>1, <2>2, <2>3 DEF Inv, TypeOK, Kept
  <1>4. Prepared'
    <2> SUFFICES ASSUME NEW j \in Processes, Booting(j)'
                 PROVE  /\ step'[j] \in 1..Len(Plan[Program[j]])
                        /\ \A k \in 1..(step'[j] - 1) :
                             Plan[Program[j]][k] \in Topics =>
                               topics'[Plan[Program[j]][k]] = Sizing[Plan[Program[j]][k]]
      BY DEF Prepared
    <2>1. CASE j = i
      <3>1. n <= Len(Plan[p]) /\ step'[i] = n
        BY <1>2, <2>1 DEF Booting, Inv, TypeOK
      <3>2. QED  BY <1>1, <2>1, <3>1
    <2>2. CASE j # i
      <3>1. at'[j] = at[j] /\ step'[j] = step[j]
        BY <1>2, <2>2 DEF Inv, TypeOK
      <3>2. Booting(j)
        BY <3>1 DEF Booting
      <3>3. QED  BY <3>1, <3>2 DEF Inv, Prepared, Kept
    <2>3. QED  BY <2>1, <2>2
  <1>5. TopicsReady'
    <2> SUFFICES ASSUME NEW j \in Processes, Ready(j)', NEW t \in Touches[Program[j]]
                 PROVE  topics'[t] = Sizing[t]
      BY DEF TopicsReady
    <2>0. Program[j] \in Programs /\ t \in Topics
      BY ServicesAssumption, PlanCovers DEF ServicesAssumption
    <2>1. CASE j = i
      <3>1. ~(n <= Len(Plan[p]))
        BY <1>2, <2>1 DEF Ready, Alive, Inv, TypeOK
      <3>2. n - 1 = Len(Plan[p])
        BY <1>1, <3>1
      <3>3. PICK k \in 1..Len(Plan[p]) : Plan[p][k] = t
        BY <1>1, <2>1, PlanCovers
      <3>4. QED  BY <2>0, <3>2, <3>3
    <2>2. CASE j # i
      <3>1. at'[j] = at[j]
        BY <1>2, <2>2 DEF Inv, TypeOK
      <3>2. Ready(j)
        BY <3>1 DEF Ready, Alive
      <3>3. QED  BY <2>0, <3>2 DEF Inv, TopicsReady, Kept
    <2>3. QED  BY <2>1, <2>2
  <1>6. Quiet' /\ Told'
    BY <1>2 DEF Inv, TypeOK, Quiet, Told
  <1>7. InSchema'
    BY <1>2 DEF Inv, TypeOK, InSchema
  <1>8. QED  BY <1>3, <1>4, <1>5, <1>6, <1>7 DEF Inv

\* A process that does not begin to boot, and begins to be ready only if it was.
LEMMA Staying ==
  ASSUME Inv, TypeOK', Kept,
         \A j \in Processes : Booting(j)' => Booting(j) /\ step'[j] = step[j],
         \A j \in Processes : Ready(j)' => Ready(j),
         InSchema', Quiet', Told'
  PROVE  Inv'
  <1>1. Prepared'
    BY DEF Inv, Prepared, Kept
  <1>2. TopicsReady'
    <2>1. \A j \in Processes : Touches[Program[j]] \subseteq Topics
      BY ServicesAssumption, PlanCovers DEF ServicesAssumption
    <2>2. QED  BY <2>1 DEF Inv, TopicsReady, Kept
  <1>3. QED  BY <1>1, <1>2 DEF Inv

\* A process that ends.
LEMMA Ending ==
  ASSUME Inv, NEW i \in Processes, NEW how \in Ended, End(i, how), Kept,
         table' \in BOOLEAN, faults' \in 0..MaxFaults
  PROVE  Inv'
  <1>1. TypeOK'
    <2>1. at' \in [Processes -> {"boot", "schema", "up", "waiting", "drain", "receive"} \cup Ended]
      BY DEF Inv, TypeOK, End, Goto
    <2>2. step' \in [Processes -> Nat] /\ \A j \in Processes : step'[j] \in 0..(Len(Plan[Program[j]]) + 1)
      <3>1. \A j \in Processes : Len(Plan[Program[j]]) \in Nat
        BY ServicesAssumption, PlanCovers DEF ServicesAssumption
      <3>2. QED  BY <3>1 DEF Inv, TypeOK, End
    <2>3. /\ found' \in [Processes -> BOOLEAN] /\ stopping' \in [Processes -> BOOLEAN]
          /\ server' \in [Processes -> {"none", "starting", "listening", "returned"}]
          /\ errCh' \in [Processes -> {"empty", "closed", "failed"}]
      BY DEF Inv, TypeOK, End
    <2>4. inFlight' \in [Processes -> SUBSET Requests]
      BY DEF Inv, TypeOK, End
    <2>5. QED  BY <2>1, <2>2, <2>3, <2>4 DEF TypeOK, Kept
  <1>2. \A j \in Processes : j # i => at'[j] = at[j] /\ step'[j] = step[j] /\ inFlight'[j] = inFlight[j]
                                             /\ stopping'[j] = stopping[j]
    BY DEF Inv, TypeOK, End, Goto
  <1>3. at'[i] \in Ended
    BY DEF Inv, TypeOK, End, Goto
  <1>4. QED
    <2>1. \A j \in Processes : Booting(j)' => Booting(j) /\ step'[j] = step[j]
      BY <1>2, <1>3 DEF Booting, Ended
    <2>2. \A j \in Processes : Ready(j)' => Ready(j)
      BY <1>2, <1>3 DEF Ready, Alive
    <2>3. Quiet' /\ Told'
      BY <1>2, <1>3 DEF Quiet, Told, Inv, Ended
    <2>4. InSchema'
      BY <1>2, <1>3 DEF InSchema, Inv, Ended
    <2>5. QED  BY <1>1, <2>1, <2>2, <2>3, <2>4, Staying

LEMMA InitInv == Init => Inv
  <1> SUFFICES ASSUME Init PROVE Inv
    OBVIOUS
  <1>1. TypeOK
    <2>1. \A i \in Processes : Len(Plan[Program[i]]) \in Nat
      BY ServicesAssumption, PlanCovers DEF ServicesAssumption
    <2>2. topics \in [Topics -> Nat] /\ \A t \in Topics : topics[t] \in {0, Sizing[t]}
      BY DEF Init
    <2>3. /\ faults \in 0..MaxFaults
          /\ at \in [Processes -> {"boot", "schema", "up", "waiting", "drain", "receive"} \cup Ended]
      BY ServicesAssumption DEF ServicesAssumption, Init, Ended
    <2>7. table \in BOOLEAN /\ found \in [Processes -> BOOLEAN] /\ stopping \in [Processes -> BOOLEAN]
      BY DEF Init
    <2>4. step \in [Processes -> Nat] /\ \A i \in Processes : step[i] \in 0..(Len(Plan[Program[i]]) + 1)
      BY <2>1 DEF Init
    <2>5. /\ server \in [Processes -> {"none", "starting", "listening", "returned"}]
          /\ errCh \in [Processes -> {"empty", "closed", "failed"}]
          /\ inFlight \in [Processes -> SUBSET Requests]
      BY DEF Init
    <2>6. QED  BY <2>2, <2>3, <2>4, <2>5, <2>7 DEF TypeOK
  <1>2. \A i \in Processes : at[i] = "stopped"
    BY DEF Init
  <1>3. QED
    BY <1>1, <1>2 DEF Inv, Prepared, Booting, InSchema, TopicsReady, Ready, Alive, Ended, Quiet, Told

\* The steps of a boot.
LEMMA BootInv ==
  ASSUME Inv, NEW i \in Processes, Start(i) \/ Boot(i) \/ BootFail(i)
  PROVE  Inv'
  <1> DEFINE p == Program[i]
  <1> USE DEF Booting
  <1>1. p \in Programs /\ Len(Plan[p]) \in Nat
    BY ServicesAssumption, PlanCovers DEF ServicesAssumption
  <1>2. CASE Start(i)
    <2>1. Enter(i, 1) /\ 1 \in 1..(Len(Plan[p]) + 1) /\ UNCHANGED <<topics, table, found, faults>>
      BY <1>1, <1>2 DEF Start, broker
    <2>2. Kept /\ table' \in BOOLEAN /\ found' \in [Processes -> BOOLEAN] /\ faults' \in 0..MaxFaults
      BY <2>1, Leaving DEF Inv, TypeOK
    <2>3. QED  BY <2>1, <2>2, Entering
  <1>3. CASE Ping(i)
    <2>1. /\ at[i] = "boot" /\ Plan[p][step[i]] \in {"redis", "postgres"}
          /\ Enter(i, step[i] + 1)
          /\ UNCHANGED <<topics, table, found, faults>>
      BY <1>3 DEF Ping, Calls, broker
    <2>2. Kept /\ table' \in BOOLEAN /\ found' \in [Processes -> BOOLEAN] /\ faults' \in 0..MaxFaults
      BY <2>1, Leaving DEF Inv, TypeOK
    <2>3. step[i] \in 1..Len(Plan[p])
      BY <2>1 DEF Inv, Prepared
    <2>4. ~(Plan[p][step[i]] \in Topics)
      BY <2>1 DEF Topics, Sizing
    <2>5. \A k \in 1..Len(Plan[p]) :
            k < step[i] + 1 /\ Plan[p][k] \in Topics => topics'[Plan[p][k]] = Sizing[Plan[p][k]]
      BY <1>1, <2>1, <2>3, <2>4 DEF Inv, Prepared
    <2>6. step[i] + 1 \in 1..(Len(Plan[p]) + 1)
      BY <1>1, <2>3
    <2>7. QED  BY <2>1, <2>2, <2>5, <2>6, Entering
  <1>4. CASE EnsureTopic(i)
    <2>1. /\ at[i] = "boot" /\ Plan[p][step[i]] \in Topics
          /\ Create(Plan[p][step[i]])
          /\ Enter(i, step[i] + 1)
          /\ UNCHANGED <<table, found, faults>>
      BY <1>4 DEF EnsureTopic, Calls, Called
    <2>2. Kept /\ topics'[Plan[p][step[i]]] = Sizing[Plan[p][step[i]]]
      BY <2>1, Creating DEF Inv
    <2>3. table' \in BOOLEAN /\ found' \in [Processes -> BOOLEAN] /\ faults' \in 0..MaxFaults
      BY <2>1 DEF Inv, TypeOK
    <2>4. step[i] \in 1..Len(Plan[p])
      BY <2>1 DEF Inv, Prepared
    <2>5. \A k \in 1..Len(Plan[p]) :
            k < step[i] + 1 /\ Plan[p][k] \in Topics => topics'[Plan[p][k]] = Sizing[Plan[p][k]]
      <3> SUFFICES ASSUME NEW k \in 1..Len(Plan[p]), k < step[i] + 1, Plan[p][k] \in Topics
                   PROVE  topics'[Plan[p][k]] = Sizing[Plan[p][k]]
        OBVIOUS
      <3>1. CASE k = step[i]
        BY <2>2, <3>1
      <3>2. CASE k # step[i]
        <4>1. k \in 1..(step[i] - 1)
          BY <2>4, <3>2
        <4>2. topics[Plan[p][k]] = Sizing[Plan[p][k]]
          BY <2>1, <4>1 DEF Inv, Prepared
        <4>3. QED  BY <2>2, <4>2 DEF Kept
      <3>3. QED  BY <3>1, <3>2
    <2>6. step[i] + 1 \in 1..(Len(Plan[p]) + 1)
      BY <1>1, <2>4
    <2>7. QED  BY <2>1, <2>2, <2>3, <2>5, <2>6, Entering
  <1>5. CASE EnsureSchema(i)
    <2>1. /\ at[i] = "boot"
          /\ at' = [at EXCEPT ![i] = "schema"]
          /\ found' = [found EXCEPT ![i] = table]
          /\ UNCHANGED <<topics, table, step, stopping, server, errCh, inFlight, faults>>
      BY <1>5 DEF EnsureSchema, Calls, Goto, broker, http
    <2>2. TypeOK'
      BY <2>1 DEF Inv, TypeOK
    <2>3. \A j \in Processes : Booting(j)' => Booting(j) /\ step'[j] = step[j]
      BY <2>1 DEF Inv, TypeOK
    <2>4. \A j \in Processes : Ready(j)' => Ready(j)
      BY <2>1 DEF Inv, TypeOK, Ready, Alive, Ended
    <2>5. Quiet' /\ Told'
      BY <2>1 DEF Inv, TypeOK, Quiet, Told
    <2>6. Kept
      BY <2>1, Leaving DEF Inv
    <2>7. InSchema'
      BY <1>5, <2>1 DEF Inv, TypeOK, InSchema, EnsureSchema, Calls
    <2>8. QED  BY <2>2, <2>3, <2>4, <2>5, <2>6, <2>7, Staying
  <1>6. CASE SchemaDone(i)
    <2>1. /\ at[i] = "schema"
          /\ table' = TRUE
          /\ found' = [found EXCEPT ![i] = FALSE]
          /\ Enter(i, step[i] + 1)
          /\ UNCHANGED <<topics, faults>>
      BY <1>6 DEF SchemaDone
    <2>2. Kept /\ table' \in BOOLEAN /\ found' \in [Processes -> BOOLEAN] /\ faults' \in 0..MaxFaults
      BY <2>1, Leaving DEF Inv, TypeOK
    <2>3. step[i] \in 1..Len(Plan[p])
      BY <2>1 DEF Inv, Prepared
    <2>4. Plan[p][step[i]] = "schema"
      BY <2>1 DEF Inv, InSchema
    <2>5. ~(Plan[p][step[i]] \in Topics)
      BY <2>4 DEF Topics, Sizing
    <2>6. \A k \in 1..Len(Plan[p]) :
            k < step[i] + 1 /\ Plan[p][k] \in Topics => topics'[Plan[p][k]] = Sizing[Plan[p][k]]
      BY <1>1, <2>1, <2>3, <2>5 DEF Inv, Prepared
    <2>7. step[i] + 1 \in 1..(Len(Plan[p]) + 1)
      BY <1>1, <2>3
    <2>8. QED  BY <2>1, <2>2, <2>6, <2>7, Entering
  <1>7. CASE SchemaRaceLost(i)
    <2>1. End(i, "failed") /\ UNCHANGED <<topics, table, faults>>
      BY <1>7 DEF SchemaRaceLost, broker
    <2>2. Kept /\ table' \in BOOLEAN /\ faults' \in 0..MaxFaults
      BY <2>1, Leaving DEF Inv, TypeOK
    <2>3. QED  BY <2>1, <2>2, Ending DEF Ended
  <1>8. CASE BootFail(i)
    <2>1. End(i, "failed") /\ UNCHANGED table /\ Failing(i)
      BY <1>8 DEF BootFail
    <2>2. faults' \in 0..MaxFaults
      BY <2>1, ServicesAssumption DEF ServicesAssumption, Failing, Fault, Inv, TypeOK
    <2>3. Kept
      BY <1>8, Leaving, Creating DEF BootFail, Calls, Called, Inv
    <2>4. table' \in BOOLEAN
      BY <2>1 DEF Inv, TypeOK
    <2>5. QED  BY <2>1, <2>2, <2>3, <2>4, Ending DEF Ended
  <1>9. QED
    BY <1>2, <1>3, <1>4, <1>5, <1>6, <1>7, <1>8 DEF Boot

\* The steps that leave the place of every process alone.
LEMMA InPlace ==
  ASSUME Inv, TypeOK', UNCHANGED <<topics, at, step>>,
         \A i \in Processes : at[i] = "receive" => inFlight'[i] \subseteq inFlight[i],
         \A i \in Processes : stopping[i] => stopping'[i]
  PROVE  Inv'
  <1>1. Kept
    BY Leaving DEF Inv
  <1>2. Quiet' /\ Told'
    BY DEF Inv, Quiet, Told
  <1>3. InSchema'
    BY DEF Inv, InSchema
  <1>4. QED  BY <1>1, <1>2, <1>3, Staying DEF Booting, Ready, Alive

LEMMA RequestInv ==
  ASSUME Inv, NEW i \in Processes, NEW r \in Requests, Accept(i, r) \/ Answer(i, r)
  PROVE  Inv'
  <1>1. PICK requests \in SUBSET Requests :
          /\ Requested(i, requests)
          /\ at[i] = "up" \/ requests \subseteq inFlight[i]
    <2>1. inFlight[i] \subseteq Requests
      BY DEF Inv, TypeOK
    <2>2. CASE Accept(i, r)
      BY <2>1, <2>2 DEF Accept
    <2>3. CASE Answer(i, r)
      BY <2>1, <2>3 DEF Answer
    <2>4. QED  BY <2>2, <2>3
  <1>2. /\ inFlight' = [inFlight EXCEPT ![i] = requests]
        /\ UNCHANGED <<topics, table, at, step, found, stopping, server, errCh, faults>>
    BY <1>1 DEF Requested, Unmoved, broker
  <1>3. TypeOK'
    BY <1>2 DEF Inv, TypeOK
  <1>4. \A j \in Processes : at[j] = "receive" => inFlight'[j] \subseteq inFlight[j]
    BY <1>1, <1>2 DEF Inv, TypeOK
  <1>5. QED  BY <1>2, <1>3, <1>4, InPlace

\* The server's goroutine.
LEMMA ServerInv ==
  ASSUME Inv, NEW i \in Processes, Listen(i) \/ ServerFails(i) \/ ServerClosed(i)
  PROVE  Inv'
  <1>1. UNCHANGED <<topics, table, at, step, found, stopping, inFlight>>
    BY DEF Listen, ServerFails, ServerClosed, ServerReturns, Unmoved, broker
  <1>2. faults' \in 0..MaxFaults
    BY ServicesAssumption
       DEF ServicesAssumption, Inv, TypeOK, Fault, Listen, ServerFails, ServerClosed
  <1>3. /\ server' \in [Processes -> {"none", "starting", "listening", "returned"}]
        /\ errCh' \in [Processes -> {"empty", "closed", "failed"}]
    BY DEF Inv, TypeOK, Listen, ServerFails, ServerClosed, ServerReturns
  <1>4. TypeOK'
    BY <1>1, <1>2, <1>3 DEF Inv, TypeOK
  <1>5. QED  BY <1>1, <1>4, InPlace

\* A process that stays ready, or one that goes from serving to its end.
LEMMA GoingOn ==
  ASSUME Inv, NEW i \in Processes, NEW place \in {"waiting", "drain", "receive"},
         Goto(i, place), at[i] \in {"up", "drain"}, place = "receive" => inFlight[i] = {},
         place \in {"drain", "receive"} => stopping[i],
         UNCHANGED <<topics, table, step, found, stopping, server, errCh, inFlight>>,
         faults' \in 0..MaxFaults
  PROVE  Inv'
  <1>1. /\ at' \in [Processes -> {"boot", "schema", "up", "waiting", "drain", "receive"} \cup Ended]
        /\ at'[i] = place
        /\ \A j \in Processes : j # i => at'[j] = at[j]
    BY DEF Inv, TypeOK, Goto
  <1>2. TypeOK'
    BY <1>1 DEF Inv, TypeOK
  <1>3. \A j \in Processes : Booting(j)' => Booting(j) /\ step'[j] = step[j]
    BY <1>1 DEF Booting
  <1>4. \A j \in Processes : Ready(j)' => Ready(j)
    <2>1. Ready(i)
      BY DEF Ready, Alive, Ended
    <2>2. QED  BY <1>1, <2>1 DEF Ready, Alive
  <1>5. Quiet' /\ Told'
    BY <1>1 DEF Inv, Quiet, Told
  <1>6. InSchema'
    BY <1>1 DEF Inv, InSchema
  <1>7. Kept
    BY Leaving DEF Inv
  <1>8. QED  BY <1>2, <1>3, <1>4, <1>5, <1>6, <1>7, Staying

\* Everything else that happens to a process that has started.
LEMMA RunInv ==
  ASSUME Inv, NEW i \in Processes,
         \/ Signal(i) \/ Kill(i) \/ LoopReturns(i) \/ LoopFails(i)
         \/ ServerEnds(i) \/ Shutdown(i) \/ Drained(i) \/ DeadlineOver(i) \/ Receive(i)
  PROVE  Inv'
  <1>1. UNCHANGED <<topics, table>> /\ Kept /\ table' \in BOOLEAN
    <2>1. UNCHANGED <<topics, table>>
      BY DEF Signal, Kill, LoopReturns, LoopFails, ServerEnds, Shutdown, Drained, DeadlineOver,
             Receive, Unmoved, broker
    <2>2. QED  BY <2>1, Leaving DEF Inv, TypeOK
  <1>2. faults' \in 0..MaxFaults
    BY ServicesAssumption
       DEF ServicesAssumption, Inv, TypeOK, Fault, Signal, Kill, LoopReturns, LoopFails,
           ServerEnds, Shutdown, Drained, DeadlineOver, Receive
  <1>3. CASE \E how \in Ended : End(i, how)
    BY <1>1, <1>2, <1>3, Ending
  <1>4. CASE \E place \in {"waiting", "drain", "receive"} :
               /\ Goto(i, place) /\ at[i] \in {"up", "drain"} /\ (place = "receive" => inFlight[i] = {})
               /\ (place \in {"drain", "receive"} => stopping[i])
               /\ UNCHANGED <<step, found, stopping, server, errCh, inFlight>>
    BY <1>1, <1>2, <1>4, GoingOn
  <1>5. CASE /\ stopping' = [stopping EXCEPT ![i] = TRUE]
             /\ UNCHANGED <<at, step, found, server, errCh, inFlight>>
    <2>1. TypeOK'
      BY <1>1, <1>2, <1>5 DEF Inv, TypeOK
    <2>2. \A j \in Processes : stopping[j] => stopping'[j]
      BY <1>5 DEF Inv, TypeOK
    <2>3. QED  BY <1>1, <1>5, <2>1, <2>2, InPlace
  <1>6. \/ \E how \in Ended : End(i, how)
        \/ \E place \in {"waiting", "drain", "receive"} :
             /\ Goto(i, place) /\ at[i] \in {"up", "drain"} /\ (place = "receive" => inFlight[i] = {})
               /\ (place \in {"drain", "receive"} => stopping[i])
             /\ UNCHANGED <<step, found, stopping, server, errCh, inFlight>>
        \/ /\ stopping' = [stopping EXCEPT ![i] = TRUE]
           /\ UNCHANGED <<at, step, found, server, errCh, inFlight>>
    <2>1. CASE Signal(i)
      BY <2>1 DEF Signal, Ended, http
    <2>2. CASE Kill(i)
      BY <2>2 DEF Kill, Ended
    <2>3. CASE LoopReturns(i)
      BY <2>3 DEF LoopReturns, Ended
    <2>4. CASE LoopFails(i)
      BY <2>4 DEF LoopFails, Ended, http
    <2>5. CASE ServerEnds(i)
      BY <2>5 DEF ServerEnds, Ended
    <2>6. CASE Shutdown(i)
      BY <2>6 DEF Shutdown, Unmoved, http
    <2>7. CASE Drained(i)
      BY <2>7 DEF Drained, Unmoved, http, Inv, Told
    <2>8. CASE DeadlineOver(i)
      BY <2>8 DEF DeadlineOver, Ended
    <2>9. CASE Receive(i)
      BY <2>9 DEF Receive, Ended
    <2>10. QED  BY <2>1, <2>2, <2>3, <2>4, <2>5, <2>6, <2>7, <2>8, <2>9
  <1>7. QED  BY <1>3, <1>4, <1>5, <1>6

LEMMA StepInv == Inv /\ [Next]_vars => Inv'
  <1> SUFFICES ASSUME Inv, [Next]_vars PROVE Inv'
    OBVIOUS
  <1>1. ASSUME NEW i \in Processes, Runs(i) \/ BootFail(i)
        PROVE  Inv'
    BY <1>1, BootInv, ServerInv, RunInv DEF Runs, Serve
  <1>2. ASSUME NEW i \in Processes, Signal(i) \/ Kill(i) \/ LoopFails(i) \/ ServerFails(i)
        PROVE  Inv'
    BY <1>2, RunInv, ServerInv
  <1>3. ASSUME NEW i \in Processes, NEW r \in Requests, Accept(i, r) \/ Answer(i, r)
        PROVE  Inv'
    BY <1>3, RequestInv
  <1>4. CASE UNCHANGED vars
    <2>1. UNCHANGED <<topics, table, at, step, found, stopping, server, errCh, inFlight, faults>>
      BY <1>4 DEF vars, broker, http
    <2>2. TypeOK'
      BY <2>1 DEF Inv, TypeOK
    <2>3. QED  BY <2>1, <2>2, InPlace
  <1>5. QED  BY <1>1, <1>2, <1>3, <1>4 DEF Next

\* The inductive invariant: what the calls of a boot have ensured so far.
THEOREM Invariance == Spec => []Inv
  <1>1. QED  BY InitInv, StepInv, PTL DEF Spec

\* Every reachable state is well-typed; a topic is never made with other than its
\* specified partitions (Services!TypeOK).
THEOREM TypeCorrect == Spec => []TypeOK
  <1>1. Inv => TypeOK
    BY DEF Inv
  <1>2. QED  BY <1>1, Invariance, PTL

\* However services race to create the topics, and whatever fails in their boots, a
\* service that runs finds those it touches as specified (topics.go, EnsureTopic).
THEOREM TopicsAreReady == Spec => []TopicsReady
  <1>1. Inv => TopicsReady
    BY DEF Inv
  <1>2. QED  BY <1>1, Invariance, PTL

\* A step moves one process at most.
LEMMA OneMoves ==
  ASSUME TypeOK, NEW j \in Processes,
         \/ Runs(j) \/ BootFail(j)
         \/ Signal(j) \/ Kill(j) \/ LoopFails(j) \/ ServerFails(j)
         \/ \E r \in Requests : Accept(j, r) \/ Answer(j, r)
  PROVE  /\ \A i \in Processes \ {j} : at'[i] = at[i]
         /\ Alive(j) /\ at'[j] = "stopped" => LoopReturns(j) \/ Receive(j)
  <1>1. \A place : Goto(j, place) => at'[j] = place /\ \A i \in Processes \ {j} : at'[i] = at[i]
    BY DEF Goto, TypeOK
  <1>2. CASE UNCHANGED at
    BY <1>2 DEF Alive, Ended
  <1>3. CASE \E place : Goto(j, place) /\ place # "stopped"
    BY <1>1, <1>3
  <1>4. CASE LoopReturns(j) \/ Receive(j)
    <2>1. \E place : Goto(j, place)
      BY <1>4 DEF LoopReturns, Receive, End
    <2>2. QED  BY <1>1, <1>4, <2>1
  <1>5. QED
    BY <1>2, <1>3, <1>4
       DEF Runs, Boot, Serve, Start, Enter, Ping, EnsureTopic, EnsureSchema, SchemaDone,
           SchemaRaceLost, BootFail, Signal, Kill, LoopFails, ServerFails, Listen, ServerClosed,
           ServerReturns, ServerEnds, Shutdown, Drained, DeadlineOver, Accept, Answer, Requested, End

\* A process exits without an error only upon a signal, and an HTTP service only with
\* its server closed by Shutdown and every accepted request answered: no race of
\* signal, server failure, deadline and answers loses an error (gateway/main.go).
THEOREM ExitsClean == Spec => CleanExit
  <1>1. ASSUME Inv, [Next]_vars
        PROVE  [\A i \in Processes : Alive(i) /\ at'[i] = "stopped" =>
                  /\ stopping[i]
                  /\ Serves(i) => errCh[i] = "closed" /\ inFlight[i] = {}]_vars
    <2> SUFFICES ASSUME Next, NEW i \in Processes, Alive(i), at'[i] = "stopped"
                 PROVE  /\ stopping[i]
                        /\ Serves(i) => errCh[i] = "closed" /\ inFlight[i] = {}
      BY <1>1
    <2>1. LoopReturns(i) \/ Receive(i)
      <3>1. at'[i] # at[i]
        BY DEF Alive, Ended
      <3>2. QED  BY <1>1, <3>1, OneMoves DEF Next, Inv
    <2>2. CASE LoopReturns(i)
      BY <2>2 DEF LoopReturns
    <2>3. CASE Receive(i)
      <3>1. errCh[i] = "closed"
        BY <1>1, <2>3 DEF Receive, End, Goto, Inv, TypeOK
      <3>2. QED  BY <1>1, <2>3, <3>1 DEF Receive, Inv, Quiet, Told
    <2>4. QED  BY <2>1, <2>2, <2>3
  <1>2. QED  BY <1>1, Invariance, PTL DEF Spec, CleanExit
=============================================================================

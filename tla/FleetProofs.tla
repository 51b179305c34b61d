------------------------------ MODULE FleetProofs ------------------------------
(***************************************************************************)
(* Proofs about Fleet, for any ids, clients and bounds.                    *)
(*                                                                         *)
(* The argument turns on ids never being used twice.  Once the handler     *)
(* that drew an id has made or given up its write the id is settled, and a *)
(* settled id that is not registered is gone for good.  So what List has   *)
(* read may be out of date in one direction only: a sensor it missed is    *)
(* gone, and a goroutine that was told to stop never gets a successor.     *)
(***************************************************************************)
EXTENDS Fleet, FiniteSetTheorems, TLAPS

(***************************************************************************)
(* The inductive invariant                                                 *)
(***************************************************************************)
Adds(q, id) == request[q] # None /\ request[q].op = "add" /\ request[q].id = id

\* The write for the id is still to come.
Pending(id) == \E q \in Clients : Adds(q, id) /\ request[q].at = "exec"
Settled(id) == id \in drawn /\ ~Pending(id)
Gone(id)    == Settled(id) /\ id \notin registered

\* Each id has one handler at most that adds it.
Ours ==
  /\ \A q \in Clients : \A id \in Ids : Adds(q, id) => id \in drawn
  /\ \A q, r \in Clients : \A id \in Ids : Adds(q, id) /\ Adds(r, id) => q = r
  /\ \A id \in registered : Settled(id)

\* A handler has written and is to notify.
Wrote(q, op, id) == At(q, op, "notify") /\ request[q].id = id

\* What the answers promise, while Redis keeps its data.
Kept ==
  /\ \A id \in Ids : <<"remove", id, 204>> \in answers => Gone(id)
  /\ \A q \in Clients : \A id \in Ids : Wrote(q, "remove", id) => Gone(id)
  /\ \A id \in Ids : <<"add", id, 201>> \in answers => id \in registered \/ Deleted(id)
  /\ \A q \in Clients : \A id \in Ids :
       Wrote(q, "add", id) => id \in registered \/ Deleted(id)

\* A sensor has one goroutine at most, and one told to stop has no successor.
Manned ==
  /\ IsFiniteSet(workers)
  /\ \A v, w \in workers : v.sensor = w.sensor => v = w
  /\ \A w \in workers : IF w.on THEN w.sensor \in running
                                ELSE Gone(w.sensor) /\ w.sensor \notin desired

\* A running sensor that List has not found is gone.
Listed ==
  /\ \A id \in running \cup desired : Settled(id)
  /\ manager = "hgetall" =>
       \A id \in running : id \in toFetch \/ id \in desired \/ id \notin registered

Inv == TypeOK /\ Ours /\ Manned /\ Listed /\ NothingAfterClose

\* What every step leaves true.
Onward == \A id \in Ids : (Settled(id) => Settled(id)') /\ (Gone(id) => Gone(id)')

(***************************************************************************)
(* The registry                                                            *)
(***************************************************************************)
LEMMA Counting ==
  ASSUME faults \in 0..MaxFaults, NEW kind, Fault(kind)
  PROVE  faults' \in 0..MaxFaults
  BY RegistryAssumption DEF RegistryAssumption, Fault

\* A handler that goes on to its notification, or answers.
LEMMA HandlerMoves ==
  ASSUME RegistryTypeOK, Ours, NEW q \in Clients,
         request'[q] = None \/
           (/\ request[q] # None /\ request'[q] # None
            /\ request'[q].op = request[q].op /\ request'[q].id = request[q].id
            /\ request'[q].at = "notify"),
         \A r \in Clients : r # q => request'[r] = request[r],
         UNCHANGED drawn,
         \A id \in registered' : id \in registered \/ (Adds(q, id) /\ request[q].at = "exec")
  PROVE  Ours' /\ Onward /\ registered' \subseteq drawn'
  <1>1. \A r \in Clients : \A id \in Ids : Adds(r, id)' => Adds(r, id)
    BY DEF Adds
  <1>2. \A id \in Ids : Pending(id)' => Pending(id) /\ ~Adds(q, id)
    <2> SUFFICES ASSUME NEW id \in Ids, NEW r \in Clients, Adds(r, id)', request'[r].at = "exec"
                 PROVE  Pending(id) /\ ~Adds(q, id)
      BY DEF Pending
    <2>1. r # q
      BY DEF Adds
    <2>2. Adds(r, id) /\ request[r].at = "exec"
      BY <1>1, <2>1
    <2>3. QED  BY <2>1, <2>2 DEF Pending, Ours
  <1>3. \A id \in Ids : Settled(id) => Settled(id)'
    BY <1>2 DEF Settled
  <1>4. registered \subseteq Ids /\ registered' \subseteq Ids
    <2>1. drawn \subseteq Ids /\ registered \subseteq drawn
      BY DEF RegistryTypeOK
    <2>2. \A id : Adds(q, id) /\ request[q].at = "exec" => id \in Ids
      BY DEF Adds, RegistryTypeOK, Requests
    <2>3. QED  BY <2>1, <2>2
  <1>5. \A id \in registered' : Settled(id)'
    <2> SUFFICES ASSUME NEW id \in registered' PROVE Settled(id)'
      OBVIOUS
    <2>1. CASE id \in registered
      BY <1>3, <1>4, <2>1 DEF Ours
    <2>2. CASE Adds(q, id)
      BY <1>2, <1>4, <2>2 DEF Settled, Ours
    <2>3. QED  BY <2>1, <2>2
  <1>6. \A id \in Ids : Gone(id) => Gone(id)'
    <2> SUFFICES ASSUME NEW id \in Ids, Gone(id), id \in registered' PROVE FALSE
      BY <1>3 DEF Gone
    <2>1. Adds(q, id) /\ request[q].at = "exec"
      BY DEF Gone
    <2>2. QED  BY <2>1 DEF Gone, Settled, Pending
  <1>7. registered' \subseteq drawn'
    BY <1>5 DEF Settled
  <1>8. QED  BY <1>1, <1>3, <1>5, <1>6, <1>7 DEF Ours, Onward

LEMMA RequestComes ==
  ASSUME RegistryTypeOK, Ours, NEW q \in Clients, NEW id \in Ids, Post(q, id) \/ Delete(q, id)
  PROVE  RegistryTypeOK' /\ Ours' /\ Onward
  <1>1. \A r \in Clients : r # q => request'[r] = request[r]
    BY DEF Post, Delete, Accept, RegistryTypeOK
  <1>2. request'[q].id = id /\ request'[q].at = "exec" /\ request'[q] \in Requests
    BY DEF Post, Delete, Accept, RegistryTypeOK, Requests
  <1>3. RegistryTypeOK'
    <2>1. request' \in [Clients -> Requests \cup {None}]
      BY DEF Post, Delete, Accept, RegistryTypeOK, Requests
    <2>2. QED  BY <2>1 DEF Post, Delete, RegistryTypeOK
  <1>4. CASE Delete(q, id)
    <2>1. request'[q].op = "remove"
      BY <1>4 DEF Delete, Accept, RegistryTypeOK
    <2>2. \A r \in Clients : \A j \in Ids : Adds(r, j)' => Adds(r, j) /\ r # q
      BY <1>1, <2>1 DEF Adds
    <2>3. \A j \in Ids : Pending(j)' => Pending(j)
      BY <1>1, <2>2 DEF Pending
    <2>4. UNCHANGED <<registered, drawn>>
      BY <1>4 DEF Delete
    <2>5. QED  BY <1>3, <2>2, <2>3, <2>4 DEF Ours, Onward, Settled, Gone, RegistryTypeOK
  <1>5. CASE Post(q, id)
    <2>1. id \notin drawn /\ drawn' = drawn \cup {id} /\ UNCHANGED registered
      BY <1>5 DEF Post
    <2>2. \A r \in Clients : \A j \in Ids :
            Adds(r, j)' => (r = q /\ j = id) \/ (r # q /\ j # id /\ Adds(r, j))
      BY <1>1, <1>2, <2>1 DEF Adds, Ours
    <2>3. \A j \in Ids : Pending(j)' => j = id \/ Pending(j)
      BY <1>1, <2>2 DEF Pending
    <2>4. \A j \in Ids : Settled(j) => j # id /\ Settled(j)'
      BY <2>1, <2>3 DEF Settled
    <2>5. registered \subseteq Ids
      BY DEF RegistryTypeOK
    <2>6. Ours'
      BY <2>1, <2>2, <2>4, <2>5 DEF Ours
    <2>7. QED  BY <1>3, <2>1, <2>4, <2>6 DEF Onward, Gone
  <1>6. QED  BY <1>4, <1>5

LEMMA Answering ==
  ASSUME RegistryTypeOK, NEW q \in Clients, request[q] # None,
         \/ \E status \in Statuses : Answer(q, status)
         \/ Goto(q, "notify")
  PROVE  /\ request' \in [Clients -> Requests \cup {None}]
         /\ answers' \subseteq {"add", "remove"} \X Ids \X Statuses
         /\ \A r \in Clients : r # q => request'[r] = request[r]
         /\ request'[q] = None \/
              (/\ request[q] # None /\ request'[q] # None
               /\ request'[q].op = request[q].op /\ request'[q].id = request[q].id
               /\ request'[q].at = "notify")
  <1>0. PICK r \in Requests : r = request[q]
    BY DEF RegistryTypeOK
  <1>1. CASE \E status \in Statuses : Answer(q, status)
    <2>1. PICK status \in Statuses : Answer(q, status)
      BY <1>1
    <2>2. <<r.op, r.id, status>> \in {"add", "remove"} \X Ids \X Statuses
      BY DEF Requests
    <2>3. QED  BY <1>0, <2>1, <2>2 DEF Answer, RegistryTypeOK
  <1>2. CASE Goto(q, "notify")
    <2>1. request'[q] = [r EXCEPT !.at = "notify"] /\ UNCHANGED answers
      BY <1>0, <1>2 DEF Goto, RegistryTypeOK
    <2>2. [r EXCEPT !.at = "notify"] \in Requests
      BY DEF Requests
    <2>3. request' = [request EXCEPT ![q] = request'[q]]
      BY <1>2, <2>1 DEF Goto, RegistryTypeOK
    <2>4. CASE request'[q] = None
      BY <1>0, <2>1, <2>2, <2>3, <2>4 DEF RegistryTypeOK
    <2>5. CASE request'[q] # None
      BY <1>0, <2>1, <2>2, <2>3, <2>5 DEF RegistryTypeOK, Requests
    <2>6. QED  BY <2>4, <2>5
  <1>3. QED  BY <1>1, <1>2

LEMMA Going ==
  ASSUME RegistryTypeOK, NEW q \in Clients, request[q] # None, Goto(q, "notify")
  PROVE  /\ request'[q] # None /\ request'[q].at = "notify" /\ answers' = answers
         /\ request'[q].op = request[q].op /\ request'[q].id = request[q].id
  <1>1. PICK r \in Requests : r = request[q]
    BY DEF RegistryTypeOK
  <1>2. request'[q] = [r EXCEPT !.at = "notify"] /\ UNCHANGED answers
    BY <1>1 DEF Goto, RegistryTypeOK
  <1>3. [r EXCEPT !.at = "notify"] \in Requests
    BY DEF Requests
  <1>4. QED  BY <1>1, <1>2, <1>3, RegistryAssumption DEF RegistryAssumption, Requests

\* What the steps of a handler have in common.
LEMMA HandlerShape ==
  ASSUME RegistryTypeOK, NEW q \in Clients, Handler(q)
  PROVE  /\ request[q] # None
         /\ (\E status \in Statuses : Answer(q, status)) \/ Goto(q, "notify")
         /\ registered' = registered \/ (registered' = Applied(q) /\ request[q].at = "exec")
         /\ UNCHANGED <<drawn, subscribed>>
         /\ note' \in BOOLEAN /\ faults' \in 0..MaxFaults
  <1>0. {400, 404, 500, 201, 204, NoAnswer} \subseteq Statuses
    BY DEF Statuses, NoAnswer
  <1>1. CASE Reject(q)
    BY <1>0, <1>1 DEF Reject, At, RegistryTypeOK
  <1>2. CASE Exec(q)
    BY <1>0, <1>2 DEF Exec, At, RegistryTypeOK
  <1>3. CASE ExecFail(q)
    BY <1>0, <1>3, Counting DEF ExecFail, At, RegistryTypeOK
  <1>4. CASE Notify(q)
    BY <1>0, <1>4 DEF Notify, Deliver, At, RegistryTypeOK
  <1>5. CASE NotifyFail(q)
    BY <1>0, <1>5, Counting DEF NotifyFail, Deliver, At, RegistryTypeOK
  <1>6. CASE Abandon(q)
    BY <1>0, <1>6, Counting DEF Abandon, RegistryTypeOK
  <1>7. QED  BY <1>1, <1>2, <1>3, <1>4, <1>5, <1>6 DEF Handler

LEMMA HandlerSteps ==
  ASSUME RegistryTypeOK, Ours, NEW q \in Clients, Handler(q)
  PROVE  RegistryTypeOK' /\ Ours' /\ Onward
  <1>1. \A id \in registered' : id \in registered \/ (Adds(q, id) /\ request[q].at = "exec")
    BY HandlerShape DEF Applied, Adds
  <1>2. Ours' /\ Onward /\ registered' \subseteq drawn'
    BY <1>1, HandlerShape, Answering, HandlerMoves
  <1>3. RegistryTypeOK'
    BY <1>2, HandlerShape, Answering DEF RegistryTypeOK
  <1>4. QED  BY <1>2, <1>3

\* Every step of the gateway, of Redis, and of the simulator.
LEMMA RegistrySteps ==
  ASSUME RegistryTypeOK, Ours,
         Gateway \/ RedisDies \/
           (/\ UNCHANGED <<registered, drawn, request, answers>>
            /\ note' \in BOOLEAN /\ subscribed' \in BOOLEAN /\ faults' \in 0..MaxFaults)
  PROVE  RegistryTypeOK' /\ Ours' /\ Onward
  <1>1. CASE Gateway
    BY <1>1, RequestComes, HandlerSteps DEF Gateway
  <1>2. CASE UNCHANGED <<drawn, request, answers>> /\ registered' \subseteq registered
             /\ note' \in BOOLEAN /\ subscribed' \in BOOLEAN /\ faults' \in 0..MaxFaults
    <2>1. \A id : (Pending(id)' <=> Pending(id))
      BY <1>2 DEF Pending, Adds
    <2>2. \A id : (Settled(id)' <=> Settled(id))
      BY <1>2, <2>1 DEF Settled
    <2>3. Ours'
      BY <1>2, <2>2 DEF Ours, Adds
    <2>4. Onward
      BY <1>2, <2>2 DEF Onward, Gone
    <2>5. QED  BY <1>2, <2>3, <2>4 DEF RegistryTypeOK
  <1>3. CASE RedisDies
    BY <1>2, <1>3, Counting DEF RedisDies, RegistryTypeOK
  <1>4. QED  BY <1>1, <1>2, <1>3
(***************************************************************************)
(* The process: steps that leave the workers alone                         *)
(***************************************************************************)
LEMMA Standing ==
  ASSUME Inv, Onward, UNCHANGED <<workers, running>>,
         desired' \subseteq desired,
         manager' = "hgetall" => manager = "hgetall" /\ UNCHANGED <<desired, toFetch>>
  PROVE  Manned' /\ Listed'
  <1>1. running \cup desired \subseteq Ids /\ \A w \in workers : w.sensor \in Ids
    BY DEF Inv, TypeOK, Workers
  <1>2. Manned'
    <2>1. \A w \in workers : IF w.on THEN w.sensor \in running
                             ELSE Gone(w.sensor)' /\ w.sensor \notin desired'
      BY <1>1 DEF Inv, Manned, Onward
    <2>2. QED  BY <2>1 DEF Inv, Manned
  <1>3. Listed'
    <2>1. \A id \in running' \cup desired' : Settled(id)'
      BY <1>1 DEF Inv, Listed, Onward
    <2>2. ASSUME manager' = "hgetall", NEW id \in running', id \notin toFetch', id \notin desired'
          PROVE  id \notin registered'
      <3>1. Settled(id) /\ id \notin registered
        BY <2>2 DEF Inv, Listed
      <3>2. QED  BY <1>1, <2>2, <3>1 DEF Onward, Gone
    <2>3. QED  BY <2>1, <2>2 DEF Listed
  <1>4. QED  BY <1>2, <1>3

\* The requests, and Redis.
LEMMA OutsideInv ==
  ASSUME Inv, (Gateway \/ RedisDies) /\ UNCHANGED processVars
  PROVE  Inv'
  <1>1. RegistryTypeOK' /\ Ours' /\ Onward
    BY RegistrySteps DEF Inv, TypeOK
  <1>2. Manned' /\ Listed'
    BY <1>1, Standing DEF processVars
  <1>3. QED  BY <1>1, <1>2 DEF Inv, TypeOK, NothingAfterClose, processVars

\* What the quiet steps of the process have in common.
Quiet ==
  \/ Start \/ Signal \/ Subscribe \/ Disconnect \/ HandleNote \/ WatchReturn
  \/ Poll \/ TakeKick \/ Done \/ WaitReturns \/ ListFail

LEMMA QuietShape ==
  ASSUME TypeOK, Quiet
  PROVE  /\ UNCHANGED <<registered, drawn, request, answers, running, workers, wg>>
         /\ UNCHANGED <<toFetch, desired>> \/ (toFetch' = {} /\ desired' = {} /\ manager' = "select")
         /\ note' \in BOOLEAN /\ subscribed' \in BOOLEAN /\ faults' \in 0..MaxFaults
         /\ stopping' \in BOOLEAN /\ kick' \in BOOLEAN /\ watching' \in BOOLEAN
         /\ manager' \in {"smembers", "select", "wait", manager} \/ (manager' = "closing" /\ wg = 0)
         /\ manager' = "hgetall" => manager = "hgetall"
  <1>1. CASE Start \/ Poll \/ TakeKick \/ Done \/ WaitReturns
    BY <1>1 DEF Start, Poll, TakeKick, Done, WaitReturns, ManagerUnchanged, registryVars, TypeOK,
                RegistryTypeOK
  <1>2. CASE Signal
    BY <1>2, Counting DEF Signal, TypeOK, RegistryTypeOK
  <1>3. CASE Subscribe \/ HandleNote
    BY <1>3 DEF Subscribe, HandleNote, Redis, WatchVars, TypeOK, RegistryTypeOK
  <1>4. CASE Disconnect
    BY <1>4, Counting DEF Disconnect, Redis, WatchVars, TypeOK, RegistryTypeOK
  <1>5. CASE WatchReturn
    BY <1>5, Counting DEF WatchReturn, Failing, Redis, WatchVars, TypeOK, RegistryTypeOK
  <1>6. CASE ListFail
    BY <1>6, Counting DEF ListFail, Failing, Redis, TypeOK, RegistryTypeOK
  <1>7. QED  BY <1>1, <1>2, <1>3, <1>4, <1>5, <1>6 DEF Quiet

LEMMA QuietInv ==
  ASSUME Inv, Quiet
  PROVE  Inv'
  <1>0. TypeOK
    BY DEF Inv
  <1>1. RegistryTypeOK' /\ Ours' /\ Onward
    BY <1>0, QuietShape, RegistrySteps DEF Inv, TypeOK
  <1>2. Manned' /\ Listed'
    BY <1>0, <1>1, QuietShape, Standing
  <1>3. NothingAfterClose'
    <2>1. wg = 0 => workers = {}
      BY FS_EmptySet DEF Inv, TypeOK, Manned
    <2>2. QED  BY <1>0, <2>1, QuietShape DEF Inv, NothingAfterClose
  <1>4. TypeOK'
    BY <1>0, <1>1, QuietShape DEF TypeOK
  <1>5. QED  BY <1>1, <1>2, <1>3, <1>4 DEF Inv

\* The end of the process.
LEMMA ForgetInv ==
  ASSUME Inv, Kill \/ Exit
  PROVE  Inv'
  <1>1. Forget /\ faults' \in 0..MaxFaults
    BY Counting DEF Kill, Exit, Inv, TypeOK, RegistryTypeOK
  <1>2. RegistryTypeOK' /\ Ours' /\ Onward
    BY <1>1, RegistrySteps DEF Forget, Inv, TypeOK
  <1>3. QED
    BY <1>1, <1>2, FS_EmptySet DEF Forget, Inv, TypeOK, Manned, Listed, NothingAfterClose

(***************************************************************************)
(* List                                                                    *)
(***************************************************************************)
LEMMA ListInv ==
  ASSUME Inv, ListIds \/ \E id \in Ids : FetchSensor(id)
  PROVE  Inv'
  <1>1. /\ UNCHANGED registryVars /\ UNCHANGED <<stopping, watching, running, workers, wg, kick>>
        /\ manager' = "hgetall"
    BY DEF ListIds, FetchSensor, ManagerUnchanged
  <1>2. RegistryTypeOK' /\ Ours' /\ Onward
    BY <1>1, RegistrySteps DEF registryVars, Inv, TypeOK, RegistryTypeOK
  <1>3. \A id : (Settled(id)' <=> Settled(id)) /\ (Gone(id)' <=> Gone(id))
    BY <1>1 DEF registryVars, Settled, Pending, Adds, Gone
  <1>4. registered \subseteq Ids /\ \A id \in registered : Settled(id)
    BY DEF Inv, TypeOK, RegistryTypeOK, Ours
  <1>5. \A id \in desired' : id \in desired \/ id \in registered
    BY DEF ListIds, FetchSensor
  <1>6. TypeOK'
    BY <1>1, <1>2, <1>4 DEF ListIds, FetchSensor, Inv, TypeOK
  <1>7. Manned'
    <2>1. \A w \in workers : IF w.on THEN w.sensor \in running
                             ELSE Gone(w.sensor)' /\ w.sensor \notin desired'
      BY <1>3, <1>5 DEF Inv, Manned, Gone
    <2>2. QED  BY <1>1, <2>1 DEF Inv, Manned
  <1>8. Listed'
    <2>1. \A id \in running' \cup desired' : Settled(id)'
      BY <1>1, <1>3, <1>4, <1>5 DEF Inv, Listed
    <2>2. \A id \in running : id \in toFetch' \/ id \in desired' \/ id \notin registered
      BY DEF ListIds, FetchSensor, Inv, Listed
    <2>3. QED  BY <1>1, <2>1, <2>2 DEF Listed, registryVars
  <1>9. QED  BY <1>1, <1>2, <1>6, <1>7, <1>8 DEF Inv, NothingAfterClose
(***************************************************************************)
(* The diff                                                                *)
(***************************************************************************)
Told(w) == [w EXCEPT !.on = @ /\ w.sensor \notin ToStop]
Old == {Told(w) : w \in workers}
New == {Started(id) : id \in ToStart}

LEMMA OldOnes ==
  ASSUME Inv
  PROVE  /\ Old \subseteq Workers /\ IsFiniteSet(Old) /\ Cardinality(Old) = Cardinality(workers)
         /\ \A w \in workers : /\ Told(w).sensor = w.sensor
                               /\ Told(w).on <=> (w.on /\ w.sensor \notin ToStop)
  <1>1. \A w \in workers : /\ Told(w) \in Workers /\ Told(w).sensor = w.sensor
                           /\ Told(w).on = (w.on /\ w.sensor \notin ToStop)
    BY DEF Inv, TypeOK, Workers, Told
  <1> DEFINE f == [w \in workers |-> Told(w)]
  <1>2. f \in Surjection(workers, Old)
    BY DEF Surjection, Old
  <1>3. f \in Injection(workers, Old)
    <2>1. f \in [workers -> Old]
      BY DEF Old
    <2>2. \A v, w \in workers : f[v] = f[w] => v = w
      BY <1>1 DEF Inv, Manned
    <2>3. QED  BY <2>1, <2>2 DEF Injection, IsInjective
  <1>4. IsFiniteSet(Old) /\ Cardinality(Old) = Cardinality(workers)
    BY <1>2, <1>3, FS_Surjection DEF Inv, Manned
  <1>5. QED  BY <1>1, <1>4 DEF Old

LEMMA NewOnes ==
  ASSUME Inv
  PROVE  /\ New \subseteq Workers /\ IsFiniteSet(New) /\ Cardinality(New) = Cardinality(ToStart)
         /\ \A id \in ToStart : Started(id).sensor = id /\ Started(id).on
  <1>1. ToStart \subseteq Ids /\ IsFiniteSet(ToStart)
    <2>1. ToStart \in SUBSET Ids
      BY DEF Inv, TypeOK, ToStart
    <2>2. QED  BY <2>1, RegistryAssumption, FS_Subset DEF RegistryAssumption
  <1>2. ASSUME NEW id \in ToStart
        PROVE  Started(id) \in Workers /\ Started(id).sensor = id /\ Started(id).on
    <2>1. Cardinality({w \in workers : w.sensor = id}) \in Nat
      <3>1. {w \in workers : w.sensor = id} \in SUBSET workers
        OBVIOUS
      <3>2. QED  BY <3>1, FS_Subset, FS_CardinalityType DEF Inv, Manned
    <2>2. QED  BY <1>1, <2>1 DEF Started, Worker, Workers
  <1> DEFINE g == [id \in ToStart |-> Started(id)]
  <1>3. g \in Surjection(ToStart, New)
    BY DEF Surjection, New
  <1>4. g \in Injection(ToStart, New)
    <2>1. g \in [ToStart -> New]
      BY DEF New
    <2>2. \A i, j \in ToStart : g[i] = g[j] => i = j
      BY <1>2
    <2>3. QED  BY <2>1, <2>2 DEF Injection, IsInjective
  <1>5. IsFiniteSet(New) /\ Cardinality(New) = Cardinality(ToStart)
    BY <1>1, <1>3, <1>4, FS_Surjection
  <1>6. QED  BY <1>2, <1>5 DEF New

\* No sensor that is started has a goroutine, not even one on its way out.
LEMMA Apart ==
  ASSUME Inv
  PROVE  \A w \in workers : w.sensor \notin ToStart
  BY DEF Inv, Manned, ToStart

LEMMA DiffInv ==
  ASSUME Inv, Diff
  PROVE  Inv'
  <1>0. /\ UNCHANGED registryVars /\ UNCHANGED <<stopping, watching, toFetch, kick>>
        /\ manager = "hgetall" /\ toFetch = {} /\ manager' = "select" /\ desired' = {}
        /\ running' = (running \cup ToStart) \ ToStop
        /\ workers' = Old \cup New /\ wg' = wg + Cardinality(ToStart)
    BY DEF Diff, ManagerUnchanged, CountUp, Old, New, Told
  <1>1. RegistryTypeOK' /\ Ours' /\ Onward
    BY <1>0, RegistrySteps DEF registryVars, Inv, TypeOK, RegistryTypeOK
  <1>2. \A id : (Settled(id)' <=> Settled(id)) /\ (Gone(id)' <=> Gone(id))
    BY <1>0 DEF registryVars, Settled, Pending, Adds, Gone
  <1>3. Old \cap New = {}
    <2>1. \A v \in Old : v.sensor \notin ToStart
      BY OldOnes, Apart DEF Old
    <2>2. \A w \in New : w.sensor \in ToStart
      BY NewOnes DEF New
    <2>3. QED  BY <2>1, <2>2
  <1>4. IsFiniteSet(workers') /\ wg' = Cardinality(workers')
    <2>1. /\ IsFiniteSet(Old \cup New)
          /\ Cardinality(Old \cup New) = Cardinality(Old) + Cardinality(New) - Cardinality(Old \cap New)
      BY OldOnes, NewOnes, FS_Union
    <2>2. Cardinality(Old \cap New) = 0
      BY <1>3, FS_EmptySet
    <2>3. Cardinality(Old) \in Nat /\ Cardinality(New) \in Nat
      BY OldOnes, NewOnes, FS_CardinalityType
    <2>4. QED  BY <1>0, <2>1, <2>2, <2>3, OldOnes, NewOnes DEF Inv, TypeOK
  <1>5. TypeOK'
    BY <1>0, <1>1, <1>4, OldOnes, NewOnes DEF Inv, TypeOK, ToStart
  <1>6. \A v, w \in workers' : v.sensor = w.sensor => v = w
    <2> SUFFICES ASSUME NEW v \in Old \cup New, NEW w \in Old \cup New, v.sensor = w.sensor
                 PROVE  v = w
      BY <1>0
    <2>1. CASE v \in Old /\ w \in Old
      BY <2>1, OldOnes DEF Old, Inv, Manned
    <2>2. CASE v \in New /\ w \in New
      BY <2>2, NewOnes DEF New
    <2>3. CASE (v \in Old /\ w \in New) \/ (v \in New /\ w \in Old)
      BY <2>3, OldOnes, NewOnes, Apart DEF Old, New
    <2>4. QED  BY <2>1, <2>2, <2>3
  <1>7. \A id \in ToStop : Gone(id)
    BY <1>0 DEF ToStop, Inv, Listed, Gone
  <1>8. ASSUME NEW w \in workers'
        PROVE  IF w.on THEN w.sensor \in running' ELSE Gone(w.sensor)' /\ w.sensor \notin desired'
    <2>1. CASE w \in Old
      <3>1. PICK v \in workers : w = Told(v)
        BY <2>1 DEF Old
      <3>2. w.sensor = v.sensor /\ (w.on <=> (v.on /\ v.sensor \notin ToStop))
        BY <3>1, OldOnes
      <3>3. CASE w.on
        BY <1>0, <3>2, <3>3 DEF Inv, Manned
      <3>4. CASE ~w.on
        BY <1>0, <1>2, <1>7, <3>2, <3>4 DEF Inv, Manned
      <3>5. QED  BY <3>3, <3>4
    <2>2. CASE w \in New
      BY <1>0, <2>2, NewOnes DEF New, ToStart, ToStop
    <2>3. QED  BY <1>0, <2>1, <2>2
  <1>9. Listed'
    BY <1>0, <1>2 DEF Inv, Listed, ToStart
  <1>10. QED
    BY <1>0, <1>1, <1>4, <1>5, <1>6, <1>8, <1>9 DEF Inv, Manned, NothingAfterClose

(***************************************************************************)
(* The workers                                                             *)
(***************************************************************************)
LEMMA SensorInv ==
  ASSUME Inv, NEW w \in workers, Sensor(w)
  PROVE  Inv'
  <1>0. /\ UNCHANGED registryVars
        /\ UNCHANGED <<manager, stopping, toFetch, desired, running, kick, watching>>
        /\ \/ Returns(w)
           \/ \E place \in {"select", "publish"} : Moves(w, place)
    BY DEF Sensor, Begin, Emit, PublishReturns, PublishCancelled, SelectDone, Moves, Returns,
           WorkerUnchanged
  <1>1. RegistryTypeOK' /\ Ours' /\ Onward
    BY <1>0, RegistrySteps DEF registryVars, Inv, TypeOK, RegistryTypeOK
  <1>2. \A id : (Settled(id)' <=> Settled(id)) /\ (Gone(id)' <=> Gone(id))
    BY <1>0 DEF registryVars, Settled, Pending, Adds, Gone
  <1>3. IsFiniteSet(workers) /\ Cardinality(workers) \in Nat /\ wg = Cardinality(workers)
    BY FS_CardinalityType DEF Inv, Manned, TypeOK
  <1>4. IsFiniteSet(workers \ {w}) /\ Cardinality(workers \ {w}) = Cardinality(workers) - 1
    BY <1>3, FS_RemoveElement
  <1>5. Listed'
    BY <1>0, <1>2 DEF Inv, Listed, registryVars
  <1>6. CASE Returns(w)
    <2>1. workers' = workers \ {w} /\ wg' = wg - 1
      BY <1>6 DEF Returns
    <2>2. QED
      BY <1>0, <1>1, <1>2, <1>3, <1>4, <1>5, <2>1 DEF Inv, TypeOK, Manned, NothingAfterClose
  <1>7. ASSUME NEW place \in {"select", "publish"}, Moves(w, place) PROVE Inv'
    <2> DEFINE v == [w EXCEPT !.at = place]
    <2>1. workers' = (workers \ {w}) \cup {v} /\ wg' = wg
      BY <1>7 DEF Moves
    <2>2. v \in Workers /\ v.sensor = w.sensor /\ v.on = w.on
      BY DEF Inv, TypeOK, Workers
    <2>3. v \notin workers \ {w}
      BY <2>2 DEF Inv, Manned
    <2>4. IsFiniteSet(workers') /\ Cardinality(workers') = Cardinality(workers)
      BY <1>3, <1>4, <2>1, <2>3, FS_AddElement
    <2>5. TypeOK'
      BY <1>0, <1>1, <1>3, <2>1, <2>2, <2>4 DEF Inv, TypeOK
    <2>6. Manned'
      BY <1>0, <1>2, <2>1, <2>2, <2>4 DEF Inv, Manned
    <2>7. NothingAfterClose'
      BY <1>0 DEF Inv, NothingAfterClose
    <2>8. QED  BY <1>1, <1>5, <2>5, <2>6, <2>7 DEF Inv
  <1>8. QED  BY <1>0, <1>6, <1>7

(***************************************************************************)
(* The invariant, and what follows from it                                 *)
(***************************************************************************)
LEMMA InitInv == Init => Inv
  <1> SUFFICES ASSUME Init PROVE Inv
    OBVIOUS
  <1>1. RegistryTypeOK
    <2>1. /\ registered \subseteq drawn /\ drawn \subseteq Ids
          /\ request \in [Clients -> Requests \cup {None}]
          /\ answers \subseteq {"add", "remove"} \X Ids \X Statuses
      BY DEF Init, RegistryInit
    <2>2. note \in BOOLEAN /\ subscribed \in BOOLEAN
      BY DEF Init, RegistryInit
    <2>3. faults \in 0..MaxFaults
      BY RegistryAssumption DEF RegistryAssumption, Init, RegistryInit
    <2>4. QED  BY <2>1, <2>2, <2>3 DEF RegistryTypeOK
  <1>2. TypeOK
    BY <1>1, FS_EmptySet DEF Init, TypeOK
  <1>3. Ours
    BY DEF Init, RegistryInit, Ours, Adds
  <1>4. QED
    BY <1>2, <1>3, FS_EmptySet DEF Init, Inv, Manned, Listed, NothingAfterClose

LEMMA StepInv == Inv /\ [Next]_vars => Inv'
  <1> SUFFICES ASSUME Inv, [Next]_vars PROVE Inv'
    OBVIOUS
  <1>1. CASE UNCHANGED vars
    BY <1>1 DEF vars, registryVars, processVars, Inv, TypeOK, RegistryTypeOK, Ours, Manned, Listed,
                NothingAfterClose, Settled, Gone, Pending, Adds
  <1>2. CASE (Gateway \/ RedisDies) /\ UNCHANGED processVars
    BY <1>2, OutsideInv
  <1>3. CASE Simulator
    <2>1. \/ Quiet \/ Kill \/ Exit \/ Diff
          \/ ListIds \/ (\E id \in Ids : FetchSensor(id))
          \/ \E w \in workers : Sensor(w)
      BY <1>3 DEF Simulator, Quiet
    <2>2. QED  BY <2>1, QuietInv, ForgetInv, DiffInv, ListInv, SensorInv
  <1>4. QED  BY <1>1, <1>2, <1>3 DEF Next

\* Every behaviour keeps the inductive invariant (Registry, Fleet).
THEOREM Invariance == Spec => []Inv
  <1>1. QED  BY InitInv, StepInv, PTL DEF Spec

\* The states are well-typed, and the WaitGroup counts the goroutines there are
\* (manager.go).
THEOREM TypeCorrect == Spec => []TypeOK
  <1>1. Inv => TypeOK
    BY DEF Inv
  <1>2. QED  BY <1>1, Invariance, PTL

\* No sensor has two goroutines that have not been told to stop (reconcile and start,
\* manager.go).
THEOREM OneWorkerEach == Spec => []OneWorkerPerSensor
  <1>1. Inv => OneWorkerPerSensor
    BY DEF Inv, Manned, OneWorkerPerSensor
  <1>2. QED  BY <1>1, Invariance, PTL

\* When main closes the producer every worker has returned (Manager.Run's Wait).
THEOREM ClosedLast == Spec => []NothingAfterClose
  <1>1. Inv => NothingAfterClose
    BY DEF Inv
  <1>2. QED  BY <1>1, Invariance, PTL

\* A sensor loses its worker only when it is gone from the registry, or with the
\* process (reconcile, manager.go).
THEOREM RegisteredKept == Spec => KeepsRegistered
  <1>1. Inv /\ [Next]_vars => [\A id \in running \ running' : id \notin registered \/ manager' = "down"]_vars
    <2> SUFFICES ASSUME Inv, Next, NEW id \in running, id \notin running'
                 PROVE  id \notin registered \/ manager' = "down"
      OBVIOUS
    <2>1. CASE Diff
      BY <2>1 DEF Diff, ToStop, ToStart, Inv, Listed
    <2>2. CASE Kill \/ Exit
      BY <2>2 DEF Kill, Exit, Forget
    <2>3. CASE Quiet
      BY <2>3, QuietShape DEF Inv
    <2>4. CASE ListIds \/ \E i \in Ids : FetchSensor(i)
      BY <2>4 DEF ListIds, FetchSensor
    <2>5. CASE \E w \in workers : Sensor(w)
      BY <2>5 DEF Sensor, Begin, Emit, PublishReturns, PublishCancelled, SelectDone, Moves, Returns,
                  WorkerUnchanged
    <2>6. CASE UNCHANGED processVars
      BY <2>6 DEF processVars
    <2>7. QED  BY <2>1, <2>2, <2>3, <2>4, <2>5, <2>6 DEF Next, Simulator, Quiet
  <1>2. QED  BY <1>1, Invariance, PTL DEF Spec, KeepsRegistered

(***************************************************************************)
(* The answers                                                             *)
(***************************************************************************)
LEMMA DeletedStays ==
  ASSUME RegistryTypeOK, NEW q \in Clients,
         Handler(q) \/ \E id \in Ids : Post(q, id) \/ Delete(q, id),
         NEW id \in Ids, Deleted(id)
  PROVE  Deleted(id)'
  <1>1. CASE \E j \in Ids : Post(q, j) \/ Delete(q, j)
    BY <1>1 DEF Post, Delete, Accept, RegistryTypeOK, Deleted
  <1>2. CASE Handler(q)
    <2>1. answers \subseteq answers'
      BY <1>2, HandlerShape DEF Answer, Goto
    <2>2. \A r \in Clients : r # q => request'[r] = request[r]
      BY <1>2, HandlerShape, Answering
    <2>3. CASE request[q].op = "remove" /\ request[q].id = id
      <3>1. CASE Goto(q, "notify")
        BY <1>2, <2>3, <3>1, HandlerShape, Going DEF Deleted
      <3>2. CASE \E status \in Statuses : Answer(q, status)
        BY <2>3, <3>2 DEF Deleted, Answer
      <3>3. QED  BY <1>2, <3>1, <3>2, HandlerShape
    <2>4. CASE ~(request[q].op = "remove" /\ request[q].id = id)
      BY <2>1, <2>2, <2>4 DEF Deleted
    <2>5. QED  BY <2>3, <2>4
  <1>3. QED  BY <1>1, <1>2

LEMMA KeptByHandler ==
  ASSUME Inv, Kept, NEW q \in Clients, Handler(q)
  PROVE  Kept'
  <1>0. RegistryTypeOK /\ Ours
    BY DEF Inv, TypeOK
  <1>1. Onward
    BY <1>0, HandlerSteps
  <1>2. /\ request[q] # None /\ request[q] \in Requests
        /\ \A r \in Clients : r # q => request'[r] = request[r]
    BY <1>0, HandlerShape, Answering DEF RegistryTypeOK
  <1>3. ASSUME NEW id \in Ids, id \in registered \/ Deleted(id)
        PROVE  id \in registered' \/ Deleted(id)'
    <2>1. CASE Deleted(id)
      BY <1>0, <2>1, DeletedStays
    <2>2. CASE id \in registered /\ id \notin registered'
      <3>1. request[q].op = "remove" /\ request[q].id = id
        BY <1>0, <1>2, <2>2, HandlerShape DEF Applied, Requests
      <3>2. Deleted(id)
        BY <1>2, <3>1 DEF Deleted
      <3>3. QED  BY <1>0, <3>2, DeletedStays
    <2>3. QED  BY <1>3, <2>1, <2>2
  <1>4. ASSUME NEW r \in Clients, r # q, NEW op, NEW id \in Ids, Wrote(r, op, id)'
        PROVE  Wrote(r, op, id)
    BY <1>2, <1>4 DEF Wrote, At
  <1>5. CASE Goto(q, "notify") /\ Exec(q)
    <2>1. /\ request'[q] # None /\ request'[q].at = "notify" /\ answers' = answers
          /\ request'[q].op = request[q].op /\ request'[q].id = request[q].id
          /\ registered' = Applied(q)
      BY <1>0, <1>2, <1>5, Going DEF Exec
    <2>2. ASSUME NEW id \in Ids, Wrote(q, "remove", id)' PROVE Gone(id)'
      <3>1. request[q].op = "remove" /\ request[q].id = id
        BY <2>1, <2>2 DEF Wrote, At
      <3>2. id \in registered
        <4> SUFFICES ASSUME id \notin registered PROVE FALSE
          OBVIOUS
        <4>1. Answer(q, 404)
          BY <1>5, <3>1 DEF Exec
        <4>2. request'[q] = None
          BY <1>0, <4>1 DEF Answer, RegistryTypeOK
        <4>3. QED  BY <2>1, <4>2
      <3>3. Settled(id)'
        BY <1>0, <1>1, <3>2 DEF Ours, Onward
      <3>4. id \notin registered'
        BY <2>1, <3>1 DEF Applied
      <3>5. QED  BY <3>3, <3>4 DEF Gone
    <2>3. ASSUME NEW id \in Ids, Wrote(q, "add", id)' PROVE id \in registered'
      BY <2>1, <2>3 DEF Wrote, At, Applied
    <2>4. QED
      BY <1>1, <1>3, <1>4, <2>1, <2>2, <2>3 DEF Kept, Onward
  <1>6. ASSUME NEW status \in Statuses, Answer(q, status),
               status = 201 => At(q, "add", "notify"),
               status = 204 => At(q, "remove", "notify")
        PROVE  Kept'
    <2>1. /\ answers' = answers \cup {<<request[q].op, request[q].id, status>>}
          /\ request'[q] = None
      BY <1>0, <1>6 DEF Answer, RegistryTypeOK
    <2>2. ASSUME NEW op, NEW id \in Ids PROVE ~Wrote(q, op, id)'
      BY <2>1 DEF Wrote, At
    <2>3. ASSUME NEW id \in Ids, <<"remove", id, 204>> \in answers' PROVE Gone(id)'
      <3>1. <<"remove", id, 204>> \in answers \/ Wrote(q, "remove", id)
        BY <1>6, <2>1, <2>3 DEF Wrote, At
      <3>2. QED  BY <1>1, <3>1 DEF Kept, Onward
    <2>4. ASSUME NEW id \in Ids, <<"add", id, 201>> \in answers'
          PROVE  id \in registered' \/ Deleted(id)'
      <3>1. <<"add", id, 201>> \in answers \/ Wrote(q, "add", id)
        BY <1>6, <2>1, <2>4 DEF Wrote, At
      <3>2. QED  BY <1>3, <3>1 DEF Kept
    <2>5. QED  BY <1>1, <1>3, <1>4, <2>2, <2>3, <2>4 DEF Kept, Onward
  <1>7. {400, 404, 500, 201, 204, NoAnswer} \subseteq Statuses /\ NoAnswer = 0
    BY DEF Statuses, NoAnswer
  <1>8. CASE Exec(q)
    BY <1>5, <1>6, <1>7, <1>8 DEF Exec
  <1>9. CASE Reject(q) \/ ExecFail(q) \/ NotifyFail(q) \/ Abandon(q)
    BY <1>6, <1>7, <1>9 DEF Reject, ExecFail, NotifyFail, Abandon
  <1>10. CASE Notify(q)
    BY <1>6, <1>7, <1>10 DEF Notify
  <1>11. QED  BY <1>8, <1>9, <1>10 DEF Handler

LEMMA KeptByRequest ==
  ASSUME Inv, Kept, NEW q \in Clients, NEW i \in Ids, Post(q, i) \/ Delete(q, i)
  PROVE  Kept'
  <1>0. RegistryTypeOK /\ Ours
    BY DEF Inv, TypeOK
  <1>1. Onward
    BY <1>0, RequestComes
  <1>2. /\ UNCHANGED <<registered, answers>> /\ request'[q].at = "exec"
        /\ \A r \in Clients : r # q => request'[r] = request[r]
    BY <1>0 DEF Post, Delete, Accept, RegistryTypeOK
  <1>3. ASSUME NEW r \in Clients, NEW op, NEW id \in Ids, Wrote(r, op, id)'
        PROVE  Wrote(r, op, id)
    BY <1>2, <1>3 DEF Wrote, At
  <1>4. \A id \in Ids : Deleted(id) => Deleted(id)'
    BY <1>0, DeletedStays
  <1>5. QED  BY <1>1, <1>2, <1>3, <1>4 DEF Kept, Onward

\* While Redis keeps its data a sensor answered 201 is stored until a DELETE is sent,
\* and one answered 204 never comes back (sensors.go, registry.go).
THEOREM AnswersStand == ASSUME "wipe" \notin FaultKinds PROVE Spec => []AnswersHold
  <1>1. Init => Kept
    BY DEF Init, RegistryInit, Kept, Wrote, At
  <1>2. Inv /\ Kept /\ [Next]_vars => Kept'
    <2> SUFFICES ASSUME Inv, Kept, [Next]_vars PROVE Kept'
      OBVIOUS
    <2>1. CASE Gateway
      BY <2>1, KeptByRequest, KeptByHandler DEF Gateway
    <2>2. CASE UNCHANGED <<registered, drawn, request, answers>>
      BY <2>2 DEF Kept, Wrote, At, Gone, Settled, Pending, Adds, Deleted
    <2>3. CASE RedisDies
      BY <2>3 DEF RedisDies, Fault
    <2>4. CASE Simulator
      <3>1. Quiet => UNCHANGED <<registered, drawn, request, answers>>
        BY QuietShape DEF Inv
      <3>2. Kill \/ Exit => UNCHANGED <<registered, drawn, request, answers>>
        BY DEF Kill, Exit, Forget
      <3>3. Diff \/ ListIds \/ (\E id \in Ids : FetchSensor(id))
              => UNCHANGED <<registered, drawn, request, answers>>
        BY DEF Diff, ListIds, FetchSensor, ManagerUnchanged, registryVars
      <3>4. (\E w \in workers : Sensor(w)) => UNCHANGED <<registered, drawn, request, answers>>
        BY DEF Sensor, Begin, Emit, PublishReturns, PublishCancelled, SelectDone, Moves, Returns,
               WorkerUnchanged, registryVars
      <3>5. QED  BY <2>2, <2>4, <3>1, <3>2, <3>3, <3>4 DEF Simulator, Quiet
    <2>5. QED  BY <2>1, <2>2, <2>3, <2>4 DEF Next, vars, registryVars
  <1>3. Inv /\ Kept => AnswersHold
    BY DEF Inv, TypeOK, RegistryTypeOK, Kept, AnswersHold, Gone
  <1>4. QED  BY <1>1, <1>2, <1>3, Invariance, PTL DEF Spec
=============================================================================

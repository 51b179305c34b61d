------------------------------- MODULE Registry -------------------------------
(***************************************************************************)
(* The sensor registry (pkg/registry) as the sensor-gateway's handlers use *)
(* it: POST and DELETE each write to Redis in one transaction and then     *)
(* publish a notification, two calls of which either may fail.             *)
(*                                                                         *)
(* Redis is modelled from that use: the hash of a sensor and its entry in  *)
(* the index are one element of "registered", because both are written in  *)
(* one MULTI/EXEC; a notification reaches the subscriber only while it is  *)
(* subscribed.  newSensorID draws 32 random bits; they are taken to be     *)
(* fresh.  A sensor is never changed, so its id stands for it.             *)
(***************************************************************************)
EXTENDS Integers, FiniteSets

CONSTANTS
  Ids,         \* the ids newSensorID may draw
  Clients,     \* the requests in progress at one time
  None,        \* no request
  FaultKinds,  \* which of "redis", "notify", "crash" and "wipe" may happen
  MaxFaults    \* bound: faults in a behaviour

Requests == [op : {"add", "remove"}, id : Ids, at : {"exec", "notify"}]

ASSUME RegistryAssumption ==
  /\ IsFiniteSet(Ids)
  /\ None \notin Requests
  /\ FaultKinds \subseteq {"redis", "notify", "crash", "wipe"}
  /\ MaxFaults \in Nat

VARIABLES
  registered,  \* the sensors stored
  drawn,       \* the ids newSensorID has returned
  request,     \* request[q]: what a handler is doing
  answers,     \* every answer given, as <<op, id, status>>
  note,        \* a notification the subscriber has received and not yet handled
  subscribed,  \* the simulator's subscription stands
  faults       \* faults spent

registryVars == <<registered, drawn, request, answers, note, subscribed, faults>>

NoAnswer == 0
Statuses == {201, 204, 400, 404, 500, NoAnswer}

RegistryTypeOK ==
  /\ registered \subseteq drawn
  /\ drawn \subseteq Ids
  /\ request \in [Clients -> Requests \cup {None}]
  /\ answers \subseteq {"add", "remove"} \X Ids \X Statuses
  /\ note \in BOOLEAN
  /\ subscribed \in BOOLEAN
  /\ faults \in 0..MaxFaults

RegistryInit ==
  /\ registered = {}
  /\ drawn = {}
  /\ request = [q \in Clients |-> None]
  /\ answers = {}
  /\ note = FALSE
  /\ subscribed = FALSE
  /\ faults = 0

Fault(kind) == kind \in FaultKinds /\ faults < MaxFaults /\ faults' = faults + 1

At(q, op, step) == request[q] # None /\ request[q].op = op /\ request[q].at = step

Answer(q, status) ==
  /\ answers' = answers \cup {<<request[q].op, request[q].id, status>>}
  /\ request' = [request EXCEPT ![q] = None]

Goto(q, step) ==
  /\ request' = [request EXCEPT ![q].at = step]
  /\ UNCHANGED answers

Accept(q, op, id) == request' = [request EXCEPT ![q] = [op |-> op, id |-> id, at |-> "exec"]]

(***************************************************************************)
(* The requests                                                            *)
(***************************************************************************)
Post(q, id) ==
  /\ request[q] = None
  /\ id \notin drawn
  /\ drawn' = drawn \cup {id}
  /\ Accept(q, "add", id)
  /\ UNCHANGED <<registered, answers, note, subscribed, faults>>

Delete(q, id) ==
  /\ request[q] = None
  /\ Accept(q, "remove", id)
  /\ UNCHANGED <<registered, drawn, answers, note, subscribed, faults>>

\* Add validates before it touches Redis.
Reject(q) ==
  /\ At(q, "add", "exec")
  /\ Answer(q, 400)
  /\ UNCHANGED <<registered, drawn, note, subscribed, faults>>

\* What the transaction of q makes of the registry.
Applied(q) ==
  IF request[q].op = "add" THEN registered \cup {request[q].id}
                           ELSE registered \ {request[q].id}

\* DEL counts the keys it deleted: none means there is nothing to notify.
Exec(q) ==
  /\ At(q, "add", "exec") \/ At(q, "remove", "exec")
  /\ registered' = Applied(q)
  /\ IF request[q].op = "remove" /\ request[q].id \notin registered
     THEN Answer(q, 404)
     ELSE Goto(q, "notify")
  /\ UNCHANGED <<drawn, note, subscribed, faults>>

ExecFailSwallowed(q) ==                 \* variant: the error is not returned
  /\ At(q, "add", "exec") \/ At(q, "remove", "exec")
  /\ Fault("redis")
  /\ registered' \in {registered, Applied(q)}
  /\ Goto(q, "notify")
  /\ UNCHANGED <<drawn, note, subscribed>>

\* The transaction fails, or its reply is lost.
ExecFail(q) ==
  /\ At(q, "add", "exec") \/ At(q, "remove", "exec")
  /\ Fault("redis")
  /\ registered' \in {registered, Applied(q)}
  /\ Answer(q, 500)
  /\ UNCHANGED <<drawn, note, subscribed>>

\* PUBLISH reaches the subscriber there is.
Deliver == note' = (note \/ subscribed)

Notify(q) ==
  /\ \/ At(q, "add", "notify") /\ Answer(q, 201)
     \/ At(q, "remove", "notify") /\ Answer(q, 204)
  /\ Deliver
  /\ UNCHANGED <<registered, drawn, subscribed, faults>>

\* Publish returns an error after the write: so do Add and Remove.
NotifyFail(q) ==
  /\ At(q, "add", "notify") \/ At(q, "remove", "notify")
  /\ Fault("notify")
  /\ Deliver \/ UNCHANGED note
  /\ Answer(q, 500)
  /\ UNCHANGED <<registered, drawn, subscribed>>

\* The gateway dies, or its client goes away, between two steps of the handler.
Abandon(q) ==
  /\ request[q] # None
  /\ Fault("crash")
  /\ Answer(q, NoAnswer)
  /\ UNCHANGED <<registered, drawn, note, subscribed>>

Handler(q) ==
  \/ Reject(q) \/ Exec(q) \/ ExecFail(q)
  \/ Notify(q) \/ NotifyFail(q) \/ Abandon(q)

Gateway ==
  \E q \in Clients :
    \/ \E id \in Ids : Post(q, id) \/ Delete(q, id)
    \/ Handler(q)

\* Redis "runs without persistence guarantees" (sensor.go): when it dies the sensors
\* are gone, and the subscription.
RedisDies ==
  /\ Fault("wipe")
  /\ registered' = {}
  /\ subscribed' = FALSE
  /\ UNCHANGED <<drawn, request, answers, note>>

(***************************************************************************)
(* Properties                                                              *)
(***************************************************************************)

\* While Redis keeps its data the API's answers can be relied on, whatever else fails
\* and whoever else writes: a sensor answered 201 is stored until a DELETE for it has
\* been sent, and one answered 204 is gone for good.
Deleted(id) ==
  \/ \E status \in Statuses : <<"remove", id, status>> \in answers
  \/ \E q \in Clients : request[q] # None /\ request[q].op = "remove" /\ request[q].id = id
AnswersHold ==
  \A id \in Ids :
    /\ <<"add", id, 201>> \in answers => id \in registered \/ Deleted(id)
    /\ <<"remove", id, 204>> \in answers => id \notin registered

\* A sensor that is stored is one its client was told of, or is about to be: a
\* failed notification "only costs latency" (registry.go).
NoOrphans ==
  \A id \in registered :
    \/ <<"add", id, 201>> \in answers
    \/ \E q \in Clients : request[q] # None /\ request[q].op = "add" /\ request[q].id = id
=============================================================================

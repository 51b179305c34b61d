---------------------------- MODULE NotifierProofs ----------------------------
(***************************************************************************)
(* Proofs about Notifier and the Hub in it, for any browsers, buffers,     *)
(* partitions, aggregates and faults.                                      *)
(***************************************************************************)
EXTENDS Notifier, FiniteSetTheorems, TLAPS

(***************************************************************************)
(* The hub's invariant.  A client is in the map exactly while its handler  *)
(* runs, and the mutex keeps the clients of a broadcast in the map.  What  *)
(* a client got, is being written and has yet to get goes up, and stays    *)
(* below the number of the broadcast that has yet to reach it.             *)
(***************************************************************************)
Rising(s) == \A i, j \in DOMAIN s : i < j => s[i] < s[j]

\* All the messages of one come before all the messages of the other.
Below(s, t) == \A i \in DOMAIN s : \A j \in DOMAIN t : s[i] < t[j]

\* A message number above which there is nothing yet.
Top(c) == IF c \in casting THEN broadcasts - 1 ELSE broadcasts

Flow(c) ==
  /\ queue[c] \in Seq(Messages) /\ Len(queue[c]) <= Buffer
  /\ received[c] \in Seq(Messages)
  /\ Rising(received[c]) /\ Rising(queue[c]) /\ Below(received[c], queue[c])
  /\ \A i \in DOMAIN received[c] : received[c][i] <= Top(c)
  /\ \A i \in DOMAIN queue[c] : queue[c][i] <= Top(c)
  /\ writing[c] <= Top(c)
  /\ handler[c] = "write" => writing[c] # 0
  /\ handler[c] \in {"none", "select"} => writing[c] = 0
  /\ writing[c] # 0 => Below(received[c], <<writing[c]>>) /\ Below(<<writing[c]>>, queue[c])

HubInv ==
  /\ TypeOK
  /\ DOMAIN queue = Clients /\ DOMAIN received = Clients
  /\ casting \subseteq clients
  /\ \A c \in clients : handler[c] \in {"select", "write", "return"}
  /\ broadcasts = 0 => casting = {}
  /\ \A c \in Clients : Flow(c)

(***************************************************************************)
(* Sequences                                                               *)
(***************************************************************************)
LEMMA Appending ==
  ASSUME NEW S, NEW s \in Seq(S), NEW x \in S
  PROVE  /\ Append(s, x) \in Seq(S)
         /\ DOMAIN s = 1..Len(s) /\ Len(s) \in Nat
         /\ Len(Append(s, x)) = Len(s) + 1
         /\ DOMAIN Append(s, x) = 1..(Len(s) + 1)
         /\ \A i \in 1..Len(s) : Append(s, x)[i] = s[i]
         /\ Append(s, x)[Len(s) + 1] = x
  OBVIOUS

LEMMA Taking ==
  ASSUME NEW S, NEW s \in Seq(S), s # <<>>
  PROVE  /\ Head(s) \in S /\ Head(s) = s[1] /\ 1 \in DOMAIN s
         /\ Tail(s) \in Seq(S) /\ Len(s) \in Nat /\ Len(Tail(s)) = Len(s) - 1
         /\ \A i \in DOMAIN Tail(s) : i + 1 \in DOMAIN s /\ 1 < i + 1 /\ Tail(s)[i] = s[i + 1]
  OBVIOUS

LEMMA MessageNumbers == Messages \subseteq Nat \ {0} /\ MaxMessages \in Nat /\ Buffer \in Nat \ {0}
  BY HubAssumption DEF HubAssumption, Messages

LEMMA Numbered ==
  ASSUME NEW s \in Seq(Messages)
  PROVE  \A i \in DOMAIN s : s[i] \in Messages /\ s[i] \in Nat
  <1>1. \A i \in DOMAIN s : s[i] \in Messages
    OBVIOUS
  <1>2. QED  BY <1>1, MessageNumbers

\* A number above all the others can go to the end.
LEMMA RisesOn ==
  ASSUME NEW s \in Seq(Messages), NEW x \in Messages, Rising(s), \A i \in DOMAIN s : s[i] < x
  PROVE  Rising(Append(s, x))
  <1> DEFINE t == Append(s, x)
  <1>1. /\ DOMAIN s = 1..Len(s) /\ Len(s) \in Nat /\ DOMAIN t = 1..(Len(s) + 1)
        /\ \A i \in 1..Len(s) : t[i] = s[i]
        /\ t[Len(s) + 1] = x
    BY Appending
  <1> HIDE DEF t
  <1>2. ASSUME NEW i \in DOMAIN t, NEW j \in DOMAIN t, i < j PROVE t[i] < t[j]
    <2>1. i \in 1..Len(s) /\ t[i] = s[i] /\ i \in DOMAIN s
      BY <1>1, <1>2
    <2>2. CASE j = Len(s) + 1
      BY <1>1, <2>1, <2>2
    <2>3. CASE j # Len(s) + 1
      <3>1. j \in 1..Len(s) /\ t[j] = s[j] /\ j \in DOMAIN s
        BY <1>1, <2>3
      <3>2. QED  BY <1>2, <2>1, <3>1 DEF Rising
    <2>4. QED  BY <2>2, <2>3
  <1>3. QED  BY <1>2 DEF Rising, t

LEMMA BelowOn ==
  ASSUME NEW s, NEW t \in Seq(Messages), NEW x \in Messages, Below(s, t),
         \A i \in DOMAIN s : s[i] < x
  PROVE  Below(s, Append(t, x))
  <1> DEFINE u == Append(t, x)
  <1>1. /\ DOMAIN t = 1..Len(t) /\ Len(t) \in Nat /\ DOMAIN u = 1..(Len(t) + 1)
        /\ \A i \in 1..Len(t) : u[i] = t[i]
        /\ u[Len(t) + 1] = x
    BY Appending
  <1> HIDE DEF u
  <1>2. ASSUME NEW i \in DOMAIN s, NEW j \in DOMAIN u PROVE s[i] < u[j]
    <2>1. CASE j = Len(t) + 1
      BY <1>1, <2>1
    <2>2. CASE j # Len(t) + 1
      <3>1. j \in 1..Len(t) /\ u[j] = t[j] /\ j \in DOMAIN t
        BY <1>1, <2>2
      <3>2. QED  BY <3>1 DEF Below
    <2>3. QED  BY <2>1, <2>2
  <1>3. QED  BY <1>2 DEF Below, u

LEMMA OnBelow ==
  ASSUME NEW s \in Seq(Messages), NEW x \in Messages, NEW t, Below(s, t),
         \A j \in DOMAIN t : x < t[j]
  PROVE  Below(Append(s, x), t)
  <1> DEFINE u == Append(s, x)
  <1>1. /\ DOMAIN s = 1..Len(s) /\ Len(s) \in Nat /\ DOMAIN u = 1..(Len(s) + 1)
        /\ \A i \in 1..Len(s) : u[i] = s[i]
        /\ u[Len(s) + 1] = x
    BY Appending
  <1> HIDE DEF u
  <1>2. ASSUME NEW i \in DOMAIN u, NEW j \in DOMAIN t PROVE u[i] < t[j]
    <2>1. CASE i = Len(s) + 1
      BY <1>1, <2>1
    <2>2. CASE i # Len(s) + 1
      <3>1. i \in 1..Len(s) /\ u[i] = s[i] /\ i \in DOMAIN s
        BY <1>1, <2>2
      <3>2. QED  BY <3>1 DEF Below
    <2>3. QED  BY <2>1, <2>2
  <1>3. QED  BY <1>2 DEF Below, u

\* What is left of a queue when its head is taken.
LEMMA RisingTail ==
  ASSUME NEW s \in Seq(Messages), s # <<>>, Rising(s)
  PROVE  Rising(Tail(s)) /\ \A i \in DOMAIN Tail(s) : Head(s) < Tail(s)[i]
  <1> DEFINE t == Tail(s)
             h == Head(s)
  <1>1. /\ h = s[1] /\ 1 \in DOMAIN s /\ t \in Seq(Messages)
        /\ \A i \in DOMAIN t : i \in Int /\ i + 1 \in DOMAIN s /\ 1 < i + 1 /\ t[i] = s[i + 1]
    BY Taking
  <1> HIDE DEF t, h
  <1>2. \A i \in DOMAIN t : h < t[i]
    BY <1>1 DEF Rising
  <1>3. ASSUME NEW i \in DOMAIN t, NEW j \in DOMAIN t, i < j PROVE t[i] < t[j]
    <2>1. i + 1 < j + 1
      BY <1>1, <1>3
    <2>2. QED  BY <1>1, <2>1 DEF Rising
  <1>4. QED  BY <1>2, <1>3 DEF Rising, t, h

(***************************************************************************)
(* The steps of the hub                                                    *)
(***************************************************************************)
LEMMA Tops ==
  ASSUME HubInv, NEW c \in Clients
  PROVE  Top(c) \in Nat /\ Top(c) <= broadcasts /\ broadcasts \in Nat /\ broadcasts <= MaxMessages
  <1>1. broadcasts \in Nat /\ broadcasts <= MaxMessages
    BY MessageNumbers DEF HubInv, TypeOK
  <1>2. c \in casting => broadcasts # 0
    BY DEF HubInv
  <1>3. QED  BY <1>1, <1>2 DEF Top

\* A client whose messages stay where they are.
LEMMA FlowKeeps ==
  ASSUME HubInv, NEW c \in Clients,
         queue'[c] = queue[c], received'[c] = received[c], writing'[c] = writing[c],
         Top(c)' \in Nat, Top(c) <= Top(c)',
         \/ handler'[c] = handler[c]
         \/ handler'[c] \in {"return", "gone"}
         \/ handler[c] = "none" /\ handler'[c] = "select"
  PROVE  Flow(c)'
  <1>1. Flow(c)
    BY DEF HubInv
  <1> DEFINE q == queue[c]
             r == received[c]
             w == writing[c]
             top == Top(c)
             next == Top(c)'
  <1>2. /\ q \in Seq(Messages) /\ Len(q) <= Buffer /\ r \in Seq(Messages)
        /\ Rising(r) /\ Rising(q) /\ Below(r, q)
        /\ \A i \in DOMAIN r : r[i] <= top
        /\ \A i \in DOMAIN q : q[i] <= top
        /\ w <= top
        /\ handler[c] = "write" => w # 0
        /\ handler[c] \in {"none", "select"} => w = 0
        /\ w # 0 => Below(r, <<w>>) /\ Below(<<w>>, q)
    BY <1>1 DEF Flow
  <1>3. w \in Nat /\ top \in Nat /\ next \in Nat /\ top <= next
    BY Tops DEF HubInv, TypeOK
  <1>4. \A i \in DOMAIN r : r[i] \in Nat
    BY <1>2, Numbered
  <1>5. \A i \in DOMAIN q : q[i] \in Nat
    BY <1>2, Numbered
  <1>6. queue'[c] = q /\ received'[c] = r /\ writing'[c] = w
    OBVIOUS
  <1>7. /\ handler'[c] = "write" => handler[c] = "write"
        /\ handler'[c] \in {"none", "select"} => handler[c] \in {"none", "select"}
    OBVIOUS
  <1> HIDE DEF q, r, w, top, next
  <1>8. /\ \A i \in DOMAIN r : r[i] <= next
        /\ \A i \in DOMAIN q : q[i] <= next
        /\ w <= next
    BY <1>2, <1>3, <1>4, <1>5
  <1>9. QED  BY <1>2, <1>6, <1>7, <1>8 DEF Flow, next, Rising, Below

\* A step that leaves the messages and the map alone.
LEMMA HandlersMove ==
  ASSUME HubInv, NEW c \in Clients,
         UNCHANGED <<broadcasts, casting, clients, queue, dropped, joined, writing, received>>,
         conn' \in [Clients -> {"open", "wedged", "gone"}],
         handler' = handler \/ (Goto(c, "return") /\ handler[c] \in {"select", "write"})
  PROVE  HubInv'
  <1>1. handler' \in [Clients -> {"none", "select", "write", "return", "gone"}]
    BY DEF HubInv, TypeOK, Goto
  <1>2. \A d \in Clients : handler'[d] = handler[d] \/ (handler'[d] = "return" /\ handler[d] \in {"select", "write"})
    BY DEF HubInv, TypeOK, Goto
  <1>3. TypeOK'
    BY <1>1 DEF HubInv, TypeOK
  <1>4. \A d \in Clients : Top(d)' = Top(d)
    BY DEF Top
  <1>5. \A d \in Clients : Flow(d)'
    BY <1>2, <1>4, Tops, FlowKeeps
  <1>6. \A d \in clients : handler'[d] \in {"select", "write", "return"}
    BY <1>2 DEF HubInv, TypeOK
  <1>7. QED  BY <1>3, <1>5, <1>6 DEF HubInv

LEMMA Registering ==
  ASSUME HubInv, NEW c \in Clients, Register(c) \/ Unregister(c)
  PROVE  HubInv'
  <1>1. /\ casting = {}
        /\ UNCHANGED <<broadcasts, casting, queue, dropped, conn, writing, received>>
    BY DEF Register, Unregister, Locked
  <1>2. \/ /\ handler[c] = "none" /\ handler' = [handler EXCEPT ![c] = "select"]
           /\ clients' = clients \cup {c} /\ joined' = [joined EXCEPT ![c] = broadcasts]
        \/ /\ handler' = [handler EXCEPT ![c] = "gone"]
           /\ clients' = clients \ {c} /\ UNCHANGED joined
    BY DEF Register, Unregister, Goto
  <1>3. TypeOK'
    <2>1. broadcasts \in 0..MaxMessages /\ joined \in [Clients -> 0..MaxMessages]
          /\ clients \subseteq Clients
      BY DEF HubInv, TypeOK
    <2>2. joined' \in [Clients -> 0..MaxMessages] /\ clients' \subseteq Clients
      BY <1>2, <2>1
    <2>3. handler' \in [Clients -> {"none", "select", "write", "return", "gone"}]
      BY <1>2 DEF HubInv, TypeOK
    <2>4. QED  BY <1>1, <2>2, <2>3 DEF HubInv, TypeOK
  <1>4. \A d \in clients' : handler'[d] \in {"select", "write", "return"}
    BY <1>2 DEF HubInv, TypeOK
  <1>5. \A d \in Clients : \/ handler'[d] = handler[d] \/ handler'[d] \in {"return", "gone"}
                           \/ handler[d] = "none" /\ handler'[d] = "select"
    BY <1>2 DEF HubInv, TypeOK
  <1>6. \A d \in Clients : Top(d)' = Top(d)
    BY <1>1 DEF Top
  <1>7. \A d \in Clients : Flow(d)'
    BY <1>1, <1>5, <1>6, Tops, FlowKeeps
  <1>8. QED  BY <1>1, <1>3, <1>4, <1>7 DEF HubInv

LEMMA Broadcasting ==
  ASSUME HubInv, Broadcast
  PROVE  HubInv'
  <1>1. /\ broadcasts' = broadcasts + 1 /\ broadcasts < MaxMessages
        /\ casting = {} /\ casting' = clients
        /\ UNCHANGED <<clients, queue, dropped, joined, handler, conn, writing, received>>
    BY DEF Broadcast, Locked
  <1>2. broadcasts \in Nat /\ MaxMessages \in Nat
    BY MessageNumbers DEF HubInv, TypeOK
  <1>3. broadcasts' \in 0..MaxMessages /\ broadcasts' # 0
    BY <1>1, <1>2
  <1>4. TypeOK'
    BY <1>1, <1>3 DEF HubInv, TypeOK
  <1>5. \A d \in Clients : Top(d)' \in Nat /\ Top(d) <= Top(d)'
    BY <1>1, <1>2 DEF Top
  <1>6. \A d \in Clients : Flow(d)'
    BY <1>1, <1>5, FlowKeeps
  <1>7. QED  BY <1>1, <1>3, <1>4, <1>6 DEF HubInv

LEMMA Reaching ==
  ASSUME HubInv, NEW c \in Clients, Reach(c)
  PROVE  HubInv'
  <1>1. /\ c \in casting /\ casting' = casting \ {c}
        /\ UNCHANGED <<broadcasts, clients, joined, handler, conn, writing, received>>
        /\ SendOrDrop(c)
    BY DEF Reach
  <1> DEFINE q == queue[c]
             r == received[c]
             w == writing[c]
             b == broadcasts
  <1>2. /\ q \in Seq(Messages) /\ Len(q) <= Buffer /\ r \in Seq(Messages)
        /\ Rising(r) /\ Rising(q) /\ Below(r, q)
        /\ \A i \in DOMAIN r : r[i] <= b - 1
        /\ \A i \in DOMAIN q : q[i] <= b - 1
        /\ w <= b - 1
        /\ handler[c] = "write" => w # 0
        /\ handler[c] \in {"none", "select"} => w = 0
        /\ w # 0 => Below(r, <<w>>) /\ Below(<<w>>, q)
    BY <1>1 DEF HubInv, Flow, Top
  <1>3. b \in Messages /\ b \in Nat /\ w \in Nat
    BY <1>1, MessageNumbers DEF HubInv, TypeOK, Messages
  <1>4. /\ \A i \in DOMAIN r : r[i] \in Nat /\ r[i] <= b /\ r[i] < b
        /\ \A i \in DOMAIN q : q[i] \in Nat /\ q[i] <= b /\ q[i] < b
        /\ w < b
    <2>1. \A i \in DOMAIN r : r[i] \in Nat
      BY <1>2, Numbered
    <2>2. \A i \in DOMAIN q : q[i] \in Nat
      BY <1>2, Numbered
    <2> HIDE DEF r, q, w, b
    <2>3. QED  BY <1>2, <1>3, <2>1, <2>2
  <1>5. queue'[c] = q \/ (queue'[c] = Append(q, b) /\ Len(q) < Buffer)
    BY <1>1 DEF SendOrDrop, HubInv
  <1>6. /\ DOMAIN queue' = Clients /\ dropped' \in Nat
        /\ \A d \in Clients \ {c} : queue'[d] = queue[d]
    BY <1>1 DEF SendOrDrop, HubInv, TypeOK
  <1>7. received'[c] = r /\ writing'[c] = w /\ broadcasts' = b /\ handler'[c] = handler[c] /\ Top(c)' = b
    BY <1>1 DEF Top
  <1>8. Flow(c)'
    <2>1. CASE queue'[c] = q
      BY <1>2, <1>4, <1>7, <2>1, <1>3 DEF Flow, Rising, Below
    <2>2. CASE queue'[c] = Append(q, b) /\ Len(q) < Buffer
      <3> DEFINE u == Append(q, b)
      <3>1. u \in Seq(Messages) /\ Len(u) <= Buffer
        BY <1>2, <1>3, <2>2, Appending, MessageNumbers
      <3>2. Rising(u)
        BY <1>2, <1>3, <1>4, RisesOn
      <3>3. Below(r, u)
        BY <1>2, <1>3, <1>4, BelowOn
      <3>4. w # 0 => Below(<<w>>, u)
        <4>1. \A i \in DOMAIN <<w>> : <<w>>[i] < b
          BY <1>4
        <4>2. QED  BY <1>2, <1>3, <4>1, BelowOn
      <3>5. \A i \in DOMAIN u : u[i] <= b
        <4>1. q \in Seq(Messages) /\ b \in Messages /\ b \in Nat /\ \A i \in DOMAIN q : q[i] <= b
          BY <1>2, <1>3, <1>4
        <4> HIDE DEF q, b
        <4>2. /\ DOMAIN q = 1..Len(q) /\ Len(q) \in Nat /\ DOMAIN u = 1..(Len(q) + 1)
              /\ \A i \in 1..Len(q) : u[i] = q[i]
              /\ u[Len(q) + 1] = b
          BY <4>1, Appending
        <4> HIDE DEF u
        <4>3. \A i \in DOMAIN u : i \in 1..Len(q) \/ i = Len(q) + 1
          BY <4>2
        <4>4. QED  BY <4>1, <4>2, <4>3
      <3>6. queue'[c] = u
        BY <2>2
      <3> HIDE DEF u, q, r, w, b
      <3>7. (\A i \in DOMAIN r : r[i] <= b) /\ w <= b
        BY <1>3, <1>4
      <3>8. QED  BY <1>2, <1>7, <3>1, <3>2, <3>3, <3>4, <3>5, <3>6, <3>7 DEF Flow, Rising, Below
    <2>3. QED  BY <1>5, <2>1, <2>2
  <1>9. \A d \in Clients \ {c} : Top(d)' = Top(d)
    BY <1>1 DEF Top
  <1>10. \A d \in Clients \ {c} : Flow(d)'
    BY <1>1, <1>6, <1>9, Tops, FlowKeeps
  <1>11. TypeOK'
    BY <1>1, <1>6, <1>8, <1>10 DEF HubInv, TypeOK, Flow
  <1>12. QED  BY <1>1, <1>6, <1>8, <1>10, <1>11 DEF HubInv

LEMMA Receiving ==
  ASSUME HubInv, NEW c \in Clients, Receive(c)
  PROVE  HubInv'
  <1> DEFINE q == queue[c]
             r == received[c]
             h == Head(q)
             t == Tail(q)
             top == Top(c)
  <1>1. /\ handler[c] = "select" /\ q # <<>>
        /\ writing' = [writing EXCEPT ![c] = h]
        /\ queue' = [queue EXCEPT ![c] = t]
        /\ handler' = [handler EXCEPT ![c] = "write"]
        /\ UNCHANGED <<broadcasts, casting, clients, dropped, joined, conn, received>>
    BY DEF Receive, Goto
  <1>2. /\ q \in Seq(Messages) /\ Len(q) <= Buffer /\ r \in Seq(Messages)
        /\ Rising(r) /\ Rising(q) /\ Below(r, q)
        /\ \A i \in DOMAIN r : r[i] <= top
        /\ \A i \in DOMAIN q : q[i] <= top
    BY DEF HubInv, Flow
  <1>3. /\ queue'[c] = t /\ writing'[c] = h /\ handler'[c] = "write" /\ received'[c] = r
        /\ Top(c)' = top
        /\ DOMAIN queue' = Clients
        /\ \A d \in Clients \ {c} : queue'[d] = queue[d] /\ writing'[d] = writing[d]
                                    /\ handler'[d] = handler[d] /\ Top(d)' = Top(d)
    BY <1>1 DEF HubInv, TypeOK, Top
  <1>4. q # <<>>
    BY <1>1
  <1> HIDE DEF q, r, top
  <1>5. /\ h \in Messages /\ h = q[1] /\ 1 \in DOMAIN q
        /\ t \in Seq(Messages) /\ Len(q) \in Nat /\ Len(t) = Len(q) - 1
        /\ \A i \in DOMAIN t : i + 1 \in DOMAIN q /\ 1 < i + 1 /\ t[i] = q[i + 1]
    BY <1>2, <1>4, Taking
  <1>6. Rising(t) /\ \A i \in DOMAIN t : h < t[i]
    BY <1>2, <1>4, RisingTail
  <1> HIDE DEF h, t
  <1>7. Below(r, t) /\ Below(r, <<h>>) /\ Below(<<h>>, t)
    BY <1>2, <1>5, <1>6 DEF Below
  <1>8. /\ \A i \in DOMAIN t : t[i] <= top
        /\ h <= top /\ h # 0 /\ Len(t) <= Buffer
    BY <1>2, <1>5, MessageNumbers
  <1>9. Flow(c)'
    BY <1>2, <1>3, <1>5, <1>6, <1>7, <1>8 DEF Flow, Rising, Below
  <1>10. \A d \in Clients \ {c} : Flow(d)'
    BY <1>1, <1>3, Tops, FlowKeeps
  <1>11. writing' \in [Clients -> 0..MaxMessages]
         /\ handler' \in [Clients -> {"none", "select", "write", "return", "gone"}]
    <2>1. h \in 0..MaxMessages
      BY <1>5 DEF Messages
    <2>2. QED  BY <1>1, <2>1 DEF HubInv, TypeOK
  <1>12. TypeOK'
    BY <1>1, <1>9, <1>10, <1>11 DEF HubInv, TypeOK, Flow
  <1>13. \A d \in clients : handler'[d] \in {"select", "write", "return"}
    BY <1>1, <1>3 DEF HubInv, TypeOK
  <1>14. QED  BY <1>1, <1>3, <1>9, <1>10, <1>12, <1>13 DEF HubInv

LEMMA Writing ==
  ASSUME HubInv, NEW c \in Clients, WriteDone(c)
  PROVE  HubInv'
  <1> DEFINE q == queue[c]
             r == received[c]
             w == writing[c]
             u == Append(r, w)
             top == Top(c)
  <1>1. /\ handler[c] = "write"
        /\ received' = [received EXCEPT ![c] = u]
        /\ writing' = [writing EXCEPT ![c] = 0]
        /\ handler' = [handler EXCEPT ![c] = "select"]
        /\ UNCHANGED <<broadcasts, casting, clients, queue, dropped, joined, conn>>
    BY DEF WriteDone, Goto, hubVars
  <1>2. /\ q \in Seq(Messages) /\ Len(q) <= Buffer /\ r \in Seq(Messages)
        /\ Rising(r) /\ Rising(q) /\ Below(r, q)
        /\ \A i \in DOMAIN r : r[i] <= top
        /\ \A i \in DOMAIN q : q[i] <= top
        /\ w <= top /\ w # 0 /\ Below(r, <<w>>) /\ Below(<<w>>, q)
    BY <1>1 DEF HubInv, Flow
  <1>3. /\ received'[c] = u /\ writing'[c] = 0 /\ handler'[c] = "select" /\ queue'[c] = q
        /\ Top(c)' = top
        /\ DOMAIN received' = Clients
        /\ \A d \in Clients \ {c} : received'[d] = received[d] /\ writing'[d] = writing[d]
                                    /\ handler'[d] = handler[d] /\ Top(d)' = Top(d)
    BY <1>1 DEF HubInv, TypeOK, Top
  <1>4. w \in Messages /\ top \in Nat
    BY <1>2, Tops DEF HubInv, TypeOK, Messages
  <1> HIDE DEF q, r, w, top
  <1>5. (\A i \in DOMAIN r : r[i] < w) /\ (\A j \in DOMAIN q : w < q[j])
    <2>1. 1 \in DOMAIN <<w>> /\ <<w>>[1] = w
      OBVIOUS
    <2>2. QED  BY <1>2, <2>1 DEF Below
  <1>6. u \in Seq(Messages) /\ Rising(u) /\ Below(u, q)
    BY <1>2, <1>4, <1>5, Appending, RisesOn, OnBelow
  <1>7. \A i \in DOMAIN u : u[i] <= top
    BY <1>2, <1>4, Appending
  <1> HIDE DEF u
  <1>8. Flow(c)'
    BY <1>2, <1>3, <1>4, <1>6, <1>7 DEF Flow, Rising, Below
  <1>9. \A d \in Clients \ {c} : Flow(d)'
    BY <1>1, <1>3, Tops, FlowKeeps
  <1>10. writing' \in [Clients -> 0..MaxMessages]
         /\ handler' \in [Clients -> {"none", "select", "write", "return", "gone"}]
    <2>1. 0 \in 0..MaxMessages
      BY MessageNumbers
    <2>2. QED  BY <1>1, <2>1 DEF HubInv, TypeOK
  <1>11. TypeOK'
    BY <1>1, <1>8, <1>9, <1>10 DEF HubInv, TypeOK, Flow
  <1>12. \A d \in clients : handler'[d] \in {"select", "write", "return"}
    BY <1>1, <1>3 DEF HubInv, TypeOK
  <1>13. QED  BY <1>1, <1>3, <1>8, <1>9, <1>11, <1>12 DEF HubInv

LEMMA HubStep ==
  ASSUME HubInv, Next \/ UNCHANGED vars
  PROVE  HubInv'
  <1>1. CASE Broadcast
    BY <1>1, Broadcasting
  <1>2. ASSUME NEW c \in Clients,
               SeeGone(c) \/ WriteFail(c) \/ ConnectionFails(c) \/ ConnectionReset(c)
        PROVE  HubInv'
    <2>1. UNCHANGED <<broadcasts, casting, clients, queue, dropped, joined, writing, received>>
      BY <1>2 DEF SeeGone, WriteFail, ConnectionFails, ConnectionReset, hubVars
    <2>2. conn' \in [Clients -> {"open", "wedged", "gone"}]
      BY <1>2 DEF SeeGone, WriteFail, ConnectionFails, ConnectionReset, HubInv, TypeOK
    <2>3. handler' = handler \/ (Goto(c, "return") /\ handler[c] \in {"select", "write"})
      BY <1>2 DEF SeeGone, WriteFail, ConnectionFails, ConnectionReset
    <2>4. QED  BY <2>1, <2>2, <2>3, HandlersMove
  <1>3. CASE UNCHANGED vars
    <2>1. UNCHANGED <<broadcasts, casting, clients, queue, dropped, joined, handler, conn, writing, received>>
      BY <1>3 DEF vars, hubVars
    <2>2. TypeOK' /\ \A c \in Clients : Top(c)' = Top(c)
      BY <2>1 DEF HubInv, TypeOK, Top
    <2>3. \A c \in Clients : Flow(c)'
      BY <2>1, <2>2, Tops, FlowKeeps
    <2>4. QED  BY <2>1, <2>2, <2>3 DEF HubInv
  <1>4. QED  BY <1>1, <1>2, <1>3, Registering, Reaching, Receiving, Writing DEF Next, Handler

(***************************************************************************)
(* What the hub's invariant says of the streams                            *)
(***************************************************************************)
LEMMA Joining ==
  ASSUME NEW s \in Seq(Messages), NEW t \in Seq(Messages)
  PROVE  /\ s \o t \in Seq(Messages)
         /\ DOMAIN s = 1..Len(s) /\ Len(s) \in Nat /\ DOMAIN t = 1..Len(t) /\ Len(t) \in Nat
         /\ \A i \in DOMAIN (s \o t) :
              \/ i \in DOMAIN s /\ (s \o t)[i] = s[i]
              \/ i \in Nat /\ i > Len(s) /\ i - Len(s) \in DOMAIN t /\ (s \o t)[i] = t[i - Len(s)]
  OBVIOUS

LEMMA RisingJoin ==
  ASSUME NEW s \in Seq(Messages), NEW t \in Seq(Messages), Rising(s), Rising(t), Below(s, t)
  PROVE  Rising(s \o t)
  <1> DEFINE u == s \o t
             n == Len(s)
  <1>1. /\ n \in Nat /\ DOMAIN s = 1..n
        /\ \A i \in DOMAIN u :
             \/ i \in DOMAIN s /\ u[i] = s[i]
             \/ i \in Nat /\ i > n /\ i - n \in DOMAIN t /\ u[i] = t[i - n]
    BY Joining
  <1> HIDE DEF u, n
  <1>2. ASSUME NEW i \in DOMAIN u, NEW j \in DOMAIN u, i < j PROVE u[i] < u[j]
    <2>1. CASE i \in DOMAIN s /\ u[i] = s[i]
      <3>1. CASE j \in DOMAIN s /\ u[j] = s[j]
        BY <1>2, <2>1, <3>1 DEF Rising
      <3>2. CASE j \in Nat /\ j > n /\ j - n \in DOMAIN t /\ u[j] = t[j - n]
        BY <2>1, <3>2 DEF Below
      <3>3. QED  BY <1>1, <3>1, <3>2
    <2>2. CASE i \in Nat /\ i > n /\ i - n \in DOMAIN t /\ u[i] = t[i - n]
      <3>1. j \in Nat /\ j > n /\ j - n \in DOMAIN t /\ u[j] = t[j - n]
        BY <1>1, <1>2, <2>2
      <3>2. i - n < j - n
        BY <1>1, <1>2, <2>2, <3>1
      <3>3. QED  BY <2>2, <3>1, <3>2 DEF Rising
    <2>3. QED  BY <1>1, <2>1, <2>2
  <1>3. QED  BY <1>2 DEF Rising, u

LEMMA BelowJoin ==
  ASSUME NEW s \in Seq(Messages), NEW t \in Seq(Messages), NEW v, Below(s, v), Below(t, v)
  PROVE  Below(s \o t, v)
  <1> DEFINE u == s \o t
             n == Len(s)
  <1>1. \A i \in DOMAIN u :
             \/ i \in DOMAIN s /\ u[i] = s[i]
             \/ i \in Nat /\ i > n /\ i - n \in DOMAIN t /\ u[i] = t[i - n]
    BY Joining
  <1> HIDE DEF u, n
  <1>2. QED  BY <1>1 DEF Below, u

LEMMA StreamsInOrder == HubInv => InOrder
  <1> SUFFICES ASSUME HubInv, NEW c \in Clients PROVE Rising(Stream(c))
    BY DEF InOrder, Rising
  <1> DEFINE r == received[c]
             w == writing[c]
             q == queue[c]
             mid == IF w = 0 THEN <<>> ELSE <<w>>
  <1>1. /\ q \in Seq(Messages) /\ r \in Seq(Messages)
        /\ Rising(r) /\ Rising(q) /\ Below(r, q)
        /\ w # 0 => Below(r, <<w>>) /\ Below(<<w>>, q)
    BY DEF HubInv, Flow
  <1>2. w # 0 => w \in Messages
    BY DEF HubInv, TypeOK, Messages
  <1> HIDE DEF r, w, q
  <1>3. mid \in Seq(Messages) /\ Rising(mid)
    BY <1>2 DEF Rising
  <1>4. Below(r, mid) /\ Below(mid, q)
    <2>1. CASE w = 0
      BY <2>1 DEF Below
    <2>2. CASE w # 0
      BY <1>1, <2>2
    <2>3. QED  BY <2>1, <2>2
  <1>5. Stream(c) = (r \o mid) \o q
    BY DEF Stream, r, w, q
  <1> HIDE DEF mid
  <1>6. r \o mid \in Seq(Messages) /\ Rising(r \o mid) /\ Below(r \o mid, q)
    BY <1>1, <1>3, <1>4, Joining, RisingJoin, BelowJoin
  <1>7. Rising((r \o mid) \o q)
    BY <1>1, <1>6, RisingJoin
  <1>8. QED  BY <1>5, <1>7

LEMMA NeverOnClosed == HubInv => NoSendOnClosed
  BY DEF HubInv, NoSendOnClosed, Closed

(***************************************************************************)
(* The process                                                             *)
(***************************************************************************)
Fresh ==
  /\ broadcasts = 0 /\ dropped = 0 /\ casting = {} /\ clients = {}
  /\ handler = [c \in Clients |-> "none"]
  /\ conn = [c \in Clients |-> "open"]
  /\ queue = [c \in Clients |-> <<>>] /\ received = [c \in Clients |-> <<>>]
  /\ joined = [c \in Clients |-> 0] /\ writing = [c \in Clients |-> 0]

LEMMA FreshHub == Fresh => HubInv
  <1> SUFFICES ASSUME Fresh PROVE HubInv
    OBVIOUS
  <1> USE DEF Fresh
  <1>1. 0 \in 0..MaxMessages /\ Buffer \in Nat
    BY MessageNumbers
  <1>2. TypeOK
    BY <1>1 DEF TypeOK
  <1>3. \A c \in Clients : queue[c] = <<>> /\ received[c] = <<>> /\ writing[c] = 0 /\ Top(c) = 0
                           /\ handler[c] = "none"
    BY DEF Top
  <1>4. \A c \in Clients : Flow(c)
    BY <1>1, <1>3 DEF Flow, Rising, Below
  <1>5. QED  BY <1>2, <1>4 DEF HubInv

LEMMA FreshAgain == Fresh' => HubInv'
  BY FreshHub, PTL

\* What the process does to its hub: nothing, one of the hub's steps, or the end.
LEMMA HubInProcess ==
  ASSUME AllNext
  PROVE  Next \/ UNCHANGED vars \/ Fresh'
  <1>1. ASSUME HubEnds PROVE Fresh'
    BY <1>1 DEF HubEnds, Fresh
  <1>2. CASE \E c \in Clients : Browser(c)
    BY <1>2 DEF Browser, Next
  <1>3. CASE HandOver
    BY <1>3 DEF HandOver, Next
  <1>4. CASE ConsumerEnds \/ SignalEnds \/ ServerFails \/ Kill
    BY <1>1, <1>4 DEF ConsumerEnds, SignalEnds, ServerFails, Kill, End
  <1>5. CASE HandlerReturns \/ NewHost \/ \E p \in Partitions : Join(p)
    BY <1>5 DEF HandlerReturns, NewHost, Join
  <1>6. CASE StartHost \/ Loop \/ Alone(Group!Cancel(Host)) \/ \E m \in Aggregates : Alone(Group!Produce(m))
    BY <1>6 DEF StartHost, Loop, Alone
  <1>7. QED  BY <1>2, <1>3, <1>4, <1>5, <1>6 DEF AllNext, Process

LEMMA HubInvariance == AllSpec => []HubInv
  <1>1. AllInit => HubInv
    BY FreshHub DEF AllInit, Init, Fresh
  <1>2. HubInv /\ [AllNext]_allVars => HubInv'
    BY HubInProcess, HubStep, FreshAgain DEF allVars
  <1>3. QED  BY <1>1, <1>2, PTL DEF AllSpec

\* Every variable of the hub keeps its type; in particular no channel ever holds
\* more than its buffer.
THEOREM TypeCorrect == AllSpec => []TypeOK
  BY HubInvariance, PTL DEF HubInv

\* Broadcast never sends on a channel Unregister has closed, however the handlers
\* come and go.
THEOREM NeverPanics == AllSpec => []NoSendOnClosed
  BY HubInvariance, NeverOnClosed, PTL

\* Each client sees the messages in the order of their broadcasts, each once.
THEOREM StreamsRise == AllSpec => []InOrder
  BY HubInvariance, StreamsInOrder, PTL

(***************************************************************************)
(* What is missed.  A client has a message that has been received, is      *)
(* being written or is queued, and goes on having it; the only step after  *)
(* which a client misses one more is a Reach that finds its queue full.    *)
(***************************************************************************)
Has(c, m) ==
  \/ \E i \in DOMAIN received[c] : received[c][i] = m
  \/ writing[c] = m
  \/ \E i \in DOMAIN queue[c] : queue[c][i] = m

Misses == UNION {{c} \X Missed(c) : c \in clients}

LEMMA RangeJoin ==
  ASSUME NEW s \in Seq(Messages), NEW t \in Seq(Messages), NEW m
  PROVE  m \in Range(s \o t) <=> m \in Range(s) \/ m \in Range(t)
  <1> DEFINE u == s \o t
  <1>1. /\ \A i \in DOMAIN s : i \in DOMAIN u /\ u[i] = s[i]
        /\ \A i \in DOMAIN t : i + Len(s) \in DOMAIN u /\ u[i + Len(s)] = t[i]
    OBVIOUS
  <1>2. \A i \in DOMAIN u :
          \/ i \in DOMAIN s /\ u[i] = s[i]
          \/ i - Len(s) \in DOMAIN t /\ u[i] = t[i - Len(s)]
    BY Joining
  <1> HIDE DEF u
  <1>3. m \in Range(u) => m \in Range(s) \/ m \in Range(t)
    BY <1>2 DEF Range
  <1>4. m \in Range(s) => m \in Range(u)
    BY <1>1 DEF Range
  <1>5. m \in Range(t) => m \in Range(u)
    BY <1>1 DEF Range
  <1>6. QED  BY <1>3, <1>4, <1>5 DEF u

LEMMA StreamHas ==
  ASSUME NEW r \in Seq(Messages), NEW q \in Seq(Messages), NEW w \in 0..MaxMessages,
         NEW m \in Nat \ {0}
  PROVE  m \in Range(r \o (IF w = 0 THEN <<>> ELSE <<w>>) \o q) <=>
           \/ \E i \in DOMAIN r : r[i] = m
           \/ w = m
           \/ \E i \in DOMAIN q : q[i] = m
  <1> DEFINE mid == IF w = 0 THEN <<>> ELSE <<w>>
  <1>1. mid \in Seq(Messages) /\ (m \in Range(mid) <=> w = m)
    <2>1. CASE w = 0
      BY <2>1 DEF Range
    <2>2. CASE w # 0
      <3>1. w \in Messages
        BY <2>2, MessageNumbers DEF Messages
      <3>2. DOMAIN <<w>> = {1} /\ <<w>>[1] = w
        OBVIOUS
      <3>3. Range(<<w>>) = {w}
        BY <3>2 DEF Range
      <3>4. QED  BY <2>2, <3>1, <3>3
    <2>3. QED  BY <2>1, <2>2
  <1> HIDE DEF mid
  <1>2. r \o mid \in Seq(Messages)
    BY <1>1, Joining
  <1>3. m \in Range((r \o mid) \o q) <=> m \in Range(r) \/ m \in Range(mid) \/ m \in Range(q)
    BY <1>1, <1>2, RangeJoin
  <1>4. QED  BY <1>1, <1>3 DEF Range, mid

\* A missed message, in terms of what the client has.
MissedBy(c, m) ==
  /\ m \in (joined[c] + 1)..broadcasts
  /\ ~Has(c, m)
  /\ ~(m = broadcasts /\ c \in casting)

LEMMA MissedHas ==
  ASSUME NEW c \in Clients, NEW m
  PROVE  /\ HubInv => (m \in Missed(c) <=> MissedBy(c, m))
         /\ HubInv' => (m \in Missed(c)' <=> MissedBy(c, m)')
  <1>1. ASSUME HubInv PROVE m \in Missed(c) <=> MissedBy(c, m)
    <2>1. /\ received[c] \in Seq(Messages) /\ queue[c] \in Seq(Messages) /\ writing[c] \in 0..MaxMessages
          /\ joined[c] \in Nat /\ broadcasts \in Nat
      BY <1>1, MessageNumbers DEF HubInv, TypeOK
    <2>2. m \in (joined[c] + 1)..broadcasts => m \in Nat \ {0}
      BY <2>1
    <2>3. QED  BY <2>1, <2>2, StreamHas DEF Missed, MissedBy, Stream, Has
  <1>2. ASSUME HubInv' PROVE m \in Missed(c)' <=> MissedBy(c, m)'
    <2>1. /\ received'[c] \in Seq(Messages) /\ queue'[c] \in Seq(Messages) /\ writing'[c] \in 0..MaxMessages
          /\ joined'[c] \in Nat /\ broadcasts' \in Nat
      BY <1>2, MessageNumbers DEF HubInv, TypeOK
    <2>2. m \in (joined'[c] + 1)..broadcasts' => m \in Nat \ {0}
      BY <2>1
    <2>3. QED  BY <2>1, <2>2, StreamHas, SMTT(20) DEF Missed, MissedBy, Stream, Has
  <1>3. QED  BY <1>1, <1>2

\* A client goes on having what it has, and has what is sent to it.
LEMMA GoesOnHaving ==
  ASSUME HubInv, HubInv', Next \/ UNCHANGED vars, NEW c \in Clients, NEW m \in Nat \ {0}, Has(c, m)
  PROVE  Has(c, m)'
  <1>1. /\ received[c] \in Seq(Messages) /\ queue[c] \in Seq(Messages)
        /\ DOMAIN queue = Clients /\ DOMAIN received = Clients /\ DOMAIN writing = Clients
    BY DEF HubInv, TypeOK
  <1>2. CASE /\ queue' = queue \/ \E d \in Clients : \E x : queue' = [queue EXCEPT ![d] = Append(@, x)]
             /\ UNCHANGED <<writing, received>>
    <2>1. \A x : \A i \in DOMAIN queue[c] :
            i \in DOMAIN Append(queue[c], x) /\ Append(queue[c], x)[i] = queue[c][i]
      BY <1>1
    <2>2. queue'[c] = queue[c] \/ \E x : queue'[c] = Append(queue[c], x)
      BY <1>1, <1>2
    <2>3. QED  BY <1>2, <2>1, <2>2 DEF Has
  <1>3. ASSUME NEW d \in Clients, Receive(d) PROVE Has(c, m)'
    <2>1. /\ UNCHANGED received
          /\ queue' = [queue EXCEPT ![d] = Tail(@)] /\ writing' = [writing EXCEPT ![d] = Head(queue[d])]
          /\ queue[d] # <<>> /\ writing[d] = 0
      BY <1>3 DEF Receive, HubInv, Flow
    <2>2. CASE d # c
      BY <1>1, <2>1, <2>2 DEF Has
    <2>3. CASE d = c
      <3>1. queue'[c] = Tail(queue[c]) /\ writing'[c] = Head(queue[c]) /\ writing[c] # m
        BY <1>1, <2>1, <2>3
      <3>2. \A i \in DOMAIN queue[c] : queue[c][i] = Head(queue[c])
              \/ (i - 1 \in DOMAIN Tail(queue[c]) /\ Tail(queue[c])[i - 1] = queue[c][i])
        <4>1. \A q \in Seq(Messages) : q # <<>> => \A i \in DOMAIN q : q[i] = Head(q)
                \/ (i - 1 \in DOMAIN Tail(q) /\ Tail(q)[i - 1] = q[i])
          OBVIOUS
        <4>2. QED  BY <1>1, <2>1, <2>3, <4>1
      <3>3. QED  BY <2>1, <3>1, <3>2 DEF Has
    <2>4. QED  BY <2>2, <2>3
  <1>4. ASSUME NEW d \in Clients, WriteDone(d) PROVE Has(c, m)'
    <2>1. /\ UNCHANGED queue
          /\ received' = [received EXCEPT ![d] = Append(@, writing[d])]
          /\ writing' = [writing EXCEPT ![d] = 0]
      BY <1>4 DEF WriteDone, hubVars
    <2>2. CASE d # c
      BY <1>1, <2>1, <2>2 DEF Has
    <2>3. CASE d = c
      <3>1. received'[c] = Append(received[c], writing[c])
        BY <1>1, <2>1, <2>3
      <3>2. \A r \in Seq(Messages) : \A x :
              /\ \A i \in DOMAIN r : i \in DOMAIN Append(r, x) /\ Append(r, x)[i] = r[i]
              /\ Len(r) + 1 \in DOMAIN Append(r, x) /\ Append(r, x)[Len(r) + 1] = x
        OBVIOUS
      <3>3. CASE \E i \in DOMAIN received[c] : received[c][i] = m
        BY <1>1, <3>1, <3>2, <3>3 DEF Has
      <3>4. CASE writing[c] = m
        BY <1>1, <3>1, <3>2, <3>4 DEF Has
      <3>5. CASE \E i \in DOMAIN queue[c] : queue[c][i] = m
        BY <2>1, <3>5 DEF Has
      <3>6. QED  BY <3>3, <3>4, <3>5 DEF Has
    <2>4. QED  BY <2>2, <2>3
  <1>5. QED
    BY <1>2, <1>3, <1>4 DEF Next, Handler, Broadcast, Reach, SendOrDrop, Register, Unregister, SeeGone,
       WriteFail, ConnectionFails, ConnectionReset, vars, hubVars

\* A message missed after a step that was not missed before is one that was dropped.
LEMMA NewMiss ==
  ASSUME HubInv, HubInv', Next \/ UNCHANGED vars,
         NEW c \in Clients, NEW m, c \in clients', MissedBy(c, m)'
  PROVE  \/ c \in clients /\ MissedBy(c, m)
         \/ Reach(c) /\ m = broadcasts /\ dropped' = dropped + 1
  <1>1. /\ broadcasts \in Nat /\ joined[c] \in Nat /\ joined'[c] \in Nat /\ broadcasts' \in Nat
        /\ m \in (joined'[c] + 1)..broadcasts'
        /\ DOMAIN joined = Clients /\ DOMAIN queue = Clients /\ queue[c] \in Seq(Messages)
    BY MessageNumbers DEF HubInv, TypeOK, MissedBy
  <1>2. ~Has(c, m)
    <2>1. m \in Nat \ {0}
      BY <1>1
    <2>2. QED  BY <2>1, GoesOnHaving DEF MissedBy
  <1>3. CASE Broadcast
    BY <1>1, <1>2, <1>3 DEF Broadcast, Locked, MissedBy
  <1>4. ASSUME NEW d \in Clients, Register(d) PROVE c \in clients /\ MissedBy(c, m)
    <2>1. c # d
      BY <1>1, <1>4 DEF Register
    <2>2. QED  BY <1>1, <1>2, <1>4, <2>1 DEF Register, MissedBy
  <1>5. ASSUME NEW d \in Clients, Unregister(d) PROVE c \in clients /\ MissedBy(c, m)
    BY <1>1, <1>2, <1>5 DEF Unregister, MissedBy
  <1>6. ASSUME NEW d \in Clients, Reach(d)
        PROVE  \/ c \in clients /\ MissedBy(c, m)
               \/ Reach(c) /\ m = broadcasts /\ dropped' = dropped + 1
    <2>1. UNCHANGED <<broadcasts, clients, joined>> /\ casting' = casting \ {d}
      BY <1>6 DEF Reach
    <2>2. CASE c # d \/ m # broadcasts
      BY <1>2, <2>1, <2>2 DEF MissedBy
    <2>3. CASE c = d /\ m = broadcasts
      <3>1. ~(queue' = [queue EXCEPT ![c] = Append(@, broadcasts)])
        <4>1. \A q \in Seq(Messages) : \A x :
                Len(q) + 1 \in DOMAIN Append(q, x) /\ Append(q, x)[Len(q) + 1] = x
          OBVIOUS
        <4>2. QED  BY <1>1, <2>3, <4>1 DEF MissedBy, Has
      <3>2. QED  BY <1>6, <2>3, <3>1 DEF Reach, SendOrDrop
    <2>4. QED  BY <2>2, <2>3
  <1>7. CASE UNCHANGED <<broadcasts, clients, joined, casting>>
    BY <1>2, <1>7 DEF MissedBy
  <1>8. QED
    BY <1>3, <1>4, <1>5, <1>6, <1>7 DEF Next, Handler, Receive, WriteDone, SeeGone, WriteFail,
       ConnectionFails, ConnectionReset, vars, hubVars

\* Only a drop adds to what is missed, and a drop is counted.
LEMMA OneMiss ==
  ASSUME HubInv, HubInv', Next \/ UNCHANGED vars
  PROVE  \/ Misses' \subseteq Misses /\ dropped' = dropped
         \/ \E x : Misses' \subseteq Misses \cup {x} /\ dropped' = dropped + 1
  <1>1. clients \subseteq Clients /\ clients' \subseteq Clients
    BY DEF HubInv, TypeOK
  <1>2. ASSUME NEW c, NEW m
        PROVE  /\ <<c, m>> \in Misses <=> c \in clients /\ MissedBy(c, m)
               /\ <<c, m>> \in Misses' <=> c \in clients' /\ MissedBy(c, m)'
    BY <1>1, MissedHas DEF Misses
  <1>3. \A x \in Misses' : \E c, m : x = <<c, m>>
    BY DEF Misses
  <1>4. ASSUME NEW c, NEW m, <<c, m>> \in Misses'
        PROVE  <<c, m>> \in Misses \/ (c \in Clients /\ Reach(c) /\ m = broadcasts /\ dropped' = dropped + 1)
    BY <1>1, <1>2, <1>4, NewMiss
  <1>5. dropped' = dropped \/ \E c \in Clients : Reach(c) /\ dropped' = dropped + 1
    BY DEF Next, Handler, Broadcast, Reach, SendOrDrop, Register, Unregister, Receive, WriteDone, SeeGone,
       WriteFail, ConnectionFails, ConnectionReset, vars, hubVars
  <1>6. dropped \in Nat
    BY DEF HubInv, TypeOK
  <1>7. CASE dropped' = dropped
    <2>1. Misses' \subseteq Misses
      BY <1>3, <1>4, <1>6, <1>7
    <2>2. QED  BY <1>7, <2>1
  <1>8. ASSUME NEW d \in Clients, Reach(d), dropped' = dropped + 1
        PROVE  \E x : Misses' \subseteq Misses \cup {x} /\ dropped' = dropped + 1
    <2>1. \A c \in Clients : Reach(c) => c = d
      BY <1>8 DEF Reach
    <2>2. Misses' \subseteq Misses \cup {<<d, broadcasts>>}
      BY <1>3, <1>4, <2>1
    <2>3. QED  BY <1>8, <2>2
  <1>9. QED  BY <1>5, <1>7, <1>8

\* The pairs of a client and a message are finitely many.
LEMMA FiniteMisses ==
  /\ HubInv => IsFiniteSet(Misses) /\ Cardinality(Misses) \in Nat
  /\ HubInv' => IsFiniteSet(Misses') /\ Cardinality(Misses') \in Nat
  <1>1. IsFiniteSet(Clients \X (1..MaxMessages))
    <2>1. IsFiniteSet(1..MaxMessages)
      BY MessageNumbers, FS_Interval
    <2>2. QED  BY <2>1, HubAssumption, FS_Product DEF HubAssumption
  <1>2. HubInv => Misses \subseteq Clients \X (1..MaxMessages)
    BY MessageNumbers DEF HubInv, TypeOK, Misses, Missed
  <1>3. HubInv' => Misses' \subseteq Clients \X (1..MaxMessages)
    BY MessageNumbers DEF HubInv, TypeOK, Misses, Missed
  <1>4. \A S : S \subseteq Clients \X (1..MaxMessages) => IsFiniteSet(S) /\ Cardinality(S) \in Nat
    BY <1>1, FS_Subset, FS_CardinalityType
  <1>5. QED  BY <1>2, <1>3, <1>4

LEMMA MissesStep ==
  ASSUME HubInv, HubInv', MissesCounted, Next \/ UNCHANGED vars
  PROVE  MissesCounted'
  <1>1. /\ IsFiniteSet(Misses) /\ Cardinality(Misses) \in Nat /\ Cardinality(Misses') \in Nat
        /\ dropped \in Nat /\ Cardinality(Misses) <= dropped
    BY FiniteMisses DEF HubInv, TypeOK, MissesCounted, Misses
  <1>2. CASE Misses' \subseteq Misses /\ dropped' = dropped
    <2>1. Cardinality(Misses') <= Cardinality(Misses)
      BY <1>1, <1>2, FS_Subset
    <2>2. QED  BY <1>1, <1>2, <2>1 DEF MissesCounted, Misses
  <1>3. ASSUME NEW x, Misses' \subseteq Misses \cup {x}, dropped' = dropped + 1 PROVE MissesCounted'
    <2>1. IsFiniteSet(Misses \cup {x})
      BY <1>1, FS_AddElement
    <2>2. Cardinality(Misses \cup {x}) <= Cardinality(Misses) + 1
      <3>1. Cardinality(Misses \cup {x}) = IF x \in Misses THEN Cardinality(Misses) ELSE Cardinality(Misses) + 1
        BY <1>1, FS_AddElement
      <3>2. QED  BY <1>1, <3>1
    <2>3. Cardinality(Misses') <= Cardinality(Misses \cup {x}) /\ Cardinality(Misses \cup {x}) \in Nat
      BY <1>3, <2>1, FS_Subset, FS_CardinalityType
    <2>4. Cardinality(Misses') <= dropped'
      BY <1>1, <1>3, <2>2, <2>3
    <2>5. QED  BY <2>4 DEF MissesCounted, Misses
  <1>4. QED  BY <1>2, <1>3, OneMiss

LEMMA NoMisses ==
  /\ Fresh => MissesCounted
  /\ Fresh' => MissesCounted'
  <1>1. Fresh => Misses = {} /\ dropped = 0
    BY DEF Fresh, Misses
  <1>2. Fresh' => Misses' = {} /\ dropped' = 0
    BY DEF Fresh, Misses
  <1>3. QED  BY <1>1, <1>2, FS_EmptySet DEF MissesCounted, Misses

\* A client misses nothing the hub did not count, across any number of clients that
\* come, go and hang, and of broadcasts their queues have no room for.
THEOREM NothingMissedUncounted == AllSpec => []MissesCounted
  <1>1. AllInit => MissesCounted
    BY NoMisses DEF AllInit, Init, Fresh
  <1>2. HubInv /\ HubInv' /\ MissesCounted /\ [AllNext]_allVars => MissesCounted'
    BY HubInProcess, MissesStep, NoMisses DEF allVars
  <1>3. QED  BY <1>1, <1>2, HubInvariance, PTL DEF AllSpec

(***************************************************************************)
(* The group's invariant.  What a host reads comes after the end of the    *)
(* log as it first saw it, and so does what it commits; and what it has    *)
(* passed since it last began at the end of the log it has shown, but for  *)
(* the record in its hands.                                                *)
(***************************************************************************)
GroupTyped ==
  /\ Group!GroupTypeOK
  /\ since \in [Partitions -> Nat \cup {None}]
  /\ begun \in [Partitions -> Nat]

\* Nobody reads ahead of the log.
Bound(p) ==
  /\ committed[p] <= Len(log[p]) /\ position[p] <= Len(log[p])
  /\ since[p] # None => since[p] <= Len(log[p])
  /\ begun[p] <= Len(log[p])

Live(p) ==
  /\ owner[p] = Host => since[p] # None /\ since[p] <= position[p]
  /\ committed[p] # 0 => since[p] # None /\ since[p] <= committed[p]

Displayed(p, o) == log[p][o] \in Valid /\ o > begun[p] => <<p, o>> \in shown

\* The record in the host's hands.
InHand == task[Host]

Whole(p) ==
  /\ \A o \in 1..committed[p] : Displayed(p, o)
  /\ owner[p] = Host => \A o \in 1..position[p] : Displayed(p, o) \/ <<p, o>> = InHand

HandOK ==
  /\ pc[Host] \in {"handle", "midway", "deadletter", "commit"} => InHand # None
  /\ pc[Host] \in {"fetch"} \cup Group!Ended => InHand = None
  /\ InHand # None =>
       LET p == InHand[1]  o == InHand[2] IN
       /\ o \in DOMAIN log[p] /\ \A q \in 1..(o - 1) : Displayed(p, q)
       /\ since[p] # None /\ since[p] < o
       /\ pc[Host] \in {"midway", "commit"} => Displayed(p, o)
       /\ pc[Host] = "deadletter" => log[p][o] \notin Valid

GInv ==
  /\ GroupTyped
  /\ \A p \in Partitions : Bound(p) /\ Live(p) /\ Whole(p)
  /\ HandOK
  /\ LiveOnly
  /\ ~Up => \A p \in Partitions : owner[p] = None

LEMMA GroupStarts == AllInit => GInv
  <1> SUFFICES ASSUME AllInit PROVE GInv
    OBVIOUS
  <1> USE NotifierAssumption DEF NotifierAssumption, AllInit, Group!GroupInit
  <1>1. GroupTyped
    BY DEF GroupTyped, Group!GroupTypeOK, Group!Loop, Group!Returned, Group!Ended
  <1>2. \A p \in Partitions : Bound(p) /\ Live(p) /\ Whole(p)
    BY DEF Bound, Live, Whole
  <1>3. HandOK
    BY DEF HandOK, InHand
  <1>4. LiveOnly
    BY DEF LiveOnly
  <1>5. QED  BY <1>1, <1>2, <1>3, <1>4 DEF GInv

\* The broker appends a record.
LEMMA Producing ==
  ASSUME GInv, NEW m \in Aggregates, Alone(Group!Produce(m))
  PROVE  GInv'
  <1> DEFINE t == Route[m]
             new == Append(log[t], m)
  <1>1. /\ log' = [log EXCEPT ![t] = new]
        /\ UNCHANGED <<committed, owner, position, pc, task, stopping, faults, since, begun, shown>>
    BY DEF Alone, Group!Produce, history
  <1>2. t \in Partitions /\ log \in [Partitions -> Seq(Aggregates)]
    BY NotifierAssumption DEF NotifierAssumption, GInv, GroupTyped, Group!GroupTypeOK
  <1>3. /\ new \in Seq(Aggregates) /\ Len(new) = Len(log[t]) + 1 /\ DOMAIN log[t] = 1..Len(log[t])
        /\ Len(log[t]) \in Nat /\ DOMAIN new = 1..(Len(log[t]) + 1)
        /\ \A i \in 1..Len(log[t]) : new[i] = log[t][i]
    <2>1. log[t] \in Seq(Aggregates) /\ m \in Aggregates
      BY <1>2
    <2> HIDE DEF t
    <2>2. QED  BY <2>1, Appending
  <1> HIDE DEF new, t
  <1>4. /\ log' \in [Partitions -> Seq(Aggregates)]
        /\ \A p \in Partitions : /\ Len(log[p]) \in Nat /\ Len(log'[p]) \in Nat
                                 /\ Len(log[p]) <= Len(log'[p])
                                 /\ DOMAIN log[p] = 1..Len(log[p])
                                 /\ DOMAIN log'[p] = 1..Len(log'[p])
                                 /\ \A i \in DOMAIN log[p] : log'[p][i] = log[p][i]
    BY <1>1, <1>2, <1>3
  <1>5. GroupTyped'
    BY <1>1, <1>4 DEF GInv, GroupTyped, Group!GroupTypeOK
  <1>6. ASSUME NEW p \in Partitions PROVE Bound(p)'
    <2> DEFINE old == Len(log[p])
               now == Len(log'[p])
    <2>1. old \in Nat /\ now \in Nat /\ old <= now
      BY <1>4
    <2>2. /\ committed[p] \in Nat /\ position[p] \in Nat /\ begun[p] \in Nat
          /\ since[p] # None => since[p] \in Nat
      BY DEF GInv, GroupTyped, Group!GroupTypeOK
    <2>3. /\ committed[p] <= old /\ position[p] <= old /\ begun[p] <= old
          /\ since[p] # None => since[p] <= old
      BY DEF GInv, Bound
    <2> HIDE DEF old, now
    <2>4. /\ committed[p] <= now /\ position[p] <= now /\ begun[p] <= now
          /\ since[p] # None => since[p] <= now
      BY <2>1, <2>2, <2>3
    <2>5. QED  BY <1>1, <2>4 DEF Bound, now
  <1>7. \A p \in Partitions : Live(p)'
    BY <1>1 DEF GInv, Live
  <1>8. \A p \in Partitions : \A o \in DOMAIN log[p] : Displayed(p, o) => Displayed(p, o)'
    BY <1>1, <1>4 DEF Displayed
  <1>9. ASSUME NEW p \in Partitions PROVE Whole(p)'
    <2>1. committed[p] \in Nat /\ position[p] \in Nat /\ committed[p] <= Len(log[p]) /\ position[p] <= Len(log[p])
      BY DEF GInv, Bound, GroupTyped, Group!GroupTypeOK
    <2>2. \A o \in 1..committed[p] : o \in DOMAIN log[p]
      BY <1>4, <2>1
    <2>3. \A o \in 1..position[p] : o \in DOMAIN log[p]
      BY <1>4, <2>1
    <2>4. QED  BY <1>1, <1>8, <2>2, <2>3 DEF GInv, Whole, InHand
  <1>10. HandOK'
    <2>1. CASE InHand = None
      BY <1>1, <2>1 DEF GInv, HandOK, InHand
    <2>2. CASE InHand # None
      <3>1. PICK p \in Partitions, o \in Nat : InHand = <<p, o>>
        BY <2>2 DEF InHand, GInv, GroupTyped, Group!GroupTypeOK
      <3>2. o \in DOMAIN log[p] /\ \A q \in 1..(o - 1) : q \in DOMAIN log[p] /\ Displayed(p, q)
        BY <1>4, <2>2, <3>1 DEF GInv, HandOK
      <3>3. /\ o \in DOMAIN log'[p] /\ log'[p][o] = log[p][o]
            /\ \A q \in 1..(o - 1) : Displayed(p, q)'
        BY <1>4, <1>8, <3>2
      <3>4. pc[Host] \in {"midway", "commit"} => Displayed(p, o)'
        BY <1>8, <2>2, <3>1, <3>2 DEF GInv, HandOK
      <3>5. /\ since[p] # None /\ since[p] < o
            /\ pc[Host] = "deadletter" => log[p][o] \notin Valid
            /\ pc[Host] \in {"fetch"} \cup Group!Ended => InHand = None
        BY <2>2, <3>1 DEF GInv, HandOK
      <3>6. InHand' = <<p, o>>
        BY <1>1, <3>1 DEF InHand
      <3>7. QED  BY <1>1, <2>2, <3>1, <3>3, <3>4, <3>5, <3>6 DEF HandOK
    <2>3. QED  BY <2>1, <2>2
  <1>11. LiveOnly' /\ (~Up => \A p \in Partitions : owner[p] = None)'
    BY <1>1 DEF GInv, LiveOnly, Up, Group!Member
  <1>12. QED  BY <1>5, <1>6, <1>7, <1>9, <1>10, <1>11 DEF GInv

\* The types of the host's one place in the loop.
LEMMA Faults ==
  ASSUME GInv, Group!Fault \/ UNCHANGED faults
  PROVE  faults' \in 0..MaxFaults
  <1>1. faults \in 0..MaxFaults /\ MaxFaults \in Nat
    BY NotifierAssumption DEF NotifierAssumption, GInv, GroupTyped, Group!GroupTypeOK
  <1>2. QED  BY <1>1 DEF Group!Fault

LEMMA Goes ==
  ASSUME GInv, NEW step \in Group!Loop \cup Group!Returned \cup Group!Ended, Group!Goto(Host, step)
  PROVE  /\ pc' \in [{Host} -> Group!Loop \cup Group!Returned \cup Group!Ended]
         /\ pc'[Host] = step
  BY DEF Group!Goto, GInv, GroupTyped, Group!GroupTypeOK

\* What the host holds: nothing, or a record.
LEMMA Hands ==
  ASSUME GInv, InHand # None
  PROVE  \E p \in Partitions : \E o \in Nat :
           /\ InHand = <<p, o>> /\ o \in DOMAIN log[p] /\ o >= 1
           /\ \A q \in 1..(o - 1) : Displayed(p, q)
           /\ since[p] # None /\ since[p] < o
           /\ pc[Host] \in {"midway", "commit"} => Displayed(p, o)
           /\ pc[Host] = "deadletter" => log[p][o] \notin Valid
  <1>1. PICK p \in Partitions, o \in Nat : InHand = <<p, o>>
    BY DEF InHand, GInv, GroupTyped, Group!GroupTypeOK
  <1>2. o \in DOMAIN log[p] /\ log[p] \in Seq(Aggregates)
    BY <1>1 DEF GInv, HandOK, GroupTyped, Group!GroupTypeOK
  <1>3. o >= 1
    BY <1>2
  <1>4. QED  BY <1>1, <1>2, <1>3 DEF GInv, HandOK

\* The host moves in its loop, and what it holds, if anything, stays in its hands.
LEMMA Staying ==
  ASSUME GInv, GroupTyped',
         UNCHANGED <<log, committed, owner, position, task, since, begun, shown>>,
         \/ pc'[Host] = pc[Host]
         \/ pc'[Host] \in Group!Returned
         \/ pc'[Host] = "fetch" /\ InHand = None
         \/ pc'[Host] = "commit" /\ pc[Host] \in {"midway", "deadletter"},
         Up'
  PROVE  GInv'
  <1>1. InHand' = InHand
    BY DEF InHand
  <1>2. HandOK'
    <2>1. CASE InHand = None
      BY <1>1, <2>1 DEF GInv, HandOK, Group!Returned, Group!Ended
    <2>2. CASE InHand # None
      <3>1. PICK p \in Partitions, o \in Nat :
              /\ InHand = <<p, o>> /\ o \in DOMAIN log[p]
              /\ \A q \in 1..(o - 1) : Displayed(p, q)
              /\ since[p] # None /\ since[p] < o
              /\ pc[Host] \in {"midway", "commit"} => Displayed(p, o)
              /\ pc[Host] = "deadletter" => log[p][o] \notin Valid
        BY <2>2, Hands
      <3>2. pc[Host] \notin {"fetch"} \cup Group!Ended
        BY <2>2 DEF GInv, HandOK
      <3>3. pc'[Host] \in {"midway", "commit"} => Displayed(p, o)
        BY <3>1, <2>2 DEF Displayed, Group!Returned
      <3>4. pc'[Host] = "deadletter" => log[p][o] \notin Valid
        BY <3>1 DEF Group!Returned
      <3>5. pc'[Host] \notin {"fetch"} \cup Group!Ended
        BY <2>2, <3>2 DEF Group!Returned, Group!Ended
      <3>6. QED  BY <1>1, <2>2, <3>1, <3>3, <3>4, <3>5 DEF HandOK, Displayed
    <2>3. QED  BY <2>1, <2>2
  <1>3. \A p \in Partitions : Bound(p)' /\ Live(p)' /\ Whole(p)'
    BY <1>1 DEF GInv, Bound, Live, Whole, Displayed
  <1>4. LiveOnly'
    BY DEF GInv, LiveOnly
  <1>5. QED  BY <1>2, <1>3, <1>4 DEF GInv

\* The host starts, is signalled, returns from Run, passes over a poison record.
LEMMA Looping ==
  ASSUME GInv,
         \/ Alone(Group!Start(Host)) \/ Alone(Group!Cancel(Host))
         \/ Alone(Group!Stop(Host)) \/ Alone(Group!FetchFail(Host)) \/ Alone(Group!SkipPoison(Host))
         \/ HandlerReturns
  PROVE  GInv'
  <1>1. UNCHANGED <<log, committed, owner, position, task, since, begun, shown>>
    BY DEF Alone, history, HandlerReturns, HandlerUnchanged, Group!Start, Group!Cancel, Group!Stop, Group!FetchFail,
       Group!SkipPoison, Group!Return
  <1>2. Group!Fault \/ UNCHANGED faults
    BY DEF Alone, HandlerReturns, HandlerUnchanged, Group!Start, Group!Cancel, Group!Stop, Group!FetchFail,
       Group!SkipPoison
  <1>3. \/ pc' = pc /\ pc[Host] \notin Group!Ended
        \/ Group!Goto(Host, "fetch") /\ pc[Host] \in Group!Ended
        \/ \E r \in Group!Returned : Group!Goto(Host, r)
        \/ Group!Goto(Host, "commit") /\ pc[Host] \in {"midway", "deadletter"}
    BY DEF Alone, HandlerReturns, Group!Start, Group!Cancel, Group!Stop, Group!FetchFail,
       Group!SkipPoison, Group!Return, Group!Returned, Group!Member
  <1>4. stopping' \in [{Host} -> BOOLEAN]
    BY DEF Alone, HandlerReturns, HandlerUnchanged, Group!Start, Group!Cancel, Group!Stop, Group!FetchFail,
       Group!SkipPoison, Group!Return, GInv, GroupTyped, Group!GroupTypeOK
  <1>5. /\ pc' \in [{Host} -> Group!Loop \cup Group!Returned \cup Group!Ended]
        /\ \/ pc'[Host] = pc[Host] /\ pc[Host] \notin Group!Ended
           \/ pc'[Host] = "fetch" /\ pc[Host] \in Group!Ended
           \/ pc'[Host] \in Group!Returned
           \/ pc'[Host] = "commit" /\ pc[Host] \in {"midway", "deadletter"}
    BY <1>3, Goes DEF Group!Loop, GInv, GroupTyped, Group!GroupTypeOK
  <1>6. GroupTyped'
    BY <1>1, <1>2, <1>4, <1>5, Faults DEF GInv, GroupTyped, Group!GroupTypeOK
  <1>7. pc[Host] \in Group!Ended => InHand = None
    BY DEF GInv, HandOK
  <1>8. Up'
    BY <1>5 DEF Up, Group!Member, Group!Ended, Group!Returned
  <1>9. QED  BY <1>1, <1>5, <1>6, <1>7, <1>8, Staying

\* The broadcast has taken the record of the host's hands.
LEMMA HandingOver ==
  ASSUME GInv, HandOver
  PROVE  GInv'
  <1>1. /\ pc[Host] = "handle" /\ Group!Goto(Host, "midway")
        /\ UNCHANGED <<log, committed, owner, position, task, stopping, faults, since, begun>>
        /\ shown' = shown \cup {InHand}
    BY DEF HandOver, HandlerUnchanged, InHand
  <1>2. PICK p \in Partitions, o \in Nat :
          /\ InHand = <<p, o>> /\ o \in DOMAIN log[p]
          /\ \A q \in 1..(o - 1) : Displayed(p, q)
          /\ since[p] # None /\ since[p] < o
    BY <1>1, Hands DEF GInv, HandOK
  <1>3. pc' \in [{Host} -> Group!Loop \cup Group!Returned \cup Group!Ended] /\ pc'[Host] = "midway"
    BY <1>1, Goes DEF Group!Loop
  <1>4. GroupTyped'
    BY <1>1, <1>3 DEF GInv, GroupTyped, Group!GroupTypeOK
  <1>5. InHand' = InHand
    BY <1>1 DEF InHand
  <1>6. \A t, q : Displayed(t, q) => Displayed(t, q)'
    BY <1>1 DEF Displayed
  <1>7. Displayed(p, o)'
    BY <1>1, <1>2 DEF Displayed
  <1>8. HandOK'
    <2>1. \A q \in 1..(o - 1) : Displayed(p, q)'
      BY <1>2, <1>6
    <2>2. InHand' # None
      BY <1>1, <1>5 DEF GInv, HandOK
    <2>3. QED  BY <1>1, <1>2, <1>3, <1>5, <1>7, <2>1, <2>2 DEF HandOK, Group!Ended
  <1>9. \A t \in Partitions : Bound(t)' /\ Live(t)'
    BY <1>1 DEF GInv, Bound, Live
  <1>10. \A t \in Partitions : Whole(t)'
    BY <1>1, <1>5, <1>6 DEF GInv, Whole
  <1>11. LiveOnly'
    <2>1. InHand[1] = p /\ InHand[2] = o
      BY <1>2
    <2>2. QED  BY <1>1, <1>2, <2>1 DEF GInv, LiveOnly
  <1>12. (~Up => \A t \in Partitions : owner[t] = None)'
    BY <1>3 DEF Up, Group!Member, Group!Ended
  <1>13. QED  BY <1>4, <1>8, <1>9, <1>10, <1>11, <1>12 DEF GInv

LEMMA Fetching ==
  ASSUME GInv, NEW f \in Partitions, Alone(Group!Fetch(Host, f))
  PROVE  GInv'
  <1> DEFINE n == position[f]
             step == Group!Decode(log[f][n + 1])
  <1>1. /\ pc[Host] = "fetch" /\ owner[f] = Host /\ n < Len(log[f])
        /\ position' = [position EXCEPT ![f] = n + 1]
        /\ task' = [task EXCEPT ![Host] = <<f, n + 1>>]
        /\ Group!Goto(Host, step)
        /\ UNCHANGED <<log, committed, owner, stopping, faults, since, begun, shown>>
    BY DEF Alone, Group!Fetch, history
  <1>2. /\ position \in [Partitions -> Nat] /\ task \in [{Host} -> (Partitions \X Nat) \cup {None}]
        /\ log \in [Partitions -> Seq(Aggregates)] /\ since \in [Partitions -> Nat \cup {None}]
    BY DEF GInv, GroupTyped, Group!GroupTypeOK
  <1>3. n \in Nat /\ n + 1 \in Nat /\ n + 1 \in DOMAIN log[f] /\ n + 1 <= Len(log[f]) /\ (n + 1) - 1 = n
    <2>1. n \in Nat /\ log[f] \in Seq(Aggregates) /\ n < Len(log[f])
      BY <1>1, <1>2
    <2> HIDE DEF n
    <2>2. QED  BY <2>1
  <1>4. \/ step = "handle"
        \/ step = "deadletter" /\ log[f][n + 1] \notin Valid
    BY DEF Group!Decode
  <1>5. pc' \in [{Host} -> Group!Loop \cup Group!Returned \cup Group!Ended] /\ pc'[Host] = step
    BY <1>1, <1>4, Goes DEF Group!Loop
  <1>6. InHand = None
    BY <1>1 DEF GInv, HandOK
  <1> HIDE DEF n, step
  <1>7. /\ position' \in [Partitions -> Nat] /\ position'[f] = n + 1
        /\ \A p \in Partitions \ {f} : position'[p] = position[p]
        /\ task' \in [{Host} -> (Partitions \X Nat) \cup {None}] /\ InHand' = <<f, n + 1>>
    BY <1>1, <1>2, <1>3 DEF InHand
  <1>8. GroupTyped'
    BY <1>1, <1>5, <1>7 DEF GInv, GroupTyped, Group!GroupTypeOK
  <1>9. \A p : \A o : Displayed(p, o)' <=> Displayed(p, o)
    BY <1>1 DEF Displayed
  <1>10. \A p \in Partitions : owner[p] = Host => \A o \in 1..position[p] : Displayed(p, o)
    <2>1. \A p \in Partitions : \A o \in Nat : <<p, o>> # None
      BY NotifierAssumption DEF NotifierAssumption
    <2>2. QED  BY <1>6, <2>1 DEF GInv, Whole
  <1>11. \A p \in Partitions : Bound(p)'
    BY <1>1, <1>3, <1>7 DEF GInv, Bound
  <1>12. \A p \in Partitions : Live(p)'
    <2>1. \A p \in Partitions \ {f} : Live(p)'
      BY <1>1, <1>7 DEF GInv, Live
    <2>2. since[f] # None /\ since[f] <= n /\ since[f] \in Nat
      BY <1>1, <1>2 DEF GInv, Live, n
    <2>3. Live(f)'
      BY <1>1, <1>3, <1>7, <2>2 DEF GInv, Live
    <2>4. QED  BY <2>1, <2>3
  <1>13. ASSUME NEW p \in Partitions PROVE Whole(p)'
    <2>1. \A o \in 1..committed[p] : Displayed(p, o)
      BY DEF GInv, Whole
    <2>2. CASE p # f
      BY <1>1, <1>7, <1>9, <1>10, <2>1, <2>2 DEF Whole
    <2>3. CASE p = f
      <3>1. \A o \in 1..n : Displayed(f, o)
        BY <1>1, <1>10 DEF n
      <3>2. ASSUME NEW o \in 1..(n + 1) PROVE Displayed(f, o)' \/ <<f, o>> = InHand'
        <4>1. CASE o = n + 1
          BY <1>7, <4>1
        <4>2. CASE o # n + 1
          <5>1. o \in 1..n
            BY <1>3, <4>2
          <5>2. QED  BY <1>9, <3>1, <5>1
        <4>3. QED  BY <4>1, <4>2
      <3>3. QED  BY <1>1, <1>7, <1>9, <2>1, <2>3, <3>2 DEF Whole
    <2>4. QED  BY <2>2, <2>3
  <1>14. HandOK'
    <2>1. InHand' # None
      BY <1>3, <1>7, NotifierAssumption DEF NotifierAssumption
    <2>2. InHand'[1] = f /\ InHand'[2] = n + 1
      BY <1>7
    <2>3. \A o \in 1..((n + 1) - 1) : Displayed(f, o)'
      BY <1>1, <1>3, <1>9, <1>10 DEF n
    <2>4. since[f] # None /\ since[f] < n + 1
      <3>1. since[f] # None /\ since[f] <= n /\ since[f] \in Nat
        BY <1>1, <1>2 DEF GInv, Live, n
      <3>2. QED  BY <1>3, <3>1
    <2>5. pc'[Host] \in {"handle", "deadletter"} /\ (pc'[Host] = "deadletter" => log[f][n + 1] \notin Valid)
      BY <1>4, <1>5
    <2>6. QED  BY <1>1, <1>3, <2>1, <2>2, <2>3, <2>4, <2>5 DEF HandOK, Group!Ended
  <1>15. LiveOnly' /\ (~Up => \A p \in Partitions : owner[p] = None)'
    BY <1>1, <1>4, <1>5 DEF GInv, LiveOnly, Up, Group!Member, Group!Ended
  <1>16. QED  BY <1>8, <1>11, <1>12, <1>13, <1>14, <1>15 DEF GInv

\* The host commits what it holds, or fails to; it lets go of it, or Run returns.
LEMMA Committing ==
  ASSUME GInv,
         \/ Alone(Group!Commit(Host)) \/ Alone(Group!CommitInterrupted(Host))
         \/ Alone(Group!CommitFail(Host))
  PROVE  GInv'
  <1>1. /\ pc[Host] = "commit"
        /\ UNCHANGED <<log, owner, position, stopping, since, begun, shown>>
        /\ Group!Acknowledge(Host) \/ UNCHANGED committed
        /\ \/ Group!Goto(Host, "fetch") /\ task' = [task EXCEPT ![Host] = None]
           \/ Group!Goto(Host, "err") /\ task' = task
    BY DEF Alone, history, Group!Commit, Group!CommitInterrupted, Group!CommitFail, Group!Return
  <1>2. Group!Fault \/ UNCHANGED faults
    BY DEF Alone, Group!Commit, Group!CommitInterrupted, Group!CommitFail
  <1>3. PICK p \in Partitions, o \in Nat :
          /\ InHand = <<p, o>> /\ o \in DOMAIN log[p] /\ o >= 1
          /\ \A q \in 1..(o - 1) : Displayed(p, q)
          /\ since[p] # None /\ since[p] < o
          /\ Displayed(p, o)
    <2>1. InHand # None
      BY <1>1 DEF GInv, HandOK
    <2>2. QED  BY <1>1, <2>1, Hands
  <1>4. /\ committed \in [Partitions -> Nat] /\ task \in [{Host} -> (Partitions \X Nat) \cup {None}]
        /\ log \in [Partitions -> Seq(Aggregates)] /\ since \in [Partitions -> Nat \cup {None}]
    BY DEF GInv, GroupTyped, Group!GroupTypeOK
  <1>5. \/ UNCHANGED committed
        \/ committed' = [committed EXCEPT ![p] = o]
    BY <1>1, <1>3 DEF Group!Acknowledge, InHand
  <1>6. /\ pc' \in [{Host} -> Group!Loop \cup Group!Returned \cup Group!Ended]
        /\ \/ pc'[Host] = "fetch" /\ InHand' = None
           \/ pc'[Host] = "err" /\ InHand' = InHand
        /\ task' \in [{Host} -> (Partitions \X Nat) \cup {None}]
    BY <1>1, <1>4, Goes DEF Group!Loop, Group!Returned, InHand
  <1>7. GroupTyped'
    BY <1>1, <1>2, <1>4, <1>5, <1>6, Faults DEF GInv, GroupTyped, Group!GroupTypeOK
  <1>8. \A t, q : Displayed(t, q)' <=> Displayed(t, q)
    BY <1>1 DEF Displayed
  <1>9. \A t \in Partitions : committed'[t] = committed[t] \/ (t = p /\ committed'[t] = o)
    BY <1>4, <1>5
  <1>10. o <= Len(log[p])
    BY <1>3, <1>4
  <1>11. \A t \in Partitions : Bound(t)'
    BY <1>1, <1>9, <1>10, SMTT(20) DEF GInv, Bound
  <1>12. \A t \in Partitions : Live(t)'
    BY <1>1, <1>3, <1>4, <1>9 DEF GInv, Live
  <1>13. ASSUME NEW t \in Partitions PROVE Whole(t)'
    <2>1. \A q \in 1..o : Displayed(p, q)
      BY <1>3
    <2>2. \A q \in 1..committed'[t] : Displayed(t, q)'
      BY <1>8, <1>9, <2>1 DEF GInv, Whole
    <2>3. owner[t] = Host => \A q \in 1..position[t] : Displayed(t, q)
      <3>1. \A q : <<t, q>> = InHand => Displayed(t, q)
        BY <1>3
      <3>2. QED  BY <3>1 DEF GInv, Whole
    <2>4. QED  BY <1>1, <1>8, <2>2, <2>3 DEF Whole
  <1>14. HandOK'
    <2>1. CASE pc'[Host] = "fetch" /\ InHand' = None
      BY <2>1 DEF HandOK
    <2>2. CASE pc'[Host] = "err" /\ InHand' = InHand
      <3>1. \A q \in 1..(o - 1) : Displayed(p, q)'
        BY <1>3, <1>8
      <3>2. QED  BY <1>1, <1>3, <2>2, <3>1 DEF HandOK, Group!Ended
    <2>3. QED  BY <1>6, <2>1, <2>2
  <1>15. LiveOnly' /\ (~Up => \A t \in Partitions : owner[t] = None)'
    BY <1>1, <1>6 DEF GInv, LiveOnly, Up, Group!Member, Group!Ended
  <1>16. QED  BY <1>7, <1>11, <1>12, <1>13, <1>14, <1>15 DEF GInv

\* The host is given a partition: it reads on after what its group has committed,
\* or after the end of the log.
LEMMA BeingAssigned ==
  ASSUME GInv, NEW f \in Partitions, Join(f)
  PROVE  GInv'
  <1> DEFINE start == StartFrom(f)
             end == Len(log[f])
  <1>1. /\ pc[Host] \notin Group!Ended
        /\ owner' = [owner EXCEPT ![f] = Host]
        /\ position' = [position EXCEPT ![f] = start]
        /\ UNCHANGED <<log, committed, pc, task, stopping, shown>>
        /\ Group!Fault \/ UNCHANGED faults
        /\ since' = [since EXCEPT ![f] = IF since[f] = None THEN end ELSE since[f]]
        /\ begun' = [begun EXCEPT ![f] = IF committed[f] = 0 THEN end ELSE begun[f]]
    BY DEF Join, PassOver, Group!AssignAt, Group!RebalanceAt, Group!Member
  <1>2. /\ committed \in [Partitions -> Nat] /\ position \in [Partitions -> Nat]
        /\ owner \in [Partitions -> {Host} \cup {None}]
        /\ log \in [Partitions -> Seq(Aggregates)] /\ since \in [Partitions -> Nat \cup {None}]
        /\ begun \in [Partitions -> Nat]
    BY DEF GInv, GroupTyped, Group!GroupTypeOK
  <1>3. end \in Nat /\ committed[f] \in Nat /\ committed[f] <= end
    BY <1>2 DEF GInv, Bound
  <1>4. start = IF committed[f] = 0 THEN end ELSE committed[f]
    BY DEF StartFrom
  <1> HIDE DEF end, start
  <1>5. start \in Nat /\ start <= end
    BY <1>3, <1>4
  <1>6. /\ \A p \in Partitions \ {f} : position'[p] = position[p] /\ owner'[p] = owner[p] /\ since'[p] = since[p]
        /\ position'[f] = start /\ owner'[f] = Host
        /\ since'[f] = IF since[f] = None THEN end ELSE since[f]
    BY <1>1, <1>2
  <1>7. since'[f] # None /\ since'[f] \in Nat /\ since'[f] <= end
    <2>1. end # None
      BY <1>3, NotifierAssumption DEF NotifierAssumption
    <2>2. since[f] # None => since[f] <= end /\ since[f] \in Nat
      BY <1>2 DEF GInv, Bound, end
    <2>3. QED  BY <1>3, <1>6, <2>1, <2>2
  <1>8. committed[f] # 0 => since'[f] <= committed[f]
    BY <1>6 DEF GInv, Live
  <1>9. GroupTyped'
    <2>1. since' \in [Partitions -> Nat \cup {None}] /\ begun' \in [Partitions -> Nat]
      BY <1>1, <1>2, <1>3
    <2>2. position' \in [Partitions -> Nat] /\ owner' \in [Partitions -> {Host} \cup {None}]
      BY <1>1, <1>2, <1>5
    <2>3. faults' \in 0..MaxFaults
      BY <1>1, Faults
    <2>4. QED  BY <1>1, <2>1, <2>2, <2>3 DEF GInv, GroupTyped, Group!GroupTypeOK
  <1>10. ASSUME NEW p \in Partitions PROVE Bound(p)' /\ Live(p)'
    <2>1. CASE p # f
      BY <1>1, <1>6, <2>1 DEF GInv, Bound, Live
    <2>2. CASE p = f
      <3>1. begun'[p] <= end
        BY <1>1, <1>2, <1>3, <2>2 DEF GInv, Bound, end
      <3>2. Bound(p)'
        BY <1>1, <1>3, <1>5, <1>6, <1>7, <2>2, <3>1 DEF Bound, end
      <3>3. Live(p)'
        BY <1>1, <1>4, <1>6, <1>7, <1>8, <2>2 DEF Live
      <3>4. QED  BY <3>2, <3>3
    <2>3. QED  BY <2>1, <2>2
  <1>11. \A p \in Partitions : begun[p] <= begun'[p] /\ begun[p] \in Nat /\ begun'[p] \in Nat
    BY <1>1, <1>2, <1>3 DEF GInv, Bound, end
  <1>12. ASSUME NEW p \in Partitions, NEW o \in Int, Displayed(p, o) PROVE Displayed(p, o)'
    <2>1. o > begun'[p] => o > begun[p]
      BY <1>11
    <2>2. QED  BY <1>1, <1>12, <2>1 DEF Displayed
  <1>13. \A o \in 1..start : Displayed(f, o)'
    <2>1. CASE committed[f] = 0
      <3>1. begun'[f] = end /\ start = end
        BY <1>1, <1>2, <1>4, <2>1
      <3>2. \A o \in 1..start : ~(o > begun'[f])
        BY <1>3, <3>1
      <3>3. QED  BY <3>2 DEF Displayed
    <2>2. CASE committed[f] # 0
      BY <1>4, <1>12, <2>2 DEF GInv, Whole
    <2>3. QED  BY <2>1, <2>2
  <1>14. InHand' = InHand
    BY <1>1 DEF InHand
  <1>15. ASSUME NEW p \in Partitions PROVE Whole(p)'
    <2>1. CASE p # f
      BY <1>1, <1>6, <1>12, <1>14, <2>1 DEF GInv, Whole
    <2>2. CASE p = f
      <3>1. \A o \in 1..committed'[p] : Displayed(p, o)'
        BY <1>1, <1>12 DEF GInv, Whole
      <3>2. QED  BY <1>6, <1>13, <2>2, <3>1 DEF Whole
    <2>3. QED  BY <2>1, <2>2
  <1>16. \A p \in Partitions : since[p] # None => since'[p] = since[p]
    BY <1>6
  <1>17. HandOK'
    <2>1. CASE InHand = None
      BY <1>1, <1>14, <2>1 DEF GInv, HandOK
    <2>2. CASE InHand # None
      <3>1. PICK p \in Partitions, o \in Nat :
              /\ InHand = <<p, o>> /\ o \in DOMAIN log[p]
              /\ \A q \in 1..(o - 1) : Displayed(p, q)
              /\ since[p] # None /\ since[p] < o
              /\ pc[Host] \in {"midway", "commit"} => Displayed(p, o)
              /\ pc[Host] = "deadletter" => log[p][o] \notin Valid
        BY <2>2, Hands
      <3>2. \A q \in 1..(o - 1) : Displayed(p, q)'
        BY <1>12, <3>1
      <3>3. pc[Host] \in {"midway", "commit"} => Displayed(p, o)'
        BY <1>12, <3>1
      <3>4. since'[p] # None /\ since'[p] < o
        BY <1>16, <3>1
      <3>5. pc[Host] \notin {"fetch"} \cup Group!Ended
        BY <2>2 DEF GInv, HandOK
      <3>6. InHand'[1] = p /\ InHand'[2] = o
        BY <1>14, <3>1
      <3>7. QED  BY <1>1, <1>14, <2>2, <3>1, <3>2, <3>3, <3>4, <3>5, <3>6 DEF HandOK
    <2>3. QED  BY <2>1, <2>2
  <1>18. LiveOnly'
    <2>1. ASSUME NEW r \in shown PROVE since'[r[1]] # None /\ r[2] > since'[r[1]]
      <3>1. since[r[1]] # None /\ r[2] > since[r[1]]
        BY DEF GInv, LiveOnly
      <3>2. since'[r[1]] = since[r[1]]
        BY <1>1, <1>2, <3>1
      <3>3. QED  BY <3>1, <3>2
    <2>2. QED  BY <1>1, <2>1 DEF LiveOnly
  <1>19. (~Up => \A p \in Partitions : owner[p] = None)'
    BY <1>1 DEF Up, Group!Member
  <1>20. QED  BY <1>9, <1>10, <1>15, <1>17, <1>18, <1>19 DEF GInv

\* The process ends; a host that is down may be replaced by a new one.
LEMMA Ending ==
  ASSUME GInv,
         \/ ConsumerEnds \/ SignalEnds \/ ServerFails \/ Kill
         \/ NewHost
  PROVE  GInv'
  <1>1. CASE ConsumerEnds \/ SignalEnds \/ ServerFails \/ Kill
    <2>1. PICK how \in Group!Ended : Group!Leave(Host, how)
      BY <1>1 DEF ConsumerEnds, SignalEnds, ServerFails, Kill, End, Group!Ended
    <2>2. /\ UNCHANGED <<log, committed, position, since, begun, shown>>
          /\ Group!Fault \/ UNCHANGED faults
          /\ Group!Goto(Host, how)
          /\ task' = [task EXCEPT ![Host] = None]
          /\ stopping' = [stopping EXCEPT ![Host] = FALSE]
          /\ owner' = [p \in Partitions |-> IF owner[p] = Host THEN None ELSE owner[p]]
      BY <1>1, <2>1 DEF ConsumerEnds, SignalEnds, ServerFails, Kill, End, Group!Leave, history
    <2>3. /\ owner \in [Partitions -> {Host} \cup {None}] /\ stopping \in [{Host} -> BOOLEAN]
          /\ task \in [{Host} -> (Partitions \X Nat) \cup {None}]
      BY DEF GInv, GroupTyped, Group!GroupTypeOK
    <2>4. \A p \in Partitions : owner'[p] = None
      BY <2>2, <2>3
    <2>5. InHand' = None /\ pc'[Host] = how
          /\ pc' \in [{Host} -> Group!Loop \cup Group!Returned \cup Group!Ended]
      BY <2>2, <2>3, Goes DEF InHand
    <2>6. GroupTyped'
      <3>1. stopping' \in [{Host} -> BOOLEAN]
        BY <2>2, <2>3
      <3>2. task' \in [{Host} -> (Partitions \X Nat) \cup {None}]
        BY <2>2, <2>3
      <3>3. owner' \in [Partitions -> {Host} \cup {None}]
        BY <2>2, <2>3
      <3>4. QED  BY <2>2, <2>5, <3>1, <3>2, <3>3, Faults DEF GInv, GroupTyped, Group!GroupTypeOK
    <2>7. Host # None
      BY NotifierAssumption DEF NotifierAssumption
    <2>8. \A p \in Partitions : Bound(p)' /\ Live(p)' /\ Whole(p)'
      BY <2>2, <2>4, <2>7 DEF GInv, Bound, Live, Whole, Displayed
    <2>9. HandOK'
      BY <2>5 DEF HandOK, Group!Ended
    <2>10. LiveOnly'
      BY <2>2 DEF GInv, LiveOnly
    <2>11. QED  BY <2>4, <2>6, <2>8, <2>9, <2>10 DEF GInv
  <1>2. CASE NewHost
    <2>1. /\ ~Up /\ shown' = {}
          /\ committed' = [p \in Partitions |-> 0] /\ since' = [p \in Partitions |-> None]
          /\ begun' = [p \in Partitions |-> 0]
          /\ UNCHANGED <<log, owner, position, pc, task, stopping, faults>>
      BY <1>2 DEF NewHost
    <2>2. /\ \A p \in Partitions : owner[p] = None
          /\ pc[Host] \in Group!Ended /\ InHand = None
      BY <2>1 DEF GInv, Up, Group!Member, HandOK
    <2>3. Host # None
      BY NotifierAssumption DEF NotifierAssumption
    <2>4. GroupTyped'
      BY <2>1 DEF GInv, GroupTyped, Group!GroupTypeOK
    <2>5. \A p \in Partitions : committed'[p] = 0 /\ since'[p] = None /\ begun'[p] = 0 /\ Len(log[p]) \in Nat
      BY <2>1 DEF GInv, GroupTyped, Group!GroupTypeOK
    <2>6. \A p \in Partitions : Bound(p)' /\ Live(p)' /\ Whole(p)'
      BY <2>1, <2>2, <2>3, <2>5 DEF GInv, Bound, Live, Whole
    <2>7. HandOK'
      BY <2>1, <2>2 DEF HandOK, InHand, Group!Ended
    <2>8. LiveOnly'
      BY <2>1 DEF LiveOnly
    <2>9. QED  BY <2>1, <2>2, <2>4, <2>6, <2>7, <2>8 DEF GInv
  <1>3. QED  BY <1>1, <1>2

LEMMA GroupStep == GInv /\ [AllNext]_allVars => GInv'
  <1> SUFFICES ASSUME GInv, [AllNext]_allVars PROVE GInv'
    OBVIOUS
  <1>1. CASE UNCHANGED <<groupVars, history>>
    BY <1>1 DEF groupVars, history, GInv, GroupTyped, Group!GroupTypeOK, Bound, Live, Whole, Displayed,
       HandOK, InHand, LiveOnly, Up, Group!Member
  <1>2. ASSUME NEW m \in Aggregates, Alone(Group!Produce(m)) PROVE GInv'
    BY <1>2, Producing
  <1>3. CASE StartHost \/ Alone(Group!Cancel(Host)) \/ HandlerReturns
    BY <1>3, Looping DEF StartHost
  <1>4. CASE Loop
    <2>1. \/ \E f \in Partitions : Alone(Group!Fetch(Host, f))
          \/ Alone(Group!Stop(Host)) \/ Alone(Group!FetchFail(Host)) \/ Alone(Group!SkipPoison(Host))
          \/ Alone(Group!Commit(Host)) \/ Alone(Group!CommitInterrupted(Host))
          \/ Alone(Group!CommitFail(Host))
      BY <1>4 DEF Loop, Alone, Group!LoopStep
    <2>2. QED  BY <2>1, Fetching, Looping, Committing
  <1>5. CASE HandOver
    BY <1>5, HandingOver
  <1>6. ASSUME NEW p \in Partitions, Join(p) PROVE GInv'
    BY <1>6, BeingAssigned
  <1>7. CASE NewHost \/ ConsumerEnds \/ SignalEnds \/ ServerFails \/ Kill
    BY <1>7, Ending
  <1>8. QED  BY <1>1, <1>2, <1>3, <1>4, <1>5, <1>6, <1>7 DEF AllNext, Process, allVars

\* The group's invariant holds of every reachable state.
THEOREM Invariance == AllSpec => []GInv
  BY GroupStarts, GroupStep, PTL DEF AllSpec

\* A new host shows nothing older than itself, however it joins its group.
THEOREM ShowsWhatIsLive == AllSpec => []LiveOnly
  BY Invariance, PTL DEF GInv

\* From where it last began at the end of the log a host leaves nothing out: what it
\* has passed, or its group has committed, it has broadcast or has in its hands
\* (notifier/main.go, kafkax.Run).
THEOREM LeavesNoGap == AllSpec => []NoGapOnceBegun
  <1>1. GInv => NoGapOnceBegun
    <2> SUFFICES ASSUME GInv, NEW p \in Partitions, NEW o \in Passed(p), o > begun[p]
                 PROVE  ShownOrInHand(p, o)
      BY DEF NoGapOnceBegun
    <2>1. o \in Nat /\ o >= 1 /\ committed[p] \in Nat /\ position[p] \in Nat
      BY DEF Passed, GInv, GroupTyped, Group!GroupTypeOK
    <2>2. o \in 1..committed[p] \/ (owner[p] = Host /\ o \in 1..position[p])
      BY <2>1 DEF Passed
    <2>3. QED  BY <2>2 DEF GInv, Whole, Displayed, InHand, ShownOrInHand
  <1>2. QED  BY <1>1, Invariance, PTL
=============================================================================

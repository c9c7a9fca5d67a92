------------------------- MODULE PrimaryNotifyProofs -------------------------
(***************************************************************************)
(* For any zones, workers, routing, targets and callers: the notifier's    *)
(* queue discipline (QueuedOnce) is inductive, and with a slot per zone in *)
(* every channel it implies that no send under n.mu can block.             *)
(***************************************************************************)
EXTENDS PrimaryNotify, FiniteSetTheorems, TLAPS

\* A worker that moves to another state keeps a worker's type.
LEMMA RestingType ==
    ASSUME NEW at \in {"off", "select"} PROVE Resting(at) \in WorkerState
  BY DEF Resting, WorkerState, NoSOA

LEMMA MovedType ==
    ASSUME NEW r \in WorkerState, NEW at \in Busy \cup {"off", "select", "gone"}
    PROVE  /\ [r EXCEPT !.at = at] \in WorkerState
           /\ [r EXCEPT !.at = at].at = at
           /\ [r EXCEPT !.at = at].zone = r.zone
  BY DEF WorkerState

\* Queuing a zone keeps the channels' type.
LEMMA EnqueuedType ==
    ASSUME NEW q \in [Workers -> Seq(Zones)], NEW w \in Workers, NEW z \in Zones
    PROVE  [q EXCEPT ![w] = Append(@, z)] \in [Workers -> Seq(Zones)]
  <1>1. Append(q[w], z) \in Seq(Zones)
    OBVIOUS
  <1> QED
    BY <1>1

\* The types hold at the start.
LEMMA TypeInit == Init => TypeOK
  <1> SUFFICES ASSUME Init PROVE TypeOK
    OBVIOUS
  <1>1. worker \in [Workers -> WorkerState]
    BY RestingType DEF Init
  <1>2. \A w \in Workers : worker[w].at \notin Busy
    BY DEF Init, Resting, Busy
  <1>3. queue \in [Workers -> Seq(Zones)]
    BY DEF Init
  <1>4. caller \in [Callers -> [zone : Zones, soa : Nat] \cup {Idle}]
    BY DEF Init
  <1>5. pending \in [Zones -> Nat] /\ live \in [Zones -> Nat]
    BY DEF Init, NoSOA
  <1>6. queued \in [Zones -> BOOLEAN]
    BY DEF Init
  <1> QED
    BY <1>1, <1>2, <1>3, <1>4, <1>5, <1>6 DEF Init, TypeOK

\* A try that ended leaves the worker busy with the zone it had.
LEMMA SendKeepsZone ==
    ASSUME TypeOK, NEW w \in Workers, SendUDP(w) \/ SendTCP(w)
    PROVE  \E r \in WorkerState :
             /\ worker' = [worker EXCEPT ![w] = r]
             /\ worker[w].at \in Busy /\ r.at \in Busy /\ r.zone = worker[w].zone
  <1> DEFINE o == worker[w]
  <1>1. o \in WorkerState /\ o.at \in Busy
    BY DEF TypeOK, SendUDP, SendTCP, Busy
  <1>2. CASE NextTarget(w)
    <2>1. CASE o.target < Len(Targets[o.zone])
      <3> DEFINE r == [at |-> "udp", zone |-> o.zone, soa |-> o.soa,
                       target |-> o.target + 1, attempt |-> 1]
      <3>1. worker' = [worker EXCEPT ![w] = r]
        BY <1>2, <2>1 DEF NextTarget
      <3>2. r \in WorkerState /\ r.at \in Busy /\ r.zone = o.zone
        BY <1>1 DEF WorkerState, Busy
      <3> QED
        BY <1>1, <3>1, <3>2
    <2>2. CASE ~(o.target < Len(Targets[o.zone]))
      <3> DEFINE r == [o EXCEPT !.at = "finish"]
      <3>1. worker' = [worker EXCEPT ![w] = r]
        BY <1>2, <2>2 DEF NextTarget
      <3>2. r \in WorkerState /\ r.at \in Busy /\ r.zone = o.zone
        BY <1>1 DEF WorkerState, Busy
      <3> QED
        BY <1>1, <3>1, <3>2
    <2> QED
      BY <2>1, <2>2
  <1>3. ASSUME NEW at \in {"finish", "tcp"}, worker' = [worker EXCEPT ![w].at = at]
        PROVE  \E r \in WorkerState :
                 /\ worker' = [worker EXCEPT ![w] = r]
                 /\ o.at \in Busy /\ r.at \in Busy /\ r.zone = o.zone
    <2> DEFINE r == [o EXCEPT !.at = at]
    <2>1. r \in WorkerState /\ r.at \in Busy /\ r.zone = o.zone
      BY <1>1 DEF WorkerState, Busy
    <2> QED
      BY <1>1, <1>3, <2>1
  <1>4. CASE worker' = [worker EXCEPT ![w].attempt = @ + 1]
    <2> DEFINE r == [o EXCEPT !.attempt = o.attempt + 1]
    <2>1. r \in WorkerState /\ r.at \in Busy /\ r.zone = o.zone
      BY <1>1 DEF WorkerState, Busy
    <2> QED
      BY <1>1, <1>4, <2>1
  <1> QED
    BY <1>2, <1>3, <1>4 DEF SendUDP, SendTCP

\* Every step keeps the types: a worker is busy only with a zone it received.
LEMMA TypeStep == TypeOK /\ [Next]_vars => TypeOK'
  <1> SUFFICES ASSUME TypeOK, [Next]_vars PROVE TypeOK'
    OBVIOUS
  <1> USE DEF TypeOK
  <1>1. ASSUME NEW c \in Callers, NEW z \in Zones, Publish(c, z) PROVE TypeOK'
    <2>1. [zone |-> z, soa |-> live[z] + 1] \in [zone : Zones, soa : Nat]
      OBVIOUS
    <2>2. caller' \in [Callers -> [zone : Zones, soa : Nat] \cup {Idle}]
      BY <1>1, <2>1 DEF Publish
    <2>3. live' \in [Zones -> Nat]
      BY <1>1 DEF Publish
    <2> QED
      BY <1>1, <2>2, <2>3 DEF Publish, control
  <1>2. ASSUME NEW c \in Callers, NotifyClosed(c) PROVE TypeOK'
    <2>1. caller' \in [Callers -> [zone : Zones, soa : Nat] \cup {Idle}]
      BY <1>2 DEF NotifyClosed
    <2> QED
      BY <1>2, <2>1 DEF NotifyClosed, control
  <1>3. ASSUME NEW c \in Callers, Notify(c) PROVE TypeOK'
    <2>1. caller' \in [Callers -> [zone : Zones, soa : Nat] \cup {Idle}]
      BY <1>3 DEF Notify
    <2>2. caller[c].zone \in Zones /\ caller[c].soa \in Nat
      BY <1>3 DEF Notify
    <2>3. pending' \in [Zones -> Nat]
      BY <1>3, <2>2 DEF Notify
    <2>4. queued' \in [Zones -> BOOLEAN]
      BY <1>3, <2>2 DEF Notify
    <2>5. queue' \in [Workers -> Seq(Zones)]
      <3>1. Route[caller[c].zone] \in Workers
        BY <2>2, RouteAssumption
      <3>2. CASE queue' = [queue EXCEPT ![Route[caller[c].zone]] = Append(@, caller[c].zone)]
        BY <2>2, <3>1, <3>2, EnqueuedType
      <3>3. CASE queue' = queue
        BY <3>3
      <3> QED
        BY <1>3, <3>2, <3>3 DEF Notify
    <2> QED
      BY <1>3, <2>1, <2>3, <2>4, <2>5 DEF Notify, control
  <1>4. ASSUME NEW w \in Workers, Exit(w) PROVE TypeOK'
    <2>1. worker' = [worker EXCEPT ![w] = [worker[w] EXCEPT !.at = "gone"]]
      BY <1>4 DEF Exit
    <2>2. worker' \in [Workers -> WorkerState]
      BY <2>1, MovedType
    <2>3. \A v \in Workers : worker'[v].at \in Busy => worker'[v].zone \in Zones
      <3>1. [worker[w] EXCEPT !.at = "gone"].at \notin Busy
        BY MovedType DEF Busy
      <3> QED
        BY <2>1, <3>1
    <2> QED
      BY <1>4, <2>2, <2>3 DEF Exit, control, callers
  <1>5. ASSUME NEW w \in Workers, Receive(w) PROVE TypeOK'
    <2> DEFINE moved == [worker[w] EXCEPT !.at = "take", !.zone = Head(queue[w])]
    <2>1. worker' = [worker EXCEPT ![w] = moved]
      BY <1>5 DEF Receive
    <2>2. Head(queue[w]) \in Zones
      BY <1>5 DEF Receive
    <2>3. moved \in WorkerState /\ moved.zone \in Zones
      BY <2>2 DEF WorkerState, Busy
    <2>4. worker' \in [Workers -> WorkerState]
      BY <2>1, <2>3
    <2>5. \A v \in Workers : worker'[v].at \in Busy => worker'[v].zone \in Zones
      BY <2>1, <2>3
    <2>6. queue' \in [Workers -> Seq(Zones)]
      BY <1>5 DEF Receive
    <2> QED
      BY <1>5, <2>4, <2>5, <2>6 DEF Receive, control, callers
  <1>6. ASSUME NEW w \in Workers, Take(w) PROVE TypeOK'
    <2> DEFINE z == worker[w].zone
               moved == [at |-> "udp", zone |-> z, soa |-> pending[z],
                         target |-> 1, attempt |-> 1]
    <2>1. z \in Zones
      BY <1>6 DEF Take, Busy
    <2>2. moved \in WorkerState /\ moved.zone \in Zones
      BY <2>1 DEF WorkerState, Busy
    <2>3. worker' = [worker EXCEPT ![w] = moved]
      BY <1>6 DEF Take
    <2>4. worker' \in [Workers -> WorkerState]
      BY <2>2, <2>3
    <2>5. \A v \in Workers : worker'[v].at \in Busy => worker'[v].zone \in Zones
      BY <2>2, <2>3
    <2>6. pending' \in [Zones -> Nat]
      BY <1>6, <2>1 DEF Take, NoSOA
    <2> QED
      BY <1>6, <2>4, <2>5, <2>6 DEF Take, control, callers
  <1>7. ASSUME NEW w \in Workers, SendUDP(w) \/ SendTCP(w) PROVE TypeOK'
    <2>1. PICK r \in WorkerState :
             /\ worker' = [worker EXCEPT ![w] = r]
             /\ worker[w].at \in Busy /\ r.zone = worker[w].zone
      BY <1>7, SendKeepsZone
    <2>2. worker' \in [Workers -> WorkerState]
      BY <2>1
    <2>3. \A v \in Workers : worker'[v].at \in Busy => worker'[v].zone \in Zones
      BY <2>1
    <2> QED
      BY <1>7, <2>2, <2>3 DEF SendUDP, SendTCP, control, callers
  <1>8. ASSUME NEW w \in Workers, finishDelivery(w) PROVE TypeOK'
    <2>1. worker' = [worker EXCEPT ![w] = Resting("select")]
      BY <1>8 DEF finishDelivery
    <2>2. worker' \in [Workers -> WorkerState]
      BY <2>1, RestingType
    <2>3. \A v \in Workers : worker'[v].at \in Busy => worker'[v].zone \in Zones
      BY <2>1 DEF Resting, Busy
    <2>4. worker[w].zone \in Zones
      BY <1>8 DEF finishDelivery, Busy
    <2>5. pending' \in [Zones -> Nat]
      BY <1>8, <2>4 DEF finishDelivery, NoSOA
    <2>6. queued' \in [Zones -> BOOLEAN]
      BY <1>8, <2>4 DEF finishDelivery
    <2>7. queue' \in [Workers -> Seq(Zones)]
      <3>1. CASE queue' = [queue EXCEPT ![w] = Append(@, worker[w].zone)]
        BY <2>4, <3>1, EnqueuedType
      <3>2. CASE queue' = queue
        BY <3>2
      <3> QED
        BY <1>8, <3>1, <3>2 DEF finishDelivery
    <2> QED
      BY <1>8, <2>2, <2>3, <2>5, <2>6, <2>7 DEF finishDelivery, control, callers
  <1>9. ASSUME Start PROVE TypeOK'
    <2>1. worker' \in [Workers -> WorkerState]
      BY <1>9, RestingType DEF Start
    <2>2. \A v \in Workers : worker'[v].at \notin Busy
      BY <1>9 DEF Start, Resting, Busy
    <2> QED
      BY <1>9, <2>1, <2>2 DEF Start, callers
  <1>10. ASSUME Close PROVE TypeOK'
    <2>1. pending' \in [Zones -> Nat]
      BY <1>10 DEF Close, NoSOA
    <2> QED
      BY <1>10, <2>1 DEF Close, callers
  <1>11. ASSUME Cancel \/ CloseReturn \/ ParentCancel PROVE TypeOK'
    BY <1>11 DEF Cancel, CloseReturn, ParentCancel, callers
  <1>12. ASSUME UNCHANGED vars PROVE TypeOK'
    BY <1>12 DEF vars
  <1> QED
    BY <1>1, <1>2, <1>3, <1>4, <1>5, <1>6, <1>7, <1>8, <1>9, <1>10, <1>11, <1>12
    DEF Next, CallerStep, WorkerStep

\* TypeOK is an invariant of the notifier.
THEOREM NotifierTypes == Spec => []TypeOK
  <1> QED
    BY TypeInit, TypeStep, PTL DEF Spec

-----------------------------------------------------------------------------
(* The queue discipline.  QueuedOnce is inductive together with the types  *)
(* and the fact that nothing runs before Start.                            *)

OffUntilStart == ~started => \A w \in Workers : worker[w].at = "off"

Marked(w) == {z \in ZonesOf(w) : queued[z]}

Disciplined(w) ==
    /\ Distinct(queue[w])
    /\ Elements(queue[w]) \cap InHand(w) = {}
    /\ Elements(queue[w]) \cup InHand(w) = Marked(w)

Discipline == TypeOK /\ OffUntilStart /\ \A w \in Workers : Disciplined(w)

LEMMA DisciplineIsQueuedOnce == QueuedOnce <=> \A w \in Workers : Disciplined(w)
  BY DEF QueuedOnce, Disciplined, Marked

\* Sending a zone into a channel that does not hold it.
LEMMA Appended ==
    ASSUME NEW s \in Seq(Zones), NEW z \in Zones
    PROVE  /\ Elements(Append(s, z)) = Elements(s) \cup {z}
           /\ Distinct(s) /\ z \notin Elements(s) => Distinct(Append(s, z))
  <1> DEFINE t == Append(s, z)
             n == Len(s)
  <1>1. n \in Nat /\ Len(t) = n + 1 /\ t[n + 1] = z /\ \A i \in 1 .. n : t[i] = s[i]
    OBVIOUS
  <1>2. \A i \in 1 .. n + 1 : i \in 1 .. n \/ i = n + 1
    BY <1>1
  <1>3. n + 1 \in 1 .. n + 1 /\ \A i \in 1 .. n : i \in 1 .. n + 1
    BY <1>1
  <1> HIDE DEF t, n
  <1>4. Elements(t) = Elements(s) \cup {z}
    BY <1>1, <1>2, <1>3 DEF Elements, n
  <1>5. ASSUME Distinct(s), z \notin Elements(s) PROVE Distinct(t)
    <2>1. \A i, j \in 1 .. n : s[i] = s[j] => i = j
      BY <1>5 DEF Distinct, n
    <2>2. \A i \in 1 .. n : s[i] # z
      BY <1>5 DEF Elements, n
    <2>3. \A i, j \in 1 .. n + 1 : t[i] = t[j] => i = j
      BY <1>1, <1>2, <2>1, <2>2
    <2> QED
      BY <1>1, <2>3 DEF Distinct
  <1> QED
    BY <1>4, <1>5 DEF t

\* Receiving from a channel.
LEMMA Received ==
    ASSUME NEW s \in Seq(Zones), s # <<>>, Distinct(s)
    PROVE  /\ Head(s) \in Elements(s)
           /\ Elements(Tail(s)) = Elements(s) \ {Head(s)}
           /\ Distinct(Tail(s))
  <1> DEFINE t == Tail(s)
             n == Len(s)
  <1>1. n \in Nat \ {0} /\ Len(t) = n - 1 /\ Head(s) = s[1]
        /\ \A i \in 1 .. n - 1 : t[i] = s[i + 1]
    OBVIOUS
  <1>2. \A i, j \in 1 .. n : s[i] = s[j] => i = j
    BY DEF Distinct
  <1>3. 1 \in 1 .. n /\ \A i \in 1 .. n - 1 : i + 1 \in 1 .. n /\ i + 1 # 1
    BY <1>1
  <1>4. \A i \in 1 .. n : i # 1 => i - 1 \in 1 .. n - 1 /\ (i - 1) + 1 = i
    BY <1>1
  <1> HIDE DEF t, n
  <1>5. Head(s) \in Elements(s)
    BY <1>1, <1>3 DEF Elements, n
  <1>6. Elements(t) \subseteq Elements(s) \ {Head(s)}
    BY <1>1, <1>2, <1>3 DEF Elements, n
  <1>7. Elements(s) \ {Head(s)} \subseteq Elements(t)
    <2> SUFFICES ASSUME NEW i \in 1 .. n, s[i] # s[1] PROVE s[i] \in Elements(t)
      BY <1>1 DEF Elements, n
    <2>1. i - 1 \in 1 .. Len(t) /\ t[i - 1] = s[i]
      BY <1>1, <1>4
    <2> QED
      BY <2>1 DEF Elements
  <1>8. Distinct(t)
    <2> SUFFICES ASSUME NEW i \in 1 .. n - 1, NEW j \in 1 .. n - 1, t[i] = t[j]
                 PROVE  i = j
      BY <1>1 DEF Distinct
    <2>1. i + 1 = j + 1
      BY <1>1, <1>2, <1>3
    <2> QED
      BY <2>1, <1>1
  <1> QED
    BY <1>5, <1>6, <1>7, <1>8 DEF t

\* A worker whose channel, hands and marks a step leaves alone.
LEMMA Kept ==
    ASSUME NEW w \in Workers, Disciplined(w), queue'[w] = queue[w],
           InHand(w)' = InHand(w), Marked(w)' = Marked(w)
    PROVE  Disciplined(w)'
  BY DEF Disciplined

LEMMA KeptOthers ==
    ASSUME NEW w \in Workers, NEW v \in Workers, v # w, Disciplined(v),
           NEW q, queue' = [queue EXCEPT ![w] = q] \/ queue' = queue,
           NEW r, worker' = [worker EXCEPT ![w] = r] \/ worker' = worker,
           Marked(v)' = Marked(v), TypeOK
    PROVE  Disciplined(v)'
  <1>1. queue'[v] = queue[v] /\ worker'[v] = worker[v]
    BY DEF TypeOK
  <1> QED
    BY <1>1, Kept DEF InHand

\* Notify on a zone that is not marked: the only step that marks one.
LEMMA NotifyKeeps ==
    ASSUME Discipline, NEW c \in Callers, Notify(c), NEW v \in Workers
    PROVE  Disciplined(v)'
  <1> DEFINE z == caller[c].zone
             w == Route[z]
  <1>1. z \in Zones /\ w \in Workers
    BY RouteAssumption DEF Discipline, TypeOK, Notify
  <1>2. Disciplined(v) /\ TypeOK
    BY DEF Discipline
  <1>3. queued' = [queued EXCEPT ![z] = TRUE] /\ worker' = worker
    BY DEF Notify
  <1>4. InHand(v)' = InHand(v)
    BY <1>3 DEF InHand
  <1>5. CASE queued[z]
    <2>1. queue' = queue
      BY <1>5 DEF Notify
    <2>2. Marked(v)' = Marked(v)
      BY <1>1, <1>2, <1>3, <1>5 DEF Marked, ZonesOf, TypeOK
    <2> QED
      BY <1>2, <1>4, <2>1, <2>2, Kept
  <1>6. CASE ~queued[z]
    <2>1. queue' = [queue EXCEPT ![w] = Append(queue[w], z)]
      BY <1>6 DEF Notify
    <2>2. CASE v # w
      <3>1. Marked(v)' = Marked(v)
        BY <1>1, <1>2, <1>3, <2>2 DEF Marked, ZonesOf, TypeOK
      <3>2. queue'[v] = queue[v]
        BY <1>1, <1>2, <2>1, <2>2 DEF TypeOK
      <3> QED
        BY <1>2, <1>4, <3>1, <3>2, Kept
    <2>3. CASE v = w
      <3>1. z \notin Marked(v)
        BY <1>6 DEF Marked
      <3>2. Marked(v)' = Marked(v) \cup {z}
        BY <1>1, <1>2, <1>3, <2>3 DEF Marked, ZonesOf, TypeOK
      <3>3. queue'[v] = Append(queue[v], z) /\ queue[v] \in Seq(Zones)
        BY <1>1, <1>2, <2>1, <2>3 DEF TypeOK
      <3>4. z \notin Elements(queue[v]) /\ z \notin InHand(v)
        BY <1>2, <3>1 DEF Disciplined
      <3>5. Elements(queue'[v]) = Elements(queue[v]) \cup {z} /\ Distinct(queue'[v])
        BY <1>1, <1>2, <3>3, <3>4, Appended DEF Disciplined
      <3> QED
        BY <1>2, <1>4, <3>2, <3>4, <3>5 DEF Disciplined
    <2> QED
      BY <2>2, <2>3
  <1> QED
    BY <1>5, <1>6

\* Receive moves a zone from the channel into the worker's hands.
LEMMA ReceiveKeeps ==
    ASSUME Discipline, NEW w \in Workers, Receive(w), NEW v \in Workers
    PROVE  Disciplined(v)'
  <1> DEFINE z == Head(queue[w])
             r == [worker[w] EXCEPT !.at = "take", !.zone = z]
  <1>1. Disciplined(v) /\ TypeOK
    BY DEF Discipline
  <1>2. worker' = [worker EXCEPT ![w] = r] /\ queue' = [queue EXCEPT ![w] = Tail(queue[w])]
    BY DEF Receive
  <1>3. Marked(v)' = Marked(v)
    BY DEF Receive, Marked
  <1>4. CASE v # w
    BY <1>1, <1>2, <1>3, <1>4, KeptOthers
  <1>5. CASE v = w
    <2>1. queue'[v] = Tail(queue[v]) /\ worker'[v] = r /\ queue[v] \in Seq(Zones)
      BY <1>1, <1>2, <1>5 DEF TypeOK
    <2>2. r.at \in Busy /\ r.zone = z
      BY <1>1 DEF TypeOK, WorkerState, Busy
    <2>3. InHand(v) = {} /\ InHand(v)' = {z}
      BY <1>5, <2>1, <2>2 DEF Receive, InHand, Busy
    <2>4. /\ z \in Elements(queue[v])
          /\ Elements(queue'[v]) = Elements(queue[v]) \ {z}
          /\ Distinct(queue'[v])
      BY <1>1, <1>5, <2>1, Received DEF Receive, Disciplined
    <2> QED
      BY <1>1, <1>3, <2>3, <2>4 DEF Disciplined
  <1> QED
    BY <1>4, <1>5

\* finishDelivery puts the zone back into the channel or unmarks it.
LEMMA FinishKeeps ==
    ASSUME Discipline, NEW w \in Workers, finishDelivery(w), NEW v \in Workers
    PROVE  Disciplined(v)'
  <1> DEFINE z == worker[w].zone
  <1>1. Disciplined(v) /\ Disciplined(w) /\ TypeOK
    BY DEF Discipline
  <1>2. worker' = [worker EXCEPT ![w] = Resting("select")]
    BY DEF finishDelivery
  <1>3. InHand(w) = {z}
    BY DEF finishDelivery, InHand, Busy
  <1>4. InHand(w)' = {}
    BY <1>1, <1>2 DEF InHand, Busy, Resting, TypeOK
  <1>5. z \in Marked(w) /\ z \notin Elements(queue[w])
    BY <1>1, <1>3 DEF Disciplined
  <1>6. z \in Zones /\ Route[z] = w
    BY <1>5 DEF Marked, ZonesOf
  <1>7. CASE queued' = queued /\ queue' = [queue EXCEPT ![w] = Append(queue[w], z)]
    <2>1. Marked(v)' = Marked(v)
      BY <1>7 DEF Marked
    <2>2. CASE v # w
      BY <1>1, <1>2, <1>7, <2>1, <2>2, KeptOthers
    <2>3. CASE v = w
      <3>1. queue'[v] = Append(queue[v], z) /\ queue[v] \in Seq(Zones)
        BY <1>1, <1>7, <2>3 DEF TypeOK
      <3>2. Elements(queue'[v]) = Elements(queue[v]) \cup {z} /\ Distinct(queue'[v])
        BY <1>1, <1>5, <1>6, <2>3, <3>1, Appended DEF Disciplined
      <3> QED
        BY <1>1, <1>3, <1>4, <2>1, <2>3, <3>2 DEF Disciplined
    <2> QED
      BY <2>2, <2>3
  <1>8. CASE queued' = [queued EXCEPT ![z] = FALSE] /\ queue' = queue
    <2>1. Marked(v)' = Marked(v) \ {z}
      BY <1>1, <1>6, <1>8 DEF Marked, ZonesOf, TypeOK
    <2>2. CASE v # w
      <3>1. z \notin Marked(v)
        BY <1>6, <2>2 DEF Marked, ZonesOf
      <3> QED
        BY <1>1, <1>2, <1>8, <2>1, <2>2, <3>1, KeptOthers
    <2>3. CASE v = w
      <3>1. queue'[v] = queue[v]
        BY <1>8
      <3> QED
        BY <1>1, <1>3, <1>4, <1>5, <2>1, <2>3, <3>1 DEF Disciplined
    <2> QED
      BY <2>2, <2>3
  <1> QED
    BY <1>7, <1>8 DEF finishDelivery

\* The steps of a worker that keep the zone it holds, or hold none.
LEMMA HandsKept ==
    ASSUME Discipline, NEW w \in Workers, NEW v \in Workers,
           Exit(w) \/ Take(w) \/ SendUDP(w) \/ SendTCP(w)
    PROVE  InHand(v)' = InHand(v) /\ queue' = queue /\ queued' = queued
  <1>1. TypeOK
    BY DEF Discipline
  <1>2. queue' = queue /\ queued' = queued
    BY DEF Exit, Take, SendUDP, SendTCP
  <1>3. ASSUME NEW r, worker' = [worker EXCEPT ![w] = r],
               \/ worker[w].at \in Busy /\ r.at \in Busy /\ r.zone = worker[w].zone
               \/ worker[w].at \notin Busy /\ r.at \notin Busy
        PROVE  InHand(v)' = InHand(v)
    BY <1>1, <1>3 DEF InHand, TypeOK
  <1>4. CASE Exit(w)
    <2>1. worker' = [worker EXCEPT ![w] = [worker[w] EXCEPT !.at = "gone"]]
      BY <1>4 DEF Exit
    <2>2. [worker[w] EXCEPT !.at = "gone"].at \notin Busy
      BY <1>1, MovedType DEF Busy, TypeOK
    <2> QED
      BY <1>2, <1>3, <1>4, <2>1, <2>2 DEF Exit, Busy
  <1>5. CASE Take(w)
    <2> DEFINE r == [at |-> "udp", zone |-> worker[w].zone, soa |-> pending[worker[w].zone],
                     target |-> 1, attempt |-> 1]
    <2>1. worker' = [worker EXCEPT ![w] = r] /\ worker[w].at \in Busy
      BY <1>5 DEF Take, Busy
    <2>2. r.at \in Busy /\ r.zone = worker[w].zone
      BY DEF Busy
    <2> QED
      BY <1>2, <1>3, <2>1, <2>2
  <1>6. CASE SendUDP(w) \/ SendTCP(w)
    BY <1>1, <1>2, <1>3, <1>6, SendKeepsZone
  <1> QED
    BY <1>4, <1>5, <1>6

\* Nothing leaves "off" before Start.
LEMMA OffStep ==
    ASSUME Discipline, [Next]_vars PROVE OffUntilStart'
  <1> USE DEF Discipline, OffUntilStart
  <1>1. CASE started'
    BY <1>1
  <1>2. CASE ~started'
    <2>1. ~started
      BY <1>2 DEF Next, vars, CallerStep, WorkerStep, Publish, NotifyClosed, Notify, Exit,
         Receive, Take, SendUDP, SendTCP, finishDelivery, Start, Close, Cancel, CloseReturn,
         ParentCancel, control
    <2>2. \A w \in Workers : ~WorkerStep(w)
      BY <2>1 DEF WorkerStep, Exit, Receive, Take, SendUDP, SendTCP, finishDelivery
    <2>3. worker' = worker
      BY <1>2, <2>2 DEF Next, vars, CallerStep, Publish, NotifyClosed, Notify, Start,
         Close, Cancel, CloseReturn, ParentCancel
    <2> QED
      BY <2>1, <2>3
  <1> QED
    BY <1>1, <1>2

LEMMA DisciplineStep == Discipline /\ [Next]_vars => Discipline'
  <1> SUFFICES ASSUME Discipline, [Next]_vars, NEW v \in Workers PROVE Disciplined(v)'
    BY TypeStep, OffStep DEF Discipline
  <1>1. Disciplined(v) /\ TypeOK /\ OffUntilStart
    BY DEF Discipline
  <1>2. ASSUME queue' = queue, queued' = queued, InHand(v)' = InHand(v)
        PROVE  Disciplined(v)'
    BY <1>1, <1>2, Kept DEF Marked
  <1>3. ASSUME queue' = queue, queued' = queued, worker' = worker PROVE Disciplined(v)'
    BY <1>2, <1>3 DEF InHand
  <1>4. CASE \E c \in Callers, z \in Zones : Publish(c, z)
    BY <1>3, <1>4 DEF Publish
  <1>5. CASE \E c \in Callers : NotifyClosed(c)
    BY <1>3, <1>5 DEF NotifyClosed
  <1>6. CASE \E c \in Callers : Notify(c)
    BY <1>6, NotifyKeeps
  <1>7. CASE \E w \in Workers : Exit(w) \/ Take(w) \/ SendUDP(w) \/ SendTCP(w)
    BY <1>2, <1>7, HandsKept
  <1>8. CASE \E w \in Workers : Receive(w)
    BY <1>8, ReceiveKeeps
  <1>9. CASE \E w \in Workers : finishDelivery(w)
    BY <1>9, FinishKeeps
  <1>10. CASE Start
    <2>1. InHand(v) = {}
      BY <1>1, <1>10 DEF Start, OffUntilStart, InHand, Busy
    <2>2. InHand(v)' = {}
      BY <1>10 DEF Start, Resting, InHand, Busy
    <2> QED
      BY <1>2, <1>10, <2>1, <2>2 DEF Start
  <1>11. CASE Close \/ Cancel \/ CloseReturn \/ ParentCancel
    BY <1>3, <1>11 DEF Close, Cancel, CloseReturn, ParentCancel
  <1>12. CASE UNCHANGED vars
    BY <1>3, <1>12 DEF vars
  <1> QED
    BY <1>4, <1>5, <1>6, <1>7, <1>8, <1>9, <1>10, <1>11, <1>12
    DEF Next, CallerStep, WorkerStep

LEMMA DisciplineInit == Init => Discipline
  <1> SUFFICES ASSUME Init, NEW w \in Workers PROVE Disciplined(w) /\ worker[w].at = "off"
    BY TypeInit DEF Discipline, OffUntilStart
  <1>1. worker[w].at = "off"
    BY DEF Init, Resting
  <1>2. InHand(w) = {}
    BY <1>1 DEF InHand, Busy
  <1>3. Marked(w) = {}
    BY DEF Marked, ZonesOf, Init
  <1>4. queue[w] = <<>>
    BY DEF Init
  <1>5. Distinct(<<>>) /\ Elements(<<>>) = {}
    BY DEF Distinct, Elements
  <1> QED
    BY <1>1, <1>2, <1>3, <1>4, <1>5 DEF Disciplined

\* Every zone marked queued sits in exactly one place, its worker's channel or
\* its worker's hands, and no other zone sits in either.
THEOREM NotifierQueuesOnce == Spec => []QueuedOnce
  <1>1. Discipline => QueuedOnce
    BY DisciplineIsQueuedOnce DEF Discipline
  <1> QED
    BY <1>1, DisciplineInit, DisciplineStep, PTL DEF Spec

\* A disciplined channel holds each of its zones at most once, so its length is
\* bounded by their number.
LEMMA RoomInChannel ==
    ASSUME Discipline, NEW w \in Workers PROVE Len(queue[w]) < Capacity(w)
  <1> DEFINE n == Len(queue[w])
             f == [i \in 1 .. n |-> queue[w][i]]
  <1>1. Distinct(queue[w]) /\ Elements(queue[w]) \subseteq ZonesOf(w)
    BY DEF Discipline, Disciplined, Marked
  <1>2. n \in Nat
    BY DEF Discipline, TypeOK
  <1>3. f \in [1 .. n -> ZonesOf(w)]
    BY <1>1 DEF Elements
  <1>4. \A i, j \in 1 .. n : f[i] = f[j] => i = j
    BY <1>1 DEF Distinct
  <1>5. f \in Injection(1 .. n, ZonesOf(w))
    BY <1>3, <1>4 DEF Injection, IsInjective
  <1>6. IsFiniteSet(ZonesOf(w))
    <2>1. ZonesOf(w) \in SUBSET Zones
      BY DEF ZonesOf
    <2> QED
      BY <2>1, ZonesAssumption, FS_Subset
  <1>7. Cardinality(1 .. n) = n
    BY <1>2, FS_Interval
  <1> HIDE DEF f, n
  <1>8. Cardinality(1 .. n) <= Cardinality(ZonesOf(w))
    BY <1>5, <1>6, FS_Injection
  <1>9. Cardinality(ZonesOf(w)) \in Nat
    BY <1>6, FS_CardinalityType
  <1> QED
    BY <1>2, <1>7, <1>8, <1>9 DEF Capacity, n

\* No channel send made under n.mu ever finds its channel full.
THEOREM NotifierSendsNeverBlock == Spec => []SendsNeverBlock
  <1>1. Discipline => SendsNeverBlock
    BY RoomInChannel, RouteAssumption DEF SendsNeverBlock
  <1> QED
    BY <1>1, DisciplineInit, DisciplineStep, PTL DEF Spec

-----------------------------------------------------------------------------

PendingKept == Discipline /\ PendingIsQueued

LEMMA PendingStep == PendingKept /\ [Next]_vars => PendingIsQueued'
  <1> SUFFICES ASSUME Discipline, PendingIsQueued, [Next]_vars,
                      NEW z \in Zones, pending'[z] # NoSOA
               PROVE  queued'[z] /\ ~closed'
    BY DEF PendingKept, PendingIsQueued
  <1> USE DEF PendingIsQueued
  <1>1. TypeOK
    BY DEF Discipline
  <1>2. ASSUME pending' = pending, queued' = queued, closed' = closed
        PROVE  queued'[z] /\ ~closed'
    BY <1>2
  <1>3. CASE \E c \in Callers, y \in Zones : Publish(c, y)
    BY <1>2, <1>3 DEF Publish, control
  <1>4. CASE \E c \in Callers : NotifyClosed(c)
    BY <1>2, <1>4 DEF NotifyClosed, control
  <1>5. ASSUME NEW c \in Callers, Notify(c) PROVE queued'[z] /\ ~closed'
    <2>1. ~closed /\ closed' = closed
      BY <1>5 DEF Notify, control
    <2>2. CASE z = caller[c].zone
      <3>1. queued' = [queued EXCEPT ![z] = TRUE]
        BY <1>5, <2>2 DEF Notify
      <3> QED
        BY <1>1, <2>1, <3>1 DEF TypeOK
    <2>3. CASE z # caller[c].zone
      <3>1. pending'[z] = pending[z]
        BY <1>1, <1>5, <2>3 DEF Notify, TypeOK
      <3>2. queued'[z] = queued[z]
        BY <1>1, <1>5, <2>3 DEF Notify, TypeOK
      <3> QED
        BY <3>1, <3>2, <2>1
    <2> QED
      BY <2>1, <2>2, <2>3
  <1>6. CASE \E w \in Workers : Exit(w) \/ Receive(w) \/ SendUDP(w) \/ SendTCP(w)
    BY <1>2, <1>6 DEF Exit, Receive, SendUDP, SendTCP, control
  <1>7. ASSUME NEW w \in Workers, Take(w) PROVE queued'[z] /\ ~closed'
    <2>1. pending'[z] = pending[z] \/ pending'[z] = NoSOA
      BY <1>1, <1>7 DEF Take, TypeOK
    <2> QED
      BY <1>7, <2>1 DEF Take, control
  <1>8. ASSUME NEW w \in Workers, finishDelivery(w) PROVE queued'[z] /\ ~closed'
    <2>1. closed' = closed
      BY <1>8 DEF finishDelivery, control
    <2>2. CASE pending' = pending /\ queued' = queued
      BY <2>1, <2>2
    <2>3. CASE /\ pending' = [pending EXCEPT ![worker[w].zone] = NoSOA]
               /\ queued' = [queued EXCEPT ![worker[w].zone] = FALSE]
      <3>1. z # worker[w].zone
        BY <1>1, <2>3 DEF TypeOK
      <3>2. pending'[z] = pending[z]
        BY <1>1, <2>3, <3>1 DEF TypeOK
      <3>3. queued'[z] = queued[z]
        BY <1>1, <2>3, <3>1 DEF TypeOK
      <3> QED
        BY <2>1, <3>2, <3>3
    <2> QED
      BY <1>8, <2>2, <2>3 DEF finishDelivery
  <1>9. CASE Close
    BY <1>9 DEF Close
  <1>10. CASE Start \/ Cancel \/ CloseReturn \/ ParentCancel
    BY <1>2, <1>10 DEF Start, Cancel, CloseReturn, ParentCancel
  <1>11. CASE UNCHANGED vars
    BY <1>2, <1>11 DEF vars
  <1> QED
    BY <1>3, <1>4, <1>5, <1>6, <1>7, <1>8, <1>9, <1>10, <1>11
    DEF Next, CallerStep, WorkerStep

\* A change recorded by Notify and not yet taken by a delivery belongs to a zone
\* that is marked queued, so with NotifierQueuesOnce some worker holds it or will
\* receive it: finishDelivery never drops a change that arrived meanwhile.
THEOREM NotifierKeepsPending == Spec => []PendingIsQueued
  <1>1. Init => PendingIsQueued
    BY DEF Init, PendingIsQueued
  <1>2. PendingKept /\ [Next]_vars => PendingKept'
    BY DisciplineStep, PendingStep DEF PendingKept
  <1> QED
    BY <1>1, <1>2, DisciplineInit, PTL DEF Spec, PendingKept

\* What n.mu protects holds for any zones, workers, routes and targets: Notify
\* and finishDelivery agree about the queue, never block and strand nothing.
THEOREM NotifierQueueDiscipline == Spec => []QueueDiscipline
  BY NotifierQueuesOnce, NotifierSendsNeverBlock, NotifierKeepsPending, PTL
     DEF QueueDiscipline
=============================================================================

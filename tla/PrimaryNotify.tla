---------------------------- MODULE PrimaryNotify ----------------------------
(***************************************************************************)
(* The outbound NOTIFY scheduler (internal/primarynotify/notifier.go) and  *)
(* the server goroutines that feed it.                                     *)
(*                                                                         *)
(* Each configured zone belongs to one worker.  Notify stores the SOA to   *)
(* announce and, unless the zone is queued or being delivered already,     *)
(* puts its name into the worker's channel.  A delivery takes the stored   *)
(* SOA and works through the zone's targets: up to Attempts tries over     *)
(* UDP, then one over TCP.  When it ends it puts the zone back if another  *)
(* change arrived meanwhile.                                               *)
(*                                                                         *)
(* Notify and finishDelivery send into a bounded channel while they hold   *)
(* n.mu.  They are single steps here because the channel always has room,  *)
(* which SendsNeverBlock states.  SOAs are their serials; Stats counters   *)
(* are left out.                                                           *)
(***************************************************************************)
EXTENDS Integers, Sequences, FiniteSets

CONSTANTS
    Zones,      \* zones with at least one target
    Workers,    \* delivery goroutines
    Route,      \* [Zones -> Workers], routeFor
    Targets,    \* [Zones -> Seq(target)]
    Attempts,   \* UDP tries per target
    Callers,    \* goroutines that publish a zone version and then call Notify
    MaxSerial   \* bound: versions published per zone

ASSUME RouteAssumption == Route \in [Zones -> Workers]
ASSUME ZonesAssumption == IsFiniteSet(Zones)
ASSUME TargetsAssumption == \A z \in Zones : Len(Targets[z]) \in Nat \ {0}
ASSUME AttemptsAssumption == Attempts \in Nat \ {0} /\ MaxSerial \in Nat

VARIABLES
    pending,   \* n.pending: the SOA to announce, or NoSOA
    queued,    \* n.queued
    queue,     \* n.queues
    started,   \* n.started
    closed,    \* n.closed
    ctxDone,   \* the workers' context is cancelled
    worker,    \* [at, zone, soa, target, attempt] of every worker
    closer,    \* progress of the first Close
    caller,    \* the [zone, soa] each caller is about to pass to Notify, or Idle
    live,      \* history: the serial last published
    newest,    \* history: the largest serial passed to Notify
    recorded,  \* history: the serial last passed to Notify
    tried      \* history: the serial last sent to each target

NoSOA == 0
Idle == [zone |-> "none", soa |-> NoSOA]
Resting(at) == [at |-> at, zone |-> "none", soa |-> NoSOA, target |-> 0, attempt |-> 0]

control == <<started, closed, ctxDone, closer>>
callers == <<caller, live, newest, recorded>>
vars == <<pending, queued, queue, started, closed, ctxDone, worker, closer,
          caller, live, newest, recorded, tried>>

ZonesOf(w) == {z \in Zones : Route[z] = w}

\* Mutant: one slot per worker, as for a wake-up signal.
CapacityOne(w) == 1

\* New gives every channel one slot per zone routed to it and one to spare.
Capacity(w) == Cardinality(ZonesOf(w)) + 1

-----------------------------------------------------------------------------
(* Callers: the server publishes under its own lock and notifies after it. *)

Publish(c, z) ==
    /\ caller[c] = Idle
    /\ live[z] < MaxSerial
    /\ live' = [live EXCEPT ![z] = @ + 1]
    /\ caller' = [caller EXCEPT ![c] = [zone |-> z, soa |-> live[z] + 1]]
    /\ UNCHANGED <<pending, queued, queue, control, worker, newest, recorded, tried>>

\* A closed notifier returns ErrClosed, which the caller only logs.
NotifyClosed(c) ==
    /\ caller[c] # Idle
    /\ closed
    /\ caller' = [caller EXCEPT ![c] = Idle]
    /\ UNCHANGED <<pending, queued, queue, control, worker, live, newest, recorded, tried>>

\* Mutant: every change is sent into the channel, queued or not.
NotifyAlwaysSends(c) ==
    LET z == caller[c].zone
        soa == caller[c].soa
    IN /\ caller[c] # Idle
       /\ ~closed
       /\ pending' = [pending EXCEPT ![z] = soa]
       /\ queued' = [queued EXCEPT ![z] = TRUE]
       /\ Len(queue[Route[z]]) < Capacity(Route[z])
       /\ queue' = [queue EXCEPT ![Route[z]] = Append(@, z)]
       /\ caller' = [caller EXCEPT ![c] = Idle]
       /\ newest' = [newest EXCEPT ![z] = IF soa > @ THEN soa ELSE @]
       /\ recorded' = [recorded EXCEPT ![z] = soa]
       /\ UNCHANGED <<control, worker, live, tried>>

Notify(c) ==
    LET z == caller[c].zone
        soa == caller[c].soa
        w == Route[z]
    IN /\ caller[c] # Idle
       /\ ~closed
       /\ pending' = [pending EXCEPT ![z] = soa]
       /\ queued' = [queued EXCEPT ![z] = TRUE]
       /\ \/ queued[z] /\ UNCHANGED queue
          \/ /\ ~queued[z]
             /\ Len(queue[w]) < Capacity(w)
             /\ queue' = [queue EXCEPT ![w] = Append(@, z)]
       /\ caller' = [caller EXCEPT ![c] = Idle]
       /\ newest' = [newest EXCEPT ![z] = IF soa > @ THEN soa ELSE @]
       /\ recorded' = [recorded EXCEPT ![z] = soa]
       /\ UNCHANGED <<control, worker, live, tried>>

-----------------------------------------------------------------------------
(* Workers.                                                                *)

Start ==
    /\ ~closed /\ ~started
    /\ started' = TRUE
    /\ worker' = [w \in Workers |-> Resting("select")]
    /\ UNCHANGED <<pending, queued, queue, closed, ctxDone, closer, callers, tried>>

\* The select of runWorker; a cancelled context and a queued zone may both be
\* ready, and then either is chosen.
Exit(w) ==
    /\ worker[w].at = "select"
    /\ ctxDone
    /\ worker' = [worker EXCEPT ![w].at = "gone"]
    /\ UNCHANGED <<pending, queued, queue, control, callers, tried>>

\* Mutant: Close closes the channels, and a worker takes the zero value for a zone.
ReceiveZeroValue(w) ==
    /\ worker[w].at = "select"
    /\ queue[w] # <<>> \/ closed
    /\ worker' = [worker EXCEPT ![w].at = "take",
                    ![w].zone = IF queue[w] = <<>> THEN "none" ELSE Head(queue[w])]
    /\ queue' = [queue EXCEPT ![w] = IF @ = <<>> THEN @ ELSE Tail(@)]
    /\ UNCHANGED <<pending, queued, control, callers, tried>>

Receive(w) ==
    /\ worker[w].at = "select"
    /\ queue[w] # <<>>
    /\ worker' = [worker EXCEPT ![w].at = "take", ![w].zone = Head(queue[w])]
    /\ queue' = [queue EXCEPT ![w] = Tail(@)]
    /\ UNCHANGED <<pending, queued, control, callers, tried>>

\* deliver reads and clears the stored SOA in one critical section.
Take(w) ==
    LET z == worker[w].zone IN
    /\ worker[w].at = "take"
    /\ worker' = [worker EXCEPT ![w] = [at |-> "udp", zone |-> z, soa |-> pending[z],
                                        target |-> 1, attempt |-> 1]]
    /\ pending' = [pending EXCEPT ![z] = NoSOA]
    /\ UNCHANGED <<queued, queue, control, callers, tried>>

\* After the last target the deferred finishDelivery runs.
NextTarget(w) ==
    LET o == worker[w]
        next == IF o.target < Len(Targets[o.zone])
                THEN [at |-> "udp", zone |-> o.zone, soa |-> o.soa,
                      target |-> o.target + 1, attempt |-> 1]
                ELSE [o EXCEPT !.at = "finish"]
    IN worker' = [worker EXCEPT ![w] = next]

Sent(w) ==
    LET z == worker[w].zone
        t == Targets[z][worker[w].target]
    IN tried' = [tried EXCEPT ![z][t] = worker[w].soa]

\* One Send over UDP: acknowledged, refused for good, or failed.  The context
\* covers Send and the wait between tries, so a cancelled one fails both.
SendUDP(w) ==
    /\ worker[w].at = "udp"
    /\ Sent(w)
    /\ \/ ~ctxDone /\ NextTarget(w)
       \/ /\ worker[w].attempt < Attempts
          /\ worker' = [worker EXCEPT ![w].attempt = @ + 1]
       \/ /\ worker[w].attempt < Attempts /\ ctxDone
          /\ worker' = [worker EXCEPT ![w].at = "finish"]
       \/ /\ worker[w].attempt = Attempts
          /\ worker' = [worker EXCEPT ![w].at = "tcp"]
    /\ UNCHANGED <<pending, queued, queue, control, callers>>

\* The TCP fallback is the last word for this target, whatever it returns.
SendTCP(w) ==
    /\ worker[w].at = "tcp"
    /\ Sent(w)
    /\ NextTarget(w)
    /\ UNCHANGED <<pending, queued, queue, control, callers>>

\* Mutant: the mark is taken away without a look at what arrived meanwhile.
finishUnmarking(w) ==
    /\ worker[w].at = "finish"
    /\ queued' = [queued EXCEPT ![worker[w].zone] = FALSE]
    /\ worker' = [worker EXCEPT ![w] = Resting("select")]
    /\ UNCHANGED <<pending, queue, control, callers, tried>>

\* Mutant: what arrived meanwhile is dropped.
finishDropping(w) ==
    /\ worker[w].at = "finish"
    /\ queued' = [queued EXCEPT ![worker[w].zone] = FALSE]
    /\ pending' = [pending EXCEPT ![worker[w].zone] = NoSOA]
    /\ worker' = [worker EXCEPT ![w] = Resting("select")]
    /\ UNCHANGED <<queue, control, callers, tried>>

finishDelivery(w) ==
    LET z == worker[w].zone
        again == pending[z] # NoSOA /\ ~closed /\ ~ctxDone
    IN /\ worker[w].at = "finish"
       /\ \/ /\ again
             /\ Len(queue[w]) < Capacity(w)
             /\ queue' = [queue EXCEPT ![w] = Append(@, z)]
             /\ UNCHANGED <<pending, queued>>
          \/ /\ ~again
             /\ queued' = [queued EXCEPT ![z] = FALSE]
             /\ pending' = [pending EXCEPT ![z] = NoSOA]
             /\ UNCHANGED queue
       /\ worker' = [worker EXCEPT ![w] = Resting("select")]
       /\ UNCHANGED <<control, callers, tried>>

-----------------------------------------------------------------------------
(* Close, and the parent context of the daemon.                            *)

Close ==
    /\ closer = "none" /\ ~closed
    /\ closed' = TRUE
    /\ pending' = [z \in Zones |-> NoSOA]
    /\ closer' = "cancel"
    /\ UNCHANGED <<queued, queue, started, ctxDone, worker, callers, tried>>

\* Mutant: Close does not cancel the workers' context.
CancelNothing ==
    /\ closer = "cancel" /\ closer' = "wait"
    /\ UNCHANGED <<pending, queued, queue, started, closed, ctxDone, worker, callers, tried>>

\* The cancel function is called after the mutex is released.
Cancel ==
    /\ closer = "cancel"
    /\ ctxDone' = (ctxDone \/ started)
    /\ closer' = "wait"
    /\ UNCHANGED <<pending, queued, queue, started, closed, worker, callers, tried>>

\* wg.Wait: every worker that was started has returned.
CloseReturn ==
    /\ closer = "wait"
    /\ \A w \in Workers : worker[w].at \in {"off", "gone"}
    /\ closer' = "returned"
    /\ UNCHANGED <<pending, queued, queue, started, closed, ctxDone, worker, callers, tried>>

ParentCancel ==
    /\ started /\ ~ctxDone
    /\ ctxDone' = TRUE
    /\ UNCHANGED <<pending, queued, queue, started, closed, closer, worker, callers, tried>>

Init ==
    /\ pending = [z \in Zones |-> NoSOA]
    /\ queued = [z \in Zones |-> FALSE]
    /\ queue = [w \in Workers |-> <<>>]
    /\ started = FALSE /\ closed = FALSE /\ ctxDone = FALSE
    /\ worker = [w \in Workers |-> Resting("off")]
    /\ closer = "none"
    /\ caller = [c \in Callers |-> Idle]
    /\ live = [z \in Zones |-> 0]
    /\ newest = [z \in Zones |-> NoSOA]
    /\ recorded = [z \in Zones |-> NoSOA]
    /\ tried = [z \in Zones |-> [t \in {Targets[z][i] : i \in DOMAIN Targets[z]} |-> NoSOA]]

CallerStep(c) == NotifyClosed(c) \/ Notify(c)

WorkerStep(w) ==
    Exit(w) \/ Receive(w) \/ Take(w) \/ SendUDP(w) \/ SendTCP(w) \/ finishDelivery(w)

Next ==
    \/ \E c \in Callers, z \in Zones : Publish(c, z)
    \/ \E c \in Callers : CallerStep(c)
    \/ \E w \in Workers : WorkerStep(w)
    \/ Start \/ Close \/ Cancel \/ CloseReturn \/ ParentCancel

\* Goroutines are scheduled, and every Send returns within its timeout.  Nobody
\* has to start or close the notifier.
Spec ==
    /\ Init /\ [][Next]_vars
    /\ \A c \in Callers : WF_vars(CallerStep(c))
    /\ \A w \in Workers : WF_vars(WorkerStep(w))
    /\ WF_vars(Cancel) /\ WF_vars(CloseReturn)

-----------------------------------------------------------------------------

Busy == {"take", "udp", "tcp", "finish"}
InHand(w) == IF worker[w].at \in Busy THEN {worker[w].zone} ELSE {}
Elements(s) == {s[i] : i \in 1 .. Len(s)}
Distinct(s) == \A i, j \in 1 .. Len(s) : s[i] = s[j] => i = j

WorkerState ==
    [at : Busy \cup {"off", "select", "gone"}, zone : Zones \cup {"none"},
     soa : Nat, target : Nat, attempt : Nat]

\* Shapes of the notifier's maps and channels; a busy worker holds a configured
\* zone (deliver looks its targets up).
TypeOK ==
    /\ pending \in [Zones -> Nat] /\ queued \in [Zones -> BOOLEAN]
    /\ queue \in [Workers -> Seq(Zones)]
    /\ started \in BOOLEAN /\ closed \in BOOLEAN /\ ctxDone \in BOOLEAN
    /\ worker \in [Workers -> WorkerState]
    /\ \A w \in Workers : worker[w].at \in Busy => worker[w].zone \in Zones
    /\ caller \in [Callers -> [zone : Zones, soa : Nat] \cup {Idle}]
    /\ live \in [Zones -> Nat]

\* A zone marked queued is in its worker's channel or in that worker's hands,
\* in exactly one place, and a zone not marked is in neither: Notify may leave
\* the sending to others only then (Notify and finishDelivery share the flag).
\* Two deliveries of one zone therefore never overlap.
QueuedOnce ==
    \A w \in Workers :
        /\ Distinct(queue[w])
        /\ Elements(queue[w]) \cap InHand(w) = {}
        /\ Elements(queue[w]) \cup InHand(w) = {z \in ZonesOf(w) : queued[z]}

\* A channel send made while holding n.mu finds room, so no Notify or
\* finishDelivery can block the others for ever.
SendsNeverBlock ==
    /\ \A z \in Zones : ~queued[z] => Len(queue[Route[z]]) < Capacity(Route[z])
    /\ \A w \in Workers : worker[w].at = "finish" => Len(queue[w]) < Capacity(w)

\* A recorded change is never stranded: someone is going to look at it.
PendingIsQueued == \A z \in Zones : pending[z] # NoSOA => queued[z] /\ ~closed

\* The promises n.mu keeps between Notify and finishDelivery: a zone is queued in
\* one place, sends under the lock find room, and no recorded change is stranded.
QueueDiscipline == QueuedOnce /\ SendsNeverBlock /\ PendingIsQueued

\* Once the callers are quiet, every target of every zone has been sent the SOA
\* recorded last, or the notifier was never started, was closed or its parent
\* was cancelled.
LastSOAReachesTargets ==
    <>[](\/ ~started \/ ctxDone \/ closed
         \/ \A z \in Zones : \A t \in DOMAIN tried[z] : tried[z][t] = recorded[z])

\* Close returns, whatever the workers are doing.
CloseTerminates == (closer = "cancel") ~> (closer = "returned")

-----------------------------------------------------------------------------

\* notifier.go:240: "Notify records the newest SOA for a configured zone."
PendingIsNewest ==
    \A z \in Zones : pending[z] # NoSOA => pending[z] = newest[z]
=============================================================================

-------------------------- MODULE SecondaryManager --------------------------
(***************************************************************************)
(* The secondary-zone scheduler (internal/secondary/manager.go).           *)
(*                                                                         *)
(* A configured zone is a managedZone object with a worker goroutine, a    *)
(* one-slot NOTIFY trigger, a cancellable context and a mutex opMu that    *)
(* covers one transfer and the expiry check.  Changing the configuration   *)
(* of a zone does not change its object: Upsert and ApplyBatch fetch the   *)
(* zone, publish it, put a NEW object into the table and cancel the old    *)
(* one.  mutationMu admits one such caller at a time, so there is one      *)
(* mutator here; Start is not covered by it.                               *)
(*                                                                         *)
(* A zone is its serial (0: not served).  Refresh and retry delays are     *)
(* left out: a worker's timer may fire at any moment.                      *)
(***************************************************************************)
EXTENDS Integers, Sequences, FiniteSets

SX == INSTANCE SequencesExt

CONSTANT
    Settings  \* sequence of deployments and bounds, records of the form below

\* names: zones that may be secondary here.  initial: the zones NewManager is
\* given, in order; it refuses a duplicate.  restored: [names -> serial], zones
\* the store already has (0: none).  retain: zones whose RetainOnError is set.  expire: SOA Expire, in
\* ticks.  catalogs: zones whose publication runs ApplyBatch
\* (catalog.Runtime.AddZone).  The rest bounds the Upsert, ApplyBatch and Remove
\* calls, the versions the primary publishes and the clock.
ASSUME ManagerAssumption ==
    \A k \in DOMAIN Settings : LET s == Settings[k] IN
        /\ IsFiniteSet(s.names) /\ s.initial \in Seq(s.names)
        /\ \A i, j \in DOMAIN s.initial : s.initial[i] = s.initial[j] => i = j
        /\ s.retain \subseteq s.names /\ s.catalogs \subseteq s.names
        /\ s.expire \in Nat \ {0}
        /\ s.maxMutations \in Nat /\ s.maxSerial \in Nat \ {0} /\ s.maxTime \in Nat
        /\ s.restored \in [s.names -> 0 .. s.maxSerial]

VARIABLES
    cfg,      \* the deployment, one of Settings; never changes
    store,    \* ZoneStore: the serial served for each zone, or 0
    master,   \* the serial of the primary
    now,      \* the clock
    objs,     \* managedZone objects in the order they were made
    cur,      \* m.zones: index into objs, or 0
    starter,  \* Start: [at, order, todo, all]; order is m.order until Start has read it
    mut,      \* the caller inside mutationMu
    mgrDone,  \* m.ctx is cancelled
    closer,   \* progress of Close
    made,     \* history: mutations begun
    contact   \* history: when a primary last confirmed the zone served

Names == cfg.names
Initial == cfg.initial
Restored == cfg.restored
Retain == cfg.retain
Expire == cfg.expire
Catalogs == cfg.catalogs
MaxMutations == cfg.maxMutations
MaxSerial == cfg.maxSerial
MaxTime == cfg.maxTime

\* Every object and every zone of any deployment, for the fairness of each.
Objects(s) == Len(s.initial) + s.maxMutations * Cardinality(s.names)
AnyObject == UNION {1 .. Objects(s) : s \in SX!ToSet(Settings)}
AnyName == UNION {s.names : s \in SX!ToSet(Settings)}
MaxObjects == Objects(cfg)

Never == -1
NoLock == "free"
Nobody == [at |-> "idle", kind |-> "none", plan |-> [n \in Names |-> "none"],
           locked |-> {}, got |-> [n \in Names |-> Never], last |-> [n \in Names |-> Never]]

env == <<cfg, master, now>>
vars == <<cfg, store, master, now, objs, cur, starter, mut, mgrDone, closer, made, contact>>

Managed(n) ==
    [name |-> n, at |-> "off", cancelled |-> FALSE, cancellable |-> FALSE,
     last |-> Never, trigger |-> FALSE, opMu |-> NoLock, got |-> 0, booting |-> FALSE]

Ids == DOMAIN objs
Done(i) == objs[i].cancelled \/ mgrDone
Began == starter.at # "new"

-----------------------------------------------------------------------------
(* One refresh of object i, by its worker or by Start.                     *)

Move(i, at) == objs' = [objs EXCEPT ![i].at = at]

LockRefresh(i) ==
    /\ objs[i].at = "refresh" /\ objs[i].opMu = NoLock
    /\ objs' = [objs EXCEPT ![i].at = "fetch", ![i].opMu = "worker"]
    /\ UNCHANGED <<store, env, cur, starter, mut, mgrDone, closer, made, contact>>

FetchOK(i) ==
    /\ objs[i].at = "fetch" /\ ~Done(i)
    /\ objs' = [objs EXCEPT ![i].at = "check", ![i].got = master[objs[i].name]]
    /\ UNCHANGED <<store, env, cur, starter, mut, mgrDone, closer, made, contact>>

Unlocked(o, at) == [o EXCEPT !.at = at, !.opMu = NoLock]

\* Mutant: the error path of refresh keeps opMu.
FetchFailsLocked(i) ==
    /\ objs[i].at = "fetch"
    /\ Move(i, "failed")
    /\ UNCHANGED <<store, env, cur, starter, mut, mgrDone, closer, made, contact>>

FetchFails(i) ==
    /\ objs[i].at = "fetch"
    /\ objs' = [objs EXCEPT ![i] = Unlocked(@, "failed")]
    /\ UNCHANGED <<store, env, cur, starter, mut, mgrDone, closer, made, contact>>

\* Mutant: the expiry deadline is stored where the time of contact belongs.
RefreshedUntil(i) ==
    objs' = [objs EXCEPT ![i] =
               [Unlocked(@, IF @.booting THEN "ready" ELSE "select") EXCEPT !.last = now + Expire]]

Refreshed(i) ==
    objs' = [objs EXCEPT ![i] =
               [Unlocked(@, IF @.booting THEN "ready" ELSE "select") EXCEPT !.last = now]]

\* publish reads the served zone again; an unchanged serial still counts.
CheckSerial(i) ==
    LET n == objs[i].name IN
    /\ objs[i].at = "check"
    /\ \/ /\ store[n] # 0 /\ objs[i].got <= store[n]
          /\ Refreshed(i)
          /\ contact' = [contact EXCEPT ![n] = now]
       \/ /\ store[n] = 0 \/ objs[i].got > store[n]
          /\ Move(i, "add")
          /\ UNCHANGED contact
    /\ UNCHANGED <<store, env, cur, starter, mut, mgrDone, closer, made>>

\* store.AddZone validates what was transferred, and may refuse it; a catalog
\* has its members reconciled before AddZone returns.
AddZone(i) ==
    LET n == objs[i].name IN
    /\ objs[i].at = "add"
    /\ n \in Catalogs => mut.at = "idle"
    /\ \/ /\ store' = [store EXCEPT ![n] = objs[i].got]
          /\ contact' = [contact EXCEPT ![n] = now]
          /\ Refreshed(i)
       \/ /\ objs' = [objs EXCEPT ![i] = Unlocked(@, "failed")]
          /\ UNCHANGED <<store, contact>>
    /\ UNCHANGED <<env, cur, starter, mut, mgrDone, closer, made>>

-----------------------------------------------------------------------------
(* The worker: runZone.                                                    *)

\* Mutant: the refresh timer is never armed.
WakeOnNotify(i) ==
    /\ objs[i].at = "select" /\ objs[i].trigger
    /\ objs' = [objs EXCEPT ![i].at = "refresh", ![i].trigger = FALSE]
    /\ UNCHANGED <<store, env, cur, starter, mut, mgrDone, closer, made, contact>>

\* The timer or the trigger wakes the worker.
Wake(i) ==
    /\ objs[i].at = "select"
    /\ \/ Move(i, "refresh")
       \/ /\ objs[i].trigger
          /\ objs' = [objs EXCEPT ![i].at = "refresh", ![i].trigger = FALSE]
    /\ UNCHANGED <<store, env, cur, starter, mut, mgrDone, closer, made, contact>>

\* Mutant: the worker watches its own context only, not the manager's.
ExitReplaced(i) ==
    /\ objs[i].at = "select" /\ objs[i].cancelled
    /\ Move(i, "gone")
    /\ UNCHANGED <<store, env, cur, starter, mut, mgrDone, closer, made, contact>>

Exit(i) ==
    /\ objs[i].at = "select" /\ Done(i)
    /\ Move(i, "gone")
    /\ UNCHANGED <<store, env, cur, starter, mut, mgrDone, closer, made, contact>>

\* Mutant: a failed refresh does not look at the expiry clock.
AfterErrorRetry(i) ==
    /\ objs[i].at = "failed" /\ ~objs[i].booting
    /\ Move(i, "select")
    /\ UNCHANGED <<store, env, cur, starter, mut, mgrDone, closer, made, contact>>

\* After an error the context is looked at before opMu is taken again.
AfterError(i) ==
    /\ objs[i].at = "failed" /\ ~objs[i].booting
    /\ Move(i, IF Done(i) THEN "select" ELSE "expire")
    /\ UNCHANGED <<store, env, cur, starter, mut, mgrDone, closer, made, contact>>

\* Mutant: any failed refresh expires the zone.
DueAtOnce(i) == objs[i].last # Never

Due(i) == objs[i].last # Never /\ now >= objs[i].last + Expire

expireIfNeeded(i) ==
    LET n == objs[i].name IN
    /\ objs[i].at = "expire" /\ objs[i].opMu = NoLock
    /\ store' = IF Due(i) THEN [store EXCEPT ![n] = 0] ELSE store
    /\ Move(i, "select")
    /\ UNCHANGED <<env, cur, starter, mut, mgrDone, closer, made, contact>>

\* A NOTIFY from an allowed master with the right key; a full slot coalesces.
HandleNotify(n) ==
    /\ cur[n] # 0
    /\ objs' = [objs EXCEPT ![cur[n]].trigger = TRUE]
    /\ UNCHANGED <<store, env, cur, starter, mut, mgrDone, closer, made, contact>>

-----------------------------------------------------------------------------
(* Start: an initial refresh of every zone, one after the other, then the  *)
(* workers.  The list of objects is taken once, at the beginning.          *)

Start ==
    /\ starter.at = "new"
    /\ LET list == [k \in DOMAIN starter.order |-> cur[starter.order[k]]]
       IN starter' = [at |-> "boot", order |-> <<>>, todo |-> list, all |-> SX!ToSet(list)]
    /\ UNCHANGED <<store, env, objs, cur, mut, mgrDone, closer, made, contact>>

\* The object gets its context and cancel function here, not before.
BootRefresh ==
    /\ starter.at = "boot" /\ starter.todo # <<>>
    /\ LET i == Head(starter.todo) IN
       /\ objs[i].at = "off"
       /\ objs' = [objs EXCEPT ![i].at = "refresh", ![i].cancellable = TRUE, ![i].booting = TRUE]
    /\ UNCHANGED <<store, env, cur, starter, mut, mgrDone, closer, made, contact>>

BootNext ==
    /\ starter.at = "boot" /\ starter.todo # <<>>
    /\ LET i == Head(starter.todo)
           n == objs[i].name
       IN \/ /\ objs[i].at = "ready"
             /\ starter' = [starter EXCEPT !.todo = Tail(@)]
             /\ UNCHANGED <<objs, mgrDone>>
          \/ /\ objs[i].at = "failed" /\ objs[i].opMu = NoLock
             /\ n \in Retain /\ store[n] # 0
             /\ objs' = [objs EXCEPT ![i].at = "ready", ![i].last = now]
             /\ starter' = [starter EXCEPT !.todo = Tail(@)]
             /\ UNCHANGED mgrDone
          \/ /\ objs[i].at = "failed" /\ (n \notin Retain \/ store[n] = 0)
             /\ starter' = [starter EXCEPT !.at = "error"]
             /\ mgrDone' = TRUE
             /\ UNCHANGED objs
    /\ UNCHANGED <<store, env, cur, mut, closer, made, contact>>

BootRun ==
    /\ starter.at = "boot" /\ starter.todo = <<>>
    /\ objs' = [i \in Ids |-> IF i \in starter.all
                              THEN [objs[i] EXCEPT !.at = "select", !.booting = FALSE]
                              ELSE objs[i]]
    /\ starter' = [starter EXCEPT !.at = "run"]
    /\ UNCHANGED <<store, env, cur, mut, mgrDone, closer, made, contact>>

-----------------------------------------------------------------------------
(* Upsert and ApplyBatch.  plan[n] is "upsert", "reset" (an upsert that    *)
(* withholds the current zone), "remove" or "none".                        *)

MayMutate ==
    /\ mut.at = "idle" /\ made < MaxMutations
    /\ starter.at \in {"new", "run"}

\* Start is inside the AddZone of a catalog, which reconciles the members.
BootCatalog ==
    /\ mut.at = "idle" /\ made < MaxMutations
    /\ starter.at = "boot" /\ starter.todo # <<>>
    /\ LET o == objs[Head(starter.todo)] IN o.name \in Catalogs /\ o.at = "add"

\* Before Start an Upsert only replaces the table entry.
UpsertStopped(n) ==
    /\ MayMutate /\ ~Began
    /\ objs' = Append(objs, Managed(n))
    /\ cur' = [cur EXCEPT ![n] = Len(objs) + 1]
    /\ starter' = [starter EXCEPT !.order = IF cur[n] = 0 THEN Append(@, n) ELSE @]
    /\ made' = made + 1
    /\ UNCHANGED <<store, env, mut, mgrDone, closer, contact>>

Upsert(n, kind) ==
    /\ MayMutate /\ Began
    /\ mut' = [Nobody EXCEPT !.at = "lock", !.kind = "upsert", !.plan[n] = kind]
    /\ made' = made + 1
    /\ UNCHANGED <<store, env, objs, cur, starter, mgrDone, closer, contact>>

ApplyBatch(plan) ==
    /\ \/ MayMutate /\ Began
       \/ BootCatalog /\ \A n \in Catalogs : plan[n] = "none"
    /\ mut' = [Nobody EXCEPT !.at = "lock", !.kind = "batch", !.plan = plan]
    /\ made' = made + 1
    /\ UNCHANGED <<store, env, objs, cur, starter, mgrDone, closer, contact>>

Planned == {n \in Names : mut.plan[n] # "none"}
Fetching == {n \in Names : mut.plan[n] \in {"upsert", "reset"}}
ToLock == {n \in Planned : cur[n] # 0} \ mut.locked

\* Mutant: only the zones that are removed are quiesced.
LockRemovedOnly(n) ==
    /\ mut.at = "lock" /\ n \in ToLock
    /\ objs[cur[n]].opMu = NoLock \/ mut.plan[n] # "remove"
    /\ objs' = [objs EXCEPT ![cur[n]].opMu = IF mut.plan[n] = "remove" THEN "mutator" ELSE @]
    /\ mut' = [mut EXCEPT !.locked = @ \cup {n}]
    /\ UNCHANGED <<store, env, cur, starter, mgrDone, closer, made, contact>>

\* Mutant: the worker's transfer is not waited for.
LockZoneNot(n) ==
    /\ mut.at = "lock" /\ n \in ToLock
    /\ mut' = [mut EXCEPT !.locked = @ \cup {n}]
    /\ UNCHANGED <<store, env, objs, cur, starter, mgrDone, closer, made, contact>>

LockZone(n) ==
    /\ mut.at = "lock" /\ n \in ToLock
    /\ objs[cur[n]].opMu = NoLock
    /\ objs' = [objs EXCEPT ![cur[n]].opMu = "mutator"]
    /\ mut' = [mut EXCEPT !.locked = @ \cup {n}]
    /\ UNCHANGED <<store, env, cur, starter, mgrDone, closer, made, contact>>

Quiesced ==
    /\ mut.at = "lock" /\ ToLock = {}
    /\ mut' = [mut EXCEPT !.at = "fetch"]
    /\ UNCHANGED <<store, env, objs, cur, starter, mgrDone, closer, made, contact>>

ToFetch == {n \in Fetching : mut.last[n] = Never}

\* Give every opMu back and return to the caller.
Released(os) ==
    [i \in DOMAIN os |-> IF os[i].opMu = "mutator" THEN [os[i] EXCEPT !.opMu = NoLock] ELSE os[i]]

Abort ==
    /\ objs' = Released(objs)
    /\ mut' = Nobody

\* A batch compares the serial with the one it read before the fetch; got = 0
\* stands for a zone that was confirmed and needs no replacement.
PrefetchOK(n) ==
    /\ mut.at = "fetch" /\ n \in ToFetch
    /\ LET advances == \/ mut.kind = "upsert" \/ mut.plan[n] = "reset"
                       \/ store[n] = 0 \/ master[n] > store[n]
       IN mut' = [mut EXCEPT !.got[n] = IF advances THEN master[n] ELSE 0,
                             !.last[n] = now]
    /\ UNCHANGED <<store, env, objs, cur, starter, mgrDone, closer, made, contact>>

\* A retained zone inherits the old object's expiry clock.  An Upsert that
\* resets has forgotten the current zone and cannot retain it.
PrefetchFails(n) ==
    LET retained == /\ n \in Retain /\ store[n] # 0
                    /\ mut.kind = "batch" \/ mut.plan[n] = "upsert"
        old == IF cur[n] = 0 THEN Never ELSE objs[cur[n]].last
    IN /\ mut.at = "fetch" /\ n \in ToFetch
       /\ \/ /\ retained
             /\ mut' = [mut EXCEPT !.last[n] = IF old = Never THEN now ELSE old]
             /\ UNCHANGED objs
          \/ ~retained /\ Abort
       /\ UNCHANGED <<store, env, cur, starter, mgrDone, closer, made, contact>>

\* One ApplyZoneBatch for a batch; publish for an Upsert that fetched, which looks
\* at the served serial again.  Either may be refused.
PublishAll ==
    LET Wins(n) == /\ n \in Fetching /\ mut.got[n] > 0
                   /\ \/ mut.kind = "batch" \/ mut.plan[n] = "reset"
                      \/ store[n] = 0 \/ mut.got[n] > store[n]
    IN /\ mut.at = "fetch" /\ ToFetch = {}
       /\ \/ /\ store' = [n \in Names |-> IF mut.plan[n] = "remove" THEN 0
                                          ELSE IF Wins(n) THEN mut.got[n] ELSE store[n]]
             /\ contact' = [n \in Names |-> IF n \in Fetching /\ mut.got[n] # Never
                                            THEN mut.last[n] ELSE contact[n]]
             /\ mut' = [mut EXCEPT !.at = "swap"]
             /\ UNCHANGED objs
          \/ /\ mut.kind = "batch" \/ \E n \in Fetching : mut.got[n] # Never
             /\ Abort /\ UNCHANGED <<store, contact>>
       /\ UNCHANGED <<env, cur, starter, mgrDone, closer, made>>

\* New objects enter the table and removed ones leave it, under m.mu.
SwapObjects ==
    LET news == SX!SetToSeq(Fetching)
        Fresh(k) == [Managed(news[k]) EXCEPT !.cancellable = TRUE, !.last = mut.last[news[k]]]
        Index(n) == CHOOSE k \in DOMAIN news : news[k] = n
    IN /\ mut.at = "swap"
       /\ objs' = objs \o [k \in DOMAIN news |-> Fresh(k)]
       /\ cur' = [n \in Names |-> IF n \in Fetching THEN Len(objs) + Index(n)
                                  ELSE IF mut.plan[n] = "remove" THEN 0 ELSE cur[n]]
       /\ mut' = [mut EXCEPT !.at = "cancel",
                             !.got = [n \in Names |-> cur[n]]]
       /\ UNCHANGED <<store, env, starter, mgrDone, closer, made, contact>>

\* Mutant: the replaced workers are not cancelled.
ReplacedRunOn ==
    /\ mut.at = "cancel"
    /\ objs' = Released([i \in Ids |-> IF i \in {cur[n] : n \in Fetching}
                                       THEN [objs[i] EXCEPT !.at = "select"] ELSE objs[i]])
    /\ mut' = Nobody
    /\ UNCHANGED <<store, env, cur, starter, mgrDone, closer, made, contact>>

\* The replaced objects are cancelled if Start has given them a cancel function,
\* their mutexes are released and the new workers start.
CancelReplaced ==
    LET old == {mut.got[n] : n \in Planned} \ {0}
        Next1(i) == IF i \in old /\ objs[i].cancellable
                    THEN [objs[i] EXCEPT !.cancelled = TRUE]
                    ELSE IF i \in {cur[n] : n \in Fetching}
                    THEN [objs[i] EXCEPT !.at = "select"]
                    ELSE objs[i]
    IN /\ mut.at = "cancel"
       /\ objs' = Released([i \in Ids |-> Next1(i)])
       /\ mut' = Nobody
       /\ UNCHANGED <<store, env, cur, starter, mgrDone, closer, made, contact>>

\* Remove takes the object out, cancels it, and waits for a transfer in flight;
\* withdrawing the published zone is left to the caller.
Remove(n) ==
    /\ MayMutate /\ cur[n] # 0
    /\ cur' = [cur EXCEPT ![n] = 0]
    /\ starter' = [starter EXCEPT !.order =
                     IF Began THEN @ ELSE SX!RemoveAt(@, CHOOSE k \in DOMAIN @ : @[k] = n)]
    /\ objs' = [objs EXCEPT ![cur[n]].cancelled = objs[cur[n]].cancellable]
    /\ mut' = [Nobody EXCEPT !.at = "await", !.kind = "remove", !.got[n] = cur[n]]
    /\ made' = made + 1
    /\ UNCHANGED <<store, env, mgrDone, closer, contact>>

\* Mutant: Remove does not wait for a transfer in flight.
RemoveReturnAtOnce ==
    /\ mut.at = "await"
    /\ mut' = Nobody
    /\ UNCHANGED <<store, env, objs, cur, starter, mgrDone, closer, made, contact>>

RemoveReturn ==
    /\ mut.at = "await"
    /\ \A n \in Names : mut.got[n] # Never => objs[mut.got[n]].opMu = NoLock
    /\ mut' = Nobody
    /\ UNCHANGED <<store, env, objs, cur, starter, mgrDone, closer, made, contact>>

-----------------------------------------------------------------------------

Close ==
    /\ Began /\ closer = "none"
    /\ mgrDone' = TRUE /\ closer' = "wait"
    /\ UNCHANGED <<store, env, objs, cur, starter, mut, made, contact>>

CloseReturn ==
    /\ closer = "wait"
    /\ \A i \in Ids : objs[i].at \in {"off", "gone"} \/ objs[i].booting
    /\ closer' = "returned"
    /\ UNCHANGED <<store, env, objs, cur, starter, mut, mgrDone, made, contact>>

MasterPublishes(n) ==
    /\ master[n] < MaxSerial
    /\ master' = [master EXCEPT ![n] = @ + 1]
    /\ UNCHANGED <<cfg, store, now, objs, cur, starter, mut, mgrDone, closer, made, contact>>

Tick ==
    /\ now < MaxTime
    /\ now' = now + 1
    /\ UNCHANGED <<cfg, store, master, objs, cur, starter, mut, mgrDone, closer, made, contact>>

Init ==
    /\ cfg \in SX!ToSet(Settings)
    /\ store = Restored
    /\ master = [n \in Names |-> IF Restored[n] = 0 THEN 1 ELSE Restored[n]]
    /\ now = 0
    /\ objs = [k \in DOMAIN Initial |-> Managed(Initial[k])]
    /\ cur = [n \in Names |-> IF n \in SX!ToSet(Initial)
                              THEN CHOOSE k \in DOMAIN Initial : Initial[k] = n ELSE 0]
    /\ starter = [at |-> "new", order |-> Initial, todo |-> <<>>, all |-> {}]
    /\ mut = Nobody
    /\ mgrDone = FALSE /\ closer = "none" /\ made = 0
    /\ contact = [n \in Names |-> Never]

WorkerStep(i) ==
    \/ Wake(i) \/ Exit(i)
    \/ LockRefresh(i) \/ FetchOK(i) \/ FetchFails(i) \/ CheckSerial(i) \/ AddZone(i)
    \/ AfterError(i) \/ expireIfNeeded(i)

StartStep == BootRefresh \/ BootNext \/ BootRun

MutatorStep ==
    \/ \E n \in Names : LockZone(n) \/ PrefetchOK(n) \/ PrefetchFails(n)
    \/ Quiesced \/ PublishAll \/ SwapObjects \/ CancelReplaced \/ RemoveReturn

Next ==
    \/ \E i \in Ids : WorkerStep(i)
    \/ Start \/ StartStep
    \/ \E n \in Names :
         \/ HandleNotify(n) \/ UpsertStopped(n) \/ Remove(n) \/ MasterPublishes(n)
         \/ \E kind \in {"upsert", "reset"} : Upsert(n, kind)
    \/ \E plan \in [Names -> {"none", "upsert", "reset", "remove"}] : ApplyBatch(plan)
    \/ MutatorStep
    \/ Close \/ CloseReturn \/ Tick

\* Goroutines run, transfers end, timers fire; a primary need not answer.  A
\* caller waiting for opMu gets it in the end (Go's mutex does not starve), and a
\* worker whose context is done does not choose the timer for ever.
Fairness ==
    /\ \A i \in AnyObject :
          WF_vars(i \in Ids /\ WorkerStep(i)) /\ SF_vars(i \in Ids /\ Exit(i))
    /\ WF_vars(StartStep) /\ SF_vars(MutatorStep) /\ WF_vars(CloseReturn)

Spec == Init /\ [][Next]_vars /\ Fairness

\* A primary that is asked again and again answers at last.
PrimaryAnswers ==
    \A i \in AnyObject :
        SF_vars(i \in Ids /\ FetchOK(i)) /\ SF_vars(i \in Ids /\ AddZone(i) /\ store' # store)

-----------------------------------------------------------------------------

\* Shapes of the manager's table: an entry names an object of that zone, and no
\* expiry clock (lastSuccess) runs ahead of the time.
TypeOK ==
    /\ store \in [Names -> 0 .. MaxSerial] /\ cur \in [Names -> 0 .. MaxObjects]
    /\ Len(objs) <= MaxObjects
    /\ \A i \in Ids : /\ objs[i].name \in Names
                      /\ objs[i].last \in Never .. now
                      /\ objs[i].opMu \in {NoLock, "worker", "mutator"}
    /\ \A n \in Names : cur[n] # 0 => objs[cur[n]].name = n

Running(i) == objs[i].at \notin {"off", "gone"} /\ ~objs[i].cancelled

\* A batch that a catalog triggers while Start is refreshing may replace an
\* object before Start has given it a cancel function; Start runs it all the same.
Overlooked(i) == Catalogs # {} /\ i \in starter.all /\ cur[objs[i].name] # i

\* No such object works on zone n beside the one in the table.
Unshared(n) == \A i \in Ids : objs[i].name = n => ~Overlooked(i)

\* manager.go:102: "Each zone has one goroutine, which serializes transfers for
\* that zone": whatever Upsert, ApplyBatch and Remove replace, at most one
\* worker per zone is left that nobody has told to stop, the objects Start
\* overlooks apart.
OneWorkerPerZone ==
    \A i, j \in Ids :
        /\ Running(i) /\ Running(j) /\ objs[i].name = objs[j].name
        /\ ~Overlooked(i) /\ ~Overlooked(j)
        => i = j

\* manager.go:271: a batch prepares "while existing workers are quiesced": from
\* its first transfer until the new objects are in the table, no worker of a zone
\* it changes is in the middle of one, be it Start's initial refresh.
QuiescedWhilePrepared ==
    mut.at \in {"fetch", "swap"} =>
        \A n \in Planned : cur[n] # 0 =>
            /\ objs[cur[n]].at \notin {"fetch", "check", "add"}
            /\ objs[cur[n]].opMu = "mutator"

\* The table, its workers and the locks fit together: one worker per zone, and
\* none at work on a zone while a batch replaces it.
WorkersExclusive == TypeOK /\ OneWorkerPerZone /\ QuiescedWhilePrepared

\* Every served version follows the one before it, unless the zone was withdrawn
\* in between or a reset asked for a fresh start (publish's serial check is made
\* before AddZone, not with it), the zones Start's overlooked objects share apart.
SerialsAdvance ==
    [][\A n \in Names :
          (store[n] # 0 /\ store'[n] # 0 /\ store'[n] # store[n] /\ Unshared(n))
          => store'[n] > store[n] \/ mut.plan[n] = "reset"]_vars

\* manager.go:449: Remove waits, "preventing a late refresh from resurrecting"
\* the zone: once it has returned, nothing but a new Upsert or ApplyBatch
\* publishes the zone (with the same exception).
RemovedStaysAway ==
    [][\A n \in Names :
          (store'[n] > store[n] /\ cur[n] = 0 /\ Unshared(n))
          => mut.plan[n] # "none" \/ (mut.kind = "remove" /\ mut.got[n] # Never)]_vars

\* No caller of Upsert, ApplyBatch or Remove waits for ever.
MutationsFinish == (mut.at # "idle") ~> (mut.at = "idle")

\* Close returns, whatever the workers and callers are doing.
CloseTerminates == (closer = "wait") ~> (closer = "returned")

\* Upsert, ApplyBatch, Remove and Close return, in whatever order they wait for
\* mutationMu, the opMu of several zones and the workers.
CallsReturn == MutationsFinish /\ CloseTerminates

Overdue(n) == store[n] # 0 /\ cur[n] # 0 /\ objs[cur[n]].at # "off" /\ Due(cur[n])

\* A zone whose primary has been silent for its Expire interval is withdrawn or
\* refreshed; it is not served for ever (runZone's expireIfNeeded).
ExpiredZonesWithdrawn ==
    \A n \in AnyName : (n \in Names /\ starter.at = "run" /\ Overdue(n)) ~> (~Overdue(n) \/ mgrDone)

\* When the primary is quiet and answers, every managed zone catches up with it.
CatchesUp ==
    PrimaryAnswers => \A n \in AnyName :
        <>[](n \notin Names \/ starter.at # "run" \/ mgrDone \/ cur[n] = 0 \/ store[n] = master[n])

\* A zone its primary has confirmed within the Expire interval is never withdrawn
\* by the worker that is in charge of it, whatever contact Start, an Upsert or a
\* batch made on the zone's behalf (manager.go expireIfNeeded, lastRefresh).  The
\* contacts of a worker Start overlooked are unknown to the one in charge.
CurrentWorkersExpireOnTime ==
    [][\A n \in Names :
          (/\ store[n] # 0 /\ store'[n] = 0 /\ cur[n] # 0
           /\ objs[cur[n]].at = "expire" /\ objs'[cur[n]].at # "expire"
           /\ Unshared(n))
          => now >= contact[n] + Expire]_vars

\* manager.go:533: a transfer that finds the zone current "resets the SOA expiry
\* clock": a worker withdraws a zone only if its primary has not confirmed it
\* for a whole Expire interval.
FreshZonesStay ==
    [][\A n \in Names :
          (store[n] # 0 /\ store'[n] = 0 /\ mut' = mut) => now >= contact[n] + Expire]_vars
=============================================================================

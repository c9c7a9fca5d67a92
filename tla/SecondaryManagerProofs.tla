----------------------- MODULE SecondaryManagerProofs ------------------------
(***************************************************************************)
(* For any deployments, zones, mutations, times and faults of the primary: *)
(* the secondary manager keeps one worker per zone, quiesces it before it  *)
(* replaces it, and neither withdraws, resurrects nor sets back a zone     *)
(* behind the worker in charge.  The invariant says for each object who    *)
(* holds its opMu, whether Start or the table still owes it a worker, and  *)
(* which caller is waiting for it.                                         *)
(***************************************************************************)
EXTENDS SecondaryManager, FiniteSetTheorems, SequenceTheorems, TLAPS

Stations == {"off", "refresh", "fetch", "check", "add", "failed", "ready", "select", "expire", "gone"}

\* Stations at which a worker holds the opMu of its object.
Busy == {"fetch", "check", "add"}

Obj == [name : Names, at : Stations, cancelled : BOOLEAN, cancellable : BOOLEAN, last : Int,
        trigger : BOOLEAN, opMu : {NoLock, "worker", "mutator"}, got : 0 .. MaxSerial,
        booting : BOOLEAN]

Plans == {"none", "upsert", "reset", "remove"}

Caller == [at : {"idle", "lock", "fetch", "swap", "cancel", "await"},
           kind : {"none", "upsert", "batch", "remove"}, plan : [Names -> Plans],
           locked : SUBSET Names, got : [Names -> Int], last : [Names -> Int]]

Boot == [at : {"new", "boot", "run", "error"}, order : Seq(Names), todo : Seq(Nat), all : SUBSET Nat]

\* Shapes of the state.
Types ==
    /\ cfg \in SX!ToSet(Settings)
    /\ objs \in Seq(Obj)
    /\ store \in [Names -> 0 .. MaxSerial] /\ master \in [Names -> 1 .. MaxSerial]
    /\ now \in Nat /\ made \in Nat /\ contact \in [Names -> Int]
    /\ cur \in [Names -> Nat]
    /\ \A n \in Names : cur[n] # 0 => cur[n] \in Ids /\ objs[cur[n]].name = n
    /\ starter \in Boot /\ mut \in Caller /\ mgrDone \in BOOLEAN

\* A worker holds opMu exactly while it transfers and publishes.
Locks == \A i \in Ids : objs[i].opMu = "worker" <=> objs[i].at \in Busy

\* The names in m.order are those in the table, each once.
Ordered(order) ==
    /\ \A k \in DOMAIN order : cur[order[k]] # 0
    /\ \A k, l \in DOMAIN order : order[k] = order[l] => k = l
    /\ \A n \in Names : cur[n] # 0 => \E k \in DOMAIN order : order[k] = n

\* Start's progress: before it nothing runs; while it refreshes, the objects it
\* has done with wait for their workers and those to come are untouched.  Only a
\* catalog can change the table meanwhile.
Booting ==
    /\ starter.all \subseteq Ids
    /\ starter.at = "new" =>
         /\ starter.all = {} /\ Ordered(starter.order)
         /\ \A i \in Ids : objs[i].at = "off"
         /\ \A n \in Names : contact[n] = Never
    /\ starter.at = "boot" =>
         /\ \A k \in DOMAIN starter.todo : starter.todo[k] \in starter.all
         /\ \A k, l \in DOMAIN starter.todo : starter.todo[k] = starter.todo[l] => k = l
         /\ \A k \in DOMAIN starter.todo : k # 1 => objs[starter.todo[k]].at = "off"
         /\ \A i \in starter.all :
              objs[i].at = "ready" \/ \E k \in DOMAIN starter.todo : starter.todo[k] = i
         /\ Catalogs = {} => \A i \in starter.all : cur[objs[i].name] = i

\* What the caller inside mutationMu holds, by its progress.
Mutating ==
    /\ mut.at \in {"lock", "fetch", "swap", "cancel"} =>
         starter.at # "new" /\ (starter.at = "boot" => Catalogs # {})
    /\ mut.at \in {"lock", "fetch"} => \A n \in Names : mut.got[n] \in Never .. MaxSerial
    /\ mut.at \in {"lock", "fetch", "swap"} =>
         \A n \in mut.locked : cur[n] # 0 /\ objs[cur[n]].opMu = "mutator"
    /\ mut.at \in {"fetch", "swap"} => \A n \in Planned : cur[n] # 0 => n \in mut.locked
    /\ mut.at = "cancel" => \A n \in Planned :
         /\ mut.got[n] # 0 =>
              /\ mut.got[n] \in Ids /\ mut.got[n] # cur[n]
              /\ objs[mut.got[n]].name = n /\ objs[mut.got[n]].opMu = "mutator"
         /\ n \in Fetching =>
              /\ cur[n] # 0 /\ cur[n] \notin starter.all
              /\ objs[cur[n]].at = "off" /\ objs[cur[n]].cancellable /\ ~objs[cur[n]].cancelled
         /\ n \notin Fetching => cur[n] = 0
    /\ mut.at = "await" =>
         /\ mut.kind = "remove"
         /\ \A n \in Names : mut.got[n] # Never =>
              mut.got[n] \in Ids /\ objs[mut.got[n]].name = n /\ cur[n] = 0

\* Who may still be at work.
Workers ==
    /\ \A i \in Ids : objs[i].at # "off" => objs[i].cancellable
    /\ \A i \in Ids : Running(i) /\ ~Overlooked(i) =>
         LET n == objs[i].name IN
         \/ cur[n] = i
         \/ mut.at = "cancel" /\ n \in Planned /\ mut.got[n] = i
    /\ \A i \in Ids : objs[i].cancelled /\ objs[i].at \in {"check", "add"} =>
         mut.at = "await" /\ mut.got[objs[i].name] = i

IInv == Types /\ Locks /\ Booting /\ Mutating /\ Workers

\* No clock runs ahead of the time.
Clocks ==
    /\ \A i \in Ids : objs[i].last \in Never .. now
    /\ \A n \in Names : mut.last[n] \in Never .. now /\ contact[n] \in Never .. now

\* Before it fetches, the caller knows nothing.
Unfetched == mut.at = "lock" => \A n \in Names : mut.got[n] = Never /\ mut.last[n] = Never

\* The worker in charge, or the one about to be, knows of the last contact.
Known ==
    /\ \A n \in Names : Unshared(n) =>
         /\ cur[n] # 0 => contact[n] <= objs[cur[n]].last \/ (mut.at = "swap" /\ n \in Fetching)
         /\ mut.at \in {"fetch", "swap"} /\ n \in Fetching /\ mut.last[n] # Never =>
              contact[n] <= mut.last[n]
    /\ mut.at = "swap" => \A n \in Fetching : mut.last[n] # Never

\* What is about to be published follows what is served.
Succeeds ==
    /\ \A n \in Names : \A i \in Ids :
         objs[i].name = n /\ objs[i].at = "add" /\ Unshared(n) =>
            store[n] = 0 \/ objs[i].got > store[n]
    /\ mut.at = "fetch" /\ mut.kind = "batch" =>
         \A n \in Names : mut.plan[n] = "upsert" /\ mut.got[n] > 0 /\ Unshared(n) =>
            store[n] = 0 \/ mut.got[n] > store[n]

\* Every mutation begun may still add an object for each of its zones.
Counted ==
    /\ made <= MaxMutations
    /\ Len(objs) + (IF mut.at \in {"lock", "fetch", "swap"} THEN Cardinality(Names) ELSE 0)
         <= Len(Initial) + made * Cardinality(Names)
-----------------------------------------------------------------------------
(* What the proofs use of the constants and of the two libraries.          *)

\* The deployment never changes, nor what is defined from it.
LEMMA Fixed ==
    cfg' = cfg =>
      /\ Names' = Names /\ Catalogs' = Catalogs /\ Retain' = Retain /\ Expire' = Expire
      /\ Initial' = Initial /\ MaxSerial' = MaxSerial /\ MaxMutations' = MaxMutations
      /\ MaxTime' = MaxTime /\ MaxObjects' = MaxObjects
      /\ Obj' = Obj /\ Caller' = Caller /\ Boot' = Boot /\ Nobody' = Nobody
BY DEF Names, Catalogs, Retain, Expire, Initial, MaxSerial, MaxMutations, MaxTime, MaxObjects,
       Obj, Caller, Boot, Nobody, Objects, Never

\* What every deployment satisfies.
LEMMA Deployment ==
    ASSUME cfg \in SX!ToSet(Settings)
    PROVE  /\ IsFiniteSet(Names) /\ Initial \in Seq(Names)
           /\ \A i, j \in DOMAIN Initial : Initial[i] = Initial[j] => i = j
           /\ Retain \subseteq Names /\ Catalogs \subseteq Names
           /\ Expire \in Nat \ {0} /\ MaxMutations \in Nat /\ MaxSerial \in Nat \ {0}
           /\ MaxTime \in Nat /\ Restored \in [Names -> 0 .. MaxSerial]
BY ManagerAssumption
   DEF SX!ToSet, Names, Initial, Retain, Catalogs, Expire, MaxMutations, MaxSerial, MaxTime, Restored

\* A sequence of objects is a function on its indices.
LEMMA ObjectSeq ==
    /\ \A s \in Seq(Obj) : s \in [1 .. Len(s) -> Obj] /\ Len(s) \in Nat /\ DOMAIN s = 1 .. Len(s)
    /\ \A k \in Nat : \A s \in [1 .. k -> Obj] : s \in Seq(Obj) /\ Len(s) = k
<1>1. \A s \in Seq(Obj) : s \in [1 .. Len(s) -> Obj] /\ Len(s) \in Nat /\ DOMAIN s = 1 .. Len(s)
  OBVIOUS
<1>2. ASSUME NEW k \in Nat, NEW s \in [1 .. k -> Obj]
      PROVE  s \in Seq(Obj) /\ Len(s) = k
  OBVIOUS
<1> QED  BY <1>1, <1>2

\* Nobody is a caller.
LEMMA NobodyCalls == Nobody \in Caller
BY DEF Nobody, Caller, Plans, Never

\* What the caller holds it still holds after a step that leaves the table, the
\* caller and the objects that wait for their worker alone.
LEMMA MutatingKept ==
    ASSUME Types, Mutating, UNCHANGED <<cfg, cur, mut>>, Ids' = Ids, starter'.all = starter.all,
           starter.at # "new" => starter'.at # "new", starter'.at = "boot" => starter.at = "boot",
           \A i \in Ids : /\ objs'[i].name = objs[i].name
                          /\ objs[i].opMu = "mutator" => objs'[i].opMu = "mutator"
                          /\ i \notin starter.all /\ objs[i].at = "off" =>
                               /\ objs'[i].at = "off" /\ objs'[i].cancelled = objs[i].cancelled
                               /\ objs'[i].cancellable = objs[i].cancellable
    PROVE  Mutating'
<1>1. Names' = Names /\ Catalogs' = Catalogs /\ MaxSerial' = MaxSerial
  BY Fixed
<1>2. Planned' = Planned /\ Fetching' = Fetching
  BY <1>1 DEF Planned, Fetching
<1>3. /\ mut.locked \subseteq Names /\ Planned \subseteq Names /\ Fetching \subseteq Names
      /\ \A n \in Names : cur[n] # 0 => cur[n] \in Ids
  BY DEF Types, Caller, Planned, Fetching
<1>a. \A i \in Ids : objs'[i].name = objs[i].name
  OBVIOUS
<1>b. \A i \in Ids : objs[i].opMu = "mutator" => objs'[i].opMu = "mutator"
  OBVIOUS
<1>c. \A i \in Ids : i \notin starter.all /\ objs[i].at = "off" /\ objs[i].cancellable /\ ~objs[i].cancelled
        => objs'[i].at = "off" /\ objs'[i].cancellable /\ ~objs'[i].cancelled
  OBVIOUS
<1>4. mut.at \in {"lock", "fetch", "swap"} =>
        \A n \in mut.locked : cur[n] # 0 /\ objs'[cur[n]].opMu = "mutator"
  BY <1>3, <1>b DEF Mutating
<1>5. ASSUME mut.at = "cancel", NEW n \in Planned
      PROVE  /\ mut.got[n] # 0 =>
                  /\ mut.got[n] \in Ids /\ mut.got[n] # cur[n]
                  /\ objs'[mut.got[n]].name = n /\ objs'[mut.got[n]].opMu = "mutator"
             /\ n \in Fetching =>
                  /\ cur[n] # 0 /\ cur[n] \notin starter.all
                  /\ objs'[cur[n]].at = "off" /\ objs'[cur[n]].cancellable
                  /\ ~objs'[cur[n]].cancelled
             /\ n \notin Fetching => cur[n] = 0
  <2>1. /\ mut.got[n] # 0 =>
             /\ mut.got[n] \in Ids /\ mut.got[n] # cur[n]
             /\ objs[mut.got[n]].name = n /\ objs[mut.got[n]].opMu = "mutator"
        /\ n \in Fetching =>
             /\ cur[n] # 0 /\ cur[n] \notin starter.all
             /\ objs[cur[n]].at = "off" /\ objs[cur[n]].cancellable
             /\ ~objs[cur[n]].cancelled
        /\ n \notin Fetching => cur[n] = 0
    BY <1>5 DEF Mutating
  <2> QED  BY <1>3, <1>5, <1>a, <1>b, <1>c, <2>1
<1>6. mut.at = "await" => \A n \in Names : mut.got[n] # Never =>
        mut.got[n] \in Ids /\ objs'[mut.got[n]].name = n /\ cur[n] = 0
  <2>1. mut.at = "await" => \A n \in Names : mut.got[n] # Never =>
          mut.got[n] \in Ids /\ objs[mut.got[n]].name = n /\ cur[n] = 0
    BY DEF Mutating
  <2> QED  BY <1>a, <2>1
<1> QED  BY <1>1, <1>2, <1>4, <1>5, <1>6 DEF Mutating

-----------------------------------------------------------------------------
(* The steps of a worker.                                                  *)

\* What a worker, a NOTIFY or the clock may do to an object.
Evolves(o, p) ==
    /\ p \in Obj /\ p.name = o.name
    /\ p.cancelled = o.cancelled /\ p.cancellable = o.cancellable
    /\ p.opMu = "mutator" <=> o.opMu = "mutator"
    /\ p.opMu = "worker" <=> p.at \in Busy
    /\ \/ p.at = o.at
       \/ /\ o.at \notin {"off", "gone", "ready"} /\ p.at # "off"
          /\ p.cancelled /\ p.at \in {"check", "add"} => o.at = "check"

\* A step that does no more than that, to any object, keeps the invariant.
LEMMA EvolvingKeeps ==
    ASSUME IInv,
           objs' \in Seq(Obj), Ids' = Ids, \A i \in Ids : Evolves(objs[i], objs'[i]),
           UNCHANGED <<cfg, cur, starter, mut>>,
           store' \in [Names -> 0 .. MaxSerial], master' \in [Names -> 1 .. MaxSerial],
           now' \in Nat, made' \in Nat, contact' \in [Names -> Int], mgrDone' \in BOOLEAN,
           contact' = contact \/ starter.at # "new"
    PROVE  IInv'
<1> USE DEF IInv
<1>0. Names' = Names /\ Catalogs' = Catalogs /\ MaxSerial' = MaxSerial /\ Obj' = Obj
      /\ Caller' = Caller /\ Boot' = Boot
  BY Fixed
<1>n. Planned' = Planned /\ Fetching' = Fetching
  BY <1>0 DEF Planned, Fetching
<1>a. \A i \in Ids : /\ objs'[i].name = objs[i].name /\ objs'[i].cancelled = objs[i].cancelled
                     /\ objs'[i].cancellable = objs[i].cancellable
                     /\ objs'[i].opMu = "mutator" <=> objs[i].opMu = "mutator"
                     /\ objs'[i].opMu = "worker" <=> objs'[i].at \in Busy
                     /\ objs[i].at \in {"off", "gone", "ready"} => objs'[i].at = objs[i].at
                     /\ objs'[i].at = "off" => objs[i].at = "off"
                     /\ objs'[i].cancelled /\ objs'[i].at \in {"check", "add"} =>
                          objs[i].at \in {"check", "add"}
  BY DEF Evolves
<1>1. Types'
  BY <1>0, <1>a DEF Types
<1>2. Locks'
  BY <1>a DEF Locks
<1>3. Booting'
  <2>1. starter.all \subseteq Ids
    BY DEF Booting
  <2>2. \A k \in DOMAIN starter.todo : starter.at = "boot" => starter.todo[k] \in Ids
    BY DEF Booting
  <2>3. starter'.at = "new" => /\ starter'.all = {} /\ Ordered(starter.order)'
                              /\ \A i \in Ids : objs'[i].at = "off"
                              /\ \A n \in Names : contact'[n] = Never
    BY <1>0, <1>a DEF Booting, Ordered
  <2>4. starter.at = "boot" =>
          /\ \A k \in DOMAIN starter.todo : k # 1 => objs'[starter.todo[k]].at = "off"
          /\ \A i \in starter.all :
               objs'[i].at = "ready" \/ \E k \in DOMAIN starter.todo : starter.todo[k] = i
          /\ Catalogs = {} => \A i \in starter.all : cur[objs'[i].name] = i
    <3> SUFFICES ASSUME starter.at = "boot"
                 PROVE  /\ \A k \in DOMAIN starter.todo : k # 1 => objs'[starter.todo[k]].at = "off"
                        /\ \A i \in starter.all :
                             objs'[i].at = "ready" \/ \E k \in DOMAIN starter.todo : starter.todo[k] = i
                        /\ Catalogs = {} => \A i \in starter.all : cur[objs'[i].name] = i
      OBVIOUS
    <3>1. \A k \in DOMAIN starter.todo : k # 1 => objs[starter.todo[k]].at = "off"
      BY DEF Booting
    <3>2. \A i \in starter.all :
            /\ objs[i].at = "ready" \/ \E k \in DOMAIN starter.todo : starter.todo[k] = i
            /\ Catalogs = {} => cur[objs[i].name] = i
      BY DEF Booting
    <3> QED  BY <1>a, <2>1, <2>2, <3>1, <3>2
  <2> QED  BY <1>0, <2>1, <2>3, <2>4 DEF Booting
<1>4. Mutating'
  BY <1>a, MutatingKept
<1>5. Workers'
  <2>1. \A i \in Ids : objs'[i].at # "off" => objs'[i].cancellable
    BY <1>a DEF Workers
  <2>2. \A i \in Ids : /\ Running(i)' => Running(i)
                       /\ Overlooked(i)' <=> Overlooked(i)
    BY <1>0, <1>a DEF Running, Overlooked
  <2>3. \A i \in Ids : objs'[i].cancelled /\ objs'[i].at \in {"check", "add"} =>
          mut.at = "await" /\ mut.got[objs'[i].name] = i
    BY <1>a DEF Workers
  <2> QED  BY <1>n, <1>a, <2>1, <2>2, <2>3 DEF Workers
<1> QED  BY <1>1, <1>2, <1>3, <1>4, <1>5

\* The table of objects after one of them is replaced, or all are.
LEMMA Replaced ==
    ASSUME Types, NEW i \in Ids, NEW p \in Obj, objs' = [objs EXCEPT ![i] = p]
    PROVE  /\ objs' \in Seq(Obj) /\ Ids' = Ids /\ Len(objs') = Len(objs)
           /\ objs'[i] = p /\ \A j \in Ids \ {i} : objs'[j] = objs[j]
<1>1. objs \in [1 .. Len(objs) -> Obj] /\ Len(objs) \in Nat /\ Ids = 1 .. Len(objs)
  BY ObjectSeq DEF Types, Ids
<1>2. objs' \in [1 .. Len(objs) -> Obj]
  BY <1>1
<1>3. objs' \in Seq(Obj) /\ Len(objs') = Len(objs)
  BY <1>1, <1>2, ObjectSeq
<1> QED  BY <1>1, <1>2, <1>3 DEF Ids

LEMMA Mapped ==
    ASSUME Types, NEW f \in [Ids -> Obj], objs' = f
    PROVE  objs' \in Seq(Obj) /\ Ids' = Ids /\ Len(objs') = Len(objs)
<1>1. Len(objs) \in Nat /\ Ids = 1 .. Len(objs)
  BY ObjectSeq DEF Types, Ids
<1>2. objs' \in [1 .. Len(objs) -> Obj]
  BY <1>1
<1>3. objs' \in Seq(Obj) /\ Len(objs') = Len(objs)
  BY <1>1, <1>2, ObjectSeq
<1> QED  BY <1>1, <1>2, <1>3 DEF Ids

\* An object that one worker changes is one that evolves, the others do not.
LEMMA OneEvolves ==
    ASSUME IInv, NEW i \in Ids, NEW p, Evolves(objs[i], p), objs' = [objs EXCEPT ![i] = p]
    PROVE  /\ objs' \in Seq(Obj) /\ Ids' = Ids /\ Len(objs') = Len(objs)
           /\ objs'[i] = p /\ \A j \in Ids \ {i} : objs'[j] = objs[j]
           /\ \A j \in Ids : Evolves(objs[j], objs'[j])
<1>1. Types /\ p \in Obj
  BY DEF IInv, Evolves
<1>2. objs \in [Ids -> Obj]
  BY <1>1, ObjectSeq DEF Types, Ids
<1>3. \A j \in Ids : Evolves(objs[j], objs[j])
  BY <1>2 DEF Evolves, IInv, Locks
<1> QED  BY <1>1, <1>3, Replaced

\* Every station a worker leaves it leaves as Evolves allows.
LEMMA WorkerEvolves ==
    ASSUME IInv, NEW i \in Ids, WorkerStep(i)
    PROVE  /\ \E p : Evolves(objs[i], p) /\ objs' = [objs EXCEPT ![i] = p]
           /\ objs[i].at # "off"
           /\ UNCHANGED <<cfg, cur, starter, mut, master, now, made, mgrDone>>
<1>1. objs[i] \in Obj /\ (objs[i].opMu = "worker" <=> objs[i].at \in Busy) /\ now \in Nat
      /\ \A n \in Names : master[n] \in 1 .. MaxSerial
  BY ObjectSeq DEF IInv, Types, Locks, Ids
<1>2. objs[i].cancelled /\ objs[i].at \in {"check", "add"} => Done(i)
  BY DEF Done
<1>3. MaxSerial \in Nat
  BY Deployment DEF IInv, Types
<1>4. CASE Wake(i)
  <2>1. CASE Move(i, "refresh") /\ objs[i].at = "select"
    BY <1>1, <1>4, <2>1 DEF Wake, Move, Evolves, Obj, Stations, Busy, NoLock, env
  <2>2. CASE objs' = [objs EXCEPT ![i].at = "refresh", ![i].trigger = FALSE] /\ objs[i].at = "select"
    <3>1. Evolves(objs[i], [objs[i] EXCEPT !.at = "refresh", !.trigger = FALSE])
      BY <1>1, <2>2 DEF Evolves, Obj, Stations, Busy, NoLock
    <3> QED  BY <1>4, <2>2, <3>1 DEF Wake, env
  <2> QED  BY <1>4, <2>1, <2>2 DEF Wake
<1>5. CASE Exit(i)
  BY <1>1, <1>5 DEF Exit, Move, Evolves, Obj, Stations, Busy, NoLock, env
<1>6. CASE LockRefresh(i)
  <2>1. Evolves(objs[i], [objs[i] EXCEPT !.at = "fetch", !.opMu = "worker"])
    BY <1>1, <1>6 DEF LockRefresh, Evolves, Obj, Stations, Busy, NoLock
  <2> QED  BY <1>6, <2>1 DEF LockRefresh, env
<1>7. CASE FetchOK(i)
  <2>1. master[objs[i].name] \in 0 .. MaxSerial
    BY <1>1, <1>3 DEF Obj
  <2>2. Evolves(objs[i], [objs[i] EXCEPT !.at = "check", !.got = master[objs[i].name]])
    BY <1>1, <1>7, <2>1 DEF FetchOK, Done, Evolves, Obj, Stations, Busy, NoLock
  <2> QED  BY <1>7, <2>2 DEF FetchOK, env
<1>8. CASE FetchFails(i)
  <2>1. Evolves(objs[i], Unlocked(objs[i], "failed"))
    BY <1>1, <1>8 DEF FetchFails, Unlocked, Evolves, Obj, Stations, Busy, NoLock
  <2> QED  BY <1>8, <2>1 DEF FetchFails, env
<1>9. ASSUME objs[i].at \in Busy
      PROVE  Evolves(objs[i], [Unlocked(objs[i], IF objs[i].booting THEN "ready" ELSE "select")
                               EXCEPT !.last = now])
  <2>1. \A at \in {"ready", "select"} : Evolves(objs[i], [Unlocked(objs[i], at) EXCEPT !.last = now])
    <3> TAKE at \in {"ready", "select"}
    <3> DEFINE q == [objs[i] EXCEPT !.at = at, !.opMu = NoLock, !.last = now]
    <3>1. q = [Unlocked(objs[i], at) EXCEPT !.last = now]
      BY <1>1 DEF Unlocked, Obj
    <3>2. q \in Obj
      <4>1. /\ now \in Int /\ at \in Stations /\ NoLock \in {NoLock, "worker", "mutator"}
            /\ objs[i] \in Obj
        BY <1>1 DEF Stations
      <4> QED  BY <4>1 DEF Obj
    <3>3. /\ q.name = objs[i].name /\ q.cancelled = objs[i].cancelled
          /\ q.cancellable = objs[i].cancellable /\ q.opMu = NoLock /\ q.at = at
      BY <1>1 DEF Obj
    <3> HIDE DEF q
    <3>4. Evolves(objs[i], q)
      BY <1>1, <1>9, <3>2, <3>3 DEF Evolves, Busy, NoLock
    <3> QED  BY <3>1, <3>4
  <2> QED  BY <2>1
<1>10. CASE CheckSerial(i)
  <2>1. CASE Refreshed(i) /\ objs[i].at = "check"
    BY <1>9, <1>10, <2>1 DEF CheckSerial, Refreshed, Busy, env
  <2>2. CASE Move(i, "add") /\ objs[i].at = "check"
    <3>1. Evolves(objs[i], [objs[i] EXCEPT !.at = "add"])
      BY <1>1, <2>2 DEF Evolves, Obj, Stations, Busy, NoLock
    <3> QED  BY <1>10, <2>2, <3>1 DEF CheckSerial, Move, env
  <2> QED  BY <1>10, <2>1, <2>2 DEF CheckSerial
<1>11. CASE AddZone(i)
  <2>1. CASE Refreshed(i) /\ objs[i].at = "add"
    BY <1>9, <1>11, <2>1 DEF AddZone, Refreshed, Busy, env
  <2>2. CASE objs' = [objs EXCEPT ![i] = Unlocked(@, "failed")] /\ objs[i].at = "add"
    <3>1. Evolves(objs[i], Unlocked(objs[i], "failed"))
      BY <1>1, <2>2 DEF Unlocked, Evolves, Obj, Stations, Busy, NoLock
    <3> QED  BY <1>11, <2>2, <3>1 DEF AddZone, env
  <2> QED  BY <1>11, <2>1, <2>2 DEF AddZone
<1>12. CASE AfterError(i)
  <2>1. \A at \in {"select", "expire"} : Evolves(objs[i], [objs[i] EXCEPT !.at = at])
    BY <1>1, <1>12 DEF AfterError, Evolves, Obj, Stations, Busy, NoLock
  <2> QED  BY <1>12, <2>1 DEF AfterError, Move, env
<1>13. CASE expireIfNeeded(i)
  <2>1. Evolves(objs[i], [objs[i] EXCEPT !.at = "select"])
    BY <1>1, <1>13 DEF expireIfNeeded, Evolves, Obj, Stations, Busy, NoLock
  <2> QED  BY <1>13, <2>1 DEF expireIfNeeded, Move, env
<1> QED  BY <1>4, <1>5, <1>6, <1>7, <1>8, <1>10, <1>11, <1>12, <1>13 DEF WorkerStep

\* The steps of a worker keep the invariant.
LEMMA WorkerKeeps ==
    ASSUME IInv, NEW i \in Ids, WorkerStep(i)
    PROVE  IInv'
<1>0. objs[i] \in Obj /\ Types /\ MaxSerial \in Nat
  BY ObjectSeq, Deployment DEF IInv, Types, Ids
<1>1. /\ objs' \in Seq(Obj) /\ Ids' = Ids
      /\ \A j \in Ids : Evolves(objs[j], objs'[j])
  BY WorkerEvolves, OneEvolves
<1>2. objs[i].at # "off" /\ UNCHANGED <<cfg, cur, starter, mut, master, now, made, mgrDone>>
  BY WorkerEvolves
<1>3. starter.at # "new"
  BY <1>2 DEF IInv, Booting
<1>4. store' \in [Names -> 0 .. MaxSerial] /\ contact' \in [Names -> Int]
  <2>1. CASE UNCHANGED store /\ UNCHANGED contact
    BY <1>0, <2>1 DEF Types
  <2>2. CASE CheckSerial(i)
    BY <1>0, <2>2 DEF CheckSerial, Types
  <2>3. CASE AddZone(i)
    <3>1. objs[i].got \in 0 .. MaxSerial /\ now \in Int
      BY <1>0 DEF Obj, Types
    <3> QED  BY <1>0, <2>3, <3>1 DEF AddZone, Types
  <2>4. CASE expireIfNeeded(i)
    <3>1. contact' = contact
          /\ store' = IF Due(i) THEN [store EXCEPT ![objs[i].name] = 0] ELSE store
      BY <2>4 DEF expireIfNeeded, env
    <3>2. store \in [Names -> 0 .. MaxSerial] /\ 0 \in 0 .. MaxSerial /\ contact \in [Names -> Int]
      BY <1>0 DEF Types
    <3> QED  BY <3>1, <3>2
  <2> QED
    BY <2>1, <2>2, <2>3, <2>4
       DEF WorkerStep, Wake, Exit, LockRefresh, FetchOK, FetchFails, AfterError
<1> QED  BY <1>0, <1>1, <1>2, <1>3, <1>4, EvolvingKeeps DEF Types

\* So do a NOTIFY, the primary, the clock and Close.
LEMMA SurroundingsKeep ==
    ASSUME IInv, (\E n \in Names : HandleNotify(n) \/ MasterPublishes(n)) \/ Tick \/ Close \/ CloseReturn
    PROVE  IInv'
<1>0. Types /\ MaxSerial \in Nat /\ MaxTime \in Nat
  BY Deployment DEF IInv, Types
<1>1. ASSUME UNCHANGED objs
      PROVE  objs' \in Seq(Obj) /\ Ids' = Ids /\ \A j \in Ids : Evolves(objs[j], objs'[j])
  <2>1. objs \in [1 .. Len(objs) -> Obj] /\ Ids = 1 .. Len(objs)
    BY <1>0, ObjectSeq DEF Types, Ids
  <2> QED  BY <1>0, <1>1, <2>1 DEF Evolves, IInv, Locks, Types, Ids
<1>2. CASE \E n \in Names : HandleNotify(n)
  <2>1. PICK n \in Names : HandleNotify(n)
    BY <1>2
  <2> DEFINE i == cur[n]
             p == [objs[i] EXCEPT !.trigger = TRUE]
  <2>2. i \in Ids /\ objs[i] \in Obj /\ objs' = [objs EXCEPT ![i] = p]
    BY <1>0, <2>1, ObjectSeq DEF HandleNotify, Types, Ids
  <2>3. Evolves(objs[i], p)
    BY <2>2 DEF Evolves, Obj, IInv, Locks
  <2>4. /\ objs' \in Seq(Obj) /\ Ids' = Ids /\ \A j \in Ids : Evolves(objs[j], objs'[j])
    BY <2>2, <2>3, OneEvolves
  <2> QED  BY <1>0, <2>1, <2>4, EvolvingKeeps DEF HandleNotify, Types, env
<1>3. CASE \E n \in Names : MasterPublishes(n)
  <2>1. UNCHANGED <<cfg, store, now, objs, cur, starter, mut, mgrDone, made, contact>>
        /\ master' \in [Names -> 1 .. MaxSerial]
    BY <1>0, <1>3 DEF MasterPublishes, Types
  <2> QED  BY <1>0, <1>1, <2>1, EvolvingKeeps DEF Types
<1>4. CASE Tick
  <2>1. UNCHANGED <<cfg, store, master, objs, cur, starter, mut, mgrDone, made, contact>> /\ now' \in Nat
    BY <1>0, <1>4 DEF Tick, Types
  <2> QED  BY <1>0, <1>1, <2>1, EvolvingKeeps DEF Types
<1>5. CASE Close
  BY <1>0, <1>1, <1>5, EvolvingKeeps DEF Types, Close, env
<1>6. CASE CloseReturn
  BY <1>0, <1>1, <1>6, EvolvingKeeps DEF Types, CloseReturn, env
<1> QED  BY <1>2, <1>3, <1>4, <1>5, <1>6

-----------------------------------------------------------------------------
(* The steps of Start.                                                     *)

\* Start takes its list: every object in the table, each once.
LEMMA StartKeeps ==
    ASSUME IInv, Start
    PROVE  IInv'
<1> DEFINE order == starter.order
           list == [k \in DOMAIN order |-> cur[order[k]]]
<1>0. /\ UNCHANGED <<cfg, store, master, now, objs, cur, mut, mgrDone, made, contact>>
      /\ starter.at = "new"
      /\ starter' = [at |-> "boot", order |-> <<>>, todo |-> list, all |-> {list[k] : k \in DOMAIN list}]
  BY DEF Start, env, SX!ToSet
<1>1. Names' = Names /\ Catalogs' = Catalogs /\ MaxSerial' = MaxSerial /\ Obj' = Obj
      /\ Caller' = Caller /\ Boot' = Boot
  BY <1>0, Fixed
<1>n. Planned' = Planned /\ Fetching' = Fetching
  BY <1>0, <1>1 DEF Planned, Fetching
<1>2. /\ Types /\ Locks /\ Booting /\ Mutating /\ Workers
      /\ order \in Seq(Names) /\ Ordered(order)
      /\ starter.all = {} /\ \A i \in Ids : objs[i].at = "off"
  BY <1>0 DEF IInv, Types, Boot, Booting
<1>3. \A k \in DOMAIN order : order[k] \in Names
  BY <1>2
<1>4. DOMAIN list = DOMAIN order /\ \A k \in DOMAIN order : list[k] = cur[order[k]]
  OBVIOUS
<1>5. \A k \in DOMAIN order : list[k] \in Ids /\ objs[list[k]].name = order[k] /\ list[k] \in Nat
  BY <1>2, <1>3, <1>4 DEF Ordered, Types
<1>6. \A k, l \in DOMAIN order : list[k] = list[l] => k = l
  <2>1. \A k, l \in DOMAIN order : order[k] = order[l] => k = l
    BY <1>2 DEF Ordered
  <2> HIDE DEF list, order
  <2> QED  BY <1>5, <2>1
<1>7. list \in Seq(Nat)
  <2>1. Len(order) \in Nat /\ DOMAIN order = 1 .. Len(order)
    BY <1>2
  <2>2. list \in [1 .. Len(order) -> Nat]
    BY <1>5, <2>1
  <2> HIDE DEF list
  <2> QED  BY <2>1, <2>2
<1>8. \A k \in DOMAIN list : cur[objs[list[k]].name] = list[k]
  BY <1>4, <1>5
<1> HIDE DEF list
<1>9. Types'
  <2>1. starter' \in Boot
    BY <1>0, <1>5, <1>4, <1>7 DEF Boot
  <2> QED  BY <1>0, <1>1, <1>2, <2>1 DEF Types, Ids
<1>10. Booting'
  <2>1. starter'.at = "boot" /\ starter'.todo = list /\ starter'.all = {list[k] : k \in DOMAIN list}
    BY <1>0
  <2> QED  BY <1>0, <1>1, <1>2, <1>4, <1>5, <1>6, <1>8, <2>1 DEF Booting, Ids
<1>11. Locks'
  BY <1>0, <1>2 DEF Locks, Ids
<1>12. Mutating'
  <2>1. mut.at \notin {"lock", "fetch", "swap", "cancel"}
    BY <1>0, <1>2 DEF Mutating
  <2> QED  BY <1>0, <1>1, <1>2, <2>1 DEF Mutating, Ids
<1>13. Workers'
  BY <1>0, <1>2 DEF Workers, Ids, Running
<1> QED  BY <1>9, <1>10, <1>11, <1>12, <1>13 DEF IInv

\* The object whose turn it is was made known to Start and is in its table.
LEMMA HeadOfTodo ==
    ASSUME IInv, starter.at = "boot", starter.todo # <<>>
    PROVE  /\ Head(starter.todo) \in starter.all /\ Head(starter.todo) \in Ids
           /\ Head(starter.todo) = starter.todo[1] /\ 1 \in DOMAIN starter.todo
           /\ objs[Head(starter.todo)] \in Obj
           /\ Tail(starter.todo) \in Seq(Nat)
           /\ \A k \in DOMAIN Tail(starter.todo) :
                k + 1 \in DOMAIN starter.todo /\ Tail(starter.todo)[k] = starter.todo[k + 1]
           /\ \A k \in DOMAIN starter.todo : k # 1 =>
                k - 1 \in DOMAIN Tail(starter.todo) /\ Tail(starter.todo)[k - 1] = starter.todo[k]
<1>1. starter.todo \in Seq(Nat)
  BY DEF IInv, Types, Boot
<1>2. /\ Head(starter.todo) = starter.todo[1] /\ 1 \in DOMAIN starter.todo
      /\ Tail(starter.todo) \in Seq(Nat)
      /\ \A k \in DOMAIN Tail(starter.todo) :
           k + 1 \in DOMAIN starter.todo /\ Tail(starter.todo)[k] = starter.todo[k + 1]
      /\ \A k \in DOMAIN starter.todo : k # 1 =>
           k - 1 \in DOMAIN Tail(starter.todo) /\ Tail(starter.todo)[k - 1] = starter.todo[k]
  <2> DEFINE s == starter.todo
  <2>1. s \in Seq(Nat) /\ s # <<>>
    BY <1>1
  <2> HIDE DEF s
  <2>2. Len(s) \in Nat \ {0} /\ DOMAIN s = 1 .. Len(s)
    BY <2>1
  <2>3. /\ Head(s) = s[1] /\ Tail(s) \in Seq(Nat) /\ Len(Tail(s)) = Len(s) - 1
        /\ \A k \in 1 .. Len(s) - 1 : Tail(s)[k] = s[k + 1]
    BY <2>1, <2>2, HeadTailProperties
  <2>4. DOMAIN Tail(s) = 1 .. Len(s) - 1
    BY <2>2, <2>3
  <2>5. \A k \in DOMAIN s : k # 1 => k - 1 \in DOMAIN Tail(s) /\ Tail(s)[k - 1] = s[(k - 1) + 1]
    BY <2>2, <2>3, <2>4
  <2>6. \A k \in DOMAIN s : (k - 1) + 1 = k
    BY <2>2
  <2>7. \A k \in DOMAIN Tail(s) : k + 1 \in DOMAIN s /\ Tail(s)[k] = s[k + 1]
    BY <2>2, <2>3, <2>4
  <2>8. 1 \in DOMAIN s
    BY <2>2
  <2> QED  BY <2>3, <2>5, <2>6, <2>7, <2>8 DEF s
<1>3. starter.todo[1] \in starter.all /\ starter.all \subseteq Ids
  BY <1>2 DEF IInv, Booting
<1>4. objs \in [Ids -> Obj]
  BY ObjectSeq DEF IInv, Types, Ids
<1> QED  BY <1>2, <1>3, <1>4

\* The refresh of the next object begins.
LEMMA BootRefreshKeeps ==
    ASSUME IInv, BootRefresh
    PROVE  IInv'
<1> DEFINE i == Head(starter.todo)
           p == [objs[i] EXCEPT !.at = "refresh", !.cancellable = TRUE, !.booting = TRUE]
<1>0. /\ UNCHANGED <<cfg, store, master, now, cur, starter, mut, mgrDone, made, contact>>
      /\ starter.at = "boot" /\ starter.todo # <<>> /\ objs[i].at = "off"
      /\ objs' = [objs EXCEPT ![i] = p]
  BY DEF BootRefresh, env
<1>1. Names' = Names /\ Catalogs' = Catalogs /\ MaxSerial' = MaxSerial /\ Obj' = Obj
      /\ Caller' = Caller /\ Boot' = Boot
  BY <1>0, Fixed
<1>n. Planned' = Planned /\ Fetching' = Fetching
  BY <1>0, <1>1 DEF Planned, Fetching
<1>2. i \in starter.all /\ i \in Ids /\ i = starter.todo[1] /\ 1 \in DOMAIN starter.todo
      /\ objs[i] \in Obj
  BY <1>0, HeadOfTodo
<1>3. /\ p \in Obj /\ p.name = objs[i].name /\ p.cancelled = objs[i].cancelled
      /\ p.opMu = objs[i].opMu /\ p.at = "refresh" /\ p.cancellable
  BY <1>2 DEF Obj, Stations
<1>4. Types /\ Locks /\ Booting /\ Mutating /\ Workers
  BY DEF IInv
<1> HIDE DEF i, p
<1>5. /\ objs' \in Seq(Obj) /\ Ids' = Ids
      /\ objs'[i] = p /\ \A j \in Ids \ {i} : objs'[j] = objs[j]
  BY <1>0, <1>2, <1>3, <1>4, Replaced
<1>6. \A j \in Ids : /\ objs'[j].name = objs[j].name /\ objs'[j].cancelled = objs[j].cancelled
                     /\ objs'[j].opMu = objs[j].opMu
                     /\ j # i => objs'[j].at = objs[j].at /\ objs'[j].cancellable = objs[j].cancellable
  BY <1>3, <1>5
<1>a. objs'[i].at = "refresh" /\ objs'[i].cancellable
  BY <1>3, <1>5
<1>7. Types'
  BY <1>0, <1>1, <1>4, <1>5, <1>6 DEF Types
<1>8. Locks'
  BY <1>0, <1>4, <1>5, <1>6, <1>a DEF Locks, Busy
<1>9. Booting'
  <2>1. /\ starter.all \subseteq Ids
        /\ \A k \in DOMAIN starter.todo : starter.todo[k] \in starter.all
        /\ \A k, l \in DOMAIN starter.todo : starter.todo[k] = starter.todo[l] => k = l
        /\ \A k \in DOMAIN starter.todo : k # 1 => objs[starter.todo[k]].at = "off"
        /\ \A j \in starter.all :
             objs[j].at = "ready" \/ \E k \in DOMAIN starter.todo : starter.todo[k] = j
        /\ Catalogs = {} => \A j \in starter.all : cur[objs[j].name] = j
    BY <1>0, <1>4 DEF Booting
  <2>2. \A k \in DOMAIN starter.todo : k # 1 => objs'[starter.todo[k]].at = "off"
    BY <1>2, <1>6, <1>a, <2>1
  <2>3. \A j \in starter.all :
          objs'[j].at = "ready" \/ \E k \in DOMAIN starter.todo : starter.todo[k] = j
    BY <1>2, <1>6, <2>1
  <2>4. Catalogs = {} => \A j \in starter.all : cur[objs'[j].name] = j
    BY <1>6, <2>1
  <2> QED  BY <1>0, <1>1, <1>5, <2>1, <2>2, <2>3, <2>4 DEF Booting
<1>10. Mutating'
  BY <1>0, <1>2, <1>4, <1>5, <1>6, MutatingKept
<1>11. Workers'
  <2>1. \A j \in Ids : objs'[j].at # "off" => objs'[j].cancellable
    BY <1>4, <1>6, <1>a DEF Workers
  <2>2. \A j \in Ids : Overlooked(j)' <=> Overlooked(j)
    BY <1>0, <1>1, <1>6 DEF Overlooked
  <2>3. \A j \in Ids : j # i => (Running(j)' <=> Running(j))
    BY <1>6 DEF Running
  <2>4. ~Overlooked(i) => cur[objs[i].name] = i
    BY <1>0, <1>2, <1>4 DEF Overlooked, Booting
  <2>5. \A j \in Ids : Running(j)' /\ ~Overlooked(j)' =>
          LET n == objs'[j].name IN
          \/ cur[n] = j
          \/ mut.at = "cancel" /\ n \in Planned /\ mut.got[n] = j
    BY <1>4, <1>6, <2>2, <2>3, <2>4 DEF Workers
  <2>6. \A j \in Ids : objs'[j].cancelled /\ objs'[j].at \in {"check", "add"} =>
          mut.at = "await" /\ mut.got[objs'[j].name] = j
    BY <1>4, <1>6, <1>a DEF Workers
  <2> QED  BY <1>0, <1>1, <1>n, <1>5, <2>1, <2>5, <2>6 DEF Workers
<1> QED  BY <1>7, <1>8, <1>9, <1>10, <1>11 DEF IInv

\* Start is done with the object, its own refresh having succeeded or the zone
\* being retained; or it gives up.
LEMMA BootNextKeeps ==
    ASSUME IInv, BootNext
    PROVE  IInv'
<1> DEFINE i == Head(starter.todo)
           p == [objs[i] EXCEPT !.at = "ready", !.last = now]
<1>0. /\ UNCHANGED <<cfg, store, master, now, cur, mut, made, contact>>
      /\ starter.at = "boot" /\ starter.todo # <<>>
  BY DEF BootNext, env
<1>1. Names' = Names /\ Catalogs' = Catalogs /\ MaxSerial' = MaxSerial /\ Obj' = Obj
      /\ Caller' = Caller /\ Boot' = Boot
  BY <1>0, Fixed
<1>n. Planned' = Planned /\ Fetching' = Fetching
  BY <1>0, <1>1 DEF Planned, Fetching
<1>2. i \in starter.all /\ i \in Ids /\ i = starter.todo[1] /\ 1 \in DOMAIN starter.todo
      /\ objs[i] \in Obj /\ Tail(starter.todo) \in Seq(Nat)
  BY <1>0, HeadOfTodo
<1>3. Types /\ Locks /\ Booting /\ Mutating /\ Workers
  BY DEF IInv
<1>4. /\ starter \in Boot /\ mgrDone \in BOOLEAN /\ objs \in Seq(Obj)
  BY <1>3 DEF Types
<1>5. CASE UNCHANGED objs /\ starter' = [starter EXCEPT !.at = "error"] /\ mgrDone' = TRUE
  <2>1. starter' \in Boot /\ starter'.at = "error" /\ starter'.all = starter.all
    BY <1>4, <1>5 DEF Boot
  <2>2. Types'
    BY <1>0, <1>1, <1>3, <1>5, <2>1 DEF Types, Ids
  <2>3. Locks' /\ Booting'
    BY <1>3, <1>5, <2>1 DEF Locks, Booting, Ids
  <2>4. Mutating'
    BY <1>0, <1>3, <1>5, <2>1, MutatingKept DEF Ids
  <2>5. Workers'
    BY <1>0, <1>1, <1>n, <1>3, <1>5, <2>1 DEF Workers, Ids, Running, Overlooked
  <2> QED  BY <2>2, <2>3, <2>4, <2>5 DEF IInv
<1>6. CASE /\ \/ objs[i].at = "ready" /\ UNCHANGED objs
              \/ objs[i].at = "failed" /\ objs' = [objs EXCEPT ![i].at = "ready", ![i].last = now]
           /\ starter' = [starter EXCEPT !.todo = Tail(@)] /\ mgrDone' = mgrDone
  <2>1. starter' = [starter EXCEPT !.todo = Tail(@)] /\ mgrDone' = mgrDone
    BY <1>6
  <2>2. starter' \in Boot /\ starter'.at = "boot" /\ starter'.all = starter.all
        /\ starter'.todo = Tail(starter.todo)
    BY <1>0, <1>2, <1>4, <2>1 DEF Boot
  <2>3. /\ objs' \in Seq(Obj) /\ Ids' = Ids /\ objs'[i].at = "ready"
        /\ \A j \in Ids :
             /\ objs'[j].name = objs[j].name /\ objs'[j].cancelled = objs[j].cancelled
             /\ objs'[j].cancellable = objs[j].cancellable /\ objs'[j].opMu = objs[j].opMu
             /\ j # i => objs'[j].at = objs[j].at
        /\ objs[i].at \in {"ready", "failed"}
    <3>1. CASE objs[i].at = "ready" /\ UNCHANGED objs
      BY <1>4, <3>1 DEF Ids
    <3>2. CASE objs[i].at = "failed" /\ objs' = [objs EXCEPT ![i].at = "ready", ![i].last = now]
      <4>1. objs' = [objs EXCEPT ![i] = p]
        BY <3>2
      <4>2. /\ p \in Obj /\ p.name = objs[i].name /\ p.cancelled = objs[i].cancelled
            /\ p.cancellable = objs[i].cancellable /\ p.opMu = objs[i].opMu /\ p.at = "ready"
        <5>1. now \in Int
          BY <1>3 DEF Types
        <5> QED  BY <1>2, <5>1 DEF Obj, Stations
      <4> HIDE DEF i, p
      <4>3. /\ objs' \in Seq(Obj) /\ Ids' = Ids
            /\ objs'[i] = p /\ \A j \in Ids \ {i} : objs'[j] = objs[j]
        BY <1>2, <1>3, <4>1, <4>2, Replaced
      <4> QED  BY <3>2, <4>2, <4>3
    <3> QED  BY <1>6, <3>1, <3>2
  <2>t. /\ \A k \in DOMAIN Tail(starter.todo) :
             k + 1 \in DOMAIN starter.todo /\ Tail(starter.todo)[k] = starter.todo[k + 1] /\ k \in Nat /\ k # 0
        /\ \A k \in DOMAIN starter.todo : k # 1 =>
             k - 1 \in DOMAIN Tail(starter.todo) /\ Tail(starter.todo)[k - 1] = starter.todo[k]
    <3>1. DOMAIN Tail(starter.todo) = 1 .. Len(Tail(starter.todo))
      BY <1>2
    <3> QED  BY <1>0, <3>1, HeadOfTodo
  <2> HIDE DEF i, p
  <2>4. Types'
    BY <1>0, <1>1, <1>3, <2>1, <2>2, <2>3 DEF Types
  <2>5. Locks'
    BY <1>3, <2>3 DEF Locks, Busy
  <2>6. Booting'
    <3> DEFINE todo == starter.todo
               rest == Tail(todo)
    <3>1. /\ starter.all \subseteq Ids
          /\ \A k \in DOMAIN todo : todo[k] \in starter.all
          /\ \A k, l \in DOMAIN todo : todo[k] = todo[l] => k = l
          /\ \A k \in DOMAIN todo : k # 1 => objs[todo[k]].at = "off"
          /\ \A j \in starter.all :
               objs[j].at = "ready" \/ \E k \in DOMAIN todo : todo[k] = j
          /\ Catalogs = {} => \A j \in starter.all : cur[objs[j].name] = j
      BY <1>0, <1>3 DEF Booting
    <3>2. \A k \in DOMAIN rest : k + 1 # 1 /\ \A l \in DOMAIN rest : k + 1 = l + 1 => k = l
      BY <2>t
    <3>3. \A k \in DOMAIN rest : rest[k] \in starter.all /\ rest[k] # i /\ objs[rest[k]].at = "off"
      BY <1>2, <2>t, <3>1, <3>2
    <3>4. \A k, l \in DOMAIN rest : rest[k] = rest[l] => k = l
      BY <2>t, <3>1, <3>2
    <3>5. \A k \in DOMAIN rest : k # 1 => objs'[rest[k]].at = "off"
      BY <2>3, <3>1, <3>3
    <3>6. \A j \in starter.all : objs'[j].at = "ready" \/ \E k \in DOMAIN rest : rest[k] = j
      <4> TAKE j \in starter.all
      <4>1. CASE j = i \/ objs[j].at = "ready"
        BY <2>3, <3>1, <4>1
      <4>2. CASE j # i /\ objs[j].at # "ready"
        <5>1. PICK k \in DOMAIN todo : todo[k] = j
          BY <3>1, <4>2
        <5>2. k # 1
          BY <1>2, <4>2, <5>1
        <5> QED  BY <2>t, <5>1, <5>2
      <4> QED  BY <4>1, <4>2
    <3>7. Catalogs = {} => \A j \in starter.all : cur[objs'[j].name] = j
      BY <2>3, <3>1
    <3> HIDE DEF todo, rest
    <3>8. starter'.todo = rest
      BY <2>2 DEF rest, todo
    <3>9. starter'.at = "boot" /\ starter'.all = starter.all /\ starter'.all \subseteq Ids'
      BY <2>2, <2>3, <3>1
    <3> QED  BY <1>0, <1>1, <3>3, <3>4, <3>5, <3>6, <3>7, <3>8, <3>9 DEF Booting
  <2>7. Mutating'
    BY <1>0, <1>2, <1>3, <2>2, <2>3, MutatingKept
  <2>8. Workers'
    <3>1. \A j \in Ids : /\ Running(j)' => Running(j)
                         /\ Overlooked(j)' <=> Overlooked(j)
      BY <1>0, <1>1, <2>2, <2>3 DEF Running, Overlooked
    <3>2. \A j \in Ids : objs'[j].at # "off" => objs'[j].cancellable
      BY <1>3, <2>3 DEF Workers
    <3>3. \A j \in Ids : objs'[j].cancelled /\ objs'[j].at \in {"check", "add"} =>
            mut.at = "await" /\ mut.got[objs'[j].name] = j
      BY <1>3, <2>3 DEF Workers
    <3> QED  BY <1>0, <1>1, <1>n, <1>3, <2>3, <3>1, <3>2, <3>3 DEF Workers
  <2> QED  BY <2>4, <2>5, <2>6, <2>7, <2>8 DEF IInv
<1> QED  BY <1>5, <1>6 DEF BootNext

\* Every object on the list gets its worker.
LEMMA BootRunKeeps ==
    ASSUME IInv, BootRun
    PROVE  IInv'
<1> DEFINE f == [i \in Ids |-> IF i \in starter.all
                               THEN [objs[i] EXCEPT !.at = "select", !.booting = FALSE]
                               ELSE objs[i]]
<1>0. /\ UNCHANGED <<cfg, store, master, now, cur, mut, mgrDone, made, contact>>
      /\ starter.at = "boot" /\ starter.todo = <<>> /\ objs' = f
      /\ starter' = [starter EXCEPT !.at = "run"]
  BY DEF BootRun, env
<1>1. Names' = Names /\ Catalogs' = Catalogs /\ MaxSerial' = MaxSerial /\ Obj' = Obj
      /\ Caller' = Caller /\ Boot' = Boot
  BY <1>0, Fixed
<1>n. Planned' = Planned /\ Fetching' = Fetching
  BY <1>0, <1>1 DEF Planned, Fetching
<1>2. Types /\ Locks /\ Booting /\ Mutating /\ Workers /\ objs \in [Ids -> Obj]
  BY ObjectSeq DEF IInv, Types, Ids
<1>3. starter' \in Boot /\ starter'.at = "run" /\ starter'.all = starter.all
  BY <1>0, <1>2 DEF Types, Boot
<1>4. \A i \in starter.all : i \in Ids /\ objs[i].at = "ready"
  <2>1. DOMAIN starter.todo = {}
    <3>1. DOMAIN <<>> = {}
      OBVIOUS
    <3> QED  BY <1>0, <3>1
  <2> QED  BY <1>0, <1>2, <2>1 DEF Booting
<1>5. \A i \in Ids : /\ f[i] \in Obj /\ f[i].name = objs[i].name /\ f[i].cancelled = objs[i].cancelled
                     /\ f[i].cancellable = objs[i].cancellable /\ f[i].opMu = objs[i].opMu
                     /\ i \notin starter.all => f[i].at = objs[i].at
                     /\ i \in starter.all => f[i].at = "select"
  <2> TAKE i \in Ids
  <2>1. objs[i] \in Obj
    BY <1>2
  <2> QED  BY <2>1 DEF Obj, Stations
<1>6. f \in [Ids -> Obj]
  BY <1>5
<1> HIDE DEF f
<1>7. objs' \in Seq(Obj) /\ Ids' = Ids
  BY <1>0, <1>2, <1>6, Mapped
<1>8. Types'
  BY <1>0, <1>1, <1>2, <1>3, <1>5, <1>7 DEF Types
<1>9. Locks'
  BY <1>0, <1>2, <1>4, <1>5, <1>7 DEF Locks, Busy
<1>10. Booting'
  BY <1>2, <1>3, <1>7 DEF Booting
<1>11. Mutating'
  BY <1>0, <1>2, <1>3, <1>5, <1>7, MutatingKept
<1>12. Workers'
  <2>1. \A j \in Ids : /\ Running(j)' <=> Running(j)
                       /\ Overlooked(j)' <=> Overlooked(j)
    BY <1>0, <1>1, <1>3, <1>4, <1>5 DEF Running, Overlooked
  <2>2. \A j \in Ids : objs'[j].at # "off" => objs'[j].cancellable
    BY <1>0, <1>2, <1>4, <1>5 DEF Workers
  <2>3. \A j \in Ids : objs'[j].cancelled /\ objs'[j].at \in {"check", "add"} =>
          mut.at = "await" /\ mut.got[objs'[j].name] = j
    BY <1>0, <1>2, <1>5 DEF Workers
  <2> QED  BY <1>0, <1>1, <1>n, <1>2, <1>5, <1>7, <2>1, <2>2, <2>3 DEF Workers
<1> QED  BY <1>8, <1>9, <1>10, <1>11, <1>12 DEF IInv

-----------------------------------------------------------------------------
(* The steps of the caller inside mutationMu.                              *)

\* A step of the caller that touches no object and not the table.
LEMMA CallerMoves ==
    ASSUME IInv, mut.at \notin {"cancel", "await"}, mut' \in Caller, made' \in Nat,
           UNCHANGED <<cfg, master, now, objs, cur, starter, mgrDone>>,
           store' \in [Names -> 0 .. MaxSerial], contact' \in [Names -> Int],
           contact' = contact \/ starter.at # "new", Mutating'
    PROVE  IInv'
<1>1. Names' = Names /\ Catalogs' = Catalogs /\ MaxSerial' = MaxSerial /\ Obj' = Obj
      /\ Caller' = Caller /\ Boot' = Boot
  BY Fixed
<1>2. Types /\ Locks /\ Booting /\ Workers
  BY DEF IInv
<1>3. Types'
  BY <1>1, <1>2 DEF Types, Ids
<1>4. Locks'
  BY <1>2 DEF Locks, Ids
<1>5. Booting'
  <2>1. starter.at = "new" => Ordered(starter.order)' /\ \A n \in Names : contact'[n] = Never
    BY <1>1, <1>2 DEF Booting, Ordered
  <2>2. starter.at = "new" => starter.all = {} /\ \A i \in Ids : objs[i].at = "off"
    BY <1>2 DEF Booting
  <2> QED  BY <1>1, <1>2, <2>1, <2>2 DEF Booting, Ids
<1>6. Workers'
  <2>1. \A i \in Ids : /\ objs[i].at # "off" => objs[i].cancellable
                       /\ Running(i) /\ ~Overlooked(i) => cur[objs[i].name] = i
                       /\ ~(objs[i].cancelled /\ objs[i].at \in {"check", "add"})
    BY <1>2 DEF Workers
  <2>2. \A i \in Ids : (Running(i)' <=> Running(i)) /\ (Overlooked(i)' <=> Overlooked(i))
    BY <1>1 DEF Running, Overlooked
  <2> QED  BY <2>1, <2>2 DEF Workers, Ids
<1> QED  BY <1>3, <1>4, <1>5, <1>6 DEF IInv

\* Upsert and ApplyBatch get mutationMu.
LEMMA EnterKeeps ==
    ASSUME IInv,
           \/ \E n \in Names, kind \in {"upsert", "reset"} : Upsert(n, kind)
           \/ \E plan \in [Names -> Plans] : ApplyBatch(plan)
    PROVE  IInv'
<1>1. UNCHANGED <<cfg, store, master, now, objs, cur, starter, mgrDone, contact>>
      /\ made' = made + 1 /\ mut.at = "idle"
  BY DEF Upsert, ApplyBatch, MayMutate, BootCatalog, env
<1>2. /\ mut' \in Caller /\ mut'.at = "lock" /\ mut'.locked = {}
      /\ \A n \in Names : mut'.got[n] = Never
  <2>1. \A n \in Names, kind \in {"upsert", "reset"} :
          [Nobody EXCEPT !.at = "lock", !.kind = "upsert", !.plan[n] = kind] \in Caller
    BY NobodyCalls DEF Caller, Plans
  <2>2. \A plan \in [Names -> Plans] :
          [Nobody EXCEPT !.at = "lock", !.kind = "batch", !.plan = plan] \in Caller
    BY NobodyCalls DEF Caller, Plans
  <2>3. mut'.at = "lock" /\ mut'.locked = {} /\ mut'.got = [n \in Names |-> Never]
    <3>1. Nobody.locked = {} /\ Nobody.got = [n \in Names |-> Never] /\ Nobody \in Caller
      BY NobodyCalls DEF Nobody
    <3>2. CASE \E n \in Names, kind \in {"upsert", "reset"} : Upsert(n, kind)
      <4>1. PICK n \in Names, kind \in {"upsert", "reset"} :
              mut' = [Nobody EXCEPT !.at = "lock", !.kind = "upsert", !.plan[n] = kind]
        BY <3>2 DEF Upsert
      <4> QED  BY <3>1, <4>1 DEF Caller
    <3>3. CASE \E plan \in [Names -> Plans] : ApplyBatch(plan)
      <4>1. PICK plan \in [Names -> Plans] :
              mut' = [Nobody EXCEPT !.at = "lock", !.kind = "batch", !.plan = plan]
        BY <3>3 DEF ApplyBatch
      <4> QED  BY <3>1, <4>1 DEF Caller
    <3> QED  BY <3>2, <3>3
  <2>4. mut' \in Caller
    BY <2>1, <2>2 DEF Upsert, ApplyBatch
  <2> QED  BY <2>3, <2>4
<1>3. starter.at # "new" /\ (starter.at = "boot" => Catalogs # {})
  BY DEF Upsert, ApplyBatch, MayMutate, BootCatalog, Began
<1>4. Names' = Names /\ Catalogs' = Catalogs /\ MaxSerial' = MaxSerial /\ MaxSerial \in Nat
  BY <1>1, Fixed, Deployment DEF IInv, Types
<1>5. Mutating'
  BY <1>1, <1>2, <1>3, <1>4 DEF Mutating, Never
<1> QED  BY <1>1, <1>2, <1>5, CallerMoves DEF IInv, Types

\* The caller locks the opMu of an object that is free, or has locked them all.
LEMMA LockKeeps ==
    ASSUME IInv, (\E n \in Names : LockZone(n)) \/ Quiesced
    PROVE  IInv'
<1>0. Types /\ Locks /\ Booting /\ Mutating /\ Workers /\ mut \in Caller
  BY DEF IInv, Types
<1>1. CASE Quiesced
  <2>1. /\ UNCHANGED <<cfg, store, master, now, objs, cur, starter, mgrDone, contact, made>>
        /\ mut.at = "lock" /\ ToLock = {} /\ mut' = [mut EXCEPT !.at = "fetch"]
    BY <1>1 DEF Quiesced, env
  <2>2. /\ mut' \in Caller /\ mut'.at = "fetch" /\ mut'.plan = mut.plan
        /\ mut'.locked = mut.locked /\ mut'.got = mut.got
    BY <1>0, <2>1 DEF Caller
  <2>3. Names' = Names /\ Catalogs' = Catalogs /\ MaxSerial' = MaxSerial
    BY <2>1, Fixed
  <2>4. Planned' = Planned
    BY <2>2, <2>3 DEF Planned
  <2>5. \A n \in Planned : cur[n] # 0 => n \in mut.locked
    BY <2>1 DEF ToLock
  <2>6. Mutating'
    BY <1>0, <2>1, <2>2, <2>3, <2>4, <2>5 DEF Mutating
  <2> QED  BY <1>0, <2>1, <2>2, <2>6, CallerMoves DEF Types
<1>2. CASE \E n \in Names : LockZone(n)
  <2>0. PICK n \in Names : LockZone(n)
    BY <1>2
  <2> DEFINE i == cur[n]
             p == [objs[i] EXCEPT !.opMu = "mutator"]
  <2>1. /\ UNCHANGED <<cfg, store, master, now, cur, starter, mgrDone, contact, made>>
        /\ mut.at = "lock" /\ n \in ToLock /\ objs[i].opMu = NoLock
        /\ objs' = [objs EXCEPT ![i] = p] /\ mut' = [mut EXCEPT !.locked = @ \cup {n}]
    BY <2>0 DEF LockZone, env
  <2>2. i # 0 /\ i \in Ids /\ objs[i].name = n /\ objs[i] \in Obj
    BY <1>0, <2>1, ObjectSeq DEF ToLock, Planned, Types, Ids
  <2>3. /\ p \in Obj /\ p.name = objs[i].name /\ p.cancelled = objs[i].cancelled
        /\ p.cancellable = objs[i].cancellable /\ p.opMu = "mutator" /\ p.at = objs[i].at
    BY <2>2 DEF Obj
  <2>4. /\ mut' \in Caller /\ mut'.at = "lock" /\ mut'.plan = mut.plan
        /\ mut'.locked = mut.locked \cup {n} /\ mut'.got = mut.got
    BY <1>0, <2>1 DEF Caller
  <2> HIDE DEF i, p
  <2>5. /\ objs' \in Seq(Obj) /\ Ids' = Ids
        /\ objs'[i] = p /\ \A j \in Ids \ {i} : objs'[j] = objs[j]
    BY <1>0, <2>1, <2>2, <2>3, Replaced
  <2>6. \A j \in Ids : /\ objs'[j].name = objs[j].name /\ objs'[j].cancelled = objs[j].cancelled
                       /\ objs'[j].cancellable = objs[j].cancellable /\ objs'[j].at = objs[j].at
                       /\ j # i => objs'[j].opMu = objs[j].opMu
    BY <2>3, <2>5
  <2>7. objs'[i].opMu = "mutator"
    BY <2>3, <2>5
  <2>8. Names' = Names /\ Catalogs' = Catalogs /\ MaxSerial' = MaxSerial /\ Obj' = Obj
        /\ Caller' = Caller /\ Boot' = Boot
    BY <2>1, Fixed
  <2>9. Types'
    BY <1>0, <2>1, <2>4, <2>5, <2>6, <2>8 DEF Types
  <2>10. Locks'
    BY <1>0, <2>1, <2>5, <2>6, <2>7 DEF Locks, NoLock
  <2>11. Booting'
    <3>1. starter.at # "new" /\ starter.all \subseteq Ids
      BY <1>0, <2>1 DEF Mutating, Booting
    <3>2. starter.at = "boot" =>
            /\ \A k \in DOMAIN starter.todo : starter.todo[k] \in starter.all
            /\ \A k, l \in DOMAIN starter.todo : starter.todo[k] = starter.todo[l] => k = l
            /\ \A k \in DOMAIN starter.todo : k # 1 => objs[starter.todo[k]].at = "off"
            /\ \A j \in starter.all :
                 objs[j].at = "ready" \/ \E k \in DOMAIN starter.todo : starter.todo[k] = j
            /\ Catalogs = {} => \A j \in starter.all : cur[objs[j].name] = j
      BY <1>0 DEF Booting
    <3> QED  BY <2>1, <2>5, <2>6, <2>8, <3>1, <3>2 DEF Booting
  <2>12. Mutating'
    <3>1. \A m \in mut.locked : m \in Names /\ cur[m] # 0 /\ cur[m] \in Ids /\ objs[cur[m]].opMu = "mutator"
      BY <1>0, <2>1 DEF Mutating, Types, Caller
    <3>2. \A m \in mut.locked \cup {n} : cur[m] # 0 /\ objs'[cur[m]].opMu = "mutator"
      BY <2>2, <2>6, <2>7, <3>1 DEF i
    <3> QED  BY <1>0, <2>1, <2>4, <2>8, <3>2 DEF Mutating
  <2>13. Workers'
    <3>1. \A j \in Ids : /\ objs[j].at # "off" => objs[j].cancellable
                         /\ Running(j) /\ ~Overlooked(j) => cur[objs[j].name] = j
                         /\ ~(objs[j].cancelled /\ objs[j].at \in {"check", "add"})
      BY <1>0, <2>1 DEF Workers
    <3>2. \A j \in Ids : (Running(j)' <=> Running(j)) /\ (Overlooked(j)' <=> Overlooked(j))
      BY <2>1, <2>6, <2>8 DEF Running, Overlooked
    <3> QED  BY <2>1, <2>5, <2>6, <3>1, <3>2 DEF Workers
  <2> QED  BY <2>9, <2>10, <2>11, <2>12, <2>13 DEF IInv
<1> QED  BY <1>1, <1>2

\* Giving the locks back changes nothing else of any object.
LEMMA Releasing ==
    ASSUME NEW S, NEW os \in [S -> Obj]
    PROVE  /\ Released(os) \in [S -> Obj]
           /\ \A i \in S :
                LET o == Released(os)[i] IN
                /\ o.name = os[i].name /\ o.at = os[i].at /\ o.cancelled = os[i].cancelled
                /\ o.cancellable = os[i].cancellable /\ o.last = os[i].last /\ o.got = os[i].got
                /\ o.opMu = "worker" <=> os[i].opMu = "worker"
                /\ o.opMu # "mutator"
<1>1. \A i \in S :
        LET o == IF os[i].opMu = "mutator" THEN [os[i] EXCEPT !.opMu = NoLock] ELSE os[i] IN
        /\ o \in Obj
        /\ o.name = os[i].name /\ o.at = os[i].at /\ o.cancelled = os[i].cancelled
        /\ o.cancellable = os[i].cancellable /\ o.last = os[i].last /\ o.got = os[i].got
        /\ o.opMu = "worker" <=> os[i].opMu = "worker"
        /\ o.opMu # "mutator"
  <2> TAKE i \in S
  <2>1. os[i] \in Obj
    OBVIOUS
  <2>2. CASE os[i].opMu = "mutator"
    BY <2>1, <2>2 DEF Obj, NoLock
  <2>3. CASE os[i].opMu # "mutator"
    BY <2>1, <2>3
  <2> QED  BY <2>2, <2>3
<1>2. Released(os) = [i \in S |-> IF os[i].opMu = "mutator" THEN [os[i] EXCEPT !.opMu = NoLock] ELSE os[i]]
  BY DEF Released
<1> QED  BY <1>1, <1>2

\* An aborted call leaves objects as they were.
LEMMA AbortKeeps ==
    ASSUME IInv, Abort, mut.at = "fetch",
           UNCHANGED <<cfg, store, master, now, cur, starter, mgrDone, contact, made>>
    PROVE  IInv'
<1>1. Types /\ Locks /\ Booting /\ Mutating /\ Workers /\ objs \in [Ids -> Obj]
  BY ObjectSeq DEF IInv, Types, Ids
<1>2. objs' = Released(objs) /\ mut' = Nobody
  BY DEF Abort
<1>3. /\ Released(objs) \in [Ids -> Obj]
      /\ \A i \in Ids :
           /\ objs'[i].name = objs[i].name /\ objs'[i].at = objs[i].at
           /\ objs'[i].cancelled = objs[i].cancelled /\ objs'[i].cancellable = objs[i].cancellable
           /\ objs'[i].opMu = "worker" <=> objs[i].opMu = "worker"
  BY <1>1, <1>2, Releasing
<1>4. objs' \in Seq(Obj) /\ Ids' = Ids
  BY <1>1, <1>2, <1>3, Mapped
<1>5. Names' = Names /\ Catalogs' = Catalogs /\ MaxSerial' = MaxSerial /\ Obj' = Obj
      /\ Caller' = Caller /\ Boot' = Boot
  BY Fixed
<1>6. mut' \in Caller /\ mut'.at = "idle"
  BY <1>2, NobodyCalls DEF Nobody
<1>7. Types'
  BY <1>1, <1>3, <1>4, <1>5, <1>6 DEF Types
<1>8. Locks'
  BY <1>1, <1>3, <1>4 DEF Locks
<1>9. Booting'
  <2>1. starter.at # "new" /\ starter.all \subseteq Ids
    BY <1>1 DEF Mutating, Booting
  <2>2. starter.at = "boot" =>
          /\ \A k \in DOMAIN starter.todo : starter.todo[k] \in starter.all
          /\ \A k, l \in DOMAIN starter.todo : starter.todo[k] = starter.todo[l] => k = l
          /\ \A k \in DOMAIN starter.todo : k # 1 => objs[starter.todo[k]].at = "off"
          /\ \A j \in starter.all :
               objs[j].at = "ready" \/ \E k \in DOMAIN starter.todo : starter.todo[k] = j
          /\ Catalogs = {} => \A j \in starter.all : cur[objs[j].name] = j
    BY <1>1 DEF Booting
  <2> QED  BY <1>3, <1>4, <1>5, <2>1, <2>2 DEF Booting
<1>10. Mutating'
  BY <1>6 DEF Mutating
<1>11. Workers'
  <2>1. \A j \in Ids : /\ objs[j].at # "off" => objs[j].cancellable
                       /\ Running(j) /\ ~Overlooked(j) => cur[objs[j].name] = j
                       /\ ~(objs[j].cancelled /\ objs[j].at \in {"check", "add"})
    BY <1>1 DEF Workers
  <2>2. \A j \in Ids : (Running(j)' <=> Running(j)) /\ (Overlooked(j)' <=> Overlooked(j))
    BY <1>3, <1>5 DEF Running, Overlooked
  <2> QED  BY <1>3, <1>4, <2>1, <2>2 DEF Workers
<1> QED  BY <1>7, <1>8, <1>9, <1>10, <1>11 DEF IInv

\* The caller's transfers, and their publication.
LEMMA FetchKeeps ==
    ASSUME IInv, (\E n \in Names : PrefetchOK(n) \/ PrefetchFails(n)) \/ PublishAll
    PROVE  IInv'
<1>0. Types /\ Locks /\ Booting /\ Mutating /\ Workers /\ mut \in Caller /\ starter.at # "new"
      /\ MaxSerial \in Nat /\ now \in Nat
  BY Deployment DEF IInv, Types, Mutating, PrefetchOK, PrefetchFails, PublishAll
<1>1. UNCHANGED <<cfg, master, now, cur, starter, mgrDone, made>> /\ mut.at = "fetch"
  BY DEF PrefetchOK, PrefetchFails, PublishAll, env
<1>2. Names' = Names /\ Catalogs' = Catalogs /\ MaxSerial' = MaxSerial /\ Never' = Never
  BY <1>1, Fixed DEF Never
<1>3. ASSUME UNCHANGED objs, mut' \in Caller, mut'.plan = mut.plan, mut'.locked = mut.locked,
             mut'.at = "fetch" => \A n \in Names : mut'.got[n] \in Never .. MaxSerial,
             mut'.at \in {"fetch", "swap"}
      PROVE  Mutating'
  <2>1. Planned' = Planned
    BY <1>2, <1>3 DEF Planned
  <2> QED  BY <1>0, <1>1, <1>2, <1>3, <2>1 DEF Mutating
<1>4. ASSUME NEW n \in Names, PrefetchOK(n)
      PROVE  IInv'
  <2>1. /\ UNCHANGED <<store, objs, contact>>
        /\ \E g \in {0, master[n]} : mut' = [mut EXCEPT !.got[n] = g, !.last[n] = now]
    BY <1>4 DEF PrefetchOK
  <2>2. PICK g \in {0, master[n]} : mut' = [mut EXCEPT !.got[n] = g, !.last[n] = now]
    BY <2>1
  <2>3. g \in 0 .. MaxSerial /\ g \in Int /\ now \in Int
    BY <1>0 DEF Types
  <2>4. /\ mut' \in Caller /\ mut'.plan = mut.plan /\ mut'.locked = mut.locked /\ mut'.at = "fetch"
        /\ \A m \in Names : mut'.got[m] \in {mut.got[m], g}
    BY <1>0, <1>1, <2>2, <2>3 DEF Caller
  <2>5. \A m \in Names : mut'.got[m] \in Never .. MaxSerial
    BY <1>0, <1>1, <2>3, <2>4 DEF Mutating, Never
  <2> QED  BY <1>0, <1>1, <1>3, <2>1, <2>4, <2>5, CallerMoves DEF Types
<1>5. ASSUME NEW n \in Names, PrefetchFails(n)
      PROVE  IInv'
  <2>1. CASE Abort
    BY <1>1, <1>5, <2>1, AbortKeeps DEF PrefetchFails
  <2>2. CASE UNCHANGED objs /\ \E t \in Int : mut' = [mut EXCEPT !.last[n] = t]
    <3>1. PICK t \in Int : mut' = [mut EXCEPT !.last[n] = t]
      BY <2>2
    <3>2. /\ mut' \in Caller /\ mut'.plan = mut.plan /\ mut'.locked = mut.locked /\ mut'.at = "fetch"
          /\ mut'.got = mut.got
      BY <1>0, <1>1, <3>1 DEF Caller
    <3>3. Mutating'
      BY <1>0, <1>1, <1>3, <2>2, <3>2 DEF Mutating
    <3> QED  BY <1>0, <1>1, <1>5, <2>2, <3>2, <3>3, CallerMoves DEF PrefetchFails, Types
  <2> DEFINE old == IF cur[n] = 0 THEN Never ELSE objs[cur[n]].last
             t == IF old = Never THEN now ELSE old
  <2>3. Abort \/ (UNCHANGED objs /\ mut' = [mut EXCEPT !.last[n] = t])
    BY <1>5 DEF PrefetchFails
  <2>4. t \in Int
    <3>1. cur[n] # 0 => objs[cur[n]] \in Obj
      BY <1>0, ObjectSeq DEF Types, Ids
    <3> QED  BY <1>0, <3>1 DEF Obj, Never
  <2> QED  BY <2>1, <2>2, <2>3, <2>4
<1>6. CASE PublishAll
  <2>1. CASE Abort
    BY <1>1, <1>6, <2>1, AbortKeeps DEF PublishAll, Abort, Nobody
  <2>2. CASE UNCHANGED objs /\ mut' = [mut EXCEPT !.at = "swap"] /\ ~Abort
    <3>1. /\ mut' \in Caller /\ mut'.plan = mut.plan /\ mut'.locked = mut.locked /\ mut'.at = "swap"
      BY <1>0, <2>2 DEF Caller
    <3>2. Mutating'
      BY <1>3, <2>2, <3>1
    <3>3. \A n \in Names : mut.got[n] > 0 => mut.got[n] \in 0 .. MaxSerial
      BY <1>0, <1>1 DEF Mutating, Never
    <3>4. store' \in [Names -> 0 .. MaxSerial]
      <4> DEFINE Wins(n) == /\ n \in Fetching /\ mut.got[n] > 0
                            /\ \/ mut.kind = "batch" \/ mut.plan[n] = "reset"
                               \/ store[n] = 0 \/ mut.got[n] > store[n]
      <4>1. store' = [n \in Names |-> IF mut.plan[n] = "remove" THEN 0
                                      ELSE IF Wins(n) THEN mut.got[n] ELSE store[n]]
        BY <1>6, <2>2 DEF PublishAll
      <4>2. \A n \in Names : Wins(n) => mut.got[n] \in 0 .. MaxSerial
        BY <3>3
      <4>3. \A n \in Names : store[n] \in 0 .. MaxSerial /\ 0 \in 0 .. MaxSerial
        BY <1>0 DEF Types
      <4> HIDE DEF Wins
      <4> QED  BY <4>1, <4>2, <4>3
    <3>5. contact' \in [Names -> Int]
      <4>1. contact' = [n \in Names |-> IF n \in Fetching /\ mut.got[n] # Never
                                        THEN mut.last[n] ELSE contact[n]]
        BY <1>6, <2>2 DEF PublishAll
      <4>2. \A n \in Names : mut.last[n] \in Int /\ contact[n] \in Int
        BY <1>0 DEF Types, Caller
      <4> QED  BY <4>1, <4>2
    <3> QED  BY <1>0, <1>1, <2>2, <3>1, <3>2, <3>4, <3>5, CallerMoves DEF Types
  <2> QED  BY <1>6, <2>1, <2>2 DEF PublishAll
<1> QED  BY <1>4, <1>5, <1>6

-----------------------------------------------------------------------------
(* The steps that change the table.                                        *)

\* SetToSeq lists a finite set, each member once.
LEMMA Listing ==
    ASSUME NEW S, IsFiniteSet(S)
    PROVE  LET s == SX!SetToSeq(S) IN
           /\ s \in Seq(S) /\ Len(s) = Cardinality(S) /\ Cardinality(S) \in Nat
           /\ DOMAIN s = 1 .. Cardinality(S)
           /\ \A x \in S : \E k \in DOMAIN s : s[k] = x
           /\ \A k, l \in DOMAIN s : s[k] = s[l] => k = l
<1> DEFINE N == Cardinality(S)
           s == SX!SetToSeq(S)
<1>1. N \in Nat /\ \E f \in [1 .. N -> S] : SX!IsInjective(f)
  <2>1. N \in Nat /\ Bijection(1 .. N, S) # {}
    BY FS_CardinalityType DEF ExistsBijection
  <2> QED  BY <2>1 DEF Bijection, Injection, IsInjective, SX!IsInjective
<1>2. s \in [1 .. N -> S] /\ SX!IsInjective(s)
  <2>1. s = CHOOSE f \in [1 .. SX!Cardinality(S) -> S] : SX!IsInjective(f)
    BY DEF SX!SetToSeq
  <2>2. SX!Cardinality(S) = N
    BY DEF SX!Cardinality, Cardinality
  <2> HIDE DEF s, N
  <2> QED  BY <1>1, <2>1, <2>2
<1>3. s \in Injection(1 .. N, S)
  BY <1>2 DEF Injection, IsInjective, SX!IsInjective
<1>4. IsFiniteSet(1 .. N) /\ Cardinality(1 .. N) = N
  BY <1>1, FS_Interval
<1> HIDE DEF s, N
<1>5. s \in Surjection(1 .. N, S)
  BY <1>3, <1>4, FS_Injection DEF N
<1>6. \A x \in S : \E k \in 1 .. N : s[k] = x
  BY <1>5 DEF Surjection
<1>7. s \in Seq(S) /\ Len(s) = N /\ DOMAIN s = 1 .. N
  BY <1>1, <1>2
<1>8. \A k, l \in DOMAIN s : s[k] = s[l] => k = l
  BY <1>2 DEF SX!IsInjective
<1> QED  BY <1>1, <1>6, <1>7, <1>8 DEF s, N

\* What is left of a sequence when one place is taken out.
LEMMA Removing ==
    ASSUME NEW S, NEW s \in Seq(S), NEW k \in DOMAIN s
    PROVE  LET t == SX!RemoveAt(s, k) IN
           /\ t \in Seq(S)
           /\ \A j \in DOMAIN t : \E l \in DOMAIN s \ {k} : t[j] = s[l]
           /\ \A l \in DOMAIN s \ {k} : \E j \in DOMAIN t : t[j] = s[l]
           /\ (\A a, b \in DOMAIN s : s[a] = s[b] => a = b) =>
                \A a, b \in DOMAIN t : t[a] = t[b] => a = b
<1> DEFINE u == SubSeq(s, 1, k - 1)
           v == SubSeq(s, k + 1, Len(s))
           t == SX!RemoveAt(s, k)
           at(j) == IF j < k THEN j ELSE j + 1
<1>1. Len(s) \in Nat /\ DOMAIN s = 1 .. Len(s) /\ k \in 1 .. Len(s)
  OBVIOUS
<1>2. /\ u \in Seq(S) /\ Len(u) = k - 1 /\ \A i \in 1 .. k - 1 : u[i] = s[i]
  <2>1. k - 1 \in Int /\ \A i \in 1 .. k - 1 : s[i] \in S
    BY <1>1
  <2>2. /\ u \in Seq(S) /\ Len(u) = (IF 1 <= k - 1 THEN (k - 1) - 1 + 1 ELSE 0)
        /\ \A i \in 1 .. (k - 1) - 1 + 1 : u[i] = s[1 + i - 1]
    BY <2>1, SubSeqProperties
  <2> HIDE DEF u
  <2>3. \A i \in 1 .. k - 1 : i \in 1 .. (k - 1) - 1 + 1 /\ 1 + i - 1 = i
    BY <1>1
  <2>4. Len(u) = k - 1
    BY <1>1, <2>2
  <2> QED  BY <2>2, <2>3, <2>4
<1>3. /\ v \in Seq(S) /\ Len(v) = Len(s) - k /\ \A i \in 1 .. Len(s) - k : v[i] = s[k + i]
  <2>1. k + 1 \in Int /\ Len(s) \in Int /\ \A i \in k + 1 .. Len(s) : s[i] \in S
    BY <1>1
  <2>2. /\ v \in Seq(S) /\ Len(v) = (IF k + 1 <= Len(s) THEN Len(s) - (k + 1) + 1 ELSE 0)
        /\ \A i \in 1 .. Len(s) - (k + 1) + 1 : v[i] = s[(k + 1) + i - 1]
    BY <2>1, SubSeqProperties
  <2> HIDE DEF v
  <2>3. \A i \in 1 .. Len(s) - k : i \in 1 .. Len(s) - (k + 1) + 1 /\ (k + 1) + i - 1 = k + i
    BY <1>1
  <2>4. Len(v) = Len(s) - k
    BY <1>1, <2>2
  <2> QED  BY <2>2, <2>3, <2>4
<1>4. t = u \o v
  BY DEF SX!RemoveAt
<1> HIDE DEF u, v, t
<1>5. /\ t \in Seq(S) /\ Len(t) = Len(u) + Len(v)
      /\ \A i \in 1 .. Len(u) + Len(v) : t[i] = IF i <= Len(u) THEN u[i] ELSE v[i - Len(u)]
  BY <1>2, <1>3, <1>4, ConcatProperties
<1>6. Len(t) = Len(s) - 1 /\ DOMAIN t = 1 .. Len(s) - 1
  BY <1>1, <1>2, <1>3, <1>5
<1>7. \A j \in DOMAIN t : t[j] = s[at(j)]
  <2> TAKE j \in DOMAIN t
  <2>1. CASE j < k
    BY <1>1, <1>2, <1>3, <1>5, <1>6, <2>1
  <2>2. CASE ~(j < k)
    <3>1. j \in 1 .. Len(u) + Len(v) /\ ~(j <= Len(u)) /\ j - Len(u) \in 1 .. Len(s) - k
          /\ k + (j - Len(u)) = j + 1
      BY <1>1, <1>2, <1>3, <1>6, <2>2
    <3> QED  BY <1>3, <1>5, <2>2, <3>1
  <2> QED  BY <2>1, <2>2
<1>8. \A j \in DOMAIN t : at(j) \in DOMAIN s \ {k}
  BY <1>1, <1>6
<1>9. \A l \in DOMAIN s \ {k} : \E j \in DOMAIN t : at(j) = l
  <2> TAKE l \in DOMAIN s \ {k}
  <2>1. CASE l < k
    BY <1>1, <1>6, <2>1
  <2>2. CASE ~(l < k)
    <3>1. l - 1 \in DOMAIN t /\ at(l - 1) = l
      BY <1>1, <1>6, <2>2
    <3> QED  BY <3>1
  <2> QED  BY <2>1, <2>2
<1>10. \A a, b \in DOMAIN t : at(a) = at(b) => a = b
  BY <1>1, <1>6
<1> HIDE DEF at
<1> QED  BY <1>5, <1>7, <1>8, <1>9, <1>10 DEF t

\* A new object is one.
LEMMA ManagedIs ==
    ASSUME NEW n \in Names, MaxSerial \in Nat
    PROVE  /\ Managed(n) \in Obj /\ Managed(n).name = n /\ Managed(n).at = "off"
           /\ Managed(n).opMu = NoLock /\ ~Managed(n).cancelled /\ Managed(n).last = Never
BY DEF Managed, Obj, Stations, NoLock, Never

\* Before Start an Upsert makes an object and enters it.
LEMMA UpsertStoppedKeeps ==
    ASSUME IInv, NEW n \in Names, UpsertStopped(n)
    PROVE  IInv'
<1> DEFINE m == Managed(n)
           order == starter.order
<1>0. /\ UNCHANGED <<cfg, store, master, now, mut, mgrDone, contact>> /\ made' = made + 1
      /\ mut.at = "idle" /\ starter.at = "new"
      /\ objs' = Append(objs, m) /\ cur' = [cur EXCEPT ![n] = Len(objs) + 1]
      /\ starter' = [starter EXCEPT !.order = IF cur[n] = 0 THEN Append(@, n) ELSE @]
  BY DEF UpsertStopped, MayMutate, Began, env
<1>1. Names' = Names /\ Catalogs' = Catalogs /\ MaxSerial' = MaxSerial /\ Obj' = Obj
      /\ Caller' = Caller /\ Boot' = Boot
  BY <1>0, Fixed
<1>2. /\ Types /\ Locks /\ Workers /\ MaxSerial \in Nat /\ objs \in Seq(Obj) /\ cur \in [Names -> Nat]
      /\ order \in Seq(Names) /\ starter \in Boot /\ Ordered(order)
      /\ starter.all = {} /\ (\A i \in Ids : objs[i].at = "off")
      /\ \A k \in Names : contact[k] = Never
  BY <1>0, Deployment DEF IInv, Types, Boot, Booting
<1>3. /\ m \in Obj /\ m.name = n /\ m.at = "off" /\ m.opMu = NoLock
  BY <1>2, ManagedIs
<1> HIDE DEF m
<1>4. /\ Len(objs) \in Nat /\ Ids = 1 .. Len(objs) /\ Ids' = 1 .. Len(objs) + 1 /\ objs' \in Seq(Obj)
      /\ objs'[Len(objs) + 1] = m /\ \A i \in Ids : objs'[i] = objs[i]
  BY <1>0, <1>2, <1>3, AppendProperties DEF Ids
<1>5. \A i \in Ids' : objs'[i].at = "off" /\ objs'[i].opMu # "worker"
  <2>1. \A i \in Ids' : i \in Ids \/ i = Len(objs) + 1
    BY <1>4
  <2> QED  BY <1>2, <1>3, <1>4, <2>1 DEF Locks, Busy, NoLock
<1>6. /\ cur' \in [Names -> Nat] /\ cur'[n] = Len(objs) + 1
      /\ \A k \in Names \ {n} : cur'[k] = cur[k]
  BY <1>0, <1>2, <1>4
<1>7. \A k \in Names : cur'[k] # 0 => cur'[k] \in Ids' /\ objs'[cur'[k]].name = k
  <2>1. Len(objs) + 1 \in Ids' /\ \A i \in Ids : i \in Ids'
    BY <1>4
  <2>2. \A k \in Names : cur[k] # 0 => cur[k] \in Ids /\ objs[cur[k]].name = k
    BY <1>2 DEF Types
  <2> QED  BY <1>3, <1>4, <1>6, <2>1, <2>2
<1>8. Ordered(starter.order)' /\ starter' \in Boot /\ starter'.at = "new" /\ starter'.all = {}
  <2>1. /\ \A k \in DOMAIN order : order[k] \in Names /\ cur[order[k]] # 0
        /\ \A k, l \in DOMAIN order : order[k] = order[l] => k = l
        /\ \A k \in Names : cur[k] # 0 => \E l \in DOMAIN order : order[l] = k
    BY <1>2 DEF Ordered
  <2>2. Len(objs) + 1 # 0
    BY <1>4
  <2>3. CASE cur[n] # 0
    <3>1. starter'.order = order /\ starter' \in Boot /\ starter'.at = "new" /\ starter'.all = {}
      BY <1>0, <1>2, <2>3 DEF Boot
    <3> QED  BY <1>1, <1>6, <2>1, <2>2, <2>3, <3>1 DEF Ordered
  <2>4. CASE cur[n] = 0
    <3> DEFINE o == Append(order, n)
    <3>1. /\ o \in Seq(Names) /\ Len(order) \in Nat /\ DOMAIN order = 1 .. Len(order)
          /\ DOMAIN o = 1 .. Len(order) + 1
          /\ o[Len(order) + 1] = n /\ \A k \in DOMAIN order : o[k] = order[k]
      BY <1>2, AppendProperties
    <3> HIDE DEF o
    <3>2. \A k \in DOMAIN o : k \in DOMAIN order \/ k = Len(order) + 1
      BY <3>1
    <3>3. DOMAIN order \subseteq DOMAIN o /\ Len(order) + 1 \in DOMAIN o
      BY <3>1
    <3>4. \A k \in DOMAIN o : cur'[o[k]] # 0
      BY <1>6, <2>1, <2>2, <3>1, <3>2
    <3>5. \A k \in DOMAIN order : order[k] # n
      BY <2>1, <2>4
    <3>6. \A k, l \in DOMAIN o : o[k] = o[l] => k = l
      BY <2>1, <3>1, <3>2, <3>5
    <3>7. \A k \in Names : cur'[k] # 0 => \E l \in DOMAIN o : o[l] = k
      <4> TAKE k \in Names
      <4>1. CASE k = n
        BY <3>1, <3>3, <4>1
      <4>2. CASE k # n
        BY <1>6, <2>1, <3>1, <3>3, <4>2
      <4> QED  BY <4>1, <4>2
    <3>8. starter'.order = o /\ starter' \in Boot /\ starter'.at = "new" /\ starter'.all = {}
      BY <1>0, <1>2, <2>4, <3>1 DEF Boot, o
    <3> QED  BY <1>1, <3>4, <3>6, <3>7, <3>8 DEF Ordered
  <2> QED  BY <2>3, <2>4
<1>9. Types'
  <2>1. made' \in Nat
    BY <1>0, <1>2 DEF Types
  <2> QED  BY <1>0, <1>1, <1>2, <1>4, <1>6, <1>7, <1>8, <2>1 DEF Types
<1>10. Locks'
  BY <1>5 DEF Locks, Busy
<1>11. Booting'
  BY <1>0, <1>1, <1>2, <1>5, <1>8 DEF Booting
<1>12. Mutating'
  BY <1>0 DEF Mutating
<1>13. Workers'
  BY <1>5 DEF Workers, Running
<1> QED  BY <1>9, <1>10, <1>11, <1>12, <1>13 DEF IInv

\* What SwapObjects does to the table and to the objects in it.
LEMMA SwapIs ==
    ASSUME IInv, SwapObjects
    PROVE  /\ UNCHANGED <<cfg, store, master, now, starter, mgrDone, made, contact>> /\ mut.at = "swap"
           /\ objs' \in Seq(Obj) /\ Ids \subseteq Ids' /\ Len(objs') = Len(objs) + Cardinality(Fetching)
           /\ \A i \in Ids : objs'[i] = objs[i]
           /\ \A i \in Ids' \ Ids : /\ objs'[i].at = "off" /\ objs'[i].opMu = NoLock
                                    /\ objs'[i].cancellable /\ ~objs'[i].cancelled
                                    /\ \E n \in Fetching : objs'[i].last = mut.last[n]
           /\ cur' \in [Names -> Nat]
           /\ \A n \in Fetching : /\ cur'[n] \in Ids' \ Ids /\ cur'[n] # 0 /\ objs'[cur'[n]].name = n
                                  /\ objs'[cur'[n]].last = mut.last[n]
           /\ \A n \in Names \ Fetching : cur'[n] = IF mut.plan[n] = "remove" THEN 0 ELSE cur[n]
           /\ mut' \in Caller /\ mut'.at = "cancel" /\ mut'.plan = mut.plan /\ mut'.kind = mut.kind
           /\ mut'.got = cur /\ mut'.last = mut.last
<1> DEFINE news == SX!SetToSeq(Fetching)
           Fresh(k) == [Managed(news[k]) EXCEPT !.cancellable = TRUE, !.last = mut.last[news[k]]]
           Index(n) == CHOOSE k \in DOMAIN news : news[k] = n
           fresh == [k \in DOMAIN news |-> Fresh(k)]
           N == Cardinality(Fetching)
<1>0. /\ UNCHANGED <<cfg, store, master, now, starter, mgrDone, made, contact>> /\ mut.at = "swap"
      /\ objs' = objs \o fresh
      /\ cur' = [n \in Names |-> IF n \in Fetching THEN Len(objs) + Index(n)
                                 ELSE IF mut.plan[n] = "remove" THEN 0 ELSE cur[n]]
      /\ mut' = [mut EXCEPT !.at = "cancel", !.got = [n \in Names |-> cur[n]]]
  BY DEF SwapObjects, env
<1>1. /\ objs \in Seq(Obj) /\ Len(objs) \in Nat /\ Ids = 1 .. Len(objs) /\ cur \in [Names -> Nat]
      /\ mut \in Caller /\ IsFiniteSet(Names) /\ MaxSerial \in Nat /\ Fetching \subseteq Names
  BY Deployment DEF IInv, Types, Ids, Fetching
<1>2. /\ N \in Nat /\ news \in Seq(Fetching) /\ DOMAIN news = 1 .. N
      /\ \A n \in Fetching : \E k \in DOMAIN news : news[k] = n
      /\ \A k, l \in DOMAIN news : news[k] = news[l] => k = l
  BY <1>1, Listing, FS_Subset
<1> HIDE DEF news, N
<1>3. \A k \in DOMAIN news : news[k] \in Fetching
  BY <1>2
<1>4. \A n \in Fetching : Index(n) \in DOMAIN news /\ news[Index(n)] = n
  BY <1>2
<1>5. \A k \in DOMAIN news :
        /\ Fresh(k) \in Obj /\ Fresh(k).name = news[k] /\ Fresh(k).at = "off" /\ Fresh(k).opMu = NoLock
        /\ Fresh(k).cancellable /\ ~Fresh(k).cancelled /\ Fresh(k).last = mut.last[news[k]]
  <2> TAKE k \in DOMAIN news
  <2>1. news[k] \in Names /\ mut.last[news[k]] \in Int
    BY <1>1, <1>3 DEF Caller
  <2>2. /\ Managed(news[k]) \in Obj /\ Managed(news[k]).name = news[k] /\ Managed(news[k]).at = "off"
        /\ Managed(news[k]).opMu = NoLock /\ ~Managed(news[k]).cancelled
    BY <1>1, <2>1, ManagedIs
  <2> QED  BY <2>1, <2>2 DEF Obj
<1> HIDE DEF Fresh, Index
<1>6. fresh \in Seq(Obj) /\ Len(fresh) = N /\ \A k \in 1 .. N : fresh[k] = Fresh(k)
  <2>1. fresh \in [1 .. N -> Obj] /\ \A k \in 1 .. N : fresh[k] = Fresh(k)
    BY <1>2, <1>5
  <2> HIDE DEF fresh
  <2> QED  BY <1>2, <2>1, ObjectSeq
<1> HIDE DEF fresh
<1>7. /\ objs' \in Seq(Obj) /\ Len(objs') = Len(objs) + N /\ Ids' = 1 .. Len(objs) + N
      /\ \A i \in 1 .. Len(objs) + N :
           objs'[i] = IF i <= Len(objs) THEN objs[i] ELSE fresh[i - Len(objs)]
  <2>1. /\ objs' \in Seq(Obj) /\ Len(objs') = Len(objs) + N
        /\ \A i \in 1 .. Len(objs) + N :
             objs'[i] = IF i <= Len(objs) THEN objs[i] ELSE fresh[i - Len(objs)]
    BY <1>0, <1>1, <1>6, ConcatProperties
  <2> QED  BY <2>1 DEF Ids
<1>8. Ids \subseteq Ids' /\ \A i \in Ids : objs'[i] = objs[i]
  BY <1>1, <1>2, <1>7
<1>9. \A k \in 1 .. N : Len(objs) + k \in Ids' \ Ids /\ objs'[Len(objs) + k] = Fresh(k)
  <2> TAKE k \in 1 .. N
  <2>1. /\ Len(objs) + k \in 1 .. Len(objs) + N /\ ~(Len(objs) + k <= Len(objs))
        /\ (Len(objs) + k) - Len(objs) = k
    BY <1>1, <1>2
  <2> QED  BY <1>1, <1>6, <1>7, <2>1
<1>10. \A i \in Ids' \ Ids : i - Len(objs) \in 1 .. N /\ Len(objs) + (i - Len(objs)) = i
  BY <1>1, <1>2, <1>7
<1>11. \A i \in Ids' \ Ids : /\ objs'[i].at = "off" /\ objs'[i].opMu = NoLock
                             /\ objs'[i].cancellable /\ ~objs'[i].cancelled
                             /\ \E n \in Fetching : objs'[i].last = mut.last[n]
  <2> TAKE i \in Ids' \ Ids
  <2>1. objs'[i] = Fresh(i - Len(objs)) /\ i - Len(objs) \in DOMAIN news
    BY <1>2, <1>9, <1>10
  <2> QED  BY <1>3, <1>5, <2>1
<1>12. \A n \in Fetching : /\ cur'[n] \in Ids' \ Ids /\ cur'[n] # 0 /\ objs'[cur'[n]].name = n
                           /\ objs'[cur'[n]].last = mut.last[n]
  <2> TAKE n \in Fetching
  <2>1. cur'[n] = Len(objs) + Index(n) /\ Index(n) \in 1 .. N /\ Len(objs) + Index(n) # 0
    BY <1>0, <1>1, <1>2, <1>4
  <2>2. objs'[cur'[n]] = Fresh(Index(n)) /\ cur'[n] \in Ids' \ Ids
    BY <1>9, <2>1
  <2> QED  BY <1>2, <1>4, <1>5, <2>1, <2>2
<1>13. \A n \in Names \ Fetching : cur'[n] = IF mut.plan[n] = "remove" THEN 0 ELSE cur[n]
  BY <1>0
<1>14. cur' \in [Names -> Nat]
  <2>1. \A n \in Fetching : cur'[n] \in Nat
    BY <1>1, <1>2, <1>7, <1>12
  <2>2. \A n \in Names \ Fetching : cur'[n] \in Nat
    BY <1>1, <1>13
  <2>3. cur' = [n \in Names |-> cur'[n]]
    BY <1>0
  <2> QED  BY <2>1, <2>2, <2>3
<1>15. /\ mut' \in Caller /\ mut'.at = "cancel" /\ mut'.plan = mut.plan /\ mut'.kind = mut.kind
       /\ mut'.got = cur /\ mut'.last = mut.last
  <2>1. [n \in Names |-> cur[n]] = cur /\ cur \in [Names -> Int]
    BY <1>1
  <2> QED  BY <1>0, <1>1, <2>1 DEF Caller
<1> QED  BY <1>0, <1>7, <1>8, <1>11, <1>12, <1>13, <1>14, <1>15 DEF N

\* The new objects enter the table, unknown to Start and not yet running.
LEMMA SwapKeeps ==
    ASSUME IInv, SwapObjects
    PROVE  IInv'
<1>0. Types /\ Locks /\ Booting /\ Mutating /\ Workers
  BY DEF IInv
<1>1. /\ UNCHANGED <<cfg, store, master, now, starter, mgrDone, made, contact>> /\ mut.at = "swap"
      /\ objs' \in Seq(Obj) /\ Ids \subseteq Ids'
      /\ \A i \in Ids : objs'[i] = objs[i]
      /\ \A i \in Ids' \ Ids : /\ objs'[i].at = "off" /\ objs'[i].opMu = NoLock
                               /\ objs'[i].cancellable /\ ~objs'[i].cancelled
      /\ cur' \in [Names -> Nat]
      /\ \A n \in Fetching : cur'[n] \in Ids' \ Ids /\ cur'[n] # 0 /\ objs'[cur'[n]].name = n
      /\ \A n \in Names \ Fetching : cur'[n] = IF mut.plan[n] = "remove" THEN 0 ELSE cur[n]
      /\ mut' \in Caller /\ mut'.at = "cancel" /\ mut'.plan = mut.plan /\ mut'.got = cur
  BY SwapIs
<1>2. Names' = Names /\ Catalogs' = Catalogs /\ MaxSerial' = MaxSerial /\ Obj' = Obj
      /\ Caller' = Caller /\ Boot' = Boot
  BY <1>1, Fixed
<1>3. Planned' = Planned /\ Fetching' = Fetching
  BY <1>1, <1>2 DEF Planned, Fetching
<1>4. /\ \A n \in Names : cur[n] # 0 => cur[n] \in Ids /\ objs[cur[n]].name = n
      /\ \A i \in Ids : i # 0 /\ objs[i].name \in Names
      /\ Planned \subseteq Names /\ Fetching \subseteq Planned
      /\ \A n \in Planned \ Fetching : mut.plan[n] = "remove"
      /\ \A n \in Names \ Planned : mut.plan[n] # "remove" /\ n \notin Fetching
  <2>1. objs \in [Ids -> Obj] /\ Ids = 1 .. Len(objs)
    BY <1>0, ObjectSeq DEF Types, Ids
  <2>2. \A n \in Names : mut.plan[n] \in Plans
    BY <1>0 DEF Types, Caller
  <2>3. \A i \in Ids : i # 0 /\ objs[i].name \in Names
    BY <2>1 DEF Obj
  <2>4. \A n \in Names : cur[n] # 0 => cur[n] \in Ids /\ objs[cur[n]].name = n
    BY <1>0 DEF Types
  <2>5. /\ Planned \subseteq Names /\ Fetching \subseteq Planned
        /\ \A n \in Planned \ Fetching : mut.plan[n] = "remove"
        /\ \A n \in Names \ Planned : mut.plan[n] # "remove" /\ n \notin Fetching
    BY <2>2 DEF Planned, Fetching, Plans
  <2> QED  BY <2>3, <2>4, <2>5
<1>5. Types'
  <2>1. \A n \in Names : cur'[n] # 0 => cur'[n] \in Ids' /\ objs'[cur'[n]].name = n
    BY <1>1, <1>4
  <2> QED  BY <1>0, <1>1, <1>2, <2>1 DEF Types
<1>6. Locks'
  BY <1>0, <1>1 DEF Locks, Busy, NoLock
<1>7. Booting'
  <2>1. starter.at # "new" /\ (starter.at = "boot" => Catalogs # {}) /\ starter.all \subseteq Ids
    BY <1>0, <1>1 DEF Mutating, Booting
  <2>2. starter.at = "boot" =>
          /\ \A k \in DOMAIN starter.todo : starter.todo[k] \in starter.all
          /\ \A k, l \in DOMAIN starter.todo : starter.todo[k] = starter.todo[l] => k = l
          /\ \A k \in DOMAIN starter.todo : k # 1 => objs[starter.todo[k]].at = "off"
          /\ \A j \in starter.all :
               objs[j].at = "ready" \/ \E k \in DOMAIN starter.todo : starter.todo[k] = j
    BY <1>0 DEF Booting
  <2> QED  BY <1>1, <1>2, <2>1, <2>2 DEF Booting
<1>8. Mutating'
  <2>1. starter.at # "new" /\ (starter.at = "boot" => Catalogs # {}) /\ starter.all \subseteq Ids
    BY <1>0, <1>1 DEF Mutating, Booting
  <2>2. \A n \in Planned : cur[n] # 0 => objs[cur[n]].opMu = "mutator"
    BY <1>0, <1>1 DEF Mutating
  <2>3. ASSUME NEW n \in Planned
        PROVE  /\ cur[n] # 0 =>
                    /\ cur[n] \in Ids' /\ cur[n] # cur'[n]
                    /\ objs'[cur[n]].name = n /\ objs'[cur[n]].opMu = "mutator"
               /\ n \in Fetching =>
                    /\ cur'[n] # 0 /\ cur'[n] \notin starter.all
                    /\ objs'[cur'[n]].at = "off" /\ objs'[cur'[n]].cancellable
                    /\ ~objs'[cur'[n]].cancelled
               /\ n \notin Fetching => cur'[n] = 0
    BY <1>1, <1>4, <2>1, <2>2, <2>3
  <2> QED  BY <1>1, <1>2, <1>3, <2>1, <2>3 DEF Mutating
<1>9. Workers'
  <2>1. \A j \in Ids : /\ objs[j].at # "off" => objs[j].cancellable
                       /\ Running(j) /\ ~Overlooked(j) => cur[objs[j].name] = j
                       /\ ~(objs[j].cancelled /\ objs[j].at \in {"check", "add"})
    BY <1>0, <1>1 DEF Workers
  <2>2. \A j \in Ids : (Running(j)' <=> Running(j)) /\ (Overlooked(j) => Overlooked(j)')
    BY <1>1, <1>2, <1>4 DEF Running, Overlooked
  <2>3. \A j \in Ids' \ Ids : ~Running(j)'
    BY <1>1 DEF Running
  <2>4. \A j \in Ids : cur[objs[j].name] = j => cur'[objs[j].name] = j \/ objs[j].name \in Planned
    BY <1>1, <1>4
  <2>5. \A j \in Ids' : objs'[j].at # "off" => objs'[j].cancellable
    BY <1>1, <2>1
  <2>6. \A j \in Ids' : Running(j)' /\ ~Overlooked(j)' =>
          \/ cur'[objs'[j].name] = j
          \/ objs'[j].name \in Planned /\ mut'.got[objs'[j].name] = j
    BY <1>1, <2>1, <2>2, <2>3, <2>4
  <2>7. \A j \in Ids' : ~(objs'[j].cancelled /\ objs'[j].at \in {"check", "add"})
    BY <1>1, <2>1
  <2> QED  BY <1>1, <1>3, <2>5, <2>6, <2>7 DEF Workers
<1> QED  BY <1>5, <1>6, <1>7, <1>8, <1>9 DEF IInv

\* What CancelReplaced does to each object.
LEMMA CancelIs ==
    ASSUME IInv, CancelReplaced
    PROVE  /\ UNCHANGED <<cfg, store, master, now, cur, starter, mgrDone, made, contact>>
           /\ mut.at = "cancel" /\ mut' = Nobody
           /\ objs' \in Seq(Obj) /\ Ids' = Ids /\ Len(objs') = Len(objs)
           /\ \A i \in Ids :
                /\ objs'[i].name = objs[i].name /\ objs'[i].cancellable = objs[i].cancellable
                /\ objs'[i].last = objs[i].last /\ objs'[i].got = objs[i].got
                /\ objs'[i].opMu = "worker" <=> objs[i].opMu = "worker"
                /\ \/ /\ objs'[i].at = objs[i].at /\ objs'[i].cancelled = objs[i].cancelled
                      /\ ~\E n \in Fetching : cur[n] = i
                      /\ ~(objs[i].cancellable /\ \E n \in Planned : mut.got[n] = i)
                   \/ /\ objs'[i].at = objs[i].at /\ objs'[i].cancelled
                      /\ objs[i].cancellable /\ \E n \in Planned : mut.got[n] = i
                   \/ /\ objs'[i].at = "select" /\ objs'[i].cancelled = objs[i].cancelled
                      /\ \E n \in Fetching : cur[n] = i
<1> DEFINE old == {mut.got[n] : n \in Planned} \ {0}
           Next1(i) == IF i \in old /\ objs[i].cancellable
                       THEN [objs[i] EXCEPT !.cancelled = TRUE]
                       ELSE IF i \in {cur[n] : n \in Fetching}
                       THEN [objs[i] EXCEPT !.at = "select"]
                       ELSE objs[i]
           f == [i \in Ids |-> Next1(i)]
<1>0. /\ UNCHANGED <<cfg, store, master, now, cur, starter, mgrDone, made, contact>>
      /\ mut.at = "cancel" /\ mut' = Nobody /\ objs' = Released(f)
  BY DEF CancelReplaced, env
<1>1. Types /\ Locks /\ Mutating /\ objs \in [Ids -> Obj] /\ Ids = 1 .. Len(objs)
  BY ObjectSeq DEF IInv, Types, Ids
<1>2. \A i \in Ids : i # 0
  BY <1>1
<1>3. \A n, m \in Names : n \in Planned /\ m \in Fetching /\ mut.got[n] # 0 => mut.got[n] # cur[m]
  <2>1. \A m \in Names : m \in Fetching => m \in Planned /\ cur[m] # 0
    BY <1>0, <1>1 DEF Mutating, Fetching, Planned
  <2>2. \A m \in Names : cur[m] # 0 => objs[cur[m]].name = m
    BY <1>1 DEF Types
  <2>3. \A n \in Planned : mut.got[n] # 0 => objs[mut.got[n]].name = n /\ mut.got[n] # cur[n]
    BY <1>0, <1>1 DEF Mutating
  <2> QED  BY <2>1, <2>2, <2>3
<1>4. \A i \in Ids :
        /\ Next1(i) \in Obj
        /\ Next1(i).name = objs[i].name /\ Next1(i).cancellable = objs[i].cancellable
        /\ Next1(i).last = objs[i].last /\ Next1(i).got = objs[i].got /\ Next1(i).opMu = objs[i].opMu
        /\ \/ /\ Next1(i).at = objs[i].at /\ Next1(i).cancelled = objs[i].cancelled
              /\ ~\E n \in Fetching : cur[n] = i
              /\ ~(objs[i].cancellable /\ \E n \in Planned : mut.got[n] = i)
           \/ /\ Next1(i).at = objs[i].at /\ Next1(i).cancelled
              /\ objs[i].cancellable /\ \E n \in Planned : mut.got[n] = i
           \/ /\ Next1(i).at = "select" /\ Next1(i).cancelled = objs[i].cancelled
              /\ \E n \in Fetching : cur[n] = i
  <2> TAKE i \in Ids
  <2>1. objs[i] \in Obj
    BY <1>1
  <2>2. CASE i \in old /\ objs[i].cancellable
    <3>1. Next1(i) = [objs[i] EXCEPT !.cancelled = TRUE]
      BY <2>2
    <3>2. \E n \in Planned : mut.got[n] = i
      BY <2>2
    <3>3. objs[i].cancellable
      BY <2>2
    <3> HIDE DEF Next1, old
    <3>4. /\ Next1(i) \in Obj
          /\ Next1(i).name = objs[i].name /\ Next1(i).cancellable = objs[i].cancellable
          /\ Next1(i).last = objs[i].last /\ Next1(i).got = objs[i].got
          /\ Next1(i).opMu = objs[i].opMu /\ Next1(i).at = objs[i].at /\ Next1(i).cancelled
      BY <2>1, <3>1 DEF Obj
    <3> QED  BY <3>2, <3>3, <3>4
  <2>3. CASE ~(i \in old /\ objs[i].cancellable) /\ i \in {cur[n] : n \in Fetching}
    <3>1. Next1(i) = [objs[i] EXCEPT !.at = "select"]
      BY <2>3
    <3>2. \E n \in Fetching : cur[n] = i
      BY <2>3
    <3> HIDE DEF Next1, old
    <3> QED  BY <2>1, <3>1, <3>2 DEF Obj, Stations
  <2>4. CASE ~(i \in old /\ objs[i].cancellable) /\ i \notin {cur[n] : n \in Fetching}
    <3>1. Next1(i) = objs[i]
      BY <2>4
    <3>2. /\ ~\E n \in Fetching : cur[n] = i
          /\ ~(objs[i].cancellable /\ \E n \in Planned : mut.got[n] = i)
      BY <1>2, <2>4
    <3> HIDE DEF Next1, old
    <3> QED  BY <2>1, <3>1, <3>2
  <2> HIDE DEF Next1, old
  <2> QED  BY <2>2, <2>3, <2>4
<1> HIDE DEF Next1, old
<1>5. f \in [Ids -> Obj] /\ \A i \in Ids : f[i] = Next1(i)
  BY <1>4
<1> HIDE DEF f
<1>6. /\ Released(f) \in [Ids -> Obj]
      /\ \A i \in Ids :
           /\ Released(f)[i].name = f[i].name /\ Released(f)[i].at = f[i].at
           /\ Released(f)[i].cancelled = f[i].cancelled /\ Released(f)[i].cancellable = f[i].cancellable
           /\ Released(f)[i].last = f[i].last /\ Released(f)[i].got = f[i].got
           /\ Released(f)[i].opMu = "worker" <=> f[i].opMu = "worker"
  BY <1>5, Releasing
<1>7. objs' \in Seq(Obj) /\ Ids' = Ids /\ Len(objs') = Len(objs)
  BY <1>0, <1>1, <1>6, Mapped
<1> QED  BY <1>0, <1>4, <1>5, <1>6, <1>7

\* The replaced workers are told to stop and the new ones run.
LEMMA CancelKeeps ==
    ASSUME IInv, CancelReplaced
    PROVE  IInv'
<1>0. Types /\ Locks /\ Booting /\ Mutating /\ Workers
  BY DEF IInv
<1>1. /\ UNCHANGED <<cfg, store, master, now, cur, starter, mgrDone, made, contact>>
      /\ mut.at = "cancel" /\ mut' = Nobody
      /\ objs' \in Seq(Obj) /\ Ids' = Ids
      /\ \A i \in Ids :
           /\ objs'[i].name = objs[i].name /\ objs'[i].cancellable = objs[i].cancellable
           /\ objs'[i].opMu = "worker" <=> objs[i].opMu = "worker"
  BY CancelIs
<1> DEFINE Left(i) == /\ objs'[i].at = objs[i].at /\ objs'[i].cancelled = objs[i].cancelled
                      /\ ~\E n \in Fetching : cur[n] = i
                      /\ ~(objs[i].cancellable /\ \E n \in Planned : mut.got[n] = i)
           Stopped(i) == /\ objs'[i].at = objs[i].at /\ objs'[i].cancelled
                         /\ objs[i].cancellable /\ \E n \in Planned : mut.got[n] = i
           Started(i) == /\ objs'[i].at = "select" /\ objs'[i].cancelled = objs[i].cancelled
                         /\ \E n \in Fetching : cur[n] = i
<1>2. \A i \in Ids : Left(i) \/ Stopped(i) \/ Started(i)
  BY CancelIs
<1>3. Names' = Names /\ Catalogs' = Catalogs /\ MaxSerial' = MaxSerial /\ Obj' = Obj
      /\ Caller' = Caller /\ Boot' = Boot
  BY <1>1, Fixed
<1>4. mut' \in Caller /\ mut'.at = "idle"
  BY <1>1, NobodyCalls DEF Nobody
<1>5. /\ \A i \in Ids : i # 0
      /\ Fetching \subseteq Planned /\ Planned \subseteq Names
      /\ \A n \in Names : cur[n] # 0 => objs[cur[n]].name = n
  <2>1. Ids = 1 .. Len(objs)
    BY <1>0, ObjectSeq DEF Types, Ids
  <2> QED  BY <1>0, <2>1 DEF Types, Fetching, Planned
<1>6. \A i \in Ids : Started(i) => /\ objs[i].at = "off" /\ objs[i].cancellable /\ i \notin starter.all
                                   /\ cur[objs[i].name] = i /\ ~objs[i].cancelled
  <2>1. \A n \in Fetching : /\ objs[cur[n]].at = "off" /\ objs[cur[n]].cancellable
                            /\ cur[n] \notin starter.all /\ ~objs[cur[n]].cancelled /\ cur[n] # 0
    BY <1>0, <1>1, <1>5 DEF Mutating
  <2> QED  BY <1>5, <2>1
<1>7. \A i \in Ids : Stopped(i) => objs[i].opMu = "mutator"
  <2>1. \A n \in Planned : mut.got[n] # 0 => objs[mut.got[n]].opMu = "mutator"
    BY <1>0, <1>1 DEF Mutating
  <2> QED  BY <1>5, <2>1
<1>8. \A i \in Ids : Started(i) \/ objs'[i].at = objs[i].at
  BY <1>2
<1>9. Types'
  BY <1>0, <1>1, <1>3, <1>4 DEF Types
<1>10. Locks'
  <2> SUFFICES ASSUME NEW i \in Ids
               PROVE  objs'[i].opMu = "worker" <=> objs'[i].at \in Busy
    BY <1>1 DEF Locks
  <2>1. objs[i].opMu = "worker" <=> objs[i].at \in Busy
    BY <1>0 DEF Locks
  <2>2. CASE Started(i)
    BY <1>1, <1>6, <2>1, <2>2 DEF Busy
  <2>3. CASE objs'[i].at = objs[i].at
    BY <1>1, <2>1, <2>3
  <2> QED  BY <1>8, <2>2, <2>3
<1>11. Booting'
  <2>1. starter.at # "new" /\ (starter.at = "boot" => Catalogs # {}) /\ starter.all \subseteq Ids
    BY <1>0, <1>1 DEF Mutating, Booting
  <2>2. starter.at = "boot" =>
          /\ \A k \in DOMAIN starter.todo : starter.todo[k] \in starter.all
          /\ \A k, l \in DOMAIN starter.todo : starter.todo[k] = starter.todo[l] => k = l
          /\ \A k \in DOMAIN starter.todo : k # 1 => objs[starter.todo[k]].at = "off"
          /\ \A j \in starter.all :
               objs[j].at = "ready" \/ \E k \in DOMAIN starter.todo : starter.todo[k] = j
    BY <1>0 DEF Booting
  <2>3. \A j \in starter.all : objs'[j].at = objs[j].at
    BY <1>6, <1>8, <2>1
  <2> QED  BY <1>1, <1>3, <2>1, <2>2, <2>3 DEF Booting
<1>12. Mutating'
  BY <1>4 DEF Mutating
<1>13. Workers'
  <2>1. \A j \in Ids : /\ objs[j].at # "off" => objs[j].cancellable
                       /\ Running(j) /\ ~Overlooked(j) =>
                            cur[objs[j].name] = j \/ (objs[j].name \in Planned /\ mut.got[objs[j].name] = j)
                       /\ ~(objs[j].cancelled /\ objs[j].at \in {"check", "add"})
    BY <1>0, <1>1 DEF Workers
  <2>2. \A j \in Ids : Overlooked(j)' <=> Overlooked(j)
    BY <1>1, <1>3 DEF Overlooked
  <2>3. \A j \in Ids : objs'[j].at # "off" => objs'[j].cancellable
    BY <1>1, <1>6, <1>8, <2>1
  <2>4. ASSUME NEW j \in Ids, Running(j)', ~Overlooked(j)
        PROVE  cur[objs[j].name] = j
    <3>1. CASE Started(j)
      BY <1>6, <3>1
    <3>2. CASE Stopped(j)
      BY <2>4, <3>2 DEF Running
    <3>3. CASE Left(j)
      <4>1. Running(j) /\ objs[j].at # "off"
        BY <2>4, <3>3 DEF Running
      <4> QED  BY <2>1, <2>4, <3>3, <4>1
    <3> QED  BY <1>2, <3>1, <3>2, <3>3
  <2>5. ASSUME NEW j \in Ids
        PROVE  ~(objs'[j].cancelled /\ objs'[j].at \in {"check", "add"})
    <3>1. CASE Started(j)
      BY <3>1
    <3>2. CASE Stopped(j)
      <4>1. objs[j].at \notin Busy
        BY <1>0, <1>7, <3>2 DEF Locks
      <4> QED  BY <3>2, <4>1 DEF Busy
    <3>3. CASE Left(j)
      BY <2>1, <3>3
    <3> QED  BY <1>2, <3>1, <3>2, <3>3
  <2> QED  BY <1>1, <2>2, <2>3, <2>4, <2>5 DEF Workers
<1> QED  BY <1>9, <1>10, <1>11, <1>12, <1>13 DEF IInv

\* Remove takes an object out of the table and waits for its transfer.
LEMMA RemoveKeeps ==
    ASSUME IInv, NEW n \in Names, Remove(n)
    PROVE  IInv'
<1> DEFINE c == cur[n]
           p == [objs[c] EXCEPT !.cancelled = objs[c].cancellable]
           order == starter.order
<1>0. /\ UNCHANGED <<cfg, store, master, now, mgrDone, contact>> /\ made' = made + 1
      /\ mut.at = "idle" /\ starter.at \in {"new", "run"} /\ c # 0
      /\ objs' = [objs EXCEPT ![c] = p] /\ cur' = [cur EXCEPT ![n] = 0]
      /\ starter' = [starter EXCEPT !.order =
                       IF Began THEN @ ELSE SX!RemoveAt(@, CHOOSE k \in DOMAIN @ : @[k] = n)]
      /\ mut' = [Nobody EXCEPT !.at = "await", !.kind = "remove", !.got[n] = c]
  BY DEF Remove, MayMutate, env
<1>1. Names' = Names /\ Catalogs' = Catalogs /\ MaxSerial' = MaxSerial /\ Obj' = Obj
      /\ Caller' = Caller /\ Boot' = Boot
  BY <1>0, Fixed
<1>2. /\ Types /\ Locks /\ Booting /\ Workers /\ cur \in [Names -> Nat] /\ starter \in Boot
      /\ c \in Ids /\ objs[c] \in Obj /\ objs[c].name = n /\ c \in Int
      /\ \A k \in Names : cur[k] # 0 => cur[k] \in Ids /\ objs[cur[k]].name = k
  BY <1>0, ObjectSeq DEF IInv, Types, Ids
<1>3. /\ p \in Obj /\ p.name = n /\ p.at = objs[c].at /\ p.opMu = objs[c].opMu
      /\ p.cancellable = objs[c].cancellable /\ p.cancelled = objs[c].cancellable
  BY <1>2 DEF Obj
<1> HIDE DEF c, p
<1>4. /\ objs' \in Seq(Obj) /\ Ids' = Ids
      /\ objs'[c] = p /\ \A j \in Ids \ {c} : objs'[j] = objs[j]
  BY <1>0, <1>2, <1>3, Replaced
<1>5. \A j \in Ids : /\ objs'[j].name = objs[j].name /\ objs'[j].at = objs[j].at
                     /\ objs'[j].opMu = objs[j].opMu /\ objs'[j].cancellable = objs[j].cancellable
                     /\ j # c => objs'[j].cancelled = objs[j].cancelled
  BY <1>2, <1>3, <1>4
<1>6. objs'[c].cancelled = objs[c].cancellable
  BY <1>3, <1>4
<1>7. cur' \in [Names -> Nat] /\ cur'[n] = 0 /\ \A k \in Names \ {n} : cur'[k] = cur[k]
  BY <1>0, <1>2
<1>8. /\ mut' \in Caller /\ mut'.at = "await" /\ mut'.kind = "remove"
      /\ mut'.got[n] = c /\ \A k \in Names \ {n} : mut'.got[k] = Never
  <2>1. Nobody \in Caller /\ Nobody.got = [k \in Names |-> Never]
    BY NobodyCalls DEF Nobody
  <2> QED  BY <1>0, <1>2, <2>1 DEF Caller
<1>9. starter' \in Boot /\ starter'.at = starter.at /\ starter'.all = starter.all
      /\ (starter.at = "new" => Ordered(starter.order)')
  <2>1. CASE Began
    <3>1. starter' = starter
      BY <1>0, <1>2, <2>1 DEF Boot
    <3> QED  BY <1>2, <2>1, <3>1 DEF Began
  <2>2. CASE ~Began
    <3>1. /\ order \in Seq(Names)
          /\ \A k \in DOMAIN order : order[k] \in Names /\ cur[order[k]] # 0
          /\ \A k, l \in DOMAIN order : order[k] = order[l] => k = l
          /\ \A k \in Names : cur[k] # 0 => \E l \in DOMAIN order : order[l] = k
      BY <1>2, <2>2 DEF Began, Booting, Ordered, Boot
    <3> DEFINE k == CHOOSE l \in DOMAIN order : order[l] = n
               t == SX!RemoveAt(order, k)
    <3>2. k \in DOMAIN order /\ order[k] = n
      BY <1>0, <3>1 DEF c
    <3> HIDE DEF k
    <3>3. /\ t \in Seq(Names)
          /\ \A j \in DOMAIN t : \E l \in DOMAIN order \ {k} : t[j] = order[l]
          /\ \A l \in DOMAIN order \ {k} : \E j \in DOMAIN t : t[j] = order[l]
          /\ \A a, b \in DOMAIN t : t[a] = t[b] => a = b
      <4> HIDE DEF order
      <4>1. /\ t \in Seq(Names)
            /\ \A j \in DOMAIN t : \E l \in DOMAIN order \ {k} : t[j] = order[l]
            /\ \A l \in DOMAIN order \ {k} : \E j \in DOMAIN t : t[j] = order[l]
            /\ (\A a, b \in DOMAIN order : order[a] = order[b] => a = b) =>
                 \A a, b \in DOMAIN t : t[a] = t[b] => a = b
        BY <3>1, <3>2, Removing
      <4> HIDE DEF t
      <4> QED  BY <3>1, <4>1
    <3> HIDE DEF t
    <3>4. \A j \in DOMAIN t : t[j] \in Names \ {n} /\ cur'[t[j]] # 0
      <4> TAKE j \in DOMAIN t
      <4>1. PICK l \in DOMAIN order \ {k} : t[j] = order[l]
        BY <3>3
      <4>2. order[l] \in Names \ {n} /\ cur[order[l]] # 0
        BY <3>1, <3>2
      <4> QED  BY <1>7, <4>1, <4>2
    <3>5. \A m \in Names : cur'[m] # 0 => \E j \in DOMAIN t : t[j] = m
      <4> SUFFICES ASSUME NEW m \in Names, cur'[m] # 0
                   PROVE  \E j \in DOMAIN t : t[j] = m
        OBVIOUS
      <4>1. m # n /\ cur[m] # 0
        BY <1>7
      <4>2. PICK l \in DOMAIN order : order[l] = m
        BY <3>1, <4>1
      <4>3. l # k
        BY <3>2, <4>1, <4>2
      <4> QED  BY <3>3, <4>2, <4>3
    <3>6. starter' \in Boot /\ starter'.at = starter.at /\ starter'.all = starter.all /\ starter'.order = t
      <4>1. starter' = [starter EXCEPT !.order = t]
        BY <1>0, <2>2 DEF t, k
      <4> QED  BY <1>2, <3>3, <4>1 DEF Boot
    <3>7. Ordered(starter.order)'
      <4>1. starter'.order = t
        BY <3>6
      <4> QED  BY <1>1, <3>3, <3>4, <3>5, <4>1 DEF Ordered
    <3> QED  BY <3>6, <3>7
  <2> QED  BY <2>1, <2>2
<1>10. Types'
  <2>1. made' \in Nat
    BY <1>0, <1>2 DEF Types
  <2>2. \A k \in Names : cur'[k] # 0 => cur'[k] \in Ids' /\ objs'[cur'[k]].name = k
    BY <1>2, <1>4, <1>5, <1>7
  <2> QED  BY <1>0, <1>1, <1>2, <1>4, <1>7, <1>8, <1>9, <2>1, <2>2 DEF Types
<1>11. Locks'
  BY <1>2, <1>4, <1>5 DEF Locks
<1>12. Booting'
  <2>1. starter.at = "new" =>
          starter.all = {} /\ (\A i \in Ids : objs[i].at = "off") /\ \A k \in Names : contact[k] = Never
    BY <1>2 DEF Booting
  <2>2. starter.all \subseteq Ids
    BY <1>2 DEF Booting
  <2> QED  BY <1>0, <1>1, <1>4, <1>5, <1>9, <2>1, <2>2 DEF Booting
<1>13. Mutating'
  <2>1. \A k \in Names : mut'.got[k] # Never =>
          mut'.got[k] \in Ids' /\ objs'[mut'.got[k]].name = k /\ cur'[k] = 0
    BY <1>2, <1>4, <1>5, <1>7, <1>8
  <2> QED  BY <1>1, <1>8, <2>1 DEF Mutating
<1>14. Workers'
  <2>1. \A j \in Ids : /\ objs[j].at # "off" => objs[j].cancellable
                       /\ Running(j) /\ ~Overlooked(j) => cur[objs[j].name] = j
                       /\ ~(objs[j].cancelled /\ objs[j].at \in {"check", "add"})
    BY <1>0, <1>2 DEF Workers
  <2>2. \A j \in Ids : j # 0 /\ objs[j].name \in Names
    <3>1. objs \in [Ids -> Obj] /\ Ids = 1 .. Len(objs)
      BY <1>2, ObjectSeq DEF Types, Ids
    <3> QED  BY <3>1 DEF Obj
  <2>3. \A j \in Ids : Overlooked(j) => Overlooked(j)'
    <3> SUFFICES ASSUME NEW j \in Ids, Overlooked(j)
                 PROVE  Overlooked(j)'
      OBVIOUS
    <3>1. cur[objs[j].name] # j /\ objs'[j].name = objs[j].name
      BY <1>5 DEF Overlooked
    <3>2. cur'[objs[j].name] # j
      BY <1>7, <2>2, <3>1
    <3> QED  BY <1>1, <1>9, <3>1, <3>2 DEF Overlooked
  <2>4. \A j \in Ids : j = c => ~Running(j)'
    BY <1>2, <1>5, <1>6, <2>1 DEF Running
  <2>5. \A j \in Ids \ {c} : Running(j)' => Running(j)
    BY <1>5 DEF Running
  <2>6. \A j \in Ids : Running(j)' /\ ~Overlooked(j)' => cur'[objs'[j].name] = j
    <3> SUFFICES ASSUME NEW j \in Ids, Running(j)', ~Overlooked(j)'
                 PROVE  cur'[objs'[j].name] = j
      OBVIOUS
    <3>1. j # c /\ Running(j) /\ ~Overlooked(j)
      BY <2>3, <2>4, <2>5
    <3>2. cur[objs[j].name] = j /\ objs'[j].name = objs[j].name
      BY <1>5, <2>1, <3>1
    <3>3. objs[j].name # n
      BY <3>1, <3>2 DEF c
    <3> QED  BY <1>7, <2>2, <3>2, <3>3
  <2>7. \A j \in Ids : objs'[j].cancelled /\ objs'[j].at \in {"check", "add"} =>
          mut'.at = "await" /\ mut'.got[objs'[j].name] = j
    BY <1>2, <1>5, <1>8, <2>1
  <2>8. \A j \in Ids : objs'[j].at # "off" => objs'[j].cancellable
    BY <1>5, <2>1
  <2> QED  BY <1>4, <2>6, <2>7, <2>8 DEF Workers
<1> QED  BY <1>10, <1>11, <1>12, <1>13, <1>14 DEF IInv

\* Remove returns when no transfer of the object is in flight.
LEMMA RemoveReturnKeeps ==
    ASSUME IInv, RemoveReturn
    PROVE  IInv'
<1>0. /\ UNCHANGED <<cfg, store, master, now, objs, cur, starter, mgrDone, contact, made>>
      /\ mut.at = "await" /\ mut' = Nobody
      /\ \A n \in Names : mut.got[n] # Never => objs[mut.got[n]].opMu = NoLock
  BY DEF RemoveReturn, env
<1>1. Names' = Names /\ Catalogs' = Catalogs /\ MaxSerial' = MaxSerial /\ Obj' = Obj
      /\ Caller' = Caller /\ Boot' = Boot
  BY <1>0, Fixed
<1>2. Types /\ Locks /\ Booting /\ Mutating /\ Workers /\ mut' \in Caller /\ mut'.at = "idle"
  BY <1>0, NobodyCalls DEF IInv, Nobody
<1>3. Types'
  BY <1>0, <1>1, <1>2 DEF Types, Ids
<1>4. Locks'
  BY <1>0, <1>2 DEF Locks, Ids
<1>5. Booting'
  BY <1>0, <1>1, <1>2 DEF Booting, Ids, Ordered
<1>6. Mutating'
  BY <1>2 DEF Mutating
<1>7. Workers'
  <2>1. \A j \in Ids : objs[j].name \in Names /\ j # Never
    <3>1. objs \in [Ids -> Obj] /\ Ids = 1 .. Len(objs)
      BY <1>2, ObjectSeq DEF Types, Ids
    <3> QED  BY <3>1 DEF Obj, Never
  <2>2. \A j \in Ids : ~(objs[j].cancelled /\ objs[j].at \in {"check", "add"})
    <3> SUFFICES ASSUME NEW j \in Ids, objs[j].cancelled, objs[j].at \in {"check", "add"}
                 PROVE  FALSE
      OBVIOUS
    <3>1. mut.got[objs[j].name] = j /\ objs[j].opMu = "worker"
      BY <1>2 DEF Workers, Locks, Busy
    <3> QED  BY <1>0, <2>1, <3>1 DEF NoLock
  <2>3. \A j \in Ids : /\ objs[j].at # "off" => objs[j].cancellable
                       /\ Running(j) /\ ~Overlooked(j) => cur[objs[j].name] = j
    BY <1>0, <1>2 DEF Workers
  <2>4. \A j \in Ids : (Running(j)' <=> Running(j)) /\ (Overlooked(j)' <=> Overlooked(j))
    BY <1>0, <1>1 DEF Running, Overlooked
  <2> QED  BY <1>0, <2>2, <2>3, <2>4 DEF Workers, Ids
<1> QED  BY <1>3, <1>4, <1>5, <1>6, <1>7 DEF IInv

-----------------------------------------------------------------------------
(* The invariant.                                                          *)

\* Before Start nothing runs.
LEMMA InitHolds == Init => IInv
<1> SUFFICES ASSUME Init
             PROVE  IInv
  OBVIOUS
<1>1. /\ cfg \in SX!ToSet(Settings) /\ MaxSerial \in Nat \ {0} /\ Initial \in Seq(Names)
      /\ \A i, j \in DOMAIN Initial : Initial[i] = Initial[j] => i = j
      /\ Restored \in [Names -> 0 .. MaxSerial]
  BY Deployment DEF Init
<1>2. /\ store = Restored
      /\ master = [n \in Names |-> IF Restored[n] = 0 THEN 1 ELSE Restored[n]]
      /\ now = 0 /\ made = 0 /\ mgrDone = FALSE /\ mut = Nobody
      /\ objs = [k \in DOMAIN Initial |-> Managed(Initial[k])]
      /\ cur = [n \in Names |-> IF n \in SX!ToSet(Initial)
                                THEN CHOOSE k \in DOMAIN Initial : Initial[k] = n ELSE 0]
      /\ starter = [at |-> "new", order |-> Initial, todo |-> <<>>, all |-> {}]
      /\ contact = [n \in Names |-> Never]
  BY DEF Init
<1>3. /\ DOMAIN Initial = 1 .. Len(Initial) /\ Len(Initial) \in Nat
      /\ \A k \in DOMAIN Initial : Initial[k] \in Names
  BY <1>1
<1>4. \A k \in DOMAIN Initial :
        /\ Managed(Initial[k]) \in Obj /\ Managed(Initial[k]).name = Initial[k]
        /\ Managed(Initial[k]).at = "off" /\ Managed(Initial[k]).opMu = NoLock
  BY <1>1, <1>3, ManagedIs
<1>5. /\ objs \in Seq(Obj) /\ Ids = DOMAIN Initial
      /\ \A i \in Ids : objs[i].name = Initial[i] /\ objs[i].at = "off" /\ objs[i].opMu = NoLock
  <2>1. objs \in [1 .. Len(Initial) -> Obj] /\ Ids = DOMAIN Initial
    BY <1>2, <1>3, <1>4 DEF Ids
  <2> QED  BY <1>2, <1>3, <1>4, <2>1, ObjectSeq
<1>6. \A n \in Names :
        \/ n \in SX!ToSet(Initial) /\ cur[n] \in DOMAIN Initial /\ Initial[cur[n]] = n
        \/ n \notin SX!ToSet(Initial) /\ cur[n] = 0
  <2> TAKE n \in Names
  <2>1. CASE n \in SX!ToSet(Initial)
    <3>1. cur[n] = CHOOSE k \in DOMAIN Initial : Initial[k] = n
      BY <1>2, <2>1
    <3>2. \E k \in DOMAIN Initial : Initial[k] = n
      BY <2>1 DEF SX!ToSet
    <3> QED  BY <2>1, <3>1, <3>2
  <2>2. CASE n \notin SX!ToSet(Initial)
    BY <1>2, <2>2
  <2> QED  BY <2>1, <2>2
<1>7. Types
  <2>1. master \in [Names -> 1 .. MaxSerial] /\ store \in [Names -> 0 .. MaxSerial]
    BY <1>1, <1>2
  <2>2. cur \in [Names -> Nat]
    BY <1>2, <1>3, <1>6
  <2>3. \A n \in Names : cur[n] # 0 => cur[n] \in Ids /\ objs[cur[n]].name = n
    BY <1>5, <1>6
  <2>4. starter \in Boot
    <3>1. <<>> \in Seq(Nat)
      OBVIOUS
    <3> QED  BY <1>1, <1>2, <3>1 DEF Boot
  <2>5. contact \in [Names -> Int] /\ mut \in Caller
    BY <1>2, NobodyCalls DEF Never
  <2> QED  BY <1>1, <1>2, <1>5, <2>1, <2>2, <2>3, <2>4, <2>5 DEF Types
<1>8. Locks
  BY <1>5 DEF Locks, Busy, NoLock
<1>9. Booting
  <2>1. Ordered(Initial)
    <3>1. \A k \in DOMAIN Initial : Initial[k] \in SX!ToSet(Initial)
      BY DEF SX!ToSet
    <3>2. \A k \in DOMAIN Initial : cur[Initial[k]] # 0
      BY <1>3, <1>6, <3>1
    <3> QED  BY <1>1, <1>6, <3>2 DEF Ordered
  <2> QED  BY <1>2, <1>5, <2>1 DEF Booting
<1>10. Mutating
  BY <1>2 DEF Mutating, Nobody
<1>11. Workers
  BY <1>5 DEF Workers, Running
<1> QED  BY <1>7, <1>8, <1>9, <1>10, <1>11 DEF IInv

\* Every step keeps the invariant.
LEMMA NextHolds == IInv /\ [Next]_vars => IInv'
<1> SUFFICES ASSUME IInv, [Next]_vars
             PROVE  IInv'
  OBVIOUS
<1>1. CASE UNCHANGED vars
  <2>1. objs \in [Ids -> Obj]
    BY ObjectSeq DEF IInv, Types, Ids
  <2>2. \A i \in Ids : Evolves(objs[i], objs'[i])
    BY <1>1, <2>1 DEF Evolves, IInv, Locks, vars
  <2> QED  BY <1>1, <2>2, EvolvingKeeps DEF vars, IInv, Types, Ids
<1>2. CASE \E i \in Ids : WorkerStep(i)
  BY <1>2, WorkerKeeps
<1>3. CASE Start \/ StartStep
  BY <1>3, StartKeeps, BootRefreshKeeps, BootNextKeeps, BootRunKeeps DEF StartStep
<1>4. CASE (\E n \in Names : HandleNotify(n) \/ MasterPublishes(n)) \/ Tick \/ Close \/ CloseReturn
  BY <1>4, SurroundingsKeep
<1>5. CASE \E n \in Names : UpsertStopped(n) \/ Remove(n)
  BY <1>5, UpsertStoppedKeeps, RemoveKeeps
<1>6. CASE \/ \E n \in Names, kind \in {"upsert", "reset"} : Upsert(n, kind)
           \/ \E plan \in [Names -> Plans] : ApplyBatch(plan)
  BY <1>6, EnterKeeps
<1>7. CASE MutatorStep
  BY <1>7, LockKeeps, FetchKeeps, SwapKeeps, CancelKeeps, RemoveReturnKeeps DEF MutatorStep
<1> QED  BY <1>1, <1>2, <1>3, <1>4, <1>5, <1>6, <1>7 DEF Next, Plans

\* The bookkeeping of Start, of the callers and of the workers agrees in every
\* reachable state of every deployment.
THEOREM Invariance == Spec => []IInv
<1>1. Init => IInv
  BY InitHolds
<1>2. IInv /\ [Next]_vars => IInv'
  BY NextHolds
<1> QED  BY <1>1, <1>2, PTL DEF Spec

-----------------------------------------------------------------------------
(* The clocks and the number of objects.                                   *)

\* What every step keeps of the table's size: only Upsert before Start and
\* SwapObjects make objects, and only the calls count.
LEMMA Sizes ==
    ASSUME IInv, IInv',
           \/ \E i \in Ids : WorkerStep(i)
           \/ Start \/ StartStep
           \/ \E n \in Names : HandleNotify(n) \/ MasterPublishes(n)
           \/ \E n \in Names : LockZone(n) \/ PrefetchOK(n) \/ PrefetchFails(n)
           \/ Quiesced \/ PublishAll \/ CancelReplaced \/ RemoveReturn
           \/ Close \/ CloseReturn \/ Tick
    PROVE  /\ Len(objs') = Len(objs) /\ UNCHANGED <<cfg, made>>
           /\ mut'.at \in {"lock", "fetch", "swap"} => mut.at \in {"lock", "fetch", "swap"}
<1>1. mut \in Caller /\ Types /\ objs' \in Seq(Obj)' /\ mut' \in Caller'
  BY DEF IInv, Types
<1>2. Nobody.at = "idle"
  BY DEF Nobody
<1>3. ASSUME DOMAIN objs' = DOMAIN objs
      PROVE  Len(objs') = Len(objs)
  BY <1>1, <1>3 DEF Types
<1>4. CASE \E i \in Ids : WorkerStep(i)
  BY <1>4, WorkerEvolves, OneEvolves
<1>5. CASE Start
  BY <1>5 DEF Start, env
<1>6. CASE StartStep
  <2>1. CASE BootRefresh
    <3>1. DOMAIN objs' = DOMAIN objs /\ UNCHANGED <<cfg, made, mut>>
      BY <2>1 DEF BootRefresh, env
    <3> QED  BY <1>3, <3>1
  <2>2. CASE BootNext
    <3>1. DOMAIN objs' = DOMAIN objs /\ UNCHANGED <<cfg, made, mut>>
      BY <2>2 DEF BootNext, env
    <3> QED  BY <1>3, <3>1
  <2>3. CASE BootRun
    <3>1. DOMAIN objs' = DOMAIN objs /\ UNCHANGED <<cfg, made, mut>>
      BY <2>3 DEF BootRun, env, Ids
    <3> QED  BY <1>3, <3>1
  <2> QED  BY <1>6, <2>1, <2>2, <2>3 DEF StartStep
<1>7. CASE \E n \in Names : HandleNotify(n) \/ MasterPublishes(n)
  <2>1. DOMAIN objs' = DOMAIN objs /\ UNCHANGED <<cfg, made, mut>>
    BY <1>7 DEF HandleNotify, MasterPublishes, env
  <2> QED  BY <1>3, <2>1
<1>8. CASE \E n \in Names : LockZone(n)
  <2>1. DOMAIN objs' = DOMAIN objs /\ UNCHANGED <<cfg, made>> /\ mut.at = "lock"
    BY <1>8 DEF LockZone, env
  <2> QED  BY <1>3, <2>1
<1>9. CASE Abort /\ UNCHANGED <<cfg, made>>
  <2>1. DOMAIN objs' = DOMAIN objs /\ mut'.at = "idle"
    BY <1>2, <1>9 DEF Abort, Released
  <2> QED  BY <1>3, <1>9, <2>1
<1>10. CASE UNCHANGED <<objs, cfg, made>> /\ mut.at = "fetch"
  BY <1>10
<1>11. CASE (\E n \in Names : PrefetchOK(n) \/ PrefetchFails(n)) \/ PublishAll
  BY <1>9, <1>10, <1>11 DEF PrefetchOK, PrefetchFails, PublishAll, env
<1>12. CASE CancelReplaced
  BY <1>2, <1>12, CancelIs
<1>13. CASE Quiesced \/ RemoveReturn
  BY <1>2, <1>13 DEF Quiesced, RemoveReturn, env
<1>14. CASE Close \/ CloseReturn \/ Tick
  BY <1>14 DEF Close, CloseReturn, Tick, env
<1> QED  BY <1>4, <1>5, <1>6, <1>7, <1>8, <1>11, <1>12, <1>13, <1>14

\* There is room for every object that the calls made may still add.
LEMMA CountedHolds ==
    ASSUME IInv, IInv', Counted, [Next]_vars
    PROVE  Counted'
<1> DEFINE C == Cardinality(Names)
           L == Len(Initial)
           Owed == IF mut.at \in {"lock", "fetch", "swap"} THEN C ELSE 0
<1>1. /\ Types /\ Len(objs) \in Nat /\ made \in Nat /\ IsFiniteSet(Names) /\ C \in Nat /\ L \in Nat
      /\ MaxMutations \in Nat /\ made <= MaxMutations /\ Len(objs) + Owed <= L + made * C
      /\ Fetching \subseteq Names /\ Len(objs') \in Nat
  BY Deployment, FS_CardinalityType DEF IInv, Types, Counted, Fetching
<1>2. UNCHANGED cfg
  BY DEF Next, vars, env, StartStep, MutatorStep, WorkerStep, Wake, Exit, LockRefresh, FetchOK, FetchFails,
         CheckSerial, AddZone, AfterError, expireIfNeeded, Start, BootRefresh, BootNext, BootRun,
         HandleNotify, UpsertStopped, Remove, MasterPublishes, Upsert, ApplyBatch, LockZone, PrefetchOK,
         PrefetchFails, Quiesced, PublishAll, SwapObjects, CancelReplaced, RemoveReturn, Close,
         CloseReturn, Tick
<1>3. Names' = Names /\ Initial' = Initial /\ MaxMutations' = MaxMutations
  BY <1>2, Fixed
<1>4. (made + 1) * C = made * C + C /\ made * C \in Nat
  BY <1>1
<1> HIDE DEF C, L
<1>5. ASSUME Len(objs') = Len(objs), made' = made,
             mut'.at \in {"lock", "fetch", "swap"} => mut.at \in {"lock", "fetch", "swap"}
      PROVE  Counted'
  BY <1>1, <1>3, <1>4, <1>5 DEF Counted, C, L
<1>6. ASSUME made < MaxMutations, made' = made + 1, Len(objs') <= Len(objs) + (C - Owed'),
             mut.at \notin {"lock", "fetch", "swap"}
      PROVE  Counted'
  <2>1. Len(objs) <= L + made * C
    BY <1>1, <1>6
  <2>2. Owed' = IF mut'.at \in {"lock", "fetch", "swap"} THEN C ELSE 0
    BY <1>3 DEF C
  <2>3. Len(objs') + Owed' <= L + (made + 1) * C
    BY <1>1, <1>4, <1>6, <2>1, <2>2
  <2> QED  BY <1>1, <1>3, <1>6, <2>2, <2>3 DEF Counted, C, L
<1>7. CASE UNCHANGED vars
  BY <1>5, <1>7 DEF vars
<1>8. CASE \/ \E i \in Ids : WorkerStep(i)
           \/ Start \/ StartStep
           \/ \E n \in Names : HandleNotify(n) \/ MasterPublishes(n)
           \/ \E n \in Names : LockZone(n) \/ PrefetchOK(n) \/ PrefetchFails(n)
           \/ Quiesced \/ PublishAll \/ CancelReplaced \/ RemoveReturn
           \/ Close \/ CloseReturn \/ Tick
  BY <1>5, <1>8, Sizes
<1>9. CASE \E n \in Names : UpsertStopped(n)
  <2>1. PICK n \in Names : UpsertStopped(n)
    BY <1>9
  <2>2. /\ made < MaxMutations /\ made' = made + 1 /\ mut' = mut /\ mut.at = "idle"
        /\ objs' = Append(objs, Managed(n))
    BY <2>1 DEF UpsertStopped, MayMutate
  <2>3. Len(objs') = Len(objs) + 1
    BY <1>1, <2>2 DEF Types
  <2>4. C # 0
    BY <1>1, FS_EmptySet DEF C
  <2>5. Owed' = 0
    BY <2>2
  <2>6. Len(objs') <= Len(objs) + (C - Owed')
    BY <1>1, <2>3, <2>4, <2>5
  <2> QED  BY <1>6, <2>2, <2>6
<1>10. CASE \/ \E n \in Names : Remove(n) \/ \E kind \in {"upsert", "reset"} : Upsert(n, kind)
            \/ \E plan \in [Names -> Plans] : ApplyBatch(plan)
  <2>1. made < MaxMutations /\ made' = made + 1 /\ mut.at = "idle" /\ DOMAIN objs' = DOMAIN objs
    BY <1>10 DEF Remove, Upsert, ApplyBatch, MayMutate, BootCatalog
  <2>2. Len(objs') = Len(objs)
    BY <1>1, <2>1 DEF IInv, Types
  <2>3. Owed' \in {0, C}
    BY <1>3 DEF C
  <2>4. Len(objs') <= Len(objs) + (C - Owed')
    BY <1>1, <2>2, <2>3
  <2> QED  BY <1>6, <2>1, <2>4
<1>11. CASE SwapObjects
  <2>1. /\ made' = made /\ mut.at = "swap" /\ mut'.at = "cancel"
        /\ Len(objs') = Len(objs) + Cardinality(Fetching)
    BY <1>11, SwapIs
  <2>2. Cardinality(Fetching) <= C /\ Cardinality(Fetching) \in Nat
    BY <1>1, FS_Subset, FS_CardinalityType DEF C
  <2>3. Len(objs') + 0 <= L + made * C
    BY <1>1, <1>4, <2>1, <2>2
  <2> QED  BY <1>1, <1>3, <2>1, <2>3 DEF Counted, C, L
<1> QED  BY <1>7, <1>8, <1>9, <1>10, <1>11 DEF Next, MutatorStep, Plans

\* How one step may change an object: its clock is set to the time or left, only
\* expireIfNeeded leaves "expire", and only the serial check enters "add".
Steps(i, o, p) ==
    /\ p.name = o.name /\ p.last \in {o.last, now}
    /\ o.at = "expire" => p.at = "expire" \/ expireIfNeeded(i)
    /\ p.at = "add" => p.got = o.got /\ (o.at = "add" \/ CheckSerial(i))

\* The clock of a new object is that of nobody or of the fetch made for its zone.
Given(last) == last = Never \/ \E n \in Names : last = mut.last[n]

\* A worker changes its object so, and no other.
LEMMA WorkerSteps ==
    ASSUME IInv, NEW i \in Ids, WorkerStep(i)
    PROVE  \A j \in Ids : Steps(j, objs[j], objs'[j])
<1>1. objs \in [Ids -> Obj] /\ objs[i] \in Obj
  BY ObjectSeq DEF IInv, Types, Ids
<1>2. ASSUME NEW p, objs' = [objs EXCEPT ![i] = p], Steps(i, objs[i], p)
      PROVE  \A j \in Ids : Steps(j, objs[j], objs'[j])
  <2>1. objs'[i] = p /\ \A j \in Ids : j # i => objs'[j] = objs[j]
    BY <1>1, <1>2
  <2>2. \A j \in Ids : j # i => Steps(j, objs[j], objs'[j])
    BY <2>1 DEF Steps
  <2> QED  BY <1>2, <2>1, <2>2
<1>3. ASSUME NEW at \in Stations \ {"add"}, Move(i, at), objs[i].at = "expire" => expireIfNeeded(i)
      PROVE  \A j \in Ids : Steps(j, objs[j], objs'[j])
  <2>1. Steps(i, objs[i], [objs[i] EXCEPT !.at = at])
    BY <1>1, <1>3 DEF Steps, Obj
  <2> QED  BY <1>2, <1>3, <2>1 DEF Move
<1>4. CASE Wake(i)
  <2>1. CASE Move(i, "refresh") /\ objs[i].at = "select"
    BY <1>3, <2>1 DEF Stations
  <2>2. CASE objs' = [objs EXCEPT ![i].at = "refresh", ![i].trigger = FALSE] /\ objs[i].at = "select"
    <3>1. Steps(i, objs[i], [objs[i] EXCEPT !.at = "refresh", !.trigger = FALSE])
      BY <1>1, <2>2 DEF Steps, Obj
    <3> QED  BY <1>2, <2>2, <3>1
  <2> QED  BY <1>4, <2>1, <2>2 DEF Wake
<1>5. CASE Exit(i)
  BY <1>3, <1>5 DEF Exit, Stations
<1>6. CASE LockRefresh(i)
  <2>1. Steps(i, objs[i], [objs[i] EXCEPT !.at = "fetch", !.opMu = "worker"])
    BY <1>1, <1>6 DEF LockRefresh, Steps, Obj
  <2> QED  BY <1>2, <1>6, <2>1 DEF LockRefresh
<1>7. CASE FetchOK(i)
  <2>1. Steps(i, objs[i], [objs[i] EXCEPT !.at = "check", !.got = master[objs[i].name]])
    BY <1>1, <1>7 DEF FetchOK, Steps, Obj
  <2> QED  BY <1>2, <1>7, <2>1 DEF FetchOK
<1>8. ASSUME objs[i].at # "expire", NEW at \in Stations \ {"add"}
      PROVE  /\ Steps(i, objs[i], Unlocked(objs[i], at))
             /\ Steps(i, objs[i], [Unlocked(objs[i], at) EXCEPT !.last = now])
  BY <1>1, <1>8 DEF Steps, Unlocked, Obj
<1>9. CASE FetchFails(i)
  BY <1>2, <1>8, <1>9 DEF FetchFails, Stations
<1>10. CASE Refreshed(i) /\ objs[i].at \in {"check", "add"}
  <2>1. \A at \in {"ready", "select"} : Steps(i, objs[i], [Unlocked(objs[i], at) EXCEPT !.last = now])
    BY <1>8, <1>10 DEF Stations
  <2> QED  BY <1>2, <1>10, <2>1 DEF Refreshed
<1>11. CASE CheckSerial(i) /\ Move(i, "add")
  <2>1. Steps(i, objs[i], [objs[i] EXCEPT !.at = "add"])
    BY <1>1, <1>11 DEF CheckSerial, Steps, Obj
  <2> QED  BY <1>2, <1>11, <2>1 DEF Move
<1>12. CASE CheckSerial(i)
  BY <1>10, <1>11, <1>12 DEF CheckSerial
<1>13. CASE AddZone(i)
  <2>1. CASE objs' = [objs EXCEPT ![i] = Unlocked(@, "failed")] /\ objs[i].at = "add"
    BY <1>2, <1>8, <2>1 DEF Stations
  <2> QED  BY <1>10, <1>13, <2>1 DEF AddZone
<1>14. CASE AfterError(i)
  BY <1>3, <1>14 DEF AfterError, Stations
<1>15. CASE expireIfNeeded(i)
  BY <1>3, <1>15 DEF expireIfNeeded, Stations
<1> QED  BY <1>4, <1>5, <1>6, <1>7, <1>9, <1>12, <1>13, <1>14, <1>15 DEF WorkerStep

\* Every step changes the objects so, and may also add objects.
LEMMA ObjectsStep ==
    ASSUME IInv, [Next]_vars
    PROVE  /\ Ids \subseteq Ids' /\ \A i \in Ids : Steps(i, objs[i], objs'[i])
           /\ \A i \in Ids' \ Ids : objs'[i].at = "off" /\ Given(objs'[i].last)
<1>1. objs \in [Ids -> Obj] /\ Types /\ \A i \in Ids : Steps(i, objs[i], objs[i])
  BY ObjectSeq DEF IInv, Types, Ids, Steps
<1>2. ASSUME objs' \in Seq(Obj), Ids' = Ids, \A i \in Ids : Steps(i, objs[i], objs'[i])
      PROVE  /\ Ids \subseteq Ids' /\ \A i \in Ids : Steps(i, objs[i], objs'[i])
             /\ \A i \in Ids' \ Ids : objs'[i].at = "off" /\ Given(objs'[i].last)
  BY <1>2
<1>3. CASE UNCHANGED objs
  BY <1>1, <1>3 DEF Ids
<1>4. CASE \E i \in Ids : WorkerStep(i)
  BY <1>4, WorkerSteps, WorkerEvolves, OneEvolves
<1>5. ASSUME NEW i \in Ids, NEW p \in Obj, objs' = [objs EXCEPT ![i] = p], p.name = objs[i].name,
             p.last \in {objs[i].last, now}, objs[i].at = "expire" => p.at = "expire",
             p.at = "add" => p.got = objs[i].got /\ objs[i].at = "add"
      PROVE  Ids' = Ids /\ \A j \in Ids : Steps(j, objs[j], objs'[j])
  <2>1. Ids' = Ids /\ objs'[i] = p /\ \A j \in Ids \ {i} : objs'[j] = objs[j]
    BY <1>1, <1>5, Replaced
  <2>2. Steps(i, objs[i], p)
    BY <1>5 DEF Steps
  <2> QED  BY <1>1, <2>1, <2>2
<1>6. CASE BootRefresh
  <2> DEFINE i == Head(starter.todo)
             p == [objs[i] EXCEPT !.at = "refresh", !.cancellable = TRUE, !.booting = TRUE]
  <2>1. i \in Ids /\ objs[i] \in Obj /\ objs[i].at = "off" /\ objs' = [objs EXCEPT ![i] = p]
    BY <1>6, HeadOfTodo DEF BootRefresh
  <2>2. p \in Obj /\ p.name = objs[i].name /\ p.last = objs[i].last /\ p.at = "refresh"
    BY <2>1 DEF Obj, Stations
  <2> HIDE DEF i, p
  <2> QED  BY <1>5, <2>1, <2>2
<1>7. CASE BootNext
  <2> DEFINE i == Head(starter.todo)
             p == [objs[i] EXCEPT !.at = "ready", !.last = now]
  <2>1. i \in Ids /\ objs[i] \in Obj
    BY <1>7, HeadOfTodo DEF BootNext
  <2>2. UNCHANGED objs \/ (objs[i].at = "failed" /\ objs' = [objs EXCEPT ![i] = p])
    BY <1>7 DEF BootNext
  <2>3. p \in Obj /\ p.name = objs[i].name /\ p.last = now /\ p.at = "ready"
    <3>1. now \in Int
      BY <1>1 DEF Types
    <3> QED  BY <2>1, <3>1 DEF Obj, Stations
  <2> HIDE DEF i, p
  <2> QED  BY <1>3, <1>5, <2>1, <2>2, <2>3
<1>8. CASE BootRun
  <2>1. \A i \in starter.all : i \in Ids /\ objs[i].at = "ready"
    <3>1. DOMAIN starter.todo = {}
      <4>1. DOMAIN <<>> = {}
        OBVIOUS
      <4> QED  BY <1>8, <4>1 DEF BootRun
    <3> QED  BY <1>8, <3>1 DEF IInv, Booting, BootRun
  <2>2. /\ Ids' = Ids
        /\ \A i \in Ids : objs'[i] = IF i \in starter.all
                                     THEN [objs[i] EXCEPT !.at = "select", !.booting = FALSE]
                                     ELSE objs[i]
    BY <1>8 DEF BootRun, Ids
  <2>3. \A i \in Ids : i \in starter.all =>
          Steps(i, objs[i], [objs[i] EXCEPT !.at = "select", !.booting = FALSE])
    BY <1>1, <2>1 DEF Steps, Obj
  <2> QED  BY <1>1, <2>2, <2>3
<1>9. CASE \E n \in Names : HandleNotify(n)
  <2>1. PICK n \in Names : HandleNotify(n)
    BY <1>9
  <2> DEFINE i == cur[n]
             p == [objs[i] EXCEPT !.trigger = TRUE]
  <2>2. i \in Ids /\ objs[i] \in Obj /\ objs' = [objs EXCEPT ![i] = p]
    BY <1>1, <2>1 DEF HandleNotify, Types
  <2>3. /\ p \in Obj /\ p.name = objs[i].name /\ p.last = objs[i].last /\ p.at = objs[i].at
        /\ p.got = objs[i].got
    BY <2>2 DEF Obj
  <2> HIDE DEF i, p
  <2> QED  BY <1>5, <2>2, <2>3
<1>10. CASE \E n \in Names : LockZone(n)
  <2>1. PICK n \in Names : LockZone(n)
    BY <1>10
  <2> DEFINE i == cur[n]
             p == [objs[i] EXCEPT !.opMu = "mutator"]
  <2>2. i \in Ids /\ objs[i] \in Obj /\ objs' = [objs EXCEPT ![i] = p]
    BY <1>1, <2>1 DEF LockZone, ToLock, Planned, Types
  <2>3. /\ p \in Obj /\ p.name = objs[i].name /\ p.last = objs[i].last /\ p.at = objs[i].at
        /\ p.got = objs[i].got
    BY <2>2 DEF Obj
  <2> HIDE DEF i, p
  <2> QED  BY <1>5, <2>2, <2>3
<1>11. CASE \E n \in Names : Remove(n)
  <2>1. PICK n \in Names : Remove(n)
    BY <1>11
  <2> DEFINE i == cur[n]
             p == [objs[i] EXCEPT !.cancelled = objs[i].cancellable]
  <2>2. i \in Ids /\ objs[i] \in Obj /\ objs' = [objs EXCEPT ![i] = p]
    BY <1>1, <2>1 DEF Remove, Types
  <2>3. /\ p \in Obj /\ p.name = objs[i].name /\ p.last = objs[i].last /\ p.at = objs[i].at
        /\ p.got = objs[i].got
    BY <2>2 DEF Obj
  <2> HIDE DEF i, p
  <2> QED  BY <1>5, <2>2, <2>3
<1>12. CASE \E n \in Names : UpsertStopped(n)
  <2>1. PICK n \in Names : objs' = Append(objs, Managed(n))
    BY <1>12 DEF UpsertStopped
  <2>2. Managed(n) \in Obj /\ Managed(n).at = "off" /\ Given(Managed(n).last) /\ objs \in Seq(Obj)
    BY <1>1, Deployment, ManagedIs DEF Types, Given
  <2>3. /\ Ids = 1 .. Len(objs) /\ Len(objs) \in Nat /\ Ids' = 1 .. Len(objs) + 1
        /\ objs'[Len(objs) + 1] = Managed(n) /\ \A i \in Ids : objs'[i] = objs[i]
    BY <2>1, <2>2, AppendProperties DEF Ids
  <2> QED  BY <1>1, <2>2, <2>3
<1>13. CASE Abort
  <2>1. /\ Ids' = Ids
        /\ \A i \in Ids : objs'[i].name = objs[i].name /\ objs'[i].at = objs[i].at
                          /\ objs'[i].last = objs[i].last /\ objs'[i].got = objs[i].got
    <3>1. Released(objs) \in [Ids -> Obj]
      BY <1>1, Releasing
    <3>2. objs' = Released(objs) /\ Ids' = DOMAIN objs'
      BY <1>13 DEF Abort, Ids
    <3> QED  BY <1>1, <3>1, <3>2, Releasing
  <2> QED  BY <2>1 DEF Steps
<1>14. CASE SwapObjects
  <2>1. /\ Ids \subseteq Ids' /\ \A i \in Ids : objs'[i] = objs[i]
        /\ \A i \in Ids' \ Ids : objs'[i].at = "off" /\ \E n \in Fetching : objs'[i].last = mut.last[n]
    BY <1>14, SwapIs
  <2>2. \A i \in Ids' \ Ids : Given(objs'[i].last)
    BY <2>1 DEF Given, Fetching
  <2> QED  BY <1>1, <2>1, <2>2
<1>15. CASE CancelReplaced
  <2>1. /\ Ids' = Ids
        /\ \A i \in Ids : /\ objs'[i].name = objs[i].name
                          /\ objs'[i].last = objs[i].last /\ objs'[i].got = objs[i].got
                          /\ \/ objs'[i].at = objs[i].at
                             \/ objs'[i].at = "select" /\ \E n \in Fetching : cur[n] = i
    BY <1>15, CancelIs
  <2>2. \A n \in Fetching : objs[cur[n]].at = "off"
    BY <1>15 DEF CancelReplaced, IInv, Mutating, Fetching, Planned
  <2> QED  BY <2>1, <2>2 DEF Steps
<1>16. CASE UNCHANGED vars \/ Start \/ (\E n \in Names : MasterPublishes(n)) \/ Close \/ CloseReturn \/ Tick
            \/ (\E n \in Names, kind \in {"upsert", "reset"} : Upsert(n, kind))
            \/ (\E plan \in [Names -> Plans] : ApplyBatch(plan))
            \/ Quiesced \/ RemoveReturn \/ \E n \in Names : PrefetchOK(n)
  <2>1. UNCHANGED objs
    BY <1>16 DEF vars, Start, MasterPublishes, Close, CloseReturn, Tick, Upsert, ApplyBatch, Quiesced,
                 RemoveReturn, PrefetchOK
  <2> QED  BY <1>3, <2>1
<1>17. CASE PublishAll \/ \E n \in Names : PrefetchFails(n)
  BY <1>3, <1>13, <1>17 DEF PublishAll, PrefetchFails
<1> QED  BY <1>4, <1>6, <1>7, <1>8, <1>9, <1>10, <1>11, <1>12, <1>14, <1>15, <1>16, <1>17
         DEF Next, StartStep, MutatorStep, Plans

\* Only the clock itself moves the time, and forwards.
LEMMA TimeSteps ==
    ASSUME IInv, [Next]_vars
    PROVE  UNCHANGED cfg /\ (now' = now \/ now' = now + 1)
BY DEF Next, vars, env, StartStep, MutatorStep, WorkerStep, Wake, Exit, LockRefresh, FetchOK, FetchFails,
       CheckSerial, AddZone, AfterError, expireIfNeeded, Start, BootRefresh, BootNext, BootRun,
       HandleNotify, UpsertStopped, Remove, MasterPublishes, Upsert, ApplyBatch, LockZone, PrefetchOK,
       PrefetchFails, Quiesced, PublishAll, SwapObjects, CancelReplaced, RemoveReturn, Close,
       CloseReturn, Tick

\* The caller's times are forgotten, kept, or those of a fetch it makes now: the
\* time itself or the expiry clock of the object it replaces.
LEMMA CallerSteps ==
    ASSUME IInv, [Next]_vars, NEW n \in Names
    PROVE  \/ mut'.last[n] = Never
           \/ mut'.last[n] = mut.last[n]
           \/ mut'.last[n] = now
           \/ mut.last[n] = Never /\ cur[n] # 0 /\ mut'.last[n] = objs[cur[n]].last
<1>1. mut \in Caller /\ \A m \in Names : Nobody.last[m] = Never
  BY DEF IInv, Types, Nobody
<1>2. CASE mut' = mut \/ mut' = Nobody
  BY <1>1, <1>2
<1>3. CASE \E m \in Names : PrefetchOK(m)
  BY <1>1, <1>3 DEF PrefetchOK, Caller
<1>4. CASE \E m \in Names : PrefetchFails(m)
  <2>1. PICK m \in Names : PrefetchFails(m)
    BY <1>4
  <2> DEFINE old == IF cur[m] = 0 THEN Never ELSE objs[cur[m]].last
  <2>2. \/ mut' = Nobody
        \/ mut' = [mut EXCEPT !.last[m] = IF old = Never THEN now ELSE old] /\ mut.last[m] = Never
    BY <2>1 DEF PrefetchFails, Abort, ToFetch
  <2>3. old # Never => cur[m] # 0 /\ old = objs[cur[m]].last
    OBVIOUS
  <2> HIDE DEF old
  <2> QED  BY <1>1, <1>2, <2>2, <2>3 DEF Caller
<1>5. CASE Quiesced \/ PublishAll \/ SwapObjects
  <2>1. mut' = Nobody \/ mut'.last = mut.last
    BY <1>1, <1>5 DEF Quiesced, PublishAll, SwapObjects, Abort, Caller
  <2> QED  BY <1>2, <2>1
<1>6. CASE \/ \E m \in Names : Remove(m) \/ \E kind \in {"upsert", "reset"} : Upsert(m, kind)
           \/ \E plan \in [Names -> {"none", "upsert", "reset", "remove"}] : ApplyBatch(plan)
  <2>1. mut'.last = Nobody.last
    BY <1>6, NobodyCalls DEF Remove, Upsert, ApplyBatch, Caller
  <2> QED  BY <1>1, <2>1
<1>7. CASE \/ \E i \in Ids : WorkerStep(i)
           \/ Start \/ StartStep \/ Close \/ CloseReturn \/ Tick \/ CancelReplaced \/ RemoveReturn
           \/ \E m \in Names : HandleNotify(m) \/ UpsertStopped(m) \/ MasterPublishes(m) \/ LockZone(m)
           \/ UNCHANGED vars
  <2>1. CASE \E m \in Names : LockZone(m)
    <3>1. mut'.last = mut.last
      BY <1>1, <2>1 DEF LockZone, Caller
    <3> QED  BY <3>1
  <2>2. CASE ~\E m \in Names : LockZone(m)
    <3>1. mut' = mut \/ mut' = Nobody
      BY <1>7, <2>2 DEF StartStep, WorkerStep, Wake, Exit, LockRefresh, FetchOK, FetchFails, CheckSerial,
         AddZone, AfterError, expireIfNeeded, Start, BootRefresh, BootNext, BootRun, HandleNotify,
         UpsertStopped, MasterPublishes, CancelReplaced, RemoveReturn, Close, CloseReturn, Tick, vars
    <3> QED  BY <1>2, <3>1
  <2> QED  BY <2>1, <2>2
<1> QED  BY <1>3, <1>4, <1>5, <1>6, <1>7 DEF Next, MutatorStep

\* A contact is a transfer that ends now, or one the caller made when it fetched.
LEMMA ContactSteps ==
    ASSUME IInv, [Next]_vars, NEW n \in Names
    PROVE  \/ contact'[n] = contact[n]
           \/ contact'[n] = now /\ \E i \in Ids : objs[i].name = n /\ (CheckSerial(i) \/ AddZone(i))
           \/ contact'[n] = mut.last[n] /\ PublishAll
<1>1. contact \in [Names -> Int]
  BY DEF IInv, Types
<1>2. CASE \E i \in Ids : CheckSerial(i) \/ AddZone(i)
  BY <1>1, <1>2 DEF CheckSerial, AddZone
<1>3. CASE PublishAll
  BY <1>1, <1>3 DEF PublishAll
<1>4. CASE ~PublishAll /\ ~\E i \in Ids : CheckSerial(i) \/ AddZone(i)
  <2>1. contact' = contact
    BY <1>4
       DEF Next, vars, StartStep, MutatorStep, WorkerStep, Wake, Exit, LockRefresh, FetchOK, FetchFails,
       AfterError, expireIfNeeded, Start, BootRefresh, BootNext, BootRun,
       HandleNotify, UpsertStopped, Remove, MasterPublishes, Upsert, ApplyBatch, LockZone, PrefetchOK,
       PrefetchFails, Quiesced, SwapObjects, CancelReplaced, RemoveReturn, Close, CloseReturn, Tick
  <2> QED  BY <2>1
<1> QED  BY <1>2, <1>3, <1>4

\* No clock ever runs ahead of the time.
LEMMA ClocksHold ==
    ASSUME IInv, IInv', Clocks, [Next]_vars
    PROVE  Clocks'
<1>1. Names' = Names /\ now \in Nat /\ now' \in Nat /\ (now' = now \/ now' = now + 1) /\ now' >= now
  BY TimeSteps, Fixed DEF IInv, Types
<1>2. \A t \in Never .. now : t \in Never .. now'
  BY <1>1 DEF Never
<1>3. Never \in Never .. now' /\ now \in Never .. now'
  BY <1>1 DEF Never
<1>4. /\ \A i \in Ids : objs[i].last \in Never .. now
      /\ \A n \in Names : mut.last[n] \in Never .. now /\ contact[n] \in Never .. now
      /\ \A n \in Names : cur[n] # 0 => cur[n] \in Ids
  BY DEF Clocks, IInv, Types
<1>5. \A i \in Ids' : objs'[i].last \in Never .. now'
  <2>1. \A i \in Ids : objs'[i].last \in {objs[i].last, now}
    BY ObjectsStep DEF Steps
  <2>2. \A i \in Ids' \ Ids : objs'[i].last = Never \/ \E n \in Names : objs'[i].last = mut.last[n]
    BY ObjectsStep DEF Given
  <2> QED  BY <1>2, <1>3, <1>4, <2>1, <2>2
<1>6. \A n \in Names : mut'.last[n] \in Never .. now'
  BY <1>2, <1>3, <1>4, CallerSteps
<1>7. \A n \in Names : contact'[n] \in Never .. now'
  BY <1>2, <1>3, <1>4, ContactSteps
<1> QED  BY <1>1, <1>5, <1>6, <1>7 DEF Clocks

\* Initially there are the configured objects, and no clock has started.
LEMMA InitCounts == Init => Clocks /\ Counted
<1> SUFFICES ASSUME Init  PROVE Clocks /\ Counted
  OBVIOUS
<1>2. /\ Types /\ now = 0 /\ made = 0 /\ mut = Nobody /\ contact = [n \in Names |-> Never]
      /\ objs = [k \in DOMAIN Initial |-> Managed(Initial[k])]
  BY InitHolds DEF Init, IInv
<1>3. Initial \in Seq(Names) /\ IsFiniteSet(Names) /\ MaxMutations \in Nat
  BY <1>2, Deployment DEF Types
<1>4. Len(Initial) \in Nat /\ DOMAIN Initial = 1 .. Len(Initial)
  BY <1>3
<1>5. Len(objs) = Len(Initial)
  <2>1. objs \in Seq(Obj) /\ DOMAIN objs = 1 .. Len(Initial)
    BY <1>2, <1>4 DEF Types
  <2> QED  BY <1>4, <2>1
<1>6. Cardinality(Names) \in Nat
  BY <1>3, FS_CardinalityType
<1>7. Clocks
  BY <1>2 DEF Clocks, Managed, Nobody, Never, Ids
<1>8. Counted
  <2>1. mut.at = "idle"
    BY <1>2 DEF Nobody
  <2> QED  BY <1>2, <1>3, <1>4, <1>5, <1>6, <2>1 DEF Counted
<1> QED  BY <1>7, <1>8

\* Together with the invariant they say that the table and its clocks are sound.
LEMMA TypesAreOK ==
    ASSUME IInv, Clocks, Counted
    PROVE  TypeOK
<1>1. /\ objs \in [Ids -> Obj] /\ Len(objs) \in Nat /\ Ids = 1 .. Len(objs) /\ made \in Nat
      /\ Cardinality(Names) \in Nat /\ MaxMutations \in Nat /\ Len(Initial) \in Nat
  BY ObjectSeq, Deployment, FS_CardinalityType DEF IInv, Types, Ids
<1>2. Len(objs) <= MaxObjects /\ MaxObjects \in Nat
  <2> DEFINE C == Cardinality(Names)
  <2>1. MaxObjects = Len(Initial) + MaxMutations * C
    BY DEF MaxObjects, Objects, Initial, MaxMutations, Names
  <2>2. made <= MaxMutations /\ Len(objs) <= Len(Initial) + made * C
    <3>1. made * C \in Nat
      BY <1>1
    <3> QED  BY <1>1, <3>1 DEF Counted
  <2> HIDE DEF C
  <2>3. C \in Nat
    BY <1>1 DEF C
  <2>4. made * C \in Nat /\ MaxMutations * C \in Nat /\ made * C <= MaxMutations * C
    BY <1>1, <2>2, <2>3
  <2> QED  BY <1>1, <2>1, <2>2, <2>4
<1>3. cur \in [Names -> 0 .. MaxObjects]
  <2>1. \A n \in Names : cur[n] \in Nat /\ (cur[n] # 0 => cur[n] \in 1 .. Len(objs))
    BY <1>1 DEF IInv, Types
  <2>2. \A n \in Names : cur[n] \in 0 .. MaxObjects
    BY <1>1, <1>2, <2>1
  <2> QED  BY <2>2 DEF IInv, Types
<1>4. \A i \in Ids : /\ objs[i].name \in Names /\ objs[i].last \in Never .. now
                     /\ objs[i].opMu \in {NoLock, "worker", "mutator"}
  BY <1>1 DEF Clocks, Obj
<1> QED  BY <1>2, <1>3, <1>4 DEF TypeOK, IInv, Types

\* Two workers of one zone would both be the one in the table, or one of them the
\* object being replaced, whose successor has not been started.
LEMMA OneWorker == IInv => OneWorkerPerZone
<1> SUFFICES ASSUME IInv, NEW i \in Ids, NEW j \in Ids, Running(i), Running(j),
                    objs[i].name = objs[j].name, ~Overlooked(i), ~Overlooked(j)
             PROVE  i = j
  BY DEF OneWorkerPerZone
<1> DEFINE n == objs[i].name
<1>1. \A k \in {i, j} : cur[n] = k \/ (mut.at = "cancel" /\ n \in Planned /\ mut.got[n] = k)
  BY DEF IInv, Workers
<1>2. mut.at = "cancel" /\ n \in Planned => \/ cur[n] = 0
                                            \/ objs[cur[n]].at = "off"
  BY DEF IInv, Mutating
<1>3. i # 0 /\ j # 0
  BY ObjectSeq DEF IInv, Types, Ids
<1> QED  BY <1>1, <1>2, <1>3 DEF Running

\* The caller holds the opMu of every zone it fetches for, so no worker does.
LEMMA AllQuiesced == IInv => QuiescedWhilePrepared
<1> SUFFICES ASSUME IInv, mut.at \in {"fetch", "swap"}, NEW n \in Planned, cur[n] # 0
             PROVE  objs[cur[n]].at \notin Busy /\ objs[cur[n]].opMu = "mutator"
  BY DEF QuiescedWhilePrepared, Busy
<1>1. n \in mut.locked
  BY DEF IInv, Mutating
<1>2. objs[cur[n]].opMu = "mutator"
  BY <1>1 DEF IInv, Mutating
<1>3. cur[n] \in Ids
  BY DEF IInv, Types, Planned
<1> QED  BY <1>2, <1>3 DEF IInv, Locks

-----------------------------------------------------------------------------
\* In every reachable state the clocks are sound and there is room for what the
\* calls made so far may still add (SecondaryManager.TypeOK).
THEOREM TypesHold == Spec => []TypeOK
<1>1. Init => IInv /\ Clocks /\ Counted
  BY InitHolds, InitCounts
<1>2. (IInv /\ Clocks /\ Counted) /\ [Next]_vars => (IInv /\ Clocks /\ Counted)'
  BY NextHolds, ClocksHold, CountedHolds
<1>3. IInv /\ Clocks /\ Counted => TypeOK
  BY TypesAreOK
<1> QED  BY <1>1, <1>2, <1>3, PTL DEF Spec

\* Whatever Upsert, ApplyBatch, Remove, Start and the workers do, each zone has
\* one worker (manager.go:102) and none is at work on a zone while a batch
\* replaces it (manager.go:271).
THEOREM WorkersAlwaysExclusive == Spec => []WorkersExclusive
<1>1. IInv => OneWorkerPerZone /\ QuiescedWhilePrepared
  BY OneWorker, AllQuiesced
<1>2. OneWorkerPerZone /\ QuiescedWhilePrepared /\ TypeOK => WorkersExclusive
  BY DEF WorkersExclusive
<1> QED  BY <1>1, <1>2, Invariance, TypesHold, PTL

-----------------------------------------------------------------------------
(* Serials and expiry: how a step changes the store, the table and the     *)
(* caller.                                                                 *)

\* A zone is served anew only by a worker that publishes or by the caller.
LEMMA StoreSteps ==
    ASSUME IInv, [Next]_vars, NEW n \in Names
    PROVE  \/ store'[n] = store[n]
           \/ store'[n] = 0
           \/ /\ store'[n] # 0
              /\ \E i \in Ids : /\ objs[i].name = n /\ AddZone(i) /\ store'[n] = objs[i].got
                                /\ objs'[i].at # "add"
           \/ /\ store'[n] # 0
              /\ PublishAll /\ n \in Fetching /\ store'[n] = mut.got[n] /\ mut.got[n] > 0
              /\ \/ mut.kind = "batch" \/ mut.plan[n] = "reset"
                 \/ store[n] = 0 \/ mut.got[n] > store[n]
<1>1. store \in [Names -> 0 .. MaxSerial] /\ objs \in [Ids -> Obj]
  BY ObjectSeq DEF IInv, Types, Ids
<1>2. CASE \E i \in Ids : AddZone(i)
  <2>1. PICK i \in Ids : AddZone(i)
    BY <1>2
  <2>2. \/ store' = store
        \/ store' = [store EXCEPT ![objs[i].name] = objs[i].got] /\ Refreshed(i)
    BY <2>1 DEF AddZone
  <2>3. Refreshed(i) => objs'[i].at \in {"ready", "select"}
    BY <1>1 DEF Refreshed, Unlocked, Obj
  <2> QED  BY <1>1, <2>1, <2>2, <2>3
<1>3. CASE \E i \in Ids : expireIfNeeded(i)
  BY <1>1, <1>3 DEF expireIfNeeded
<1>4. CASE PublishAll
  BY <1>1, <1>4 DEF PublishAll
<1>5. CASE ~PublishAll /\ ~\E i \in Ids : AddZone(i) \/ expireIfNeeded(i)
  <2>1. store' = store
    BY <1>5
       DEF Next, vars, StartStep, MutatorStep, WorkerStep, Wake, Exit, LockRefresh, FetchOK, FetchFails,
       CheckSerial, AfterError, Start, BootRefresh, BootNext, BootRun, HandleNotify, UpsertStopped,
       Remove, MasterPublishes, Upsert, ApplyBatch, LockZone, PrefetchOK, PrefetchFails, Quiesced,
       SwapObjects, CancelReplaced, RemoveReturn, Close, CloseReturn, Tick
  <2> QED  BY <2>1
<1> QED  BY <1>2, <1>3, <1>4, <1>5

\* A zone gets a new entry before Start, or from the caller with the clock of its
\* fetch; what Start refreshes is settled when it begins.
LEMMA TableSteps ==
    ASSUME IInv, [Next]_vars
    PROVE  /\ \A n \in Names :
                \/ cur'[n] \in {0, cur[n]}
                \/ starter.at = "new" /\ cur'[n] \in Ids' \ Ids /\ contact' = contact
                \/ /\ mut.at = "swap" /\ mut'.at = "cancel" /\ n \in Fetching /\ contact' = contact
                   /\ cur'[n] \in Ids' \ Ids /\ objs'[cur'[n]].last = mut.last[n]
           /\ starter'.all = starter.all \/ starter.at = "new"
           /\ mut.at = "swap" => mut' = mut \/ (mut'.at = "cancel" /\ \A n \in Fetching : cur'[n] \in Ids' \ Ids)
<1>1. cur \in [Names -> Nat] /\ starter \in Boot
  BY DEF IInv, Types
<1>2. CASE SwapObjects
  BY <1>2, SwapIs
<1>3. CASE \E n \in Names : UpsertStopped(n)
  <2>1. PICK n \in Names : UpsertStopped(n)
    BY <1>3
  <2>2. /\ objs' = Append(objs, Managed(n)) /\ starter.at = "new" /\ mut' = mut /\ contact' = contact
        /\ cur' = [cur EXCEPT ![n] = Len(objs) + 1]
    BY <2>1 DEF UpsertStopped, MayMutate, Began
  <2>3. Managed(n) \in Obj /\ objs \in Seq(Obj)
    BY Deployment, ManagedIs DEF IInv, Types
  <2>4. Len(objs) + 1 \in Ids' \ Ids
    BY <2>2, <2>3, AppendProperties DEF Ids
  <2> QED  BY <1>1, <2>2, <2>4
<1>4. CASE \E n \in Names : Remove(n)
  BY <1>1, <1>4 DEF Remove, MayMutate, Boot
<1>5. CASE ~SwapObjects /\ ~\E n \in Names : UpsertStopped(n) \/ Remove(n)
  <2>1. cur' = cur
    BY <1>5
       DEF Next, vars, StartStep, MutatorStep, WorkerStep, Wake, Exit, LockRefresh, FetchOK, FetchFails,
       CheckSerial, AddZone, expireIfNeeded, AfterError, Start, BootRefresh, BootNext, BootRun, HandleNotify,
       MasterPublishes, Upsert, ApplyBatch, LockZone, PrefetchOK, PrefetchFails, Quiesced,
       PublishAll, CancelReplaced, RemoveReturn, Close, CloseReturn, Tick
  <2>2. mut.at = "swap" => mut' = mut
    BY <1>5
       DEF Next, vars, StartStep, MutatorStep, WorkerStep, Wake, Exit, LockRefresh, FetchOK, FetchFails,
       CheckSerial, AddZone, expireIfNeeded, AfterError, Start, BootRefresh, BootNext, BootRun, HandleNotify,
       MasterPublishes, Upsert, ApplyBatch, MayMutate, BootCatalog, LockZone, PrefetchOK, PrefetchFails,
       Quiesced, PublishAll, CancelReplaced, RemoveReturn, Close, CloseReturn, Tick
  <2>3. starter'.all = starter.all \/ starter.at = "new"
    <3>1. CASE Start
      BY <3>1 DEF Start
    <3>2. CASE BootNext \/ BootRun
      BY <1>1, <3>2 DEF BootNext, BootRun, Boot
    <3>3. CASE ~Start /\ ~BootNext /\ ~BootRun
      BY <1>5, <3>3
         DEF Next, vars, StartStep, MutatorStep, WorkerStep, Wake, Exit, LockRefresh, FetchOK, FetchFails,
         CheckSerial, AddZone, expireIfNeeded, AfterError, BootRefresh, HandleNotify, MasterPublishes,
         Upsert, ApplyBatch, LockZone, PrefetchOK, PrefetchFails, Quiesced,
         PublishAll, CancelReplaced, RemoveReturn, Close, CloseReturn, Tick
    <3> QED  BY <3>1, <3>2, <3>3
  <2> QED  BY <2>1, <2>2, <2>3
<1> QED  BY <1>2, <1>3, <1>4, <1>5

\* An object Start overlooks it overlooks for ever.
LEMMA OverlookedStays ==
    ASSUME IInv, [Next]_vars
    PROVE  /\ \A i \in Ids : Overlooked(i) => Overlooked(i)'
           /\ \A n \in Names : Unshared(n)' => Unshared(n)
<1>1. /\ Catalogs' = Catalogs /\ Ids \subseteq Ids' /\ \A i \in Ids : objs'[i].name = objs[i].name
      /\ \A i \in Ids : i # 0 /\ objs[i].name \in Names
  <2>1. objs \in [Ids -> Obj] /\ Ids = 1 .. Len(objs)
    BY ObjectSeq DEF IInv, Types, Ids
  <2> QED  BY <2>1, TimeSteps, Fixed, ObjectsStep DEF Steps, Obj
<1>2. starter.at = "new" => starter.all = {}
  BY DEF IInv, Booting
<1>3. ASSUME NEW i \in Ids, Overlooked(i)
      PROVE  Overlooked(i)'
  <2>1. starter'.all = starter.all /\ i \in starter.all /\ starter.at # "new" /\ Catalogs # {}
    BY <1>2, <1>3, TableSteps DEF Overlooked
  <2>2. cur'[objs[i].name] # i
    BY <1>1, <1>3, <2>1, TableSteps DEF Overlooked
  <2> QED  BY <1>1, <2>1, <2>2 DEF Overlooked
<1> QED  BY <1>1, <1>3 DEF Unshared

\* A worker about to publish is the one in the table, and no caller is fetching
\* for its zone, or it is the one Remove waits for.
LEMMA Working ==
    ASSUME IInv, NEW i \in Ids, objs[i].at \in {"check", "add"}, Unshared(objs[i].name)
    PROVE  LET n == objs[i].name IN
           \/ cur[n] = i /\ ~(mut.at \in {"fetch", "swap"} /\ n \in Planned)
           \/ mut.at = "await" /\ mut.kind = "remove" /\ mut.got[n] = i /\ cur[n] = 0
<1> DEFINE n == objs[i].name
<1>1. ~Overlooked(i) /\ objs[i].opMu = "worker" /\ i # Never /\ n \in Names /\ i # 0
  <2>1. objs \in [Ids -> Obj] /\ Ids = 1 .. Len(objs)
    BY ObjectSeq DEF IInv, Types, Ids
  <2> QED  BY <2>1 DEF IInv, Locks, Busy, Unshared, Obj, Never
<1>2. CASE objs[i].cancelled
  <2>1. mut.at = "await" /\ mut.got[n] = i
    BY <1>2 DEF IInv, Workers
  <2> QED  BY <1>1, <2>1 DEF IInv, Mutating
<1>3. CASE ~objs[i].cancelled
  <2>1. cur[n] = i \/ (mut.at = "cancel" /\ n \in Planned /\ mut.got[n] = i)
    BY <1>1, <1>3 DEF IInv, Workers, Running
  <2>2. ~(mut.at = "cancel" /\ n \in Planned /\ mut.got[n] = i)
    BY <1>1 DEF IInv, Mutating
  <2>3. mut.at \in {"fetch", "swap"} /\ n \in Planned => cur[n] # i
    BY <1>1, AllQuiesced DEF QuiescedWhilePrepared
  <2> QED  BY <2>1, <2>2, <2>3
<1> QED  BY <1>2, <1>3

-----------------------------------------------------------------------------
\* Once Remove has returned, no late transfer brings the zone back, whatever
\* worker, NOTIFY or batch is under way (manager.go:449).
THEOREM RemovedAlwaysStaysAway == Spec => RemovedStaysAway
<1>1. ASSUME IInv, [Next]_vars, NEW n \in Names, store'[n] > store[n], cur[n] = 0, Unshared(n)
      PROVE  mut.plan[n] # "none" \/ (mut.kind = "remove" /\ mut.got[n] # Never)
  <2>1. store[n] \in Nat /\ store'[n] # store[n] /\ store'[n] # 0
    <3>1. store[n] \in 0 .. MaxSerial /\ MaxSerial \in Nat
      BY <1>1, Deployment DEF IInv, Types
    <3> QED  BY <1>1, <3>1
  <2>2. CASE PublishAll /\ n \in Fetching
    BY <2>2 DEF Fetching
  <2>3. CASE \E i \in Ids : objs[i].name = n /\ AddZone(i)
    <3>1. PICK i \in Ids : objs[i].name = n /\ AddZone(i)
      BY <2>3
    <3>2. objs[i].at = "add" /\ i # 0 /\ i # Never
      <4>1. Ids = 1 .. Len(objs)
        BY <1>1, ObjectSeq DEF IInv, Types, Ids
      <4> QED  BY <3>1, <4>1 DEF AddZone, Never
    <3> QED  BY <1>1, <3>1, <3>2, Working
  <2> QED  BY <1>1, <2>1, <2>2, <2>3, StoreSteps
<1>2. IInv /\ [Next]_vars
      => [\A n \in Names :
            (store'[n] > store[n] /\ cur[n] = 0 /\ Unshared(n))
            => mut.plan[n] # "none" \/ (mut.kind = "remove" /\ mut.got[n] # Never)]_vars
  BY <1>1
<1> QED  BY <1>2, Invariance, PTL DEF Spec, RemovedStaysAway

-----------------------------------------------------------------------------
\* How the caller gets to its fetches, and from there to the swap.
LEMMA CallerStages ==
    ASSUME IInv, [Next]_vars
    PROVE  /\ mut'.at = "lock" =>
                \/ \A n \in Names : mut'.got[n] = Never /\ mut'.last[n] = Never
                \/ mut.at = "lock" /\ mut'.got = mut.got /\ mut'.last = mut.last
           /\ mut'.at = "fetch" =>
                /\ mut'.plan = mut.plan /\ mut'.kind = mut.kind
                /\ \/ mut.at \in {"lock", "fetch"} /\ mut'.got = mut.got /\ mut'.last = mut.last
                   \/ /\ mut.at = "fetch"
                      /\ \A n \in Names :
                           \/ mut'.got[n] = mut.got[n] /\ mut'.last[n] = mut.last[n]
                           \/ PrefetchOK(n)
                           \/ mut'.got[n] = mut.got[n] /\ PrefetchFails(n)
           /\ mut'.at = "swap" =>
                \/ mut' = mut
                \/ /\ mut'.plan = mut.plan /\ mut'.got = mut.got /\ mut'.last = mut.last
                   /\ mut.at = "fetch" /\ ToFetch = {} /\ PublishAll
<1> DEFINE G == /\ mut'.at = "lock" =>
                     \/ \A n \in Names : mut'.got[n] = Never /\ mut'.last[n] = Never
                     \/ mut.at = "lock" /\ mut'.got = mut.got /\ mut'.last = mut.last
                /\ mut'.at = "fetch" =>
                     /\ mut'.plan = mut.plan /\ mut'.kind = mut.kind
                     /\ \/ mut.at \in {"lock", "fetch"} /\ mut'.got = mut.got /\ mut'.last = mut.last
                        \/ /\ mut.at = "fetch"
                           /\ \A n \in Names :
                                \/ mut'.got[n] = mut.got[n] /\ mut'.last[n] = mut.last[n]
                                \/ PrefetchOK(n)
                                \/ mut'.got[n] = mut.got[n] /\ PrefetchFails(n)
                /\ mut'.at = "swap" =>
                     \/ mut' = mut
                     \/ /\ mut'.plan = mut.plan /\ mut'.got = mut.got /\ mut'.last = mut.last
                        /\ mut.at = "fetch" /\ ToFetch = {} /\ PublishAll
<1> SUFFICES G
  OBVIOUS
<1>1. mut \in Caller /\ Nobody.at = "idle" /\ \A n \in Names : Nobody.got[n] = Never /\ Nobody.last[n] = Never
  BY DEF IInv, Types, Nobody
<1>2. CASE mut' = mut \/ mut'.at \in {"idle", "cancel", "await"}
  BY <1>2
<1>3. CASE \E m \in Names : LockZone(m)
  <2>1. mut.at = "lock" /\ mut'.at = "lock" /\ mut'.got = mut.got /\ mut'.last = mut.last
    BY <1>1, <1>3 DEF LockZone, Caller
  <2> QED  BY <2>1
<1>4. CASE Quiesced
  <2>1. /\ mut.at = "lock" /\ mut'.at = "fetch" /\ mut'.got = mut.got /\ mut'.last = mut.last
        /\ mut'.plan = mut.plan /\ mut'.kind = mut.kind
    BY <1>1, <1>4 DEF Quiesced, Caller
  <2> QED  BY <2>1
<1>5. CASE \E m \in Names : PrefetchOK(m)
  <2>1. PICK m \in Names : PrefetchOK(m)
    BY <1>5
  <2>2. /\ mut.at = "fetch" /\ mut'.at = "fetch" /\ mut'.plan = mut.plan /\ mut'.kind = mut.kind
        /\ \A n \in Names \ {m} : mut'.got[n] = mut.got[n] /\ mut'.last[n] = mut.last[n]
    BY <1>1, <2>1 DEF PrefetchOK, Caller
  <2> QED  BY <2>1, <2>2
<1>6. CASE \E m \in Names : PrefetchFails(m)
  <2>1. PICK m \in Names : PrefetchFails(m)
    BY <1>6
  <2>2. CASE mut' = Nobody
    BY <1>1, <1>2, <2>2
  <2>3. CASE mut' # Nobody
    <3>1. /\ mut.at = "fetch" /\ mut'.at = "fetch" /\ mut'.plan = mut.plan /\ mut'.kind = mut.kind
          /\ mut'.got = mut.got /\ \A n \in Names \ {m} : mut'.last[n] = mut.last[n]
      BY <1>1, <2>1, <2>3 DEF PrefetchFails, Abort, Caller
    <3> QED  BY <2>1, <3>1
  <2> QED  BY <2>2, <2>3
<1>7. CASE PublishAll
  <2>1. CASE mut' = Nobody
    BY <1>1, <1>2, <2>1
  <2>2. CASE mut' # Nobody
    <3>1. /\ mut.at = "fetch" /\ ToFetch = {} /\ mut'.at = "swap" /\ mut'.plan = mut.plan
          /\ mut'.got = mut.got /\ mut'.last = mut.last
      BY <1>1, <1>7, <2>2 DEF PublishAll, Abort, Caller
    <3> QED  BY <1>7, <3>1
  <2> QED  BY <2>1, <2>2
<1>8. CASE SwapObjects
  <2>1. mut'.at = "cancel"
    BY <1>8, SwapIs
  <2> QED  BY <1>2, <2>1
<1>9. CASE \/ \E m \in Names : \E kind \in {"upsert", "reset"} : Upsert(m, kind)
           \/ \E plan \in [Names -> {"none", "upsert", "reset", "remove"}] : ApplyBatch(plan)
  <2>1. mut'.at = "lock" /\ mut'.got = Nobody.got /\ mut'.last = Nobody.last
    BY <1>9, NobodyCalls DEF Upsert, ApplyBatch, Caller
  <2> QED  BY <1>1, <2>1
<1>10. CASE \E m \in Names : Remove(m)
  <2>1. mut'.at = "await"
    BY <1>10, NobodyCalls DEF Remove, Caller
  <2> QED  BY <1>2, <2>1
<1>11. CASE CancelReplaced \/ RemoveReturn
  <2>1. mut' = Nobody
    BY <1>11 DEF CancelReplaced, RemoveReturn
  <2> QED  BY <1>1, <1>2, <2>1
<1>12. CASE \/ \E i \in Ids : WorkerStep(i)
            \/ Start \/ StartStep \/ Close \/ CloseReturn \/ Tick
            \/ \E m \in Names : HandleNotify(m) \/ UpsertStopped(m) \/ MasterPublishes(m)
            \/ UNCHANGED vars
  <2>1. mut' = mut
    BY <1>12 DEF StartStep, WorkerStep, Wake, Exit, LockRefresh, FetchOK, FetchFails, CheckSerial,
       AddZone, AfterError, expireIfNeeded, Start, BootRefresh, BootNext, BootRun, HandleNotify,
       UpsertStopped, MasterPublishes, Close, CloseReturn, Tick, vars
  <2> QED  BY <1>2, <2>1
<1> HIDE DEF G
<1>13. CASE MutatorStep
  BY <1>3, <1>4, <1>5, <1>6, <1>7, <1>8, <1>11, <1>13 DEF MutatorStep
<1> QED
  <2>1. ASSUME NEW m \in Names,
               \/ HandleNotify(m) \/ UpsertStopped(m) \/ Remove(m) \/ MasterPublishes(m)
               \/ \E kind \in {"upsert", "reset"} : Upsert(m, kind)
        PROVE  G
    BY <1>9, <1>10, <1>12, <2>1
  <2> QED  BY <1>9, <1>12, <1>13, <2>1 DEF Next

\* The caller still knows nothing.
LEMMA UnfetchedHolds ==
    ASSUME IInv, Unfetched, [Next]_vars
    PROVE  Unfetched'
<1>1. Names' = Names
  BY TimeSteps, Fixed
<1> QED  BY <1>1, CallerStages DEF Unfetched

\* While a caller fetches for an unshared zone, nobody else publishes it.
LEMMA Alone ==
    ASSUME IInv, [Next]_vars, NEW n \in Names, Unshared(n), mut.at = "fetch", n \in Fetching
    PROVE  /\ store'[n] \in {0, store[n]} \/ (PublishAll /\ store'[n] = mut.got[n])
           /\ contact'[n] = contact[n] \/ (PublishAll /\ contact'[n] = mut.last[n])
<1>1. ASSUME NEW i \in Ids, objs[i].name = n, CheckSerial(i) \/ AddZone(i)
      PROVE  FALSE
  <2>1. objs[i].at \in {"check", "add"} /\ n \in Planned
    BY <1>1 DEF CheckSerial, AddZone, Planned, Fetching
  <2> QED  BY <1>1, <2>1, Working
<1>2. store'[n] \in {0, store[n]} \/ (PublishAll /\ store'[n] = mut.got[n])
  BY <1>1, StoreSteps
<1>3. contact'[n] = contact[n] \/ (PublishAll /\ contact'[n] = mut.last[n])
  BY <1>1, ContactSteps
<1> QED  BY <1>2, <1>3

\* Publishing ends the caller's fetches.
LEMMA PublishEnds ==
    ASSUME IInv, PublishAll
    PROVE  /\ mut.at = "fetch" /\ mut'.at # "fetch"
           /\ \A n \in Names : contact'[n] # contact[n] =>
                n \in Fetching /\ mut'.at = "swap" /\ mut'.plan = mut.plan
<1>1. mut \in Caller /\ contact \in [Names -> Int] /\ Nobody.at = "idle"
  BY DEF IInv, Types, Nobody
<1>2. CASE Abort /\ contact' = contact
  BY <1>1, <1>2 DEF PublishAll, Abort
<1>3. CASE /\ contact' = [n \in Names |-> IF n \in Fetching /\ mut.got[n] # Never
                                          THEN mut.last[n] ELSE contact[n]]
           /\ mut' = [mut EXCEPT !.at = "swap"]
  BY <1>1, <1>3 DEF PublishAll, Caller
<1> QED  BY <1>2, <1>3 DEF PublishAll

\* A transfer that counts as contact sets the clock of its worker.
LEMMA ContactRefreshes ==
    ASSUME IInv, NEW i \in Ids, CheckSerial(i) \/ AddZone(i), contact' # contact
    PROVE  objs'[i].last = now
<1>1. objs \in [Ids -> Obj] /\ now \in Int
  BY ObjectSeq DEF IInv, Types, Ids
<1>2. Refreshed(i)
  BY DEF CheckSerial, AddZone
<1> QED  BY <1>1, <1>2 DEF Refreshed, Unlocked, Obj

\* What is about to be published still follows what is served.
LEMMA SucceedsHolds ==
    ASSUME IInv, IInv', Unfetched, Succeeds, [Next]_vars
    PROVE  Succeeds'
<1>1. /\ Names' = Names /\ objs \in [Ids -> Obj] /\ Ids = 1 .. Len(objs)
      /\ store \in [Names -> 0 .. MaxSerial] /\ MaxSerial \in Nat
      /\ mut \in Caller
  BY TimeSteps, Fixed, ObjectSeq, Deployment DEF IInv, Types, Ids
<1>2. ASSUME NEW n \in Names, NEW i \in Ids', objs'[i].name = n, objs'[i].at = "add", Unshared(n)'
      PROVE  store'[n] = 0 \/ objs'[i].got > store'[n]
  <2>1. /\ i \in Ids /\ objs[i].name = n /\ objs'[i].got = objs[i].got
        /\ objs[i].at = "add" \/ CheckSerial(i)
    BY <1>2, ObjectsStep DEF Steps
  <2>2. n \in Names /\ objs[i].got \in 0 .. MaxSerial
    BY <1>1, <2>1 DEF Obj
  <2>3. Unshared(n)
    BY <1>2, <2>1, <2>2, OverlookedStays
  <2>4. CASE CheckSerial(i)
    <3>1. store' = store /\ (Refreshed(i) \/ store[n] = 0 \/ objs[i].got > store[n])
      BY <2>1, <2>4 DEF CheckSerial
    <3>2. Refreshed(i) => objs'[i].at \in {"ready", "select"}
      BY <1>1, <2>1 DEF Refreshed, Unlocked, Obj
    <3> QED  BY <1>2, <2>1, <3>1, <3>2
  <2>5. CASE objs[i].at = "add"
    <3>1. store[n] = 0 \/ objs[i].got > store[n]
      BY <2>1, <2>3, <2>5 DEF Succeeds
    <3>2. ASSUME NEW j \in Ids, objs[j].name = n, AddZone(j), objs'[j].at # "add"
          PROVE  FALSE
      <4>1. objs[j].at = "add" /\ i # j
        BY <1>2, <3>2 DEF AddZone
      <4> QED  BY <1>1, <2>1, <2>3, <2>5, <3>2, <4>1, Working
    <3>3. ~(PublishAll /\ n \in Fetching)
      BY <2>1, <2>3, <2>5, Working DEF PublishAll, Fetching, Planned
    <3>4. store'[n] \in {0, store[n]}
      BY <2>2, <3>2, <3>3, StoreSteps
    <3> QED  BY <2>1, <3>1, <3>4
  <2> QED  BY <2>1, <2>4, <2>5
<1>3. ASSUME mut'.at = "fetch", mut'.kind = "batch", NEW n \in Names, mut'.plan[n] = "upsert",
             mut'.got[n] > 0, Unshared(n)'
      PROVE  store'[n] = 0 \/ mut'.got[n] > store'[n]
  <2>1. /\ Unshared(n) /\ mut.at \in {"lock", "fetch"} /\ mut.plan[n] = "upsert" /\ mut.kind = "batch"
        /\ mut'.got[n] = mut.got[n] \/ (mut.at = "fetch" /\ PrefetchOK(n))
    BY <1>3, OverlookedStays, CallerStages
  <2>2. CASE mut'.got[n] = mut.got[n]
    <3>1. mut.at = "fetch"
      <4>1. mut.got[n] # Never
        BY <1>3, <2>2 DEF Never
      <4> QED  BY <2>1, <4>1 DEF Unfetched
    <3>2. store[n] = 0 \/ mut.got[n] > store[n]
      BY <1>3, <2>1, <2>2, <3>1 DEF Succeeds
    <3>3. store'[n] \in {0, store[n]}
      BY <1>3, <2>1, <3>1, Alone, PublishEnds DEF Fetching
    <3> QED  BY <2>2, <3>2, <3>3
  <2>3. CASE PrefetchOK(n)
    <3>1. /\ store' = store
          /\ mut'.got[n] = IF store[n] = 0 \/ master[n] > store[n] THEN master[n] ELSE 0
      BY <1>1, <2>1, <2>3 DEF PrefetchOK, Caller
    <3> QED  BY <1>3, <3>1
  <2> QED  BY <2>1, <2>2, <2>3
<1> QED  BY <1>1, <1>2, <1>3 DEF Succeeds

\* Whoever is in charge of a zone still knows of the last contact.
LEMMA KnownHolds ==
    ASSUME IInv, IInv', Clocks, Clocks', Unfetched, Known, [Next]_vars
    PROVE  Known'
<1>1. /\ Names' = Names /\ \A n \in Names : Unshared(n)' => Unshared(n)
      /\ \A n \in Names : cur[n] # 0 => cur[n] \in Ids
      /\ \A i \in Ids : objs'[i].last \in {objs[i].last, now}
  BY TimeSteps, Fixed, OverlookedStays, ObjectsStep DEF IInv, Types, Steps
<1>2. /\ now \in Int /\ now' \in Int
      /\ \A i \in Ids : objs[i].last \in Never .. now
      /\ \A i \in Ids' : objs'[i].last \in Never .. now'
      /\ \A n \in Names : mut.last[n] \in Never .. now /\ contact[n] \in Never .. now
  BY DEF Clocks, IInv, Types
<1>3. Never \in Int
  BY DEF Never
<1>4. ASSUME NEW n \in Names, Unshared(n), contact'[n] # contact[n]
      PROVE  \/ cur[n] = 0
             \/ cur[n] \in Ids /\ objs'[cur[n]].last = now /\ contact'[n] = now
             \/ PublishAll /\ contact'[n] = mut.last[n]
  <2>1. CASE \E i \in Ids : objs[i].name = n /\ contact'[n] = now /\ (CheckSerial(i) \/ AddZone(i))
    <3>1. PICK i \in Ids : objs[i].name = n /\ contact'[n] = now /\ (CheckSerial(i) \/ AddZone(i))
      BY <2>1
    <3>2. objs'[i].last = now
      BY <1>4, <3>1, ContactRefreshes
    <3>3. objs[i].at \in {"check", "add"}
      BY <3>1 DEF CheckSerial, AddZone
    <3>4. cur[n] \in {0, i}
      BY <1>4, <3>1, <3>3, Working
    <3> QED  BY <3>1, <3>2, <3>4
  <2> QED  BY <1>4, <2>1, ContactSteps
<1>5. ASSUME NEW n \in Names, Unshared(n), mut.at = "swap", n \in Fetching
      PROVE  contact'[n] = contact[n]
  <2>1. ASSUME NEW i \in Ids, objs[i].name = n, CheckSerial(i) \/ AddZone(i)
        PROVE  FALSE
    <3>1. objs[i].at \in {"check", "add"} /\ n \in Planned
      BY <1>5, <2>1 DEF CheckSerial, AddZone, Planned, Fetching
    <3> QED  BY <1>5, <2>1, <3>1, Working
  <2> QED  BY <1>5, <2>1, ContactSteps, PublishEnds
<1>6. ASSUME NEW n \in Names, Unshared(n)', cur'[n] # 0
      PROVE  contact'[n] <= objs'[cur'[n]].last \/ (mut'.at = "swap" /\ n \in Fetching')
  <2>1. Unshared(n)
    BY <1>1, <1>6
  <2>2. cur'[n] \in Ids'
    BY <1>1, <1>6 DEF IInv, Types
  <2>3. CASE cur'[n] = cur[n]
    <3>1. cur[n] \in Ids /\ (contact[n] <= objs[cur[n]].last \/ (mut.at = "swap" /\ n \in Fetching))
      BY <1>1, <1>6, <2>1, <2>3 DEF Known
    <3>2. CASE mut.at = "swap" /\ n \in Fetching
      <4>1. mut' = mut
        BY <2>3, <3>1, <3>2, TableSteps
      <4> QED  BY <1>1, <3>2, <4>1 DEF Fetching
    <3>3. CASE contact'[n] = contact[n] /\ contact[n] <= objs[cur[n]].last
      BY <1>1, <1>2, <2>3, <3>1, <3>3
    <3>4. CASE contact'[n] # contact[n]
      <4>1. CASE contact'[n] = now /\ objs'[cur[n]].last = now
        BY <1>2, <2>3, <4>1
      <4>2. CASE PublishAll
        <5>1. n \in Fetching /\ mut'.at = "swap" /\ mut'.plan = mut.plan
          BY <3>4, <4>2, PublishEnds
        <5> QED  BY <1>1, <5>1 DEF Fetching
      <4> QED  BY <1>4, <1>6, <2>1, <2>3, <3>4, <4>1, <4>2
    <3> QED  BY <3>1, <3>2, <3>3, <3>4
  <2>4. CASE starter.at = "new" /\ contact' = contact
    <3>1. contact'[n] = Never
      BY <2>4 DEF IInv, Booting
    <3> QED  BY <1>2, <1>3, <2>2, <3>1
  <2>5. CASE /\ mut.at = "swap" /\ n \in Fetching /\ contact' = contact
             /\ objs'[cur'[n]].last = mut.last[n]
    BY <2>1, <2>5 DEF Known
  <2> QED  BY <1>6, <2>3, <2>4, <2>5, TableSteps
<1>7. ASSUME NEW n \in Names, Unshared(n)', mut'.at = "fetch", n \in Fetching', mut'.last[n] # Never
      PROVE  contact'[n] <= mut'.last[n]
  <2>1. Unshared(n) /\ n \in Fetching /\ mut.at \in {"lock", "fetch"}
        /\ (mut.at = "lock" => mut'.last = mut.last)
    BY <1>1, <1>7, CallerStages DEF Fetching
  <2>2. mut.at = "fetch"
    BY <1>7, <2>1 DEF Unfetched
  <2>3. contact'[n] = contact[n]
    BY <1>7, <2>1, <2>2, Alone, PublishEnds
  <2>4. CASE mut'.last[n] = mut.last[n]
    BY <1>7, <2>1, <2>2, <2>3, <2>4 DEF Known
  <2>5. CASE mut'.last[n] = now
    BY <1>2, <2>3, <2>5
  <2>6. CASE cur[n] # 0 /\ mut'.last[n] = objs[cur[n]].last
    BY <2>1, <2>2, <2>3, <2>6 DEF Known
  <2> QED  BY <1>7, <2>4, <2>5, <2>6, CallerSteps
<1>8. ASSUME NEW n \in Names, Unshared(n)', mut'.at = "swap", n \in Fetching', mut'.last[n] # Never
      PROVE  contact'[n] <= mut'.last[n]
  <2>1. mut'.plan = mut.plan /\ mut'.last = mut.last
        /\ (mut.at = "swap" \/ mut.at = "fetch")
    BY <1>8, CallerStages
  <2>2. Unshared(n) /\ n \in Fetching
    BY <1>1, <1>8, <2>1 DEF Fetching
  <2>3. contact[n] <= mut.last[n]
    BY <1>8, <2>1, <2>2 DEF Known
  <2>4. contact'[n] \in {contact[n], mut.last[n]}
    BY <1>5, <2>1, <2>2, Alone
  <2>5. mut.last[n] <= mut.last[n]
    BY <1>2, <1>3
  <2> QED  BY <2>1, <2>3, <2>4, <2>5
<1>9. mut'.at = "swap" => \A n \in Fetching' : mut'.last[n] # Never
  <2>1. CASE mut' = mut
    BY <1>1, <2>1 DEF Known, Fetching
  <2>2. CASE mut'.plan = mut.plan /\ mut'.last = mut.last /\ ToFetch = {}
    BY <1>1, <2>2 DEF Fetching, ToFetch
  <2> QED  BY <2>1, <2>2, CallerStages
<1> QED  BY <1>1, <1>6, <1>7, <1>8, <1>9 DEF Known

\* Initially nobody has fetched and nothing is known.
LEMMA InitKnows == Init => Unfetched /\ Known /\ Succeeds
<1> SUFFICES ASSUME Init  PROVE Unfetched /\ Known /\ Succeeds
  OBVIOUS
<1>1. /\ Types /\ mut.at = "idle" /\ contact = [n \in Names |-> Never]
      /\ \A i \in Ids : objs[i].at = "off"
  BY InitHolds DEF Init, IInv, Nobody, Booting
<1>2. \A i \in Ids : objs[i].last \in Never .. now
  BY InitCounts DEF Clocks
<1>3. \A n \in Names : cur[n] # 0 => contact[n] <= objs[cur[n]].last
  <2>1. now \in Int /\ Never \in Int
    BY <1>1 DEF Types, Never
  <2>2. \A n \in Names : cur[n] # 0 => cur[n] \in Ids
    BY <1>1 DEF Types
  <2> QED  BY <1>1, <1>2, <2>1, <2>2
<1>4. Unfetched
  BY <1>1 DEF Unfetched
<1>5. Known
  BY <1>1, <1>3 DEF Known
<1>6. Succeeds
  BY <1>1 DEF Succeeds
<1> QED  BY <1>4, <1>5, <1>6

-----------------------------------------------------------------------------
\* Whoever is in charge of a zone knows when its primary was last heard, and what
\* is about to be published follows what is served.
THEOREM AlwaysKnown == Spec => [](Clocks /\ Known /\ Succeeds)
<1> DEFINE K == IInv /\ Clocks /\ Unfetched /\ Known /\ Succeeds
<1>1. Init => K
  BY InitHolds, InitCounts, InitKnows
<1>2. K /\ [Next]_vars => K'
  <2> SUFFICES ASSUME K, [Next]_vars  PROVE K'
    OBVIOUS
  <2>1. IInv'
    BY NextHolds
  <2>2. Clocks'
    BY <2>1, ClocksHold
  <2>3. Unfetched'
    BY UnfetchedHolds
  <2>4. Known'
    BY <2>1, <2>2, KnownHolds
  <2>5. Succeeds'
    BY <2>1, SucceedsHolds
  <2> QED  BY <2>1, <2>2, <2>3, <2>4, <2>5
<1>3. K => Clocks /\ Known /\ Succeeds
  OBVIOUS
<1> HIDE DEF K
<1> QED  BY <1>1, <1>2, <1>3, PTL DEF Spec

\* A version that replaces another is newer, or a reset asked for it: the serial
\* check of publish still holds when AddZone or ApplyZoneBatch comes.
THEOREM SerialsAlwaysAdvance == Spec => SerialsAdvance
<1>1. ASSUME IInv, Succeeds, [Next]_vars, NEW n \in Names,
             store[n] # 0, store'[n] # 0, store'[n] # store[n], Unshared(n)
      PROVE  store'[n] > store[n] \/ mut.plan[n] = "reset"
  <2>1. CASE \E i \in Ids : objs[i].name = n /\ AddZone(i) /\ store'[n] = objs[i].got
    <3>1. PICK i \in Ids : objs[i].name = n /\ AddZone(i) /\ store'[n] = objs[i].got
      BY <2>1
    <3>2. objs[i].at = "add"
      BY <3>1 DEF AddZone
    <3> QED  BY <1>1, <3>1, <3>2 DEF Succeeds
  <2>2. CASE /\ PublishAll /\ n \in Fetching /\ store'[n] = mut.got[n] /\ mut.got[n] > 0
             /\ \/ mut.kind = "batch" \/ mut.plan[n] = "reset"
                \/ store[n] = 0 \/ mut.got[n] > store[n]
    <3>1. mut.at = "fetch" /\ mut.plan[n] \in {"upsert", "reset"}
      BY <2>2 DEF PublishAll, Fetching
    <3>2. CASE mut.kind = "batch" /\ mut.plan[n] = "upsert"
      BY <1>1, <2>2, <3>1, <3>2 DEF Succeeds
    <3> QED  BY <1>1, <2>2, <3>1, <3>2
  <2> QED  BY <1>1, <2>1, <2>2, StoreSteps
<1>2. IInv /\ Succeeds /\ [Next]_vars
      => [\A n \in Names :
            (store[n] # 0 /\ store'[n] # 0 /\ store'[n] # store[n] /\ Unshared(n))
            => store'[n] > store[n] \/ mut.plan[n] = "reset"]_vars
  BY <1>1
<1> QED  BY <1>2, Invariance, AlwaysKnown, PTL DEF Spec, SerialsAdvance

\* The worker in charge of a zone withdraws it only when its primary has been
\* silent for a whole Expire interval, whoever last heard from it.
THEOREM CurrentWorkersAlwaysExpireOnTime == Spec => CurrentWorkersExpireOnTime
<1>1. ASSUME IInv, Clocks, Known, [Next]_vars, NEW n \in Names,
             store[n] # 0, store'[n] = 0, cur[n] # 0,
             objs[cur[n]].at = "expire", objs'[cur[n]].at # "expire", Unshared(n)
      PROVE  now >= contact[n] + Expire
  <2> DEFINE i == cur[n]
  <2>1. i \in Ids /\ objs[i].name = n
    BY <1>1 DEF IInv, Types
  <2>2. expireIfNeeded(i)
    BY <1>1, <2>1, ObjectsStep DEF Steps
  <2>3. objs[i].opMu = NoLock /\ now >= objs[i].last + Expire
    BY <1>1, <2>2 DEF expireIfNeeded, Due
  <2>4. ~(mut.at = "swap" /\ n \in Fetching)
    BY <1>1, <2>3, AllQuiesced DEF QuiescedWhilePrepared, Fetching, Planned, NoLock
  <2>5. contact[n] <= objs[i].last
    BY <1>1, <2>4 DEF Known
  <2>6. /\ now \in Int /\ objs[i].last \in Int /\ contact[n] \in Int /\ Expire \in Int
    <3>1. objs \in [Ids -> Obj]
      BY <1>1, ObjectSeq DEF IInv, Types, Ids
    <3>2. objs[i].last \in Int
      BY <2>1, <3>1 DEF Obj
    <3>3. now \in Int /\ contact[n] \in Int /\ Expire \in Int
      BY <1>1, Deployment DEF IInv, Types
    <3> QED  BY <3>2, <3>3
  <2> HIDE DEF i
  <2> QED  BY <2>3, <2>5, <2>6
<1>2. IInv /\ Clocks /\ Known /\ [Next]_vars
      => [\A n \in Names :
            (/\ store[n] # 0 /\ store'[n] = 0 /\ cur[n] # 0
             /\ objs[cur[n]].at = "expire" /\ objs'[cur[n]].at # "expire"
             /\ Unshared(n))
            => now >= contact[n] + Expire]_vars
  BY <1>1
<1> QED  BY <1>2, Invariance, AlwaysKnown, PTL DEF Spec, CurrentWorkersExpireOnTime
=============================================================================

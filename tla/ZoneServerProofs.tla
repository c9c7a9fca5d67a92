-------------------------- MODULE ZoneServerProofs --------------------------
(***************************************************************************)
(* For any zones, requests, images, goroutines and faults: persistMu makes *)
(* the writers atomic, the journal keeps exact differences, and what the   *)
(* secondaries copy from it are versions the primary published.  Control   *)
(* says what a goroutine has prepared at each point and that it is still   *)
(* computed from the live zone; what an UPDATE computes stays opaque       *)
(* wherever the argument does not depend on it.                            *)
(***************************************************************************)
EXTENDS ZoneTransfer, FiniteSetTheorems, WellFoundedInduction, TLAPS

\* A request that passed the guards.
Served(m) == m \in Messages /\ m.authorized /\ m.contained

\* Updating: inside the critical section of an UPDATE.
Updating == {"temp", "rename", "sync", "record", "publish"}

\* The replacement is what the request makes of the zone that is live now.
Prepared(p) ==
    LET m == job[p]
        n == m.zone
    IN /\ Served(m) /\ Present(zones[n])
       /\ \E day \in Store!Days :
             LET outcome == updateOutcome(zones[n], m, day)
             IN /\ outcome.rcode = "NOERROR"
                /\ write[p] = [ups |-> [x \in {n} |-> outcome.zone], rems |-> {}]

\* The change consists of validated images, one per origin, and removals.
Batched(w) ==
    \E chosen \in SUBSET Images, removals \in SUBSET ZoneNames :
        /\ \A i, j \in chosen : i.name = j.name => i = j
        /\ \A i \in chosen : Validate(i.zone) /\ i.name \notin removals
        /\ w = [ups |-> [n \in {i.name : i \in chosen} |->
                           (CHOOSE i \in chosen : i.name = n).zone],
                rems |-> removals]

\* What goroutine p has at hand, at each point of its program.
Fit(p) ==
    /\ pc[p] \in Labels /\ DOMAIN write[p].ups \subseteq ZoneNames
    /\ pc[p] \in Holding => mu = p
    /\ pc[p] = "lock" => Served(job[p])
    /\ pc[p] \in Updating => Prepared(p)
    /\ pc[p] \in {"add", "swap"} => Batched(write[p])
    /\ pc[p] = "reset" =>
         \E n \in ZoneNames : write[p] = [ups |-> <<>>, rems |-> {n}] /\ zones[n] = NoZone

\* The control invariant: what persistMu protects is what its holder prepared.
Control ==
    /\ DOMAIN zones = ZoneNames /\ DOMAIN journal = ZoneNames /\ DOMAIN hist = ZoneNames
    /\ \A n \in ZoneNames : Present(zones[n]) => HasSOA(zones[n])
    /\ DOMAIN pc = Procs /\ DOMAIN job = Procs /\ DOMAIN write = Procs
    /\ pc \in [Procs -> Labels]
    /\ mu \in Procs \cup {Free} /\ boots \in Nat
    /\ today \in Store!Days
    /\ \A p \in Procs : Fit(p)

-----------------------------------------------------------------------------
(* Dates and serials.                                                      *)

\* A date of the run is a serial in the lower half of the number space.
LEMMA DaysAreSerials ==
    ASSUME NEW day \in Store!Days
    PROVE  day \in Nat /\ day < Half /\ day \in Serial
  <1>1. PICK d \in 0 .. MaxDays : day = FirstDay + d * (PerDay + 1)
    BY DEF Store!Days
  <1>2. FirstDay \in Nat /\ MaxDays \in Nat /\ PerDay \in Nat /\ SerialMod \in Nat /\ Half \in Nat
        /\ Half <= SerialMod
    BY FirstDayAssumption, PerDayAssumption, SerialModAssumption DEF Half
  <1>3. d * (PerDay + 1) \in Nat /\ d * (PerDay + 1) <= MaxDays * (PerDay + 1)
    BY <1>2
  <1>4. day \in Nat /\ day < Half
    BY <1>1, <1>2, <1>3, FirstDayAssumption
  <1> QED
    BY <1>2, <1>4 DEF Serial

\* Midnight moves to another date of the run.
LEMMA NextDay ==
    ASSUME NEW day \in Store!Days, day < FirstDay + MaxDays * (PerDay + 1)
    PROVE  day + PerDay + 1 \in Store!Days
  <1>1. PICK d \in 0 .. MaxDays : day = FirstDay + d * (PerDay + 1)
    BY DEF Store!Days
  <1>2. FirstDay \in Nat /\ MaxDays \in Nat /\ PerDay \in Nat
    BY FirstDayAssumption, PerDayAssumption
  <1>3. d # MaxDays
    BY <1>1, <1>2
  <1>4. d + 1 \in 0 .. MaxDays /\ day + PerDay + 1 = FirstDay + (d + 1) * (PerDay + 1)
    BY <1>1, <1>2, <1>3
  <1> QED
    BY <1>4 DEF Store!Days

\* The zone an UPDATE computes has its SOA: the serial does not run over.
LEMMA OutcomeHasSOA ==
    ASSUME NEW live, HasSOA(live), NEW m, NEW day \in Store!Days,
           updateOutcome(live, m, day).rcode = "NOERROR"
    PROVE  HasSOA(updateOutcome(live, m, day).zone)
  <1>1. CanIncrement(live.soa, day)
    BY DEF updateOutcome
  <1>2. live.soa \in Serial /\ live.soaRec \in Serial
    BY DEF HasSOA
  <1>3. SerialMod \in Nat /\ Half \in Nat /\ SerialMod = 2 * Half /\ PerDay \in Nat /\ PerDay <= Half
    BY SerialModAssumption, PerDayAssumption, FirstDayAssumption DEF Half
  <1>4. IncrementedSerial(live.soa, day) \in Serial
    BY <1>1, <1>2, <1>3, DaysAreSerials DEF CanIncrement, IncrementedSerial, Serial, MaxSerial
  <1>5. /\ updateOutcome(live, m, day).zone.soa = IncrementedSerial(live.soa, day)
        /\ updateOutcome(live, m, day).zone.soaRec = live.soaRec
    BY DEF updateOutcome
  <1> QED
    BY <1>2, <1>4, <1>5 DEF HasSOA

-----------------------------------------------------------------------------
(* What a goroutine prepared.                                              *)

\* An UPDATE replaces one zone of the server by one with an SOA.
LEMMA PreparedWrite ==
    ASSUME Control, NEW p \in Procs, Prepared(p)
    PROVE  /\ job[p].zone \in ZoneNames
           /\ DOMAIN write[p].ups = {job[p].zone} /\ write[p].rems = {}
           /\ HasSOA(write[p].ups[job[p].zone])
  <1>1. job[p] \in Messages /\ Present(zones[job[p].zone])
    BY DEF Prepared, Served
  <1>2. job[p].zone \in ZoneNames
    BY <1>1, InputsAssumption
  <1>3. HasSOA(zones[job[p].zone])
    BY <1>1, <1>2 DEF Control
  <1>4. PICK day \in Store!Days :
          /\ updateOutcome(zones[job[p].zone], job[p], day).rcode = "NOERROR"
          /\ write[p] = [ups |-> [x \in {job[p].zone} |->
                                    updateOutcome(zones[job[p].zone], job[p], day).zone],
                         rems |-> {}]
    BY DEF Prepared
  <1>5. HasSOA(updateOutcome(zones[job[p].zone], job[p], day).zone)
    BY <1>3, <1>4, OutcomeHasSOA
  <1> QED
    BY <1>2, <1>4, <1>5

\* A batch replaces zones of the server by valid zones with an SOA.
LEMMA BatchedWrite ==
    ASSUME NEW w, Batched(w)
    PROVE  /\ DOMAIN w.ups \subseteq ZoneNames /\ w.rems \subseteq ZoneNames
           /\ DOMAIN w.ups \cap w.rems = {}
           /\ \A n \in DOMAIN w.ups : HasSOA(w.ups[n]) /\ Validate(w.ups[n])
  <1>1. PICK chosen \in SUBSET Images, removals \in SUBSET ZoneNames :
          /\ \A i, j \in chosen : i.name = j.name => i = j
          /\ \A i \in chosen : Validate(i.zone) /\ i.name \notin removals
          /\ w = [ups |-> [n \in {i.name : i \in chosen} |->
                             (CHOOSE i \in chosen : i.name = n).zone],
                  rems |-> removals]
    BY DEF Batched
  <1>2. DOMAIN w.ups = {i.name : i \in chosen} /\ w.rems = removals
    BY <1>1
  <1>3. ASSUME NEW n \in DOMAIN w.ups
        PROVE  HasSOA(w.ups[n]) /\ Validate(w.ups[n]) /\ n \in ZoneNames /\ n \notin w.rems
    <2>1. \E i \in chosen : i.name = n
      BY <1>2
    <2>2. PICK i \in chosen : i.name = n /\ w.ups[n] = i.zone
      BY <1>1, <1>2, <2>1
    <2>3. Validate(i.zone) /\ i \in Images /\ n \notin w.rems
      BY <1>1, <1>2, <2>2
    <2> QED
      BY <2>2, <2>3, InputsAssumption
  <1> QED
    BY <1>2, <1>3

\* A step of p under persistMu, or one that leaves the zones alone, disturbs
\* nothing another goroutine relies on.
LEMMA Others ==
    ASSUME Control, NEW p \in Procs, NEW q \in Procs, q # p,
           pc'[q] = pc[q], job'[q] = job[q], write'[q] = write[q],
           \/ mu' = mu /\ zones' = zones
           \/ mu = Free /\ zones' = zones
           \/ mu = p
    PROVE  Fit(q)'
  <1>1. Fit(q)
    BY DEF Control
  <1>2. pc[q] \in Holding => mu = q /\ mu # Free
    BY <1>1, ProcsAssumption DEF Fit
  <1>3. CASE pc[q] \in Holding
    <2>1. mu' = mu /\ zones' = zones
      BY <1>2, <1>3
    <2> QED
      BY <1>1, <2>1 DEF Fit, Prepared
  <1>4. CASE pc[q] \notin Holding
    <2>1. pc'[q] \notin Updating /\ pc'[q] # "reset" /\ pc'[q] # "swap" /\ pc'[q] \notin Holding
      BY <1>4 DEF Holding, Updating
    <2> QED
      BY <1>1, <2>1 DEF Fit
  <1> QED
    BY <1>3, <1>4

\* Dropping what was being prepared.
LEMMA Finished ==
    ASSUME Control, NEW p \in Procs, NEW rcode, Finish(p, rcode)
    PROVE  /\ pc' \in [Procs -> Labels] /\ DOMAIN job' = Procs /\ DOMAIN write' = Procs
           /\ \A q \in Procs \ {p} : pc'[q] = pc[q] /\ job'[q] = job[q] /\ write'[q] = write[q]
           /\ Fit(p)'
  <1>1. /\ pc' = [pc EXCEPT ![p] = "idle"] /\ job' = [job EXCEPT ![p] = NoJob]
        /\ write' = [write EXCEPT ![p] = Nothing]
    BY DEF Finish
  <1>2. pc'[p] = "idle" /\ write'[p] = Nothing
    BY <1>1 DEF Control
  <1>3. DOMAIN Nothing.ups = {}
    BY DEF Nothing
  <1>4. Fit(p)'
    BY <1>2, <1>3 DEF Fit, Labels, Holding, Updating
  <1> QED
    BY <1>1, <1>4 DEF Control, Labels

\* A step that leaves zones, journal and dates alone.
LEMMA QuietStep ==
    ASSUME Control, NEW p \in Procs,
           pc' \in [Procs -> Labels], DOMAIN job' = Procs, DOMAIN write' = Procs,
           \A q \in Procs \ {p} : pc'[q] = pc[q] /\ job'[q] = job[q] /\ write'[q] = write[q],
           Fit(p)', mu' \in Procs \cup {Free}, mu' = mu \/ mu = Free \/ mu = p,
           UNCHANGED <<zones, today, boots>>, DOMAIN journal' = ZoneNames, DOMAIN hist' = ZoneNames
    PROVE  Control'
  <1>1. \A q \in Procs : Fit(q)'
    BY Others
  <1> QED
    BY <1>1 DEF Control

-----------------------------------------------------------------------------
(* The control invariant is inductive.                                     *)

\* Start-up gives every zone it keeps an SOA.
LEMMA LoadedHasSOA ==
    ASSUME NEW files, NEW n \in ZoneNames, today \in Serial,
           files[n] # NoFile => files[n].serial \in Serial \cup {AutoSerial}
    PROVE  Present(Loaded(files)[n]) => HasSOA(Loaded(files)[n]) /\ Validate(Loaded(files)[n])
  <1> SUFFICES ASSUME Present(Loaded(files)[n])
               PROVE  HasSOA(Loaded(files)[n]) /\ Validate(Loaded(files)[n])
    OBVIOUS
  <1>1. files[n] # NoFile /\ Validate(Parsed(files[n])) /\ Loaded(files)[n] = Parsed(files[n])
    BY DEF Loaded, Present
  <1>2. HasSOA(Parsed(files[n]))
    BY <1>1 DEF Parsed, HasSOA
  <1> QED
    BY <1>1, <1>2

\* Every file is one the server started with or one it wrote.
FilesReadable ==
    /\ DOMAIN fileNow = ZoneNames /\ DOMAIN fileSafe = ZoneNames
    /\ \A n \in ZoneNames :
         /\ fileNow[n] # NoFile => fileNow[n].serial \in Serial \cup {AutoSerial}
         /\ fileSafe[n] # NoFile => fileSafe[n].serial \in Serial \cup {AutoSerial}

LEMMA ReadableStep == FilesReadable /\ [Next]_vars => FilesReadable'
  <1> SUFFICES ASSUME FilesReadable, [Next]_vars PROVE FilesReadable'
    OBVIOUS
  <1>1. ASSUME NEW p \in Procs, RenameTemp(p) PROVE FilesReadable'
    <2>1. CASE fileNow' = [fileNow EXCEPT ![job[p].zone] = Serialized(write[p].ups[job[p].zone])]
      <3>1. Serialized(write[p].ups[job[p].zone]).serial = AutoSerial
        BY DEF Serialized
      <3>2. fileSafe' = fileSafe
        BY <1>1 DEF RenameTemp
      <3> QED
        BY <2>1, <3>1, <3>2 DEF FilesReadable
    <2>2. CASE UNCHANGED <<fileNow, fileSafe>>
      BY <2>2 DEF FilesReadable
    <2> QED
      BY <1>1, <2>1, <2>2 DEF RenameTemp
  <1>2. ASSUME NEW p \in Procs, SyncDirectory(p) PROVE FilesReadable'
    BY <1>2 DEF SyncDirectory, FilesReadable
  <1>3. CASE Restart
    BY <1>3 DEF Restart, FilesReadable
  <1>4. CASE UNCHANGED disk
    BY <1>4 DEF disk, FilesReadable
  <1> QED
    BY <1>1, <1>2, <1>3, <1>4
    DEF Next, UpdateStep, AdminStep, ReceiveUpdate, LockUpdate, WriteTemp, RecordUpdate,
        PublishUpdate, ReplyUpdate, AddZone, ApplyZoneBatch, Admit, RecordZones, PublishZones,
        RemoveZone, ResetJournal, NewDay, vars, disk

\* Idle goroutines fit wherever the zones are.
LEMMA AllIdle ==
    ASSUME pc = [p \in Procs |-> "idle"], write = [p \in Procs |-> Nothing]
    PROVE  \A p \in Procs : Fit(p)
  BY DEF Fit, Nothing, Labels, Holding, Updating

LEMMA ControlInit == Init => Control /\ FilesReadable
  <1> SUFFICES ASSUME Init PROVE Control /\ FilesReadable
    OBVIOUS
  <1>1. FilesReadable
    BY InputsAssumption DEF Init, FilesReadable
  <1>2. today \in Store!Days
    <2>1. 0 \in 0 .. MaxDays /\ FirstDay = FirstDay + 0 * (PerDay + 1)
      BY FirstDayAssumption, PerDayAssumption
    <2> QED
      BY <2>1 DEF Init, Store!Days
  <1>3. today \in Serial
    BY <1>2, DaysAreSerials
  <1>4. \A n \in ZoneNames : Present(zones[n]) => HasSOA(zones[n])
    BY <1>3, LoadedHasSOA, InputsAssumption DEF Init
  <1>5. DOMAIN zones = ZoneNames /\ DOMAIN journal = ZoneNames /\ DOMAIN hist = ZoneNames
    BY DEF Init, Loaded
  <1>6. \A p \in Procs : Fit(p)
    BY AllIdle DEF Init
  <1> QED
    BY <1>1, <1>2, <1>4, <1>5, <1>6 DEF Init, Control, Labels

LEMMA RestartControl == ASSUME Control, FilesReadable, Restart PROVE Control'
  <1>1. PICK left \in {fileNow, fileSafe} : zones' = Loaded(left)
    BY DEF Restart
  <1>2. /\ boots' = boots + 1 /\ journal' = [n \in ZoneNames |-> NoHistory] /\ mu' = Free
        /\ pc' = [p \in Procs |-> "idle"] /\ job' = [p \in Procs |-> NoJob]
        /\ write' = [p \in Procs |-> Nothing] /\ today' = today /\ DOMAIN hist' = ZoneNames
    BY DEF Restart
  <1>3. today \in Serial
    BY DaysAreSerials DEF Control
  <1>4. \A n \in ZoneNames : Present(zones'[n]) => HasSOA(zones'[n])
    BY <1>1, <1>3, LoadedHasSOA DEF FilesReadable
  <1>5. DOMAIN zones' = ZoneNames
    BY <1>1 DEF Loaded
  <1>6. \A p \in Procs : Fit(p)'
    BY <1>2 DEF Fit, Nothing, Labels, Holding, Updating
  <1> QED
    BY <1>2, <1>4, <1>5, <1>6 DEF Control, Labels

LEMMA ReceiveUpdateControl ==
    ASSUME Control, NEW p \in Procs, NEW m \in Messages, ReceiveUpdate(p, m) PROVE Control'
  <1>1. UNCHANGED <<zones, today, boots, mu, journal, hist>>
    BY DEF ReceiveUpdate, store
  <1>2. CASE updateGuard(m) = "NOERROR" /\ job' = [job EXCEPT ![p] = m] /\ Goto(p, "lock")
             /\ UNCHANGED write
    <2>1. Served(m)
      BY <1>2 DEF updateGuard, Served
    <2>2. pc' = [pc EXCEPT ![p] = "lock"]
      BY <1>2 DEF Goto
    <2>3. pc'[p] = "lock" /\ job'[p] = m /\ write'[p] = write[p]
      BY <1>2, <2>2 DEF Control
    <2>4. Fit(p)'
      BY <2>1, <2>3 DEF Control, Fit, Labels, Holding, Updating
    <2>5. /\ pc' \in [Procs -> Labels] /\ DOMAIN job' = Procs /\ DOMAIN write' = Procs
          /\ \A q \in Procs \ {p} : pc'[q] = pc[q] /\ job'[q] = job[q] /\ write'[q] = write[q]
      BY <1>2, <2>2 DEF Control, Labels
    <2> QED
      BY <1>1, <2>4, <2>5, QuietStep DEF Control
  <1>3. CASE Finish(p, updateGuard(m))
    BY <1>1, <1>3, Finished, QuietStep DEF Control
  <1> QED
    BY <1>2, <1>3 DEF ReceiveUpdate

\* The lock is taken and the replacement computed from the zone read under it.
LEMMA LockUpdateControl ==
    ASSUME Control, NEW p \in Procs, LockUpdate(p) PROVE Control'
  <1> DEFINE m == job[p]
             live == zones[m.zone]
             outcome == updateOutcome(live, m, today)
             prepared == [ups |-> [n \in {m.zone} |-> outcome.zone], rems |-> {}]
  <1>1. UNCHANGED <<zones, today, boots, journal, hist>> /\ mu = Free /\ Served(m)
    BY DEF LockUpdate, store, Control, Fit
  <1>2. CASE /\ Present(live) /\ outcome.rcode = "NOERROR" /\ mu' = p
             /\ write' = [write EXCEPT ![p] = prepared] /\ UNCHANGED job
             /\ Goto(p, IF m.zone \in Persisted THEN "temp" ELSE "record")
    <2>1. pc' = [pc EXCEPT ![p] = IF m.zone \in Persisted THEN "temp" ELSE "record"]
      BY <1>2 DEF Goto
    <2>2. pc'[p] \in {"temp", "record"} /\ job'[p] = m /\ write'[p] = prepared
      BY <1>2, <2>1 DEF Control
    <2>3. Prepared(p)'
      BY <1>1, <1>2, <2>2 DEF Prepared, Control
    <2>4. DOMAIN prepared.ups \subseteq ZoneNames
      BY <1>1, InputsAssumption DEF Served
    <2>5. Fit(p)'
      BY <1>2, <2>2, <2>3, <2>4 DEF Fit, Labels, Holding, Updating
    <2>6. /\ pc' \in [Procs -> Labels] /\ DOMAIN job' = Procs /\ DOMAIN write' = Procs
          /\ \A q \in Procs \ {p} : pc'[q] = pc[q] /\ job'[q] = job[q] /\ write'[q] = write[q]
      BY <1>2, <2>1 DEF Control, Labels
    <2> QED
      BY <1>1, <1>2, <2>5, <2>6, QuietStep DEF Control
  <1>3. CASE mu' = mu /\ Finish(p, IF Present(live) THEN outcome.rcode ELSE "REFUSED")
    BY <1>1, <1>3, Finished, QuietStep DEF Control
  <1> QED
    BY <1>2, <1>3 DEF LockUpdate

\* The holder of persistMu goes from one point of its UPDATE to the next.
LEMMA MovesOn ==
    ASSUME Control, NEW p \in Procs, NEW label \in Updating, pc[p] \in Updating, Goto(p, label),
           UNCHANGED <<job, write, mu, zones, today, boots>>,
           DOMAIN journal' = ZoneNames, DOMAIN hist' = ZoneNames
    PROVE  Control'
  <1>1. pc' = [pc EXCEPT ![p] = label] /\ label \in Labels
    BY DEF Goto, Updating, Labels
  <1>2. pc'[p] = label
    BY <1>1 DEF Control
  <1>3. mu = p /\ Prepared(p) /\ DOMAIN write[p].ups \subseteq ZoneNames
    BY DEF Control, Fit, Updating, Holding
  <1>4. Prepared(p)'
    BY <1>3 DEF Prepared
  <1>5. Fit(p)'
    BY <1>1, <1>2, <1>3, <1>4 DEF Fit, Updating
  <1>6. /\ pc' \in [Procs -> Labels]
        /\ \A q \in Procs \ {p} : pc'[q] = pc[q] /\ job'[q] = job[q] /\ write'[q] = write[q]
    BY <1>1 DEF Control
  <1> QED
    BY <1>5, <1>6, QuietStep DEF Control

\* persistZone: each call succeeds, or the lock is released with an error.
LEMMA PersistControl ==
    ASSUME Control, NEW p \in Procs, WriteTemp(p) \/ RenameTemp(p) \/ SyncDirectory(p)
    PROVE  Control'
  <1>1. UNCHANGED <<zones, journal, hist, today, boots>> /\ pc[p] \in Updating
    BY DEF WriteTemp, RenameTemp, SyncDirectory, store, Updating
  <1>2. mu = p
    BY <1>1 DEF Control, Fit, Updating, Holding
  <1>3. CASE FailPersist(p)
    <2>1. mu' = Free /\ Finish(p, "SERVFAIL")
      BY <1>3 DEF FailPersist
    <2> QED
      BY <1>1, <1>2, <2>1, Finished, QuietStep DEF Control
  <1>4. ASSUME NEW label \in Updating, Goto(p, label), UNCHANGED <<mu, job, write>> PROVE Control'
    BY <1>1, <1>4, MovesOn DEF Control
  <1>5. "rename" \in Updating /\ "sync" \in Updating /\ "record" \in Updating
    BY DEF Updating
  <1> QED
    BY <1>3, <1>4, <1>5 DEF WriteTemp, RenameTemp, SyncDirectory

LEMMA RecordUpdateControl ==
    ASSUME Control, NEW p \in Procs, RecordUpdate(p) PROVE Control'
  <1>1. /\ pc[p] \in Updating /\ "publish" \in Updating /\ Goto(p, "publish")
        /\ UNCHANGED <<job, write, mu, zones, today, boots>>
    BY DEF RecordUpdate, Updating
  <1>2. DOMAIN journal' = ZoneNames /\ DOMAIN hist' = ZoneNames
    BY DEF RecordUpdate, RecordWrite
  <1> QED
    BY <1>1, <1>2, MovesOn

\* The holder of persistMu swaps the zone map and lets go of the lock.
LEMMA SwapControl ==
    ASSUME Control, NEW p \in Procs, mu = p, SwapZones(write[p]), mu' = Free,
           \A n \in DOMAIN write[p].ups : HasSOA(write[p].ups[n]),
           pc' \in [Procs -> Labels], DOMAIN job' = Procs, DOMAIN write' = Procs,
           \A q \in Procs \ {p} : pc'[q] = pc[q] /\ job'[q] = job[q] /\ write'[q] = write[q],
           Fit(p)', UNCHANGED <<journal, hist, today, boots>>
    PROVE  Control'
  <1>1. \A q \in Procs : Fit(q)'
    BY Others
  <1>2. DOMAIN zones' = ZoneNames
    BY DEF SwapZones
  <1>3. ASSUME NEW n \in ZoneNames, Present(zones'[n]) PROVE HasSOA(zones'[n])
    <2>1. zones'[n] = IF n \in write[p].rems THEN NoZone
                      ELSE IF n \in DOMAIN write[p].ups THEN write[p].ups[n] ELSE zones[n]
      BY DEF SwapZones
    <2>2. CASE n \in DOMAIN write[p].ups /\ zones'[n] = write[p].ups[n]
      BY <2>2
    <2>3. CASE zones'[n] = zones[n]
      BY <1>3, <2>3 DEF Control
    <2> QED
      BY <1>3, <2>1, <2>2, <2>3 DEF Present
  <1> QED
    BY <1>1, <1>2, <1>3 DEF Control

LEMMA PublishUpdateControl ==
    ASSUME Control, NEW p \in Procs, PublishUpdate(p) PROVE Control'
  <1>1. /\ pc[p] = "publish" /\ SwapZones(write[p]) /\ mu' = Free /\ Goto(p, "reply")
        /\ UNCHANGED <<journal, hist, job, write, today, boots>>
    BY DEF PublishUpdate
  <1>2. mu = p /\ Prepared(p) /\ DOMAIN write[p].ups \subseteq ZoneNames
    BY <1>1 DEF Control, Fit, Holding, Updating
  <1>3. \A n \in DOMAIN write[p].ups : HasSOA(write[p].ups[n])
    BY <1>2, PreparedWrite
  <1>4. pc' = [pc EXCEPT ![p] = "reply"]
    BY <1>1 DEF Goto
  <1>5. pc'[p] = "reply" /\ write'[p] = write[p]
    BY <1>1, <1>4 DEF Control
  <1>6. Fit(p)'
    BY <1>2, <1>5 DEF Fit, Labels, Holding, Updating
  <1>7. /\ pc' \in [Procs -> Labels] /\ DOMAIN job' = Procs /\ DOMAIN write' = Procs
        /\ \A q \in Procs \ {p} : pc'[q] = pc[q] /\ job'[q] = job[q] /\ write'[q] = write[q]
    BY <1>1, <1>4 DEF Control, Labels
  <1> QED
    BY <1>1, <1>2, <1>3, <1>6, <1>7, SwapControl

LEMMA ReplyUpdateControl ==
    ASSUME Control, NEW p \in Procs, ReplyUpdate(p) PROVE Control'
  <1>1. UNCHANGED <<zones, journal, hist, mu, today, boots>> /\ Finish(p, "NOERROR")
    BY DEF ReplyUpdate, store
  <1> QED
    BY <1>1, Finished, QuietStep DEF Control

\* A validated change waits for the lock; it does not depend on the zones.
LEMMA AdmitControl ==
    ASSUME Control, NEW p \in Procs, NEW w, Admit(p, w, "add"), DOMAIN w.ups \subseteq ZoneNames,
           (\A n \in DOMAIN w.ups : Validate(w.ups[n])) => Batched(w)
    PROVE  Control'
  <1>1. UNCHANGED <<zones, journal, hist, mu, today, boots>>
    BY DEF Admit, store
  <1>2. CASE Finish(p, "INVALID")
    BY <1>1, <1>2, Finished, QuietStep DEF Control
  <1>3. CASE Batched(w) /\ write' = [write EXCEPT ![p] = w] /\ Goto(p, "add") /\ UNCHANGED job
    <2>1. pc' = [pc EXCEPT ![p] = "add"]
      BY <1>3 DEF Goto
    <2>2. pc'[p] = "add" /\ write'[p] = w
      BY <1>3, <2>1 DEF Control
    <2>3. Fit(p)'
      BY <1>3, <2>2 DEF Fit, Labels, Holding, Updating, Batched
    <2>4. /\ pc' \in [Procs -> Labels] /\ DOMAIN job' = Procs /\ DOMAIN write' = Procs
          /\ \A q \in Procs \ {p} : pc'[q] = pc[q] /\ job'[q] = job[q] /\ write'[q] = write[q]
      BY <1>3, <2>1 DEF Control, Labels
    <2> QED
      BY <1>1, <2>3, <2>4, QuietStep DEF Control
  <1> QED
    BY <1>2, <1>3 DEF Admit

LEMMA ApplyZoneBatchControl ==
    ASSUME Control, NEW p \in Procs, NEW chosen \in SUBSET Images,
           NEW removals \in SUBSET ZoneNames, ApplyZoneBatch(p, chosen, removals)
    PROVE  Control'
  <1> DEFINE names == {i.name : i \in chosen}
             w == [ups |-> [n \in names |-> (CHOOSE i \in chosen : i.name = n).zone],
                   rems |-> removals]
  <1>1. Admit(p, w, "add") /\ \A i, j \in chosen : i.name = j.name => i = j
    BY DEF ApplyZoneBatch
  <1>2. DOMAIN w.ups = names /\ names \subseteq ZoneNames
    BY InputsAssumption
  <1>3. ASSUME NEW i \in chosen PROVE i.name \in names /\ w.ups[i.name] = i.zone
    <2>1. (CHOOSE j \in chosen : j.name = i.name) = i
      BY <1>1
    <2> QED
      BY <2>1
  <1>4. ASSUME \A n \in DOMAIN w.ups : Validate(w.ups[n]) PROVE Batched(w)
    <2>1. \A i \in chosen : Validate(i.zone) /\ i.name \notin removals
      BY <1>2, <1>3, <1>4 DEF ApplyZoneBatch
    <2> QED
      BY <1>1, <2>1 DEF Batched
  <1> QED
    BY <1>1, <1>2, <1>4, AdmitControl

LEMMA AddZoneControl ==
    ASSUME Control, NEW p \in Procs, NEW image \in Images, AddZone(p, image) PROVE Control'
  <1> DEFINE w == [ups |-> [n \in {image.name} |-> image.zone], rems |-> {}]
  <1>1. Admit(p, w, "add")
    BY DEF AddZone
  <1>2. DOMAIN w.ups \subseteq ZoneNames
    BY InputsAssumption
  <1>3. ASSUME \A n \in DOMAIN w.ups : Validate(w.ups[n]) PROVE Batched(w)
    <2>1. Validate(image.zone)
      BY <1>3
    <2>2. {i.name : i \in {image}} = {image.name} /\ (CHOOSE i \in {image} : i.name = image.name) = image
      OBVIOUS
    <2>3. w = [ups |-> [n \in {i.name : i \in {image}} |-> (CHOOSE i \in {image} : i.name = n).zone],
               rems |-> {}]
      BY <2>2
    <2>4. \A i \in {image} : Validate(i.zone)
      BY <2>1
    <2>5. {image} \in SUBSET Images /\ {} \in SUBSET ZoneNames
      OBVIOUS
    <2> QED
      BY <2>3, <2>4, <2>5 DEF Batched
  <1> QED
    BY <1>1, <1>2, <1>3, AdmitControl

LEMMA RecordZonesControl ==
    ASSUME Control, NEW p \in Procs, RecordZones(p) PROVE Control'
  <1>1. /\ pc[p] = "add" /\ mu = Free /\ mu' = p /\ pc' = [pc EXCEPT ![p] = "swap"]
        /\ UNCHANGED <<zones, job, write, today, boots>>
    BY DEF RecordZones, Lock, Goto
  <1>2. DOMAIN journal' = ZoneNames /\ DOMAIN hist' = ZoneNames
    BY DEF RecordZones, RecordWrite
  <1>3. pc'[p] = "swap"
    BY <1>1 DEF Control
  <1>4. Batched(write[p]) /\ DOMAIN write[p].ups \subseteq ZoneNames
    BY <1>1 DEF Control, Fit
  <1>5. Fit(p)'
    BY <1>1, <1>3, <1>4 DEF Fit, Batched, Labels, Holding, Updating
  <1>6. /\ pc' \in [Procs -> Labels]
        /\ \A q \in Procs \ {p} : pc'[q] = pc[q] /\ job'[q] = job[q] /\ write'[q] = write[q]
    BY <1>1 DEF Control, Labels
  <1> QED
    BY <1>1, <1>2, <1>5, <1>6, QuietStep DEF Control

LEMMA PublishZonesControl ==
    ASSUME Control, NEW p \in Procs, PublishZones(p) PROVE Control'
  <1>1. /\ pc[p] = "swap" /\ SwapZones(write[p]) /\ mu' = Free /\ Finish(p, "OK")
        /\ UNCHANGED <<journal, hist, today, boots>>
    BY DEF PublishZones
  <1>2. mu = p /\ Batched(write[p])
    BY <1>1 DEF Control, Fit, Holding
  <1>3. \A n \in DOMAIN write[p].ups : HasSOA(write[p].ups[n])
    BY <1>2, BatchedWrite
  <1> QED
    BY <1>1, <1>2, <1>3, Finished, SwapControl

\* RemoveZone takes the lock and the zone out of the map in one step.
LEMMA RemoveZoneControl ==
    ASSUME Control, NEW p \in Procs, NEW n \in ZoneNames, RemoveZone(p, n) PROVE Control'
  <1> DEFINE w == [ups |-> <<>>, rems |-> {n}]
  <1>1. /\ mu = Free /\ mu' = p /\ write' = [write EXCEPT ![p] = w]
        /\ zones' = [zones EXCEPT ![n] = NoZone] /\ pc' = [pc EXCEPT ![p] = "reset"]
        /\ UNCHANGED <<journal, hist, job, today, boots>>
    BY DEF RemoveZone, Lock, Goto
  <1>2. pc'[p] = "reset" /\ write'[p] = w /\ zones'[n] = NoZone /\ DOMAIN zones' = ZoneNames
    BY <1>1 DEF Control
  <1>3. DOMAIN w.ups = {}
    OBVIOUS
  <1>4. Fit(p)'
    BY <1>1, <1>2, <1>3 DEF Fit, Labels, Holding, Updating
  <1>5. ASSUME NEW q \in Procs, q # p PROVE Fit(q)'
    <2>1. pc'[q] = pc[q] /\ job'[q] = job[q] /\ write'[q] = write[q]
      BY <1>1, <1>5 DEF Control
    <2>2. Fit(q) /\ mu # q
      BY <1>1, ProcsAssumption DEF Control
    <2>3. pc[q] \notin Holding
      BY <2>2 DEF Fit
    <2> QED
      BY <2>1, <2>2, <2>3 DEF Fit, Holding, Updating, Batched
  <1>6. \A o \in ZoneNames : zones'[o] = IF o = n THEN NoZone ELSE zones[o]
    BY <1>1 DEF Control
  <1>7. \A o \in ZoneNames : Present(zones'[o]) => HasSOA(zones'[o])
    BY <1>6 DEF Control, Present
  <1>8. pc' \in [Procs -> Labels] /\ DOMAIN write' = Procs
    BY <1>1 DEF Control, Labels
  <1> QED
    BY <1>1, <1>2, <1>4, <1>5, <1>7, <1>8 DEF Control

LEMMA ResetJournalControl ==
    ASSUME Control, NEW p \in Procs, ResetJournal(p) PROVE Control'
  <1>1. /\ pc[p] = "reset" /\ mu' = Free /\ Finish(p, "OK") /\ UNCHANGED <<zones, today, boots>>
        /\ DOMAIN journal' = ZoneNames /\ DOMAIN hist' = ZoneNames
    BY DEF ResetJournal, RecordWrite
  <1>2. mu = p
    BY <1>1 DEF Control, Fit, Holding
  <1> QED
    BY <1>1, <1>2, Finished, QuietStep DEF Control

\* A step that leaves the goroutines, the lock and the zones alone.
LEMMA Frozen ==
    ASSUME NEW p, Fit(p), UNCHANGED <<pc, job, write, mu, zones>> PROVE Fit(p)'
  BY DEF Fit, Prepared

\* Every step keeps the control invariant.
LEMMA ControlStep == Control /\ FilesReadable /\ [Next]_vars => Control'
  <1> SUFFICES ASSUME Control, FilesReadable, [Next]_vars PROVE Control'
    OBVIOUS
  <1>1. ASSUME NEW p \in Procs, UpdateStep(p) PROVE Control'
    BY <1>1, ReceiveUpdateControl, LockUpdateControl, PersistControl, RecordUpdateControl,
       PublishUpdateControl, ReplyUpdateControl DEF UpdateStep
  <1>2. ASSUME NEW p \in Procs, AdminStep(p) PROVE Control'
    BY <1>2, AddZoneControl, ApplyZoneBatchControl, RecordZonesControl, PublishZonesControl,
       RemoveZoneControl, ResetJournalControl DEF AdminStep
  <1>3. CASE NewDay
    <2>1. today' \in Store!Days
      BY <1>3, NextDay DEF NewDay, Control
    <2>2. UNCHANGED <<zones, journal, hist, mu, pc, job, write, boots>>
      BY <1>3 DEF NewDay, store, local
    <2>3. \A p \in Procs : Fit(p)'
      BY <2>2, Frozen DEF Control
    <2> QED
      BY <2>1, <2>2, <2>3 DEF Control
  <1>4. CASE UNCHANGED vars
    <2>1. UNCHANGED <<zones, journal, hist, mu, pc, job, write, boots, today>>
      BY <1>4 DEF vars
    <2>2. \A p \in Procs : Fit(p)'
      BY <2>1, Frozen DEF Control
    <2> QED
      BY <2>1, <2>2 DEF Control
  <1> QED
    BY <1>1, <1>2, <1>3, <1>4, RestartControl DEF Next

\* The control invariant holds of every behaviour of the server.
THEOREM ControlHolds == Spec => [](Control /\ FilesReadable)
  BY ControlInit, ControlStep, ReadableStep, PTL DEF Spec

\* Types, a serial of 32 bits in every live zone included.
THEOREM TypesHold == Spec => []TypeOK
  <1>1. Control => TypeOK
    <2> SUFFICES ASSUME Control PROVE TypeOK
      OBVIOUS
    <2>1. today \in Serial
      BY DaysAreSerials DEF Control
    <2> QED
      BY <2>1 DEF Control, TypeOK, Fit
  <1> QED
    BY <1>1, ControlHolds, PTL

-----------------------------------------------------------------------------
(* The writers implement the atomic store.                                 *)

\* The swap at the end of an UPDATE is the whole UPDATE, on the zone it replaces.
LEMMA UpdateIsAtomic ==
    ASSUME Control, NEW p \in Procs, PublishUpdate(p) PROVE Store!Next
  <1> DEFINE m == job[p]
  <1>1. SwapZones(write[p]) /\ boots' = boots
    BY DEF PublishUpdate
  <1>2. Prepared(p)
    BY DEF PublishUpdate, Control, Fit, Updating
  <1>3. Served(m) /\ Present(zones[m.zone]) /\ m.zone \in ZoneNames
    BY <1>2, PreparedWrite DEF Prepared
  <1>4. PICK day \in Store!Days :
          /\ updateOutcome(zones[m.zone], m, day).rcode = "NOERROR"
          /\ write[p] = [ups |-> [x \in {m.zone} |-> updateOutcome(zones[m.zone], m, day).zone],
                         rems |-> {}]
    BY <1>2 DEF Prepared
  <1> DEFINE z == updateOutcome(zones[m.zone], m, day).zone
  <1>5. zones' = [n \in ZoneNames |-> IF n = m.zone THEN z ELSE zones[n]]
    BY <1>1, <1>4 DEF SwapZones
  <1>6. zones' = [zones EXCEPT ![m.zone] = z]
    BY <1>5 DEF Control
  <1>7. zones[m.zone] # Store!NoZone
    BY <1>3 DEF Present, NoZone, Store!NoZone
  <1>8. Store!Update(m)
    BY <1>1, <1>3, <1>4, <1>6, <1>7 DEF Store!Update, Served
  <1> QED
    BY <1>3, <1>8 DEF Store!Next, Served

\* The swap at the end of AddZone or ApplyZoneBatch is the whole batch.
LEMMA BatchIsAtomic ==
    ASSUME Control, NEW p \in Procs, PublishZones(p) PROVE Store!Next
  <1>1. SwapZones(write[p]) /\ boots' = boots
    BY DEF PublishZones
  <1>2. Batched(write[p])
    BY DEF PublishZones, Control, Fit
  <1>3. PICK chosen \in SUBSET Images, removals \in SUBSET ZoneNames :
          /\ \A i, j \in chosen : i.name = j.name => i = j
          /\ \A i \in chosen : Validate(i.zone)
          /\ write[p] = [ups |-> [n \in {i.name : i \in chosen} |->
                                    (CHOOSE i \in chosen : i.name = n).zone],
                         rems |-> removals]
    BY <1>2 DEF Batched
  <1>4. zones' = [n \in ZoneNames |->
                    IF n \in removals THEN NoZone
                    ELSE IF n \in {i.name : i \in chosen}
                    THEN (CHOOSE i \in chosen : i.name = n).zone
                    ELSE zones[n]]
    BY <1>1, <1>3 DEF SwapZones
  <1>5. zones' = [n \in ZoneNames |->
                    IF n \in removals THEN Store!NoZone
                    ELSE IF \E i \in chosen : i.name = n
                    THEN (CHOOSE i \in chosen : i.name = n).zone
                    ELSE zones[n]]
    BY <1>4 DEF NoZone, Store!NoZone
  <1>6. Store!Replace(chosen, removals)
    BY <1>1, <1>3, <1>5 DEF Store!Replace
  <1> QED
    BY <1>6 DEF Store!Next

\* RemoveZone takes effect when the map entry goes, before the journal's reset.
LEMMA RemovalIsAtomic ==
    ASSUME Control, NEW p \in Procs, NEW n \in ZoneNames, RemoveZone(p, n) PROVE Store!Next
  <1>1. zones' = [zones EXCEPT ![n] = NoZone] /\ boots' = boots
    BY DEF RemoveZone
  <1>2. zones' = [o \in ZoneNames |-> IF o = n THEN NoZone ELSE zones[o]]
    BY <1>1 DEF Control
  <1>3. zones' = [o \in ZoneNames |->
                    IF o \in {n} THEN Store!NoZone
                    ELSE IF \E i \in {} : i.name = o
                    THEN (CHOOSE i \in {} : i.name = o).zone
                    ELSE zones[o]]
    BY <1>2 DEF NoZone, Store!NoZone
  <1>4. Store!Replace({}, {n})
    BY <1>1, <1>3 DEF Store!Replace
  <1>5. {} \in SUBSET Images /\ {n} \in SUBSET ZoneNames
    OBVIOUS
  <1> QED
    BY <1>4, <1>5 DEF Store!Next

\* Every other step leaves the map and the process alone.
LEMMA StepIsAtomic ==
    ASSUME Control, [Next]_vars PROVE [Store!Next]_<<zones, boots>>
  <1>1. ASSUME NEW p \in Procs, PublishUpdate(p) \/ PublishZones(p)
        PROVE  Store!Next
    BY <1>1, UpdateIsAtomic, BatchIsAtomic
  <1>2. ASSUME NEW p \in Procs, NEW n \in ZoneNames, RemoveZone(p, n) PROVE Store!Next
    BY <1>2, RemovalIsAtomic
  <1>3. CASE Restart
    <2>1. boots' # boots
      BY <1>3 DEF Restart, Control
    <2> QED
      BY <2>1 DEF Store!Next, Store!Restart
  <1>4. CASE UNCHANGED <<zones, boots>>
    BY <1>4
  <1>5. ASSUME NEW p \in Procs, UpdateStep(p) PROVE PublishUpdate(p) \/ UNCHANGED <<zones, boots>>
    BY <1>5 DEF UpdateStep, ReceiveUpdate, LockUpdate, WriteTemp, RenameTemp, SyncDirectory,
                RecordUpdate, ReplyUpdate, store
  <1>6. ASSUME NEW p \in Procs, AdminStep(p)
        PROVE  \/ PublishZones(p) \/ UNCHANGED <<zones, boots>>
               \/ \E n \in ZoneNames : RemoveZone(p, n)
    BY <1>6 DEF AdminStep, AddZone, ApplyZoneBatch, Admit, RecordZones, ResetJournal, store
  <1>7. CASE NewDay \/ UNCHANGED vars
    BY <1>7 DEF NewDay, store, vars
  <1> QED
    BY <1>1, <1>2, <1>3, <1>4, <1>5, <1>6, <1>7 DEF Next

\* update.go step 9, for any number of concurrent writers: every behaviour of
\* UPDATE, AddZone, ApplyZoneBatch, RemoveZone and restarts is one of the atomic
\* store.  No committed change is lost and no batch is seen in part.
THEOREM WritersRefineStore == Spec => WritersAreAtomic
  <1>1. Init => Store!Init
    BY DEF Init, Store!Init, Loaded
  <1>2. Control /\ [Next]_vars => [Store!Next]_<<zones, boots>>
    BY StepIsAtomic
  <1> QED
    BY <1>1, <1>2, ControlHolds, PTL DEF Spec, WritersAreAtomic, Store!Spec

-----------------------------------------------------------------------------
(* Validation does not look at serials and TTLs.                           *)

\* Two zones with the same RRsets of the same rdata.
SameData(z, y) ==
    /\ DOMAIN z.rrs = DOMAIN y.rrs
    /\ \A k \in DOMAIN z.rrs :
         /\ DOMAIN z.rrs[k] = DOMAIN y.rrs[k]
         /\ \A i \in DOMAIN z.rrs[k] : z.rrs[k][i].data = y.rrs[k][i].data

\* ... or, less, with the same rdata in each RRset.
SameDataSets(z, y) ==
    /\ DOMAIN z.rrs = DOMAIN y.rrs
    /\ \A k \in DOMAIN z.rrs : {e.data : e \in ToSet(z.rrs[k])} = {e.data : e \in ToSet(y.rrs[k])}

LEMMA SameLookup ==
    ASSUME NEW z, NEW y, SameDataSets(z, y), NEW owner, NEW type, type # "SOA"
    PROVE  DataAt(z, owner, type) = DataAt(y, owner, type)
  <1>1. Owners(z) = Owners(y)
    BY DEF SameDataSets, Owners
  <1>2. \A n : nameExists(z, n) <=> nameExists(y, n)
    BY <1>1 DEF nameExists
  <1>3. ASSUME NEW o PROVE {e.data : e \in ToSet(recordsAt(z, o, type))}
                             = {e.data : e \in ToSet(recordsAt(y, o, type))}
    <2>1. CASE <<o, type>> \in DOMAIN z.rrs
      <3>1. recordsAt(z, o, type) = z.rrs[<<o, type>>] /\ recordsAt(y, o, type) = y.rrs[<<o, type>>]
        BY <2>1 DEF recordsAt, SameDataSets
      <3> QED
        BY <2>1, <3>1 DEF SameDataSets
    <2>2. CASE <<o, type>> \notin DOMAIN z.rrs
      BY <2>2 DEF recordsAt, SameDataSets
    <2> QED
      BY <2>1, <2>2
  <1>4. CASE nameExists(z, owner)
    <2>1. GetRecords(z, owner, type) = recordsAt(z, owner, type)
          /\ GetRecords(y, owner, type) = recordsAt(y, owner, type)
      BY <1>2, <1>4 DEF GetRecords
    <2> QED
      BY <1>3, <2>1 DEF DataAt
  <1>5. CASE ~nameExists(z, owner)
    <2> DEFINE above == {n \in Suffixes(owner) : n # owner /\ nameExists(z, n)}
               closest == CHOOSE n \in above : \A m \in above : Len(m) <= Len(n)
    <2>1. above = {n \in Suffixes(owner) : n # owner /\ nameExists(y, n)}
      BY <1>2
    <2>2. GetRecords(z, owner, type) = recordsAt(z, <<"*">> \o closest, type)
      BY <1>5 DEF GetRecords
    <2>3. GetRecords(y, owner, type) = recordsAt(y, <<"*">> \o closest, type)
      BY <1>2, <1>5, <2>1 DEF GetRecords
    <2> QED
      BY <1>3, <2>2, <2>3 DEF DataAt
  <1> QED
    BY <1>4, <1>5

LEMMA SameValidity ==
    ASSUME NEW z, NEW y, SameData(z, y), Validate(z) PROVE Validate(y)
  <1> SameDataSets(z, y)
    BY DEF SameData, SameDataSets, ToSet
  <1>1. Nameservers(y) = Nameservers(z)
    BY SameLookup DEF Nameservers
  <1>2. GlueComplete(y)
    BY <1>1, SameLookup DEF Validate, GlueComplete
  <1>3. \A owner : TypesAt(y, owner) = TypesAt(z, owner)
    BY DEF SameData, TypesAt
  <1>5. CNAMEsAlone(y)
    BY <1>3 DEF SameData, Validate, CNAMEsAlone
  <1>6. MXTargetsCanonical(y)
    <2> SUFFICES ASSUME NEW k \in DOMAIN y.rrs, k[2] = "MX", NEW i \in DOMAIN y.rrs[k],
                        InZone(y.rrs[k][i].data)
                 PROVE  DataAt(y, y.rrs[k][i].data, "CNAME") = {}
      BY DEF MXTargetsCanonical, ToSet
    <2>1. k \in DOMAIN z.rrs /\ i \in DOMAIN z.rrs[k] /\ z.rrs[k][i].data = y.rrs[k][i].data
      BY DEF SameData
    <2>2. DataAt(z, z.rrs[k][i].data, "CNAME") = {}
      BY <2>1 DEF Validate, MXTargetsCanonical, ToSet
    <2> QED
      BY <2>1, <2>2, SameLookup
  <1> QED
    BY <1>1, <1>2, <1>5, <1>6 DEF Validate

\* The zone an UPDATE computes is valid: only the serial changes after Validate.
LEMMA OutcomeValid ==
    ASSUME NEW live, NEW m, NEW day, updateOutcome(live, m, day).rcode = "NOERROR"
    PROVE  Validate(updateOutcome(live, m, day).zone)
  <1>1. Validate(applyUpdates(live, m.updates).zone)
    BY DEF updateOutcome
  <1>2. updateOutcome(live, m, day).zone.rrs = applyUpdates(live, m.updates).zone.rrs
    BY DEF updateOutcome
  <1>3. SameData(applyUpdates(live, m.updates).zone, updateOutcome(live, m, day).zone)
    BY <1>2 DEF SameData
  <1> QED
    BY <1>1, <1>3, SameValidity

LEMMA PreparedValid ==
    ASSUME NEW p, Prepared(p) PROVE Validate(write[p].ups[job[p].zone])
  <1>1. PICK day \in Store!Days :
          /\ updateOutcome(zones[job[p].zone], job[p], day).rcode = "NOERROR"
          /\ write[p] = [ups |-> [x \in {job[p].zone} |->
                                    updateOutcome(zones[job[p].zone], job[p], day).zone],
                         rems |-> {}]
    BY DEF Prepared
  <1>2. write[p].ups[job[p].zone] = updateOutcome(zones[job[p].zone], job[p], day).zone
    BY <1>1
  <1> QED
    BY <1>1, <1>2, OutcomeValid

\* What a swap by the holder of persistMu publishes.
LEMMA SwappedZone ==
    ASSUME NEW w, SwapZones(w), NEW n \in ZoneNames
    PROVE  zones'[n] = IF n \in w.rems THEN NoZone
                       ELSE IF n \in DOMAIN w.ups THEN w.ups[n] ELSE zones[n]
  BY DEF SwapZones

\* A step changes the map by a swap, a removal, a restart or not at all.
LEMMA MapSteps ==
    ASSUME [Next]_vars
    PROVE  \/ \E p \in Procs : PublishUpdate(p) \/ PublishZones(p)
           \/ \E p \in Procs, n \in ZoneNames : RemoveZone(p, n)
           \/ Restart
           \/ zones' = zones
  <1>1. ASSUME NEW p \in Procs, UpdateStep(p) PROVE PublishUpdate(p) \/ zones' = zones
    BY <1>1 DEF UpdateStep, ReceiveUpdate, LockUpdate, WriteTemp, RenameTemp, SyncDirectory,
                RecordUpdate, ReplyUpdate, store
  <1>2. ASSUME NEW p \in Procs, AdminStep(p)
        PROVE  PublishZones(p) \/ zones' = zones \/ \E n \in ZoneNames : RemoveZone(p, n)
    BY <1>2 DEF AdminStep, AddZone, ApplyZoneBatch, Admit, RecordZones, ResetJournal, store
  <1>3. CASE NewDay \/ UNCHANGED vars
    BY <1>3 DEF NewDay, store, vars
  <1> QED
    BY <1>1, <1>2, <1>3 DEF Next

LEMMA ValidInit == Init => LiveZonesValid
  <1> SUFFICES ASSUME Init PROVE LiveZonesValid
    OBVIOUS
  <1>1. zones = Loaded(InitialFiles)
    BY DEF Init
  <1> QED
    BY <1>1 DEF LiveZonesValid, Loaded, Present

LEMMA ValidStep ==
    ASSUME Control, LiveZonesValid, [Next]_vars PROVE LiveZonesValid'
  <1> SUFFICES ASSUME NEW n \in ZoneNames, Present(zones'[n]) PROVE Validate(zones'[n])
    BY DEF LiveZonesValid, Present
  <1>1. zones[n] = zones'[n] => Validate(zones'[n])
    BY DEF LiveZonesValid
  <1>2. ASSUME NEW p \in Procs, PublishUpdate(p) PROVE Validate(zones'[n])
    <2>1. Prepared(p) /\ SwapZones(write[p])
      BY <1>2 DEF PublishUpdate, Control, Fit, Updating
    <2>2. DOMAIN write[p].ups = {job[p].zone} /\ write[p].rems = {}
      BY <2>1, PreparedWrite
    <2> QED
      BY <1>1, <2>1, <2>2, PreparedValid, SwappedZone
  <1>3. ASSUME NEW p \in Procs, PublishZones(p) PROVE Validate(zones'[n])
    <2>1. Batched(write[p]) /\ SwapZones(write[p])
      BY <1>3 DEF PublishZones, Control, Fit
    <2> QED
      BY <1>1, <2>1, BatchedWrite, SwappedZone DEF Present
  <1>4. ASSUME NEW p \in Procs, NEW o \in ZoneNames, RemoveZone(p, o) PROVE Validate(zones'[n])
    <2>1. zones'[n] = IF n = o THEN NoZone ELSE zones[n]
      BY <1>4 DEF RemoveZone, Control
    <2> QED
      BY <1>1, <2>1 DEF Present
  <1>5. CASE Restart
    <2>1. PICK left \in {fileNow, fileSafe} : zones' = Loaded(left)
      BY <1>5 DEF Restart
    <2> QED
      BY <2>1 DEF Loaded, Present
  <1> QED
    BY <1>1, <1>2, <1>3, <1>4, <1>5, MapSteps

-----------------------------------------------------------------------------
(* Zone files.                                                             *)

\* The UPDATE of n past the sync of its file.
Synced(p) == pc[p] \in {"record", "publish"}

\* What a power failure leaves of a zone an UPDATE published, and of the UPDATE
\* that is being made.
Durable ==
    /\ byUpdate \subseteq ZoneNames
    /\ \A n \in Persisted \cap byUpdate :
         /\ Present(zones[n])
         /\ \/ fileSafe[n] = Serialized(zones[n])
            \/ \E p \in Procs : Synced(p) /\ job[p].zone = n /\ fileSafe[n] = Serialized(write[p].ups[n])
    /\ \A p \in Procs :
         /\ Synced(p) /\ job[p].zone \in Persisted =>
              fileSafe[job[p].zone] = Serialized(write[p].ups[job[p].zone])
         /\ pc[p] = "sync" => fileNow[job[p].zone] = Serialized(write[p].ups[job[p].zone])

\* The file of the running system is the safe one, or an UPDATE is syncing it.
Ahead ==
    \A n \in ZoneNames :
        fileNow[n] = fileSafe[n] \/ \E p \in Procs : pc[p] = "sync" /\ job[p].zone = n

\* A goroutine changes its own program state only.
LEMMA OthersStay ==
    ASSUME Control, NEW p \in Procs, NEW q \in Procs, q # p, UpdateStep(p) \/ AdminStep(p)
    PROVE  pc'[q] = pc[q] /\ job'[q] = job[q] /\ write'[q] = write[q]
  <1>1. DOMAIN pc = Procs /\ DOMAIN job = Procs /\ DOMAIN write = Procs
    BY DEF Control
  <1>2. ASSUME NEW rcode, Finish(p, rcode)
        PROVE  pc'[q] = pc[q] /\ job'[q] = job[q] /\ write'[q] = write[q]
    BY <1>1, <1>2 DEF Finish
  <1>3. ASSUME NEW label, Goto(p, label) PROVE pc'[q] = pc[q]
    BY <1>1, <1>3 DEF Goto
  <1>4. ASSUME NEW m \in Messages, ReceiveUpdate(p, m)
        PROVE  pc'[q] = pc[q] /\ job'[q] = job[q] /\ write'[q] = write[q]
    BY <1>1, <1>2, <1>3, <1>4 DEF ReceiveUpdate
  <1>5. CASE LockUpdate(p)
    BY <1>1, <1>2, <1>3, <1>5 DEF LockUpdate
  <1>6. CASE WriteTemp(p) \/ RenameTemp(p) \/ SyncDirectory(p)
    BY <1>2, <1>3, <1>6 DEF WriteTemp, RenameTemp, SyncDirectory, FailPersist
  <1>7. CASE RecordUpdate(p) \/ PublishUpdate(p) \/ ReplyUpdate(p)
    BY <1>2, <1>3, <1>7 DEF RecordUpdate, PublishUpdate, ReplyUpdate
  <1>8. ASSUME NEW w, Admit(p, w, "add")
        PROVE  pc'[q] = pc[q] /\ job'[q] = job[q] /\ write'[q] = write[q]
    BY <1>1, <1>2, <1>3, <1>8 DEF Admit
  <1>9. CASE RecordZones(p) \/ PublishZones(p) \/ ResetJournal(p)
    BY <1>2, <1>3, <1>9 DEF RecordZones, PublishZones, ResetJournal
  <1>10. ASSUME NEW n \in ZoneNames, RemoveZone(p, n)
         PROVE  pc'[q] = pc[q] /\ job'[q] = job[q] /\ write'[q] = write[q]
    BY <1>1, <1>3, <1>10 DEF RemoveZone
  <1> QED
    BY <1>4, <1>5, <1>6, <1>7, <1>8, <1>9, <1>10 DEF UpdateStep, AdminStep, AddZone, ApplyZoneBatch

\* One goroutine at a time is in its critical section.
LEMMA Exclusive ==
    ASSUME Control, NEW p \in Procs, NEW q \in Procs, pc[p] \in Holding, pc[q] \in Holding
    PROVE  p = q
  BY DEF Control, Fit

\* A step that leaves map and files alone, and starts or ends no durable part.
LEMMA DurableQuiet ==
    ASSUME Durable, UNCHANGED <<zones, fileNow, fileSafe, byUpdate>>, NEW p \in Procs,
           \A q \in Procs \ {p} : pc'[q] = pc[q] /\ job'[q] = job[q] /\ write'[q] = write[q],
           \/ pc[p] \notin {"record", "publish"}
           \/ pc'[p] \in {"record", "publish"} /\ job'[p] = job[p] /\ write'[p] = write[p],
           pc'[p] # "sync",
           pc'[p] \in {"record", "publish"} /\ job'[p].zone \in Persisted =>
              pc[p] \in {"record", "publish"} /\ job'[p] = job[p] /\ write'[p] = write[p]
    PROVE  Durable'
  <1>1. ASSUME NEW n \in Persisted \cap byUpdate
        PROVE  \/ fileSafe[n] = Serialized(zones[n])
               \/ \E q \in Procs :
                    Synced(q)' /\ job'[q].zone = n /\ fileSafe[n] = Serialized(write'[q].ups[n])
    <2>1. CASE fileSafe[n] = Serialized(zones[n])
      BY <2>1
    <2>2. ASSUME NEW q \in Procs, Synced(q), job[q].zone = n, fileSafe[n] = Serialized(write[q].ups[n])
          PROVE  Synced(q)' /\ job'[q].zone = n /\ fileSafe[n] = Serialized(write'[q].ups[n])
      BY <2>2 DEF Synced
    <2> QED
      BY <2>1, <2>2 DEF Durable
  <1>2. ASSUME NEW q \in Procs
        PROVE  /\ Synced(q)' /\ job'[q].zone \in Persisted =>
                    fileSafe[job'[q].zone] = Serialized(write'[q].ups[job'[q].zone])
               /\ pc'[q] = "sync" => fileNow[job'[q].zone] = Serialized(write'[q].ups[job'[q].zone])
    <2>1. CASE q = p
      BY <2>1 DEF Durable, Synced
    <2>2. CASE q # p
      BY <2>2 DEF Durable, Synced
    <2> QED
      BY <2>1, <2>2
  <1> QED
    BY <1>1, <1>2 DEF Durable

LEMMA DurableRename ==
    ASSUME Control, FilesReadable, Durable, NEW p \in Procs, RenameTemp(p) PROVE Durable'
  <1>1. pc[p] = "rename" /\ UNCHANGED <<zones, fileSafe, byUpdate>>
    BY DEF RenameTemp, store
  <1>2. \A q \in Procs \ {p} : pc'[q] = pc[q] /\ job'[q] = job[q] /\ write'[q] = write[q]
    BY OthersStay DEF UpdateStep
  <1>3. \A q \in Procs : pc[q] \notin {"record", "publish", "sync"}
    BY <1>1, Exclusive DEF Holding
  <1>4. CASE UNCHANGED fileNow /\ FailPersist(p)
    <2>1. pc'[p] = "idle"
      BY <1>4 DEF FailPersist, Finish, Control
    <2> QED
      BY <1>1, <1>2, <1>4, <2>1, DurableQuiet
  <1>5. CASE /\ fileNow' = [fileNow EXCEPT ![job[p].zone] = Serialized(write[p].ups[job[p].zone])]
             /\ Goto(p, "sync") /\ UNCHANGED <<job, write>>
    <2>1. pc'[p] = "sync"
      BY <1>5 DEF Goto, Control
    <2>2. \A q \in Procs : ~Synced(q) /\ ~Synced(q)' /\ (pc'[q] = "sync" => q = p)
      BY <1>2, <1>3, <2>1 DEF Synced
    <2>3. Prepared(p)
      BY <1>1 DEF Control, Fit, Updating
    <2>4. fileNow'[job[p].zone] = Serialized(write[p].ups[job[p].zone])
      BY <1>5, <2>3, PreparedWrite DEF FilesReadable
    <2>5. \A n \in Persisted \cap byUpdate : Present(zones[n]) /\ fileSafe[n] = Serialized(zones[n])
      BY <2>2 DEF Durable
    <2>6. byUpdate \subseteq ZoneNames
      BY DEF Durable
    <2> QED
      BY <1>1, <1>5, <2>2, <2>4, <2>5, <2>6 DEF Durable
  <1> QED
    BY <1>4, <1>5 DEF RenameTemp

LEMMA DurableSync ==
    ASSUME Control, FilesReadable, Durable, NEW p \in Procs, SyncDirectory(p) PROVE Durable'
  <1>1. pc[p] = "sync" /\ UNCHANGED <<zones, fileNow, byUpdate>> /\ Prepared(p)
    BY DEF SyncDirectory, store, Control, Fit, Updating
  <1>2. \A q \in Procs \ {p} : pc'[q] = pc[q] /\ job'[q] = job[q] /\ write'[q] = write[q]
    BY OthersStay DEF UpdateStep
  <1>3. \A q \in Procs : pc[q] \in {"record", "publish", "sync"} => q = p
    BY <1>1, Exclusive DEF Holding
  <1>4. CASE UNCHANGED fileSafe /\ FailPersist(p)
    <2>1. pc'[p] = "idle"
      BY <1>4 DEF FailPersist, Finish, Control
    <2> QED
      BY <1>1, <1>2, <1>4, <2>1, DurableQuiet
  <1>5. CASE /\ fileSafe' = [fileSafe EXCEPT ![job[p].zone] = fileNow[job[p].zone]]
             /\ Goto(p, "record") /\ UNCHANGED <<job, write>>
    <2> DEFINE n == job[p].zone
    <2>1. pc'[p] = "record"
      BY <1>5 DEF Goto, Control
    <2>2. n \in ZoneNames
      BY <1>1, PreparedWrite
    <2>3. fileSafe'[n] = Serialized(write[p].ups[n]) /\ \A o \in ZoneNames : o # n => fileSafe'[o] = fileSafe[o]
      BY <1>1, <1>5, <2>2 DEF Durable, FilesReadable
    <2>4. \A q \in Procs : (Synced(q)' \/ pc'[q] = "sync") => q = p
      BY <1>2, <1>3 DEF Synced
    <2>5. \A q \in Procs : ~Synced(q)
      BY <1>1, <1>3 DEF Synced
    <2>6. \A o \in Persisted \cap byUpdate : fileSafe[o] = Serialized(zones[o]) /\ o \in ZoneNames
      BY <2>5 DEF Durable
    <2>7. Synced(p)'
      BY <2>1 DEF Synced
    <2>8. \A o \in Persisted \cap byUpdate :
            \/ fileSafe'[o] = Serialized(zones[o])
            \/ Synced(p)' /\ job[p].zone = o /\ fileSafe'[o] = Serialized(write[p].ups[o])
      BY <2>3, <2>6, <2>7
    <2> QED
      BY <1>1, <1>5, <2>1, <2>3, <2>4, <2>7, <2>8 DEF Durable
  <1> QED
    BY <1>4, <1>5 DEF SyncDirectory

\* Publishing an UPDATE makes visible what its file holds.
LEMMA DurablePublish ==
    ASSUME Control, Durable, NEW p \in Procs, PublishUpdate(p) PROVE Durable'
  <1> DEFINE n == job[p].zone
  <1>1. /\ pc[p] = "publish" /\ SwapZones(write[p]) /\ byUpdate' = byUpdate \cup {n}
        /\ Goto(p, "reply") /\ UNCHANGED <<fileNow, fileSafe, job, write>>
    BY DEF PublishUpdate, disk
  <1>2. Prepared(p)
    BY <1>1 DEF Control, Fit, Updating
  <1>3. n \in ZoneNames /\ DOMAIN write[p].ups = {n} /\ write[p].rems = {} /\ HasSOA(write[p].ups[n])
    BY <1>2, PreparedWrite
  <1>4. zones'[n] = write[p].ups[n] /\ \A o \in ZoneNames : o # n => zones'[o] = zones[o]
    BY <1>1, <1>3, SwappedZone
  <1>5. Present(zones'[n])
    BY <1>3, <1>4 DEF Present, NoZone, HasSOA, Serial
  <1>6. \A q \in Procs : pc'[q] \notin {"record", "publish", "sync"}
    <2>1. pc' = [pc EXCEPT ![p] = "reply"]
      BY <1>1 DEF Goto
    <2> QED
      BY <1>1, <2>1, Exclusive DEF Holding, Control
  <1>7. n \in Persisted => fileSafe[n] = Serialized(zones'[n])
    BY <1>1, <1>4 DEF Durable, Synced
  <1>8. ASSUME NEW o \in Persisted \cap byUpdate, o # n
        PROVE  Present(zones'[o]) /\ fileSafe[o] = Serialized(zones'[o])
    <2>1. \A q \in Procs : Synced(q) => job[q].zone # o
      BY <1>1, <1>8, Exclusive DEF Synced, Holding
    <2>2. o \in ZoneNames /\ Present(zones[o]) /\ fileSafe[o] = Serialized(zones[o])
      BY <2>1 DEF Durable
    <2> QED
      BY <1>4, <1>8, <2>2
  <1>9. \A o \in Persisted \cap byUpdate' : Present(zones'[o]) /\ fileSafe[o] = Serialized(zones'[o])
    BY <1>1, <1>5, <1>7, <1>8
  <1>10. byUpdate' \subseteq ZoneNames
    BY <1>1, <1>3 DEF Durable
  <1> QED
    BY <1>1, <1>6, <1>9, <1>10 DEF Durable, Synced

\* A change of the map that takes the zones it touches out of byUpdate, made
\* while no UPDATE is past its sync.
LEMMA DurableAdmin ==
    ASSUME Durable, UNCHANGED <<fileNow, fileSafe>>, byUpdate' \subseteq byUpdate,
           \A n \in byUpdate' : zones'[n] = zones[n],
           \A q \in Procs : pc[q] \notin {"record", "publish"},
           \A q \in Procs : pc'[q] \notin {"record", "publish", "sync"}
    PROVE  Durable'
  <1>1. \A n \in Persisted \cap byUpdate : Present(zones[n]) /\ fileSafe[n] = Serialized(zones[n])
    BY DEF Durable, Synced
  <1>2. \A n \in Persisted \cap byUpdate' : Present(zones'[n]) /\ fileSafe'[n] = Serialized(zones'[n])
    BY <1>1
  <1>3. byUpdate' \subseteq ZoneNames
    BY DEF Durable
  <1> QED
    BY <1>2, <1>3 DEF Durable, Synced

LEMMA DurablePublishZones ==
    ASSUME Control, Durable, NEW p \in Procs, PublishZones(p) PROVE Durable'
  <1>1. /\ pc[p] = "swap" /\ SwapZones(write[p]) /\ UNCHANGED <<fileNow, fileSafe>>
        /\ byUpdate' = byUpdate \ (DOMAIN write[p].ups \cup write[p].rems) /\ Finish(p, "OK")
    BY DEF PublishZones, disk
  <1>2. \A n \in byUpdate' : zones'[n] = zones[n]
    BY <1>1, SwappedZone DEF Durable
  <1>3. \A q \in Procs : pc[q] \notin {"record", "publish", "sync"}
    BY <1>1, Exclusive DEF Holding
  <1>4. \A q \in Procs : pc'[q] \notin {"record", "publish", "sync"}
    BY <1>1, <1>3 DEF Finish, Control
  <1> QED
    BY <1>1, <1>2, <1>3, <1>4, DurableAdmin

LEMMA DurableRemove ==
    ASSUME Control, Durable, NEW p \in Procs, NEW n \in ZoneNames, RemoveZone(p, n) PROVE Durable'
  <1>1. /\ mu = Free /\ zones' = [zones EXCEPT ![n] = NoZone] /\ UNCHANGED <<fileNow, fileSafe>>
        /\ byUpdate' = byUpdate \ {n} /\ pc' = [pc EXCEPT ![p] = "reset"]
    BY DEF RemoveZone, Lock, Goto, disk
  <1>2. \A o \in byUpdate' : zones'[o] = zones[o]
    BY <1>1 DEF Durable, Control
  <1>3. \A q \in Procs : pc[q] \notin Holding
    BY <1>1, ProcsAssumption DEF Control, Fit
  <1>4. \A q \in Procs : pc[q] \notin {"record", "publish", "sync"}
    BY <1>3 DEF Holding
  <1>5. \A q \in Procs : pc'[q] \notin {"record", "publish", "sync"}
    BY <1>1, <1>4 DEF Control
  <1> QED
    BY <1>1, <1>2, <1>4, <1>5, DurableAdmin

\* The steps that leave the map and the files alone.
LEMMA DurableOther ==
    ASSUME Control, Durable, NEW p \in Procs,
           \/ \E m \in Messages : ReceiveUpdate(p, m)
           \/ LockUpdate(p) \/ WriteTemp(p) \/ RecordUpdate(p) \/ ReplyUpdate(p)
           \/ \E w : Admit(p, w, "add")
           \/ RecordZones(p) \/ ResetJournal(p),
           \A q \in Procs \ {p} : pc'[q] = pc[q] /\ job'[q] = job[q] /\ write'[q] = write[q]
    PROVE  Durable'
  <1>1. UNCHANGED <<zones, fileNow, fileSafe, byUpdate>>
    BY DEF ReceiveUpdate, LockUpdate, WriteTemp, RecordUpdate, ReplyUpdate, Admit, RecordZones,
           ResetJournal, store, disk
  <1>2. DOMAIN pc = Procs /\ DOMAIN job = Procs /\ DOMAIN write = Procs
    BY DEF Control
  <1>3. CASE RecordUpdate(p)
    <2>1. /\ pc[p] = "record" /\ pc'[p] = "publish" /\ job'[p] = job[p] /\ write'[p] = write[p]
      BY <1>2, <1>3 DEF RecordUpdate, Goto
    <2> QED
      BY <1>1, <2>1, DurableQuiet
  <1>4. CASE LockUpdate(p)
    <2>1. pc[p] = "lock"
      BY <1>4 DEF LockUpdate
    <2>2. \/ pc'[p] \in {"temp", "idle"}
          \/ pc'[p] = "record" /\ job' = job /\ job[p].zone \notin Persisted
      BY <1>2, <1>4 DEF LockUpdate, Goto, Finish
    <2> QED
      BY <1>1, <2>1, <2>2, DurableQuiet
  <1>5. CASE ~RecordUpdate(p) /\ ~LockUpdate(p)
    <2>1. pc[p] \notin {"record", "publish"} /\ pc'[p] \notin {"record", "publish", "sync"}
      BY <1>2, <1>5 DEF ReceiveUpdate, WriteTemp, ReplyUpdate, Admit, RecordZones, ResetJournal,
                        Goto, Finish, FailPersist
    <2> QED
      BY <1>1, <2>1, DurableQuiet
  <1> QED
    BY <1>3, <1>4, <1>5

LEMMA DurableStep ==
    ASSUME Control, FilesReadable, Durable, [Next]_vars PROVE Durable'
  <1>1. ASSUME NEW p \in Procs, UpdateStep(p) PROVE Durable'
    <2>1. \A q \in Procs \ {p} : pc'[q] = pc[q] /\ job'[q] = job[q] /\ write'[q] = write[q]
      BY <1>1, OthersStay
    <2> QED
      BY <1>1, <2>1, DurableOther, DurableRename, DurableSync, DurablePublish DEF UpdateStep
  <1>2. ASSUME NEW p \in Procs, AdminStep(p) PROVE Durable'
    <2>1. \A q \in Procs \ {p} : pc'[q] = pc[q] /\ job'[q] = job[q] /\ write'[q] = write[q]
      BY <1>2, OthersStay
    <2> QED
      BY <1>2, <2>1, DurableOther, DurablePublishZones, DurableRemove
      DEF AdminStep, AddZone, ApplyZoneBatch
  <1>3. CASE Restart
    <2>1. byUpdate' = {} /\ \A q \in Procs : pc'[q] = "idle"
      BY <1>3 DEF Restart
    <2> QED
      BY <2>1 DEF Durable, Synced
  <1>4. CASE NewDay \/ UNCHANGED vars
    <2>1. UNCHANGED <<zones, fileNow, fileSafe, byUpdate, pc, job, write>>
      BY <1>4 DEF NewDay, store, disk, local, vars
    <2> QED
      BY <2>1 DEF Durable, Synced
  <1> QED
    BY <1>1, <1>2, <1>3, <1>4 DEF Next

\* A zone readers can see is valid, and safe from a power failure if an UPDATE
\* made it (update.go steps 12, 13 and 15), whatever writes fail and whatever
\* administration and restarts come between.
THEOREM PublishedZonesAlwaysSound == Spec => []PublishedZonesSound
  <1>1. Init => Durable
    BY DEF Init, Durable, Synced
  <1>2. Spec => [](LiveZonesValid /\ Durable)
    BY <1>1, ValidInit, ValidStep, DurableStep, ControlHolds, PTL DEF Spec
  <1>3. ASSUME Control, LiveZonesValid, Durable PROVE PublishedZonesSound
    <2> SUFFICES ASSUME NEW n \in Persisted \cap byUpdate
                 PROVE  Values(fileSafe[n].rrs) \in {Values(zones[n].rrs)} \cup InFlight(n)
      BY <1>3 DEF PublishedZonesSound, DurableBeforeVisible
    <2>1. CASE fileSafe[n] = Serialized(zones[n])
      BY <2>1 DEF Serialized
    <2>2. ASSUME NEW p \in Procs, Synced(p), job[p].zone = n, fileSafe[n] = Serialized(write[p].ups[n])
          PROVE  Values(fileSafe[n].rrs) \in InFlight(n)
      <3>1. pc[p] \in Holding /\ Prepared(p)
        BY <1>3, <2>2 DEF Synced, Holding, Control, Fit, Updating
      <3>2. n \in DOMAIN write[p].ups
        BY <1>3, <2>2, <3>1, PreparedWrite
      <3>3. fileSafe[n].rrs = write[p].ups[n].rrs
        BY <2>2 DEF Serialized
      <3> QED
        BY <3>1, <3>2, <3>3 DEF InFlight
    <2> QED
      BY <1>3, <2>1, <2>2 DEF Durable
  <1> QED
    BY <1>2, <1>3, ControlHolds, PTL

-----------------------------------------------------------------------------
(* Restarts, as long as a rename that took effect is not reported to have  *)
(* failed: after a failed directory sync the file holds an UPDATE that was *)
(* refused.                                                                *)

LEMMA AheadStep ==
    ASSUME Control, FilesReadable, Ahead, "sync" \notin Faults, [Next]_vars PROVE Ahead'
  <1>1. DOMAIN pc = Procs /\ DOMAIN job = Procs
    BY DEF Control
  <1>2. ASSUME NEW p \in Procs, RenameTemp(p) PROVE Ahead'
    <2>1. pc[p] = "rename" /\ fileSafe' = fileSafe
      BY <1>2 DEF RenameTemp
    <2>2. \A q \in Procs : pc[q] # "sync"
      BY <2>1, Exclusive DEF Holding
    <2>3. \A n \in ZoneNames : fileNow[n] = fileSafe[n]
      BY <2>2 DEF Ahead
    <2>4. CASE fileNow' = fileNow
      BY <2>1, <2>3, <2>4 DEF Ahead
    <2>5. CASE /\ fileNow' = [fileNow EXCEPT ![job[p].zone] = Serialized(write[p].ups[job[p].zone])]
               /\ Goto(p, "sync") /\ UNCHANGED job
      <3>1. pc'[p] = "sync" /\ job'[p] = job[p]
        BY <1>1, <2>5 DEF Goto
      <3>2. \A n \in ZoneNames : n # job[p].zone => fileNow'[n] = fileNow[n]
        BY <2>5 DEF FilesReadable
      <3> QED
        BY <2>1, <2>3, <3>1, <3>2 DEF Ahead
    <2> QED
      BY <1>2, <2>4, <2>5 DEF RenameTemp
  <1>3. ASSUME NEW p \in Procs, SyncDirectory(p) PROVE Ahead'
    <2>1. /\ pc[p] = "sync" /\ fileNow' = fileNow
          /\ fileSafe' = [fileSafe EXCEPT ![job[p].zone] = fileNow[job[p].zone]]
      BY <1>3 DEF SyncDirectory
    <2>2. \A n \in ZoneNames : n # job[p].zone => fileNow[n] = fileSafe[n]
      BY <2>1, Exclusive DEF Ahead, Holding
    <2>3. \A n \in ZoneNames : fileNow'[n] = fileSafe'[n]
      BY <2>1, <2>2 DEF FilesReadable
    <2> QED
      BY <2>3 DEF Ahead
  <1>4. CASE Restart
    BY <1>4 DEF Restart, Ahead
  <1>5. ASSUME NEW p \in Procs, UpdateStep(p) \/ AdminStep(p), ~RenameTemp(p), ~SyncDirectory(p)
        PROVE  Ahead'
    <2>1. UNCHANGED <<fileNow, fileSafe>> /\ pc[p] # "sync"
      BY <1>5 DEF UpdateStep, AdminStep, ReceiveUpdate, LockUpdate, WriteTemp, RecordUpdate,
        PublishUpdate, ReplyUpdate, AddZone, ApplyZoneBatch, Admit, RecordZones, PublishZones,
        RemoveZone, ResetJournal, disk
    <2>2. \A q \in Procs : pc[q] = "sync" => pc'[q] = "sync" /\ job'[q] = job[q]
      BY <1>5, <2>1, OthersStay
    <2> QED
      BY <2>1, <2>2 DEF Ahead
  <1>6. CASE NewDay \/ UNCHANGED vars
    <2>1. UNCHANGED <<fileNow, fileSafe, pc, job>>
      BY <1>6 DEF NewDay, disk, local, vars
    <2> QED
      BY <2>1 DEF Ahead
  <1> QED
    BY <1>2, <1>3, <1>4, <1>5, <1>6 DEF Next

LEMMA SameValues ==
    ASSUME NEW z, NEW y, SameData(z, y) PROVE Values(z.rrs) = Values(y.rrs)
  <1>1. ASSUME NEW k \in DOMAIN z.rrs
        PROVE  {[key |-> k, data |-> e.data] : e \in ToSet(z.rrs[k])}
                 = {[key |-> k, data |-> e.data] : e \in ToSet(y.rrs[k])}
    BY DEF SameData, ToSet
  <1>2. DOMAIN z.rrs = DOMAIN y.rrs
    BY DEF SameData
  <1> QED
    BY <1>1, <1>2 DEF Values

\* A valid zone that was written to its file is loaded with the same rdata.
LEMMA FileRoundTrip ==
    ASSUME NEW files, NEW n \in ZoneNames, NEW z, Validate(z), files[n] = Serialized(z)
    PROVE  SameData(z, Loaded(files)[n])
  <1>1. Serialized(z).serial = AutoSerial /\ Serialized(z).rrs = z.rrs
    BY DEF Serialized
  <1>2. files[n] # NoFile
    BY <1>1 DEF NoFile, AutoSerial
  <1>3. Parsed(files[n]).rrs = [k \in DOMAIN z.rrs |->
                                 [i \in DOMAIN z.rrs[k] |->
                                    [data |-> z.rrs[k][i].data, ttl |-> DefaultTTL]]]
    BY <1>1, <1>2 DEF Parsed
  <1>4. SameData(z, Parsed(files[n]))
    BY <1>3 DEF SameData
  <1>5. Loaded(files)[n] = Parsed(files[n])
    BY <1>2, <1>4, SameValidity DEF Loaded
  <1> QED
    BY <1>4, <1>5

\* Either file of a zone that an UPDATE published holds that zone or the one an
\* UPDATE is about to publish.
LEMMA FileOfUpdate ==
    ASSUME Control, LiveZonesValid, Durable, Ahead,
           NEW left \in {fileNow, fileSafe}, NEW n \in Persisted \cap byUpdate
    PROVE  \E z : /\ Validate(z) /\ left[n] = Serialized(z)
                  /\ z = zones[n] \/ Values(z.rrs) \in InFlight(n)
  <1>1. n \in ZoneNames /\ Present(zones[n]) /\ Validate(zones[n])
    BY DEF Durable, LiveZonesValid
  <1>2. ASSUME NEW p \in Procs, pc[p] \in {"sync", "record", "publish"}, job[p].zone = n,
               left[n] = Serialized(write[p].ups[n])
        PROVE  \E z : /\ Validate(z) /\ left[n] = Serialized(z)
                      /\ z = zones[n] \/ Values(z.rrs) \in InFlight(n)
    <2>1. Prepared(p) /\ pc[p] \in Holding
      BY <1>2 DEF Control, Fit, Updating, Holding
    <2>2. Validate(write[p].ups[n]) /\ n \in DOMAIN write[p].ups
      BY <1>2, <2>1, PreparedWrite, PreparedValid
    <2>3. Values(write[p].ups[n].rrs) \in InFlight(n)
      BY <2>1, <2>2 DEF InFlight
    <2> QED
      BY <1>2, <2>2, <2>3
  <1>3. CASE left[n] = fileSafe[n]
    BY <1>1, <1>2, <1>3 DEF Durable, Synced
  <1>4. CASE left[n] # fileSafe[n]
    <2>1. left[n] = fileNow[n]
      BY <1>4
    <2>2. PICK p \in Procs : pc[p] = "sync" /\ job[p].zone = n
      BY <1>1, <1>4, <2>1 DEF Ahead
    <2> QED
      BY <1>2, <2>1, <2>2 DEF Durable
  <1> QED
    BY <1>3, <1>4

LEMMA RestartStep ==
    ASSUME Control, LiveZonesValid, Durable, Ahead, [Next]_vars, boots' # boots,
           NEW n \in Persisted \cap byUpdate
    PROVE  Values(zones'[n].rrs) \in {Values(zones[n].rrs)} \cup InFlight(n)
  <1>1. Restart
    <2>1. ASSUME NEW p \in Procs, UpdateStep(p) PROVE boots' = boots
      BY <2>1 DEF UpdateStep, ReceiveUpdate, LockUpdate, WriteTemp, RenameTemp, SyncDirectory,
        RecordUpdate, PublishUpdate, ReplyUpdate
    <2>2. ASSUME NEW p \in Procs, AdminStep(p) PROVE boots' = boots
      BY <2>2 DEF AdminStep, AddZone, ApplyZoneBatch, Admit, RecordZones, PublishZones,
        RemoveZone, ResetJournal
    <2> QED
      BY <2>1, <2>2 DEF Next, NewDay, vars
  <1>2. PICK left \in {fileNow, fileSafe} : zones' = Loaded(left)
    BY <1>1 DEF Restart
  <1>3. PICK z : /\ Validate(z) /\ left[n] = Serialized(z)
                 /\ z = zones[n] \/ Values(z.rrs) \in InFlight(n)
    BY FileOfUpdate
  <1>4. n \in ZoneNames
    BY DEF Durable
  <1>5. SameData(z, zones'[n])
    BY <1>2, <1>3, <1>4, FileRoundTrip
  <1>6. Values(zones'[n].rrs) = Values(z.rrs)
    BY <1>5, SameValues
  <1> QED
    BY <1>3, <1>6

\* When no directory sync fails, a restart, after a stop of the process or a
\* power failure at any point of any UPDATE, loads the records last published
\* by UPDATE or those of the one UPDATE it interrupted (update.go step 15).
THEOREM RestartsKeepUpdates ==
    ASSUME "sync" \notin Faults PROVE Spec => RestartKeepsUpdates
  <1>1. Init => Durable /\ Ahead
    BY DEF Init, Durable, Synced, Ahead
  <1>2. Control /\ FilesReadable /\ Ahead /\ [Next]_vars => Ahead'
    BY AheadStep
  <1>3. ASSUME Control, LiveZonesValid, Durable, Ahead, [Next]_vars
        PROVE  [boots' # boots => \A n \in Persisted \cap byUpdate :
                  Values(zones'[n].rrs) \in {Values(zones[n].rrs)} \cup InFlight(n)]_vars
    BY <1>3, RestartStep
  <1> QED
    BY <1>1, <1>2, <1>3, ValidInit, ValidStep, DurableStep, ControlHolds, PTL
    DEF Spec, RestartKeepsUpdates

-----------------------------------------------------------------------------
(* The IXFR journal tells the truth.  The argument is about one record of  *)
(* one version (what Record does to a chain that ends at the version being *)
(* replaced) and about who may record: the holder of persistMu, and only   *)
(* from the live zone.  What the zones contain stays opaque.               *)

\* JournalReplays for one zone's deltas j and published contents h.
Replays(j, h) ==
    LET offset == Len(h) - Len(j) IN
    /\ Len(j) <= MaxDeltas
    /\ j # <<>> => offset >= 1
    /\ \A i \in 1 .. Len(j) : h[offset + i] = Patch(h[offset + i - 1], j[i])
    /\ \A i \in 1 .. (Len(j) - 1) : j[i].to = j[i + 1].from

\* Meets for one zone's deltas and contents.
EndsAt(j, h, z) ==
    /\ h # <<>>
    /\ Last(h) = recordSet(z)
    /\ j # <<>> => Last(j).to = z.soa

\* The last delta leads away from zone z, and from its content.
Leaves(j, h, z) ==
    j # <<>> => /\ Last(j).from = z.soa /\ Last(j).to # z.soa
                /\ h[Len(h) - 1] = recordSet(z)

-----------------------------------------------------------------------------
(* Sequences.                                                              *)

LEMMA Sequences ==
    /\ IsSequence(<<>>)
    /\ \A e : IsSequence(<<e>>)
    /\ \A s : IsSequence(s) => Len(s) \in Nat /\ DOMAIN s = 1 .. Len(s)
    /\ \A s : IsSequence(s) => (s = <<>> <=> Len(s) = 0)
  <1>1. IsSequence(<<>>)
    BY DEF IsSequence, ToSet
  <1>2. ASSUME NEW e PROVE IsSequence(<<e>>)
    <2>1. <<e>> \in Seq({e}) /\ DOMAIN <<e>> = {1} /\ <<e>>[1] = e
      OBVIOUS
    <2>2. ToSet(<<e>>) = {e}
      BY <2>1 DEF ToSet
    <2> QED
      BY <2>1, <2>2 DEF IsSequence
  <1>3. ASSUME NEW s, IsSequence(s)
        PROVE  Len(s) \in Nat /\ DOMAIN s = 1 .. Len(s) /\ (s = <<>> <=> Len(s) = 0)
    BY <1>3 DEF IsSequence
  <1> QED
    BY <1>1, <1>2, <1>3

\* A sequence over any set is one over its own elements.
LEMMA OwnElements ==
    ASSUME NEW S, NEW s \in Seq(S) PROVE IsSequence(s)
  <1>1. DOMAIN s = 1 .. Len(s) /\ Len(s) \in Nat
    OBVIOUS
  <1>2. \A i \in 1 .. Len(s) : s[i] \in ToSet(s)
    BY <1>1 DEF ToSet
  <1>3. s \in [1 .. Len(s) -> ToSet(s)]
    BY <1>1, <1>2
  <1> QED
    BY <1>1, <1>3 DEF IsSequence

LEMMA Appended ==
    ASSUME NEW s, IsSequence(s), NEW e
    PROVE  /\ IsSequence(Append(s, e)) /\ Append(s, e) # <<>>
           /\ Len(Append(s, e)) = Len(s) + 1
           /\ \A i \in 1 .. Len(s) : Append(s, e)[i] = s[i]
           /\ Append(s, e)[Len(s) + 1] = e
  <1> DEFINE S == ToSet(s) \cup {e}
  <1>1. s \in Seq(S)
    BY DEF IsSequence
  <1>2. Append(s, e) \in Seq(S) /\ Len(Append(s, e)) = Len(s) + 1 /\ Len(s) \in Nat
    BY <1>1
  <1>3. IsSequence(Append(s, e))
    BY <1>2, OwnElements
  <1>4. Append(s, e) # <<>>
    BY <1>2
  <1>5. \A i \in 1 .. Len(s) : Append(s, e)[i] = s[i]
    BY <1>1
  <1>6. Append(s, e)[Len(s) + 1] = e
    BY <1>1
  <1> QED
    BY <1>2, <1>3, <1>4, <1>5, <1>6

\* Trimming keeps the newest deltas.
LEMMA TrimmedSequence ==
    ASSUME NEW s, IsSequence(s)
    PROVE  LET t == Trimmed(s) IN
           /\ IsSequence(t) /\ Len(t) <= MaxDeltas /\ Len(t) <= Len(s)
           /\ (t = <<>>) = (s = <<>>)
           /\ \A i \in 1 .. Len(t) : t[i] = s[Len(s) - Len(t) + i]
  <1> DEFINE S == ToSet(s)
             t == Trimmed(s)
  <1>1. s \in Seq(S) /\ Len(s) \in Nat
    BY DEF IsSequence
  <1>2. MaxDeltas \in Nat /\ MaxDeltas >= 1
    BY MaxDeltasAssumption
  <1>3. CASE Len(s) > MaxDeltas
    <2>1. t = SubSeq(s, Len(s) - MaxDeltas + 1, Len(s))
      BY <1>3 DEF Trimmed
    <2>2. t \in Seq(S) /\ Len(t) = MaxDeltas
      BY <1>1, <1>2, <1>3, <2>1
    <2>3. \A i \in 1 .. MaxDeltas : t[i] = s[Len(s) - MaxDeltas + i]
      BY <1>1, <1>2, <1>3, <2>1
    <2>4. t # <<>> /\ s # <<>>
      BY <1>1, <1>2, <1>3, <2>2
    <2> QED
      BY <1>1, <1>2, <1>3, <2>2, <2>3, <2>4, OwnElements
  <1>4. CASE ~(Len(s) > MaxDeltas)
    <2>1. t = s
      BY <1>4 DEF Trimmed
    <2> QED
      BY <1>1, <1>2, <1>4, <2>1
  <1> QED
    BY <1>3, <1>4

-----------------------------------------------------------------------------
(* One call of Record.                                                     *)

\* Applying the difference of two contents to the first gives the second.
LEMMA PatchDiff ==
    ASSUME NEW z, NEW y PROVE Patch(recordSet(z), Diff(z, y)) = recordSet(y)
  <1>1. Diff(z, y).deleted = recordSet(z) \ recordSet(y) /\ Diff(z, y).added = recordSet(y) \ recordSet(z)
    BY DEF Diff
  <1> QED
    BY <1>1 DEF Patch

\* A successor version extends a chain that ends at its predecessor, and the
\* chain then ends at the successor.
LEMMA RecordExtends ==
    ASSUME NEW j, NEW h, IsSequence(j), IsSequence(h), Replays(j, h),
           NEW z, NEW y, EndsAt(j, h, z), SerialGreater(y.soa, z.soa)
    PROVE  LET jj == Record(j, z, y)
               hh == Append(h, recordSet(y))
           IN /\ IsSequence(jj) /\ IsSequence(hh) /\ Replays(jj, hh)
              /\ EndsAt(jj, hh, y) /\ Leaves(jj, hh, z)
  <1> DEFINE delta == Diff(z, y)
             full == Append(j, delta)
             jj == Record(j, z, y)
             hh == Append(h, recordSet(y))
  <1> HIDE DEF delta, full, jj, hh
  <1>1. delta.from = z.soa /\ delta.to = y.soa /\ delta.to # z.soa
    BY DEF delta, Diff, SerialGreater
  <1>2. Contiguous(j, delta)
    BY <1>1 DEF Contiguous, EndsAt
  <1>3. jj = Trimmed(full)
    BY <1>2 DEF jj, full, delta, Record
  <1>4. /\ IsSequence(full) /\ full # <<>> /\ Len(full) = Len(j) + 1
        /\ \A i \in 1 .. Len(j) : full[i] = j[i]
        /\ full[Len(j) + 1] = delta
    BY Appended DEF full
  <1>5. /\ IsSequence(hh) /\ hh # <<>> /\ Len(hh) = Len(h) + 1
        /\ \A i \in 1 .. Len(h) : hh[i] = h[i]
        /\ hh[Len(h) + 1] = recordSet(y)
    BY Appended DEF hh
  <1>6. /\ IsSequence(jj) /\ jj # <<>> /\ Len(jj) <= MaxDeltas /\ Len(jj) <= Len(full)
        /\ \A i \in 1 .. Len(jj) : jj[i] = full[Len(full) - Len(jj) + i]
    BY <1>3, <1>4, TrimmedSequence
  <1>7. /\ Len(j) \in Nat /\ Len(h) \in Nat /\ Len(jj) \in Nat /\ Len(jj) >= 1 /\ Len(h) >= 1
        /\ j # <<>> => Len(h) - Len(j) >= 1
        /\ j = <<>> => Len(j) = 0
    BY <1>6, Sequences DEF EndsAt, Replays
  <1>8. h[Len(h)] = recordSet(z)
    BY DEF EndsAt, Last
  <1>9. jj[Len(jj)] = delta
    BY <1>4, <1>6, <1>7
  <1>10. \A i \in 1 .. Len(full) : hh[Len(hh) - Len(full) + i] = Patch(hh[Len(hh) - Len(full) + i - 1], full[i])
    <2> SUFFICES ASSUME NEW i \in 1 .. Len(full)
                 PROVE  hh[Len(hh) - Len(full) + i] = Patch(hh[Len(hh) - Len(full) + i - 1], full[i])
      OBVIOUS
    <2>1. Len(hh) - Len(full) = Len(h) - Len(j)
      BY <1>4, <1>5, <1>7
    <2>2. CASE i = Len(j) + 1
      <3>1. Len(hh) - Len(full) + i = Len(h) + 1 /\ Len(hh) - Len(full) + i - 1 = Len(h)
        BY <1>7, <2>1, <2>2
      <3>2. hh[Len(h)] = recordSet(z) /\ hh[Len(h) + 1] = recordSet(y) /\ full[i] = delta
        BY <1>4, <1>5, <1>7, <1>8, <2>2
      <3> QED
        BY <3>1, <3>2, PatchDiff DEF delta
    <2>3. CASE i # Len(j) + 1
      <3>1. i \in 1 .. Len(j) /\ j # <<>>
        BY <1>4, <1>7, <2>3, Sequences
      <3>2. h[Len(h) - Len(j) + i] = Patch(h[Len(h) - Len(j) + i - 1], j[i])
        BY <3>1 DEF Replays
      <3>3. Len(h) - Len(j) + i \in 1 .. Len(h) /\ Len(h) - Len(j) + i - 1 \in 1 .. Len(h)
        BY <1>7, <3>1
      <3> QED
        BY <1>4, <1>5, <2>1, <3>1, <3>2, <3>3
    <2> QED
      BY <2>2, <2>3
  <1>11. \A i \in 1 .. Len(j) : full[i].to = full[i + 1].from
    <2> SUFFICES ASSUME NEW i \in 1 .. Len(j) PROVE full[i].to = full[i + 1].from
      OBVIOUS
    <2>1. CASE i = Len(j)
      <3>1. j # <<>> /\ j[Len(j)].to = z.soa
        BY <1>7, Sequences DEF EndsAt, Last
      <3> QED
        BY <1>1, <1>4, <2>1, <3>1
    <2>2. CASE i # Len(j)
      <3>1. i \in 1 .. (Len(j) - 1) /\ i + 1 \in 1 .. Len(j)
        BY <1>7, <2>2
      <3> QED
        BY <1>4, <3>1 DEF Replays
    <2> QED
      BY <2>1, <2>2
  <1>12. Replays(jj, hh)
    <2> DEFINE skip == Len(full) - Len(jj)
    <2>1. skip \in Nat /\ Len(jj) = Len(full) - skip /\ Len(hh) \in Nat /\ Len(full) \in Nat
      BY <1>4, <1>5, <1>6, <1>7
    <2>2. Len(hh) - Len(jj) >= 1
      BY <1>4, <1>5, <1>6, <1>7
    <2>3. \A i \in 1 .. Len(jj) :
            hh[Len(hh) - Len(jj) + i] = Patch(hh[Len(hh) - Len(jj) + i - 1], jj[i])
      <3> SUFFICES ASSUME NEW i \in 1 .. Len(jj)
                   PROVE  hh[Len(hh) - Len(jj) + i] = Patch(hh[Len(hh) - Len(jj) + i - 1], jj[i])
        OBVIOUS
      <3>1. skip + i \in 1 .. Len(full)
        BY <1>7, <2>1
      <3>2. Len(hh) - Len(full) + (skip + i) = Len(hh) - Len(jj) + i
        BY <1>7, <2>1
      <3>3. jj[i] = full[skip + i]
        BY <1>6
      <3> QED
        BY <1>10, <3>1, <3>2, <3>3
    <2>4. \A i \in 1 .. (Len(jj) - 1) : jj[i].to = jj[i + 1].from
      <3> SUFFICES ASSUME NEW i \in 1 .. (Len(jj) - 1) PROVE jj[i].to = jj[i + 1].from
        OBVIOUS
      <3>1. i \in 1 .. Len(jj) /\ i + 1 \in 1 .. Len(jj) /\ skip + i \in 1 .. Len(j)
        BY <1>4, <1>7, <2>1
      <3>2. jj[i] = full[skip + i] /\ jj[i + 1] = full[skip + i + 1]
        BY <1>6, <1>7, <2>1, <3>1
      <3> QED
        BY <1>11, <3>1, <3>2
    <2> QED
      BY <1>6, <2>2, <2>3, <2>4 DEF Replays
  <1>13. EndsAt(jj, hh, y)
    BY <1>1, <1>5, <1>9 DEF EndsAt, Last
  <1>14. Leaves(jj, hh, z)
    <2>1. hh[Len(hh) - 1] = recordSet(z)
      BY <1>5, <1>7, <1>8
    <2> QED
      BY <1>1, <1>9, <2>1 DEF Leaves, Last
  <1> QED
    BY <1>5, <1>6, <1>12, <1>13, <1>14 DEF jj, hh

\* A history that starts over at a version.
LEMMA RecordRestarts ==
    ASSUME NEW z
    PROVE  /\ IsSequence(NoHistory) /\ IsSequence(<<recordSet(z)>>)
           /\ Replays(NoHistory, <<recordSet(z)>>) /\ EndsAt(NoHistory, <<recordSet(z)>>, z)
           /\ \A y : Leaves(NoHistory, <<recordSet(z)>>, y)
  <1>1. Len(<<>>) = 0 /\ MaxDeltas >= 0
    BY MaxDeltasAssumption
  <1>2. Replays(NoHistory, <<recordSet(z)>>)
    BY <1>1 DEF Replays, NoHistory
  <1>3. Len(<<recordSet(z)>>) = 1 /\ <<recordSet(z)>>[1] = recordSet(z) /\ <<recordSet(z)>> # <<>>
    OBVIOUS
  <1>4. EndsAt(NoHistory, <<recordSet(z)>>, z)
    BY <1>3 DEF EndsAt, NoHistory, Last
  <1> QED
    BY <1>2, <1>4, Sequences DEF Leaves, NoHistory

-----------------------------------------------------------------------------
(* The journal invariant.                                                  *)

\* Goroutine p has recorded its change and not yet published it.
Recorded(p) == pc[p] \in {"publish", "swap"}

\* The journal of origin n, the contents it describes, the live zone, and the
\* zone a writer is about to publish.
Truthful(n) ==
    /\ IsSequence(journal[n]) /\ IsSequence(hist[n])
    /\ Replays(journal[n], hist[n])
    /\ \A p \in Procs :
         /\ Recorded(p) /\ n \in DOMAIN write[p].ups =>
              /\ EndsAt(journal[n], hist[n], write[p].ups[n])
              /\ Present(zones[n]) => Leaves(journal[n], hist[n], zones[n])
         /\ Recorded(p) /\ n \in write[p].rems => journal[n] = <<>>
    /\ \/ \E p \in Procs : Recorded(p) /\ n \in DOMAIN write[p].ups \cup write[p].rems
       \/ ~Present(zones[n])
       \/ EndsAt(journal[n], hist[n], zones[n])

JournalTruth == \A n \in ZoneNames : Truthful(n)

\* While nobody is between Record and the swap, the journal ends at the live zone.
LEMMA Settled ==
    ASSUME JournalTruth, NEW n \in ZoneNames, Present(zones[n]),
           \A p \in Procs : Recorded(p) => n \notin DOMAIN write[p].ups \cup write[p].rems
    PROVE  EndsAt(journal[n], hist[n], zones[n])
  BY DEF JournalTruth, Truthful

LEMMA EmptyReplays == IsSequence(NoHistory) /\ IsSequence(<<>>) /\ Replays(NoHistory, <<>>)
  <1>1. Len(<<>>) = 0 /\ MaxDeltas >= 0
    BY MaxDeltasAssumption
  <1> QED
    BY <1>1, Sequences DEF Replays, NoHistory

\* What the journal calls of a writer do, made from the live zones.
LEMMA RecordedTruth ==
    ASSUME Control, JournalTruth, \A p \in Procs : ~Recorded(p), NEW w, RecordWrite(w),
           NEW n \in ZoneNames
    PROVE  /\ IsSequence(journal'[n]) /\ IsSequence(hist'[n]) /\ Replays(journal'[n], hist'[n])
           /\ n \in w.rems => journal'[n] = <<>>
           /\ n \in DOMAIN w.ups /\ n \notin w.rems =>
                /\ EndsAt(journal'[n], hist'[n], w.ups[n])
                /\ Present(zones[n]) => Leaves(journal'[n], hist'[n], zones[n])
           /\ n \notin DOMAIN w.ups /\ n \notin w.rems => journal'[n] = journal[n] /\ hist'[n] = hist[n]
  <1>1. /\ n \in w.rems => journal'[n] = NoHistory /\ hist'[n] = <<>>
        /\ n \in DOMAIN w.ups /\ n \notin w.rems =>
             journal'[n] = RecordedJournal(n, w.ups[n]) /\ hist'[n] = RecordedHist(n, w.ups[n])
        /\ n \notin DOMAIN w.ups /\ n \notin w.rems => journal'[n] = journal[n] /\ hist'[n] = hist[n]
    BY DEF RecordWrite
  <1>2. CASE n \in w.rems
    BY <1>1, <1>2, EmptyReplays DEF NoHistory
  <1>3. CASE n \notin w.rems /\ n \notin DOMAIN w.ups
    BY <1>1, <1>3 DEF JournalTruth, Truthful
  <1>4. CASE n \notin w.rems /\ n \in DOMAIN w.ups
    <2> DEFINE z == w.ups[n]
    <2>1. CASE Present(zones[n]) /\ SerialGreater(z.soa, zones[n].soa)
      <3>1. journal'[n] = Record(journal[n], zones[n], z) /\ hist'[n] = Append(hist[n], recordSet(z))
        BY <1>1, <1>4, <2>1 DEF RecordedJournal, RecordedHist
      <3>2. EndsAt(journal[n], hist[n], zones[n])
        BY <2>1, Settled
      <3>3. IsSequence(journal[n]) /\ IsSequence(hist[n]) /\ Replays(journal[n], hist[n])
        BY DEF JournalTruth, Truthful
      <3> QED
        BY <1>4, <2>1, <3>1, <3>2, <3>3, RecordExtends
    <2>2. CASE ~(Present(zones[n]) /\ SerialGreater(z.soa, zones[n].soa))
      <3>1. journal'[n] = NoHistory /\ hist'[n] = <<recordSet(z)>>
        BY <1>1, <1>4, <2>2 DEF RecordedJournal, RecordedHist, Record
      <3> QED
        BY <1>4, <3>1, RecordRestarts
    <2> QED
      BY <2>1, <2>2
  <1> QED
    BY <1>2, <1>3, <1>4

\* Record, by the writer that holds persistMu or has just taken it.
LEMMA TruthRecord ==
    ASSUME Control, JournalTruth, NEW p \in Procs, \A q \in Procs : ~Recorded(q),
           RecordWrite(write[p]), UNCHANGED <<zones, write>>, Recorded(p)',
           \A q \in Procs \ {p} : pc'[q] = pc[q],
           DOMAIN write[p].ups \cap write[p].rems = {}
    PROVE  JournalTruth'
  <1> SUFFICES ASSUME NEW n \in ZoneNames PROVE Truthful(n)'
    BY DEF JournalTruth
  <1>1. \A q \in Procs : Recorded(q)' => q = p
    BY DEF Recorded
  <1>2. /\ IsSequence(journal'[n]) /\ IsSequence(hist'[n]) /\ Replays(journal'[n], hist'[n])
        /\ n \in write[p].rems => journal'[n] = <<>>
        /\ n \in DOMAIN write[p].ups /\ n \notin write[p].rems =>
             /\ EndsAt(journal'[n], hist'[n], write[p].ups[n])
             /\ Present(zones[n]) => Leaves(journal'[n], hist'[n], zones[n])
        /\ n \notin DOMAIN write[p].ups /\ n \notin write[p].rems =>
             journal'[n] = journal[n] /\ hist'[n] = hist[n]
    BY RecordedTruth
  <1>3. CASE n \in DOMAIN write[p].ups \cup write[p].rems
    BY <1>1, <1>2, <1>3 DEF Truthful
  <1>4. CASE n \notin DOMAIN write[p].ups \cup write[p].rems
    <2>1. Present(zones[n]) => EndsAt(journal[n], hist[n], zones[n])
      BY Settled
    <2> QED
      BY <1>1, <1>2, <1>4, <2>1 DEF Truthful
  <1> QED
    BY <1>3, <1>4

\* The swap, by the one writer that has recorded.
LEMMA TruthSwap ==
    ASSUME Control, JournalTruth, NEW p \in Procs, Recorded(p), SwapZones(write[p]),
           UNCHANGED <<journal, hist>>, \A q \in Procs : ~Recorded(q)'
    PROVE  JournalTruth'
  <1> SUFFICES ASSUME NEW n \in ZoneNames PROVE Truthful(n)'
    BY DEF JournalTruth
  <1>1. \A q \in Procs : Recorded(q) => q = p
    BY Exclusive DEF Recorded, Holding
  <1>2. zones'[n] = IF n \in write[p].rems THEN NoZone
                    ELSE IF n \in DOMAIN write[p].ups THEN write[p].ups[n] ELSE zones[n]
    BY SwappedZone
  <1>3. Present(zones'[n]) => EndsAt(journal[n], hist[n], zones'[n])
    <2>1. CASE n \in write[p].rems
      BY <1>2, <2>1 DEF Present
    <2>2. CASE n \notin write[p].rems /\ n \in DOMAIN write[p].ups
      BY <1>2, <2>2 DEF JournalTruth, Truthful
    <2>3. CASE n \notin write[p].rems /\ n \notin DOMAIN write[p].ups
      BY <1>1, <1>2, <2>3, Settled
    <2> QED
      BY <2>1, <2>2, <2>3
  <1>4. IsSequence(journal[n]) /\ IsSequence(hist[n]) /\ Replays(journal[n], hist[n])
    BY DEF JournalTruth, Truthful
  <1> QED
    BY <1>3, <1>4 DEF Truthful

\* Steps that touch neither journal nor map, of goroutines that have not recorded.
LEMMA TruthQuiet ==
    ASSUME JournalTruth, UNCHANGED <<journal, hist, zones>>,
           \A q \in Procs : Recorded(q)' <=> Recorded(q),
           \A q \in Procs : Recorded(q) => write'[q] = write[q]
    PROVE  JournalTruth'
  <1> SUFFICES ASSUME NEW n \in ZoneNames PROVE Truthful(n)'
    BY DEF JournalTruth
  <1>1. Truthful(n)
    BY DEF JournalTruth
  <1> QED
    BY <1>1 DEF Truthful

LEMMA TruthRemove ==
    ASSUME Control, JournalTruth, NEW p \in Procs, NEW m \in ZoneNames, RemoveZone(p, m)
    PROVE  JournalTruth'
  <1>1. /\ mu = Free /\ zones' = [zones EXCEPT ![m] = NoZone] /\ UNCHANGED <<journal, hist>>
        /\ pc' = [pc EXCEPT ![p] = "reset"]
    BY DEF RemoveZone, Lock, Goto
  <1>2. \A q \in Procs : ~Recorded(q) /\ ~Recorded(q)'
    BY <1>1, ProcsAssumption DEF Control, Fit, Holding, Recorded
  <1> SUFFICES ASSUME NEW n \in ZoneNames PROVE Truthful(n)'
    BY DEF JournalTruth
  <1>3. zones'[n] = IF n = m THEN NoZone ELSE zones[n]
    BY <1>1 DEF Control
  <1>4. Present(zones'[n]) => EndsAt(journal[n], hist[n], zones'[n])
    BY <1>2, <1>3, Settled DEF Present
  <1>5. IsSequence(journal[n]) /\ IsSequence(hist[n]) /\ Replays(journal[n], hist[n])
    BY DEF JournalTruth, Truthful
  <1> QED
    BY <1>1, <1>2, <1>4, <1>5 DEF Truthful

LEMMA TruthReset ==
    ASSUME Control, JournalTruth, NEW p \in Procs, ResetJournal(p) PROVE JournalTruth'
  <1>1. pc[p] = "reset" /\ RecordWrite(write[p]) /\ Finish(p, "OK") /\ zones' = zones
    BY DEF ResetJournal
  <1>2. PICK m \in ZoneNames : write[p] = [ups |-> <<>>, rems |-> {m}] /\ zones[m] = NoZone
    BY <1>1 DEF Control, Fit
  <1>3. \A q \in Procs : ~Recorded(q)
    BY <1>1, Exclusive DEF Recorded, Holding
  <1>4. \A q \in Procs : ~Recorded(q)'
    BY <1>1, <1>3 DEF Recorded, Finish, Control
  <1>5. DOMAIN write[p].ups = {} /\ write[p].rems = {m}
    BY <1>2
  <1> SUFFICES ASSUME NEW n \in ZoneNames PROVE Truthful(n)'
    BY DEF JournalTruth
  <1>6. /\ IsSequence(journal'[n]) /\ IsSequence(hist'[n]) /\ Replays(journal'[n], hist'[n])
        /\ n # m => journal'[n] = journal[n] /\ hist'[n] = hist[n]
    BY <1>1, <1>3, <1>5, RecordedTruth
  <1>7. Present(zones[n]) => EndsAt(journal'[n], hist'[n], zones[n])
    BY <1>2, <1>3, <1>6, Settled DEF Present
  <1> QED
    BY <1>1, <1>4, <1>6, <1>7 DEF Truthful

\* Start-up begins with an empty journal.
LEMMA TruthRestart == ASSUME Restart PROVE JournalTruth'
  <1> SUFFICES ASSUME NEW n \in ZoneNames PROVE Truthful(n)'
    BY DEF JournalTruth
  <1>1. /\ \A q \in Procs : pc'[q] = "idle"
        /\ journal'[n] = NoHistory
        /\ hist'[n] = IF Present(zones'[n]) THEN <<recordSet(zones'[n])>> ELSE <<>>
    BY DEF Restart
  <1>2. \A q \in Procs : ~Recorded(q)'
    BY <1>1 DEF Recorded
  <1> QED
    BY <1>1, <1>2, EmptyReplays, RecordRestarts DEF Truthful

LEMMA TruthInit == Init => JournalTruth
  <1> SUFFICES ASSUME Init, NEW n \in ZoneNames PROVE Truthful(n)
    BY DEF JournalTruth
  <1>1. /\ \A q \in Procs : pc[q] = "idle"
        /\ journal[n] = NoHistory
        /\ hist[n] = IF Present(zones[n]) THEN <<recordSet(zones[n])>> ELSE <<>>
    BY DEF Init
  <1>2. \A q \in Procs : ~Recorded(q)
    BY <1>1 DEF Recorded
  <1> QED
    BY <1>1, <1>2, EmptyReplays, RecordRestarts DEF Truthful

LEMMA TruthStep == ASSUME Control, JournalTruth, [Next]_vars PROVE JournalTruth'
  <1>1. DOMAIN pc = Procs
    BY DEF Control
  <1>2. ASSUME NEW p \in Procs, RecordUpdate(p) PROVE JournalTruth'
    <2>1. /\ pc[p] = "record" /\ RecordWrite(write[p]) /\ pc' = [pc EXCEPT ![p] = "publish"]
          /\ UNCHANGED <<zones, write>>
      BY <1>2 DEF RecordUpdate, Goto
    <2>2. \A q \in Procs : ~Recorded(q)
      BY <2>1, Exclusive DEF Recorded, Holding
    <2>3. Prepared(p)
      BY <2>1 DEF Control, Fit, Updating
    <2>4. DOMAIN write[p].ups \cap write[p].rems = {}
      BY <2>3, PreparedWrite
    <2>5. Recorded(p)' /\ \A q \in Procs \ {p} : pc'[q] = pc[q]
      BY <1>1, <2>1 DEF Recorded
    <2> QED
      BY <2>1, <2>2, <2>4, <2>5, TruthRecord
  <1>3. ASSUME NEW p \in Procs, RecordZones(p) PROVE JournalTruth'
    <2>1. /\ pc[p] = "add" /\ mu = Free /\ RecordWrite(write[p]) /\ pc' = [pc EXCEPT ![p] = "swap"]
          /\ UNCHANGED <<zones, write>>
      BY <1>3 DEF RecordZones, Lock, Goto
    <2>2. \A q \in Procs : ~Recorded(q)
      BY <2>1, ProcsAssumption DEF Control, Fit, Holding, Recorded
    <2>3. Batched(write[p])
      BY <2>1 DEF Control, Fit
    <2>4. DOMAIN write[p].ups \cap write[p].rems = {}
      BY <2>3, BatchedWrite
    <2>5. Recorded(p)' /\ \A q \in Procs \ {p} : pc'[q] = pc[q]
      BY <1>1, <2>1 DEF Recorded
    <2> QED
      BY <2>1, <2>2, <2>4, <2>5, TruthRecord
  <1>4. ASSUME NEW p \in Procs, PublishUpdate(p) \/ PublishZones(p) PROVE JournalTruth'
    <2>1. /\ Recorded(p) /\ SwapZones(write[p]) /\ UNCHANGED <<journal, hist>>
          /\ \/ pc' = [pc EXCEPT ![p] = "reply"] \/ pc' = [pc EXCEPT ![p] = "idle"]
      BY <1>4 DEF PublishUpdate, PublishZones, Goto, Finish, Recorded
    <2>2. \A q \in Procs : ~Recorded(q)'
      BY <1>1, <2>1, Exclusive DEF Recorded, Holding
    <2> QED
      BY <2>1, <2>2, TruthSwap
  <1>5. ASSUME NEW p \in Procs,
               \/ \E m \in Messages : ReceiveUpdate(p, m)
               \/ LockUpdate(p) \/ WriteTemp(p) \/ RenameTemp(p) \/ SyncDirectory(p) \/ ReplyUpdate(p)
               \/ \E w : Admit(p, w, "add"),
               UpdateStep(p) \/ AdminStep(p)
        PROVE  JournalTruth'
    <2>1. UNCHANGED <<journal, hist, zones>> /\ ~Recorded(p)
      BY <1>5 DEF ReceiveUpdate, LockUpdate, WriteTemp, RenameTemp, SyncDirectory, ReplyUpdate, Admit,
                  store, Recorded
    <2>2. ~Recorded(p)'
      BY <1>1, <1>5 DEF ReceiveUpdate, LockUpdate, WriteTemp, RenameTemp, SyncDirectory, ReplyUpdate,
                        Admit, FailPersist, Goto, Finish, Recorded
    <2>3. \A q \in Procs \ {p} : pc'[q] = pc[q] /\ write'[q] = write[q]
      BY <1>5, OthersStay
    <2> QED
      BY <2>1, <2>2, <2>3, TruthQuiet DEF Recorded
  <1>6. CASE NewDay \/ UNCHANGED vars
    <2>1. UNCHANGED <<journal, hist, zones, pc, write>>
      BY <1>6 DEF NewDay, store, local, vars
    <2> QED
      BY <2>1, TruthQuiet DEF Recorded
  <1>7. ASSUME NEW p \in Procs, UpdateStep(p) PROVE JournalTruth'
    BY <1>2, <1>4, <1>5, <1>7 DEF UpdateStep
  <1>8. ASSUME NEW p \in Procs, AdminStep(p) PROVE JournalTruth'
    BY <1>3, <1>4, <1>5, <1>8, TruthRemove, TruthReset DEF AdminStep, AddZone, ApplyZoneBatch
  <1> QED
    BY <1>6, <1>7, <1>8, TruthRestart DEF Next

-----------------------------------------------------------------------------
(* What the journal tells secondaries.                                     *)

\* The chain of deltas, and the zone it leads to, for every behaviour.
THEOREM JournalAlwaysTruthful == Spec => [](JournalReplays /\ JournalMeetsZone)
  <1>1. Spec => []JournalTruth
    BY TruthInit, TruthStep, ControlHolds, PTL DEF Spec
  <1>2. ASSUME Control, JournalTruth PROVE JournalReplays /\ JournalMeetsZone
    <2>1. JournalReplays
      BY <1>2 DEF JournalTruth, Truthful, JournalReplays, Replays
    <2>2. \A p \in Procs : pc[p] = "publish" => write[p].rems = {}
      BY <1>2, PreparedWrite DEF Control, Fit, Updating
    <2>3. ASSUME NEW n \in ZoneNames, NEW z, EndsAt(journal[n], hist[n], z) PROVE Meets(n, z)
      BY <2>3 DEF EndsAt, Meets
    <2>4. JournalMeetsZone
      BY <1>2, <2>2, <2>3 DEF JournalMeetsZone, JournalTruth, Truthful, Recorded
    <2> QED
      BY <2>1, <2>4
  <1> QED
    BY <1>1, <1>2, ControlHolds, PTL

\* No serial occurs twice among the versions the retained deltas lead to.
SerialsDistinct ==
    \A n \in ZoneNames : \A i, k \in DOMAIN journal[n] :
        journal[n][i].to = journal[n][k].to => i = k

\* A nonempty set of positions has a first one.
LEMMA LeastPosition ==
    ASSUME NEW S \in SUBSET Nat, S # {} PROVE \E x \in S : \A y \in S : x <= y
  <1> DEFINE Below == {ss \in Nat \X Nat : ss[1] < ss[2]}
  <1>1. IsWellFoundedOn(Below, Nat)
    BY NatLessThanWellFounded DEF OpToRel
  <1>2. PICK x \in S : \A y \in S : ~(<<y, x>> \in Below)
    BY <1>1, WFMin
  <1>3. \A y \in S : x <= y
    <2> SUFFICES ASSUME NEW y \in S PROVE x <= y
      OBVIOUS
    <2>1. x \in Nat /\ y \in Nat /\ ~(<<y, x>> \in Below)
      BY <1>2
    <2> QED
      BY <2>1
  <1> QED
    BY <1>3

LEMMA FirstPosition ==
    ASSUME NEW S \in SUBSET Nat, S # {} PROVE Min(S) \in S
  BY LeastPosition DEF Min

\* The chain an incremental answer walks ends where the contents of zone z were
\* published.
LEMMA ChainMeetsZone ==
    ASSUME Control, JournalTruth, SerialsDistinct, NEW n \in ZoneNames, Present(zones[n]),
           NEW e \in DOMAIN journal[n], journal[n][e].to = zones[n].soa
    PROVE  hist[n][Len(hist[n]) - Len(journal[n]) + e] = recordSet(zones[n])
  <1> DEFINE j == journal[n]
             h == hist[n]
             z == zones[n]
  <1>1. /\ IsSequence(j) /\ IsSequence(h) /\ Replays(j, h)
        /\ \A i \in DOMAIN j : j[i].to = z.soa => i = e
    BY DEF JournalTruth, Truthful, SerialsDistinct
  <1>2. /\ Len(j) \in Nat /\ Len(h) \in Nat /\ DOMAIN j = 1 .. Len(j) /\ Len(j) >= 1 /\ j # <<>>
    BY <1>1, Sequences
  <1>3. CASE EndsAt(j, h, z)
    <2>1. j[Len(j)].to = z.soa /\ h[Len(h)] = recordSet(z)
      BY <1>2, <1>3 DEF EndsAt, Last
    <2>2. e = Len(j)
      BY <1>1, <1>2, <2>1
    <2>3. Len(h) - Len(j) + e = Len(h)
      BY <1>2, <2>2
    <2> QED
      BY <2>1, <2>3
  <1>4. CASE Leaves(j, h, z)
    <2>1. j[Len(j)].from = z.soa /\ j[Len(j)].to # z.soa /\ h[Len(h) - 1] = recordSet(z)
      BY <1>2, <1>4 DEF Leaves, Last
    <2>2. Len(j) - 1 \in 1 .. (Len(j) - 1)
      BY <1>2, <2>1
    <2>3. j[Len(j) - 1].to = z.soa
      <3>1. j[Len(j) - 1].to = j[Len(j) - 1 + 1].from
        BY <1>1, <2>2 DEF Replays
      <3> QED
        BY <1>2, <2>1, <3>1
    <2>4. e = Len(j) - 1
      BY <1>1, <1>2, <2>2, <2>3
    <2>5. Len(h) - Len(j) + e = Len(h) - 1
      BY <1>2, <2>4
    <2> QED
      BY <2>1, <2>5
  <1>5. EndsAt(j, h, z) \/ Leaves(j, h, z)
    BY <1>2 DEF JournalTruth, Truthful
  <1> QED
    BY <1>3, <1>4, <1>5

LEMMA AnswerExact ==
    ASSUME Control, JournalTruth, SerialsDistinct PROVE IncrementalAnswersExact
  <1> SUFFICES ASSUME NEW n \in ZoneNames, NEW i \in DOMAIN journal[n], Present(zones[n]),
                      HasChanges(journal[n], journal[n][i].from, zones[n].soa)
               PROVE  LET from == journal[n][i].from
                          first == Min({k \in DOMAIN journal[n] : journal[n][k].from = from})
                          base == Len(hist[n]) - Len(journal[n]) + first - 1
                          changes == Changes(journal[n], from, zones[n].soa)
                      IN /\ \A k \in DOMAIN changes :
                              hist[n][base + k] = Patch(hist[n][base + k - 1], changes[k])
                         /\ hist[n][base + Len(changes)] = recordSet(zones[n])
    BY DEF IncrementalAnswersExact
  <1> DEFINE j == journal[n]
             h == hist[n]
             from == j[i].from
             soa == zones[n].soa
             starts == {k \in DOMAIN j : j[k].from = from}
             first == Min(starts)
             ends == ChainEnds(j, from, soa)
             changes == Changes(j, from, soa)
             offset == Len(h) - Len(j)
  <1>1. /\ IsSequence(j) /\ IsSequence(h) /\ Replays(j, h)
        /\ Len(j) \in Nat /\ Len(h) \in Nat /\ DOMAIN j = 1 .. Len(j)
    BY Sequences DEF JournalTruth, Truthful
  <1>2. first \in 1 .. Len(j)
    <2>1. starts \in SUBSET Nat /\ i \in starts
      BY <1>1
    <2>2. first \in starts
      BY <2>1, FirstPosition
    <2> QED
      BY <1>1, <2>2
  <1> HIDE DEF first
  <1>3. ends # {} /\ ends \subseteq {e \in first .. Len(j) : j[e].to = soa}
    BY DEF HasChanges, ChainEnds, first
  <1>4. PICK e : e \in first .. Len(j) /\ e \in ends /\ j[e].to = soa
    BY <1>3
  <1>5. ends = {e}
    <2>1. \A x \in ends : x \in DOMAIN j /\ j[x].to = soa
      BY <1>1, <1>2, <1>3
    <2>2. \A x \in ends : x = e
      BY <1>4, <2>1 DEF SerialsDistinct
    <2> QED
      BY <1>4, <2>2
  <1>6. e \in Int /\ Min(ends) = e
    BY <1>1, <1>2, <1>4, <1>5 DEF Min
  <1>7. changes = SubSeq(j, first, e)
    BY <1>6 DEF Changes, first
  <1> HIDE DEF changes, ends
  <1>8. /\ Len(changes) = e - first + 1 /\ DOMAIN changes = 1 .. Len(changes)
        /\ \A k \in 1 .. Len(changes) : changes[k] = j[first + k - 1]
    <2>1. j \in Seq(ToSet(j)) /\ first \in 1 .. Len(j) /\ e \in first .. Len(j)
      BY <1>1, <1>2, <1>4 DEF IsSequence
    <2> QED
      BY <1>7, <2>1
  <1>9. h[offset + e] = recordSet(zones[n])
    BY <1>1, <1>2, <1>4, ChainMeetsZone
  <1>10. offset \in Int /\ first \in Int /\ e \in Int
    BY <1>1, <1>2, <1>4
  <1> HIDE DEF offset
  <1>11. ASSUME NEW k \in DOMAIN changes
         PROVE  h[offset + first - 1 + k] = Patch(h[offset + first - 1 + k - 1], changes[k])
    <2>1. first + k - 1 \in 1 .. Len(j)
      BY <1>1, <1>2, <1>4, <1>8, <1>11
    <2>2. h[offset + (first + k - 1)] = Patch(h[offset + (first + k - 1) - 1], j[first + k - 1])
      BY <1>1, <2>1 DEF Replays, offset
    <2>3. k \in Int
      BY <1>8, <1>11
    <2>4. /\ offset + (first + k - 1) = offset + first - 1 + k
          /\ offset + (first + k - 1) - 1 = offset + first - 1 + k - 1
      BY <1>10, <2>3
    <2> QED
      BY <1>8, <1>11, <2>2, <2>4
  <1>12. h[offset + first - 1 + Len(changes)] = recordSet(zones[n])
    <2>1. offset + first - 1 + Len(changes) = offset + e
      BY <1>8, <1>10
    <2> QED
      BY <1>9, <2>1 DEF offset
  <1> QED
    BY <1>11, <1>12 DEF first, changes, offset

\* journal.go's promise to secondaries, for every interleaving of UPDATE, batches,
\* removals and restarts: while no serial recurs in the retained history, an
\* incremental answer made at any moment is exactly the difference between the
\* two versions it names.
THEOREM JournalAlwaysExact == Spec => [](SerialsDistinct => JournalIsExact)
  <1>1. Spec => []JournalTruth
    BY TruthInit, TruthStep, ControlHolds, PTL DEF Spec
  <1>2. Control /\ JournalTruth => (SerialsDistinct => IncrementalAnswersExact)
    BY AnswerExact
  <1>3. JournalReplays /\ JournalMeetsZone /\ (SerialsDistinct => IncrementalAnswersExact)
          => (SerialsDistinct => JournalIsExact)
    BY DEF JournalIsExact
  <1> QED
    BY <1>1, <1>2, <1>3, ControlHolds, JournalAlwaysTruthful, PTL
-----------------------------------------------------------------------------
(* What a transfer does to a zone's records.                               *)

\* A zone as the code keeps it, in its shape only.
IsZone(z) == DOMAIN z = {"soa", "soaRec", "rrs"} /\ RRsetsShaped(z.rrs)

RecordAt(k, e) == [owner |-> k[1], type |-> k[2], data |-> e.data, ttl |-> e.ttl]

\* The content of a zone, record by record.
LEMMA Contents ==
    ASSUME NEW z, NEW r
    PROVE  r \in recordSet(z) <=>
             \E k \in DOMAIN z.rrs : \E i \in DOMAIN z.rrs[k] : r = RecordAt(k, z.rrs[k][i])
  <1> DEFINE at(k) == {[owner |-> k[1], type |-> k[2], data |-> e.data, ttl |-> e.ttl] :
                         e \in ToSet(z.rrs[k])}
  <1>1. recordSet(z) = UNION {at(k) : k \in DOMAIN z.rrs}
    BY DEF recordSet
  <1>2. \A k \in DOMAIN z.rrs :
          r \in at(k) <=> \E i \in DOMAIN z.rrs[k] : r = RecordAt(k, z.rrs[k][i])
    BY DEF ToSet, RecordAt
  <1> HIDE DEF at
  <1>3. r \in recordSet(z) <=> \E k \in DOMAIN z.rrs : r \in at(k)
    BY <1>1
  <1> QED
    BY <1>2, <1>3

\* Two sequences, one after the other.
LEMMA Joined ==
    ASSUME NEW S, NEW a \in Seq(S), NEW b \in Seq(S)
    PROVE  a \o b \in Seq(S) /\ Len(a \o b) = Len(a) + Len(b)
  OBVIOUS

\* Deleting a record of a slice moves the later ones up.
LEMMA RemovedAt ==
    ASSUME NEW s, IsSequence(s), NEW i \in 1 .. Len(s)
    PROVE  LET t == RemoveAt(s, i) IN
           /\ IsSequence(t) /\ Len(t) = Len(s) - 1 /\ Len(s) \in Nat
           /\ \A j \in 1 .. (Len(s) - 1) : t[j] = IF j < i THEN s[j] ELSE s[j + 1]
  <1> DEFINE S == ToSet(s)
             front == SubSeq(s, 1, i - 1)
             rest == SubSeq(s, i + 1, Len(s))
             t == RemoveAt(s, i)
  <1>1. s \in Seq(S) /\ Len(s) \in Nat /\ i \in Nat /\ i >= 1 /\ i <= Len(s)
    BY DEF IsSequence
  <1> HIDE DEF S
  <1>2. /\ front \in Seq(S) /\ Len(front) = i - 1
        /\ \A j \in 1 .. (i - 1) : front[j] = s[j]
    BY <1>1
  <1>3. /\ rest \in Seq(S) /\ Len(rest) = Len(s) - i
        /\ \A j \in 1 .. (Len(s) - i) : rest[j] = s[i + j]
    BY <1>1
  <1>4. t = front \o rest
    BY DEF RemoveAt
  <1> HIDE DEF front, rest, t
  <1>5. t \in Seq(S) /\ Len(t) = Len(s) - 1
    <2>1. front \o rest \in Seq(S) /\ Len(front \o rest) = Len(front) + Len(rest)
      BY <1>2, <1>3, Joined
    <2>2. Len(front) + Len(rest) = Len(s) - 1
      BY <1>1, <1>2, <1>3
    <2> QED
      BY <1>4, <2>1, <2>2
  <1>6. ASSUME NEW j \in 1 .. (Len(s) - 1)
        PROVE  t[j] = IF j < i THEN s[j] ELSE s[j + 1]
    <2>1. t[j] = IF j <= Len(front) THEN front[j] ELSE rest[j - Len(front)]
      <3>1. j \in 1 .. (Len(front) + Len(rest))
        BY <1>1, <1>2, <1>3
      <3>2. \A x \in 1 .. (Len(front) + Len(rest)) :
              (front \o rest)[x] = IF x <= Len(front) THEN front[x] ELSE rest[x - Len(front)]
        BY <1>2, <1>3
      <3> QED
        BY <1>4, <3>1, <3>2
    <2>2. CASE j < i
      <3>1. j <= Len(front) /\ j \in 1 .. (i - 1)
        BY <1>1, <1>2, <2>2
      <3> QED
        BY <1>2, <2>1, <2>2, <3>1
    <2>3. CASE ~(j < i)
      <3>1. ~(j <= Len(front)) /\ j - Len(front) \in 1 .. (Len(s) - i) /\ i + (j - Len(front)) = j + 1
        BY <1>1, <1>2, <2>3
      <3> QED
        BY <1>3, <2>1, <2>3, <3>1
    <2> QED
      BY <2>2, <2>3
  <1>7. IsSequence(t)
    BY <1>5, OwnElements
  <1> QED
    BY <1>1, <1>5, <1>6, <1>7 DEF t

\* Replacing one RRset of a zone, or dropping it when nothing is left of it.
Replaced(z, y, key, items) ==
    /\ DOMAIN y = DOMAIN z /\ y.soa = z.soa
    /\ y.rrs = [k \in DOMAIN y.rrs |-> y.rrs[k]]
    /\ DOMAIN y.rrs = IF items = <<>> THEN DOMAIN z.rrs \ {key} ELSE DOMAIN z.rrs \cup {key}
    /\ \A k \in DOMAIN y.rrs : y.rrs[k] = IF k = key THEN items ELSE z.rrs[k]

\* A zone with one RRset replaced by another is a zone.
LEMMA ReplacedIsZone ==
    ASSUME NEW z, IsZone(z), NEW y, NEW key, NEW items, Replaced(z, y, key, items),
           key = <<key[1], key[2]>>, key[2] # "SOA", IsSequence(items),
           \A i \in DOMAIN items : items[i] = [data |-> items[i].data, ttl |-> items[i].ttl]
    PROVE  IsZone(y)
  <1>1. IsFiniteSet(DOMAIN z.rrs \cup {key})
    BY FS_Singleton, FS_Union DEF IsZone, RRsetsShaped
  <1>2. IsFiniteSet(DOMAIN y.rrs)
    BY <1>1, FS_Subset DEF Replaced
  <1>3. ASSUME NEW k \in DOMAIN y.rrs
        PROVE  /\ k = <<k[1], k[2]>> /\ k[2] # "SOA"
               /\ IsSequence(y.rrs[k]) /\ y.rrs[k] # <<>>
               /\ \A i \in DOMAIN y.rrs[k] :
                     y.rrs[k][i] = [data |-> y.rrs[k][i].data, ttl |-> y.rrs[k][i].ttl]
    <2>1. CASE k = key
      BY <1>3, <2>1 DEF Replaced
    <2>2. CASE k # key
      <3>1. k \in DOMAIN z.rrs /\ y.rrs[k] = z.rrs[k]
        BY <1>3, <2>2 DEF Replaced
      <3> QED
        BY <3>1 DEF IsZone, RRsetsShaped
    <2> QED
      BY <2>1, <2>2
  <1> QED
    BY <1>2, <1>3 DEF IsZone, RRsetsShaped, Replaced

\* Deleting one of its records takes exactly that record from a zone whose RRsets
\* have one TTL and list no record twice.
LEMMA DeleteOne ==
    ASSUME NEW z, IsZone(z), Distinct(z), OneTTL(recordSet(z)), NEW rr \in recordSet(z)
    PROVE  LET y == DeleteRecord(z, rr) IN
           /\ zoneHasRR(z, rr)
           /\ IsZone(y) /\ Distinct(y) /\ y.soa = z.soa
           /\ recordSet(y) = recordSet(z) \ {rr}
  <1> DEFINE y == DeleteRecord(z, rr)
             key == <<rr.owner, rr.type>>
             items == z.rrs[key]
             Matches(e) == e.data = rr.data /\ e.ttl = items[1].ttl
  <1>1. PICK k \in DOMAIN z.rrs : \E i \in DOMAIN z.rrs[k] : rr = RecordAt(k, z.rrs[k][i])
    BY Contents
  <1>2. PICK at \in DOMAIN z.rrs[k] : rr = RecordAt(k, z.rrs[k][at])
    BY <1>1
  <1>3. k = <<k[1], k[2]>> /\ k[2] # "SOA"
    BY DEF IsZone, RRsetsShaped
  <1>4. key = k
    BY <1>2, <1>3 DEF RecordAt
  <1> HIDE DEF key
  <1>5. /\ IsSequence(items) /\ items # <<>>
        /\ \A i \in DOMAIN items : items[i] = [data |-> items[i].data, ttl |-> items[i].ttl]
    BY <1>4 DEF IsZone, RRsetsShaped
  <1>6. DOMAIN items = 1 .. Len(items) /\ Len(items) \in Nat /\ at \in 1 .. Len(items)
    BY <1>4, <1>5, Sequences
  <1>7. rr.owner = key[1] /\ rr.type = key[2] /\ rr.data = items[at].data /\ rr.ttl = items[at].ttl
    BY <1>2, <1>4 DEF RecordAt
  <1>8. ASSUME NEW i \in DOMAIN items PROVE items[i].ttl = rr.ttl
    <2>1. RecordAt(key, items[i]) \in recordSet(z)
      BY <1>4, Contents
    <2>2. RecordAt(key, items[i]).owner = rr.owner /\ RecordAt(key, items[i]).type = rr.type
      BY <1>7 DEF RecordAt
    <2>3. RecordAt(key, items[i]).ttl = rr.ttl
      BY <2>1, <2>2 DEF OneTTL
    <2> QED
      BY <2>3 DEF RecordAt
  <1>9. \A i \in DOMAIN items : items[i].data = rr.data => i = at
    <2> SUFFICES ASSUME NEW i \in DOMAIN items, items[i].data = rr.data PROVE i = at
      OBVIOUS
    <2>1. items[i] = items[at]
      BY <1>5, <1>6, <1>7, <1>8
    <2> QED
      BY <1>4, <1>6, <2>1 DEF Distinct
  <1>10. recordsAt(z, rr.owner, rr.type) = items
    BY <1>3, <1>4, <1>7 DEF recordsAt, key
  <1>11. zoneHasRR(z, rr)
    BY <1>6, <1>7, <1>10 DEF zoneHasRR, ExactRecords, ToSet
  <1> DEFINE left == RemoveAt(items, at)
  <1>12. RemoveFirstMatch(items, Matches) = left
    <2>1. 1 \in DOMAIN items
      BY <1>6
    <2>2. \A i \in 1 .. Len(items) : Matches(items[i]) <=> i = at
      BY <1>6, <1>7, <1>8, <1>9, <2>1
    <2>3. {i \in 1 .. Len(items) : Matches(items[i])} = {at}
      BY <1>6, <2>2
    <2> HIDE DEF items, Matches
    <2>4. SelectInSeq(items, Matches) = at
      <3>1. Min({at}) = at
        BY <1>6 DEF Min
      <3> QED
        BY <2>3, <3>1 DEF SelectInSeq
    <2> QED
      BY <1>6, <2>2, <2>4 DEF RemoveFirstMatch
  <1>13. y = WithRRset(z, key, left)
    BY <1>4, <1>10, <1>12 DEF DeleteRecord, key
  <1>14. /\ IsSequence(left) /\ Len(left) = Len(items) - 1 /\ DOMAIN left = 1 .. (Len(items) - 1)
         /\ \A j \in 1 .. (Len(items) - 1) : left[j] = IF j < at THEN items[j] ELSE items[j + 1]
    <2>1. /\ IsSequence(left) /\ Len(left) = Len(items) - 1
          /\ \A j \in 1 .. (Len(items) - 1) : left[j] = IF j < at THEN items[j] ELSE items[j + 1]
      BY <1>5, <1>6, RemovedAt
    <2> QED
      BY <2>1, Sequences
  <1> HIDE DEF items, left, y
  <1>15. Replaced(z, y, key, left)
    <2>1. DOMAIN z.rrs \cup {key} = DOMAIN z.rrs
      BY <1>4
    <2>2. CASE left = <<>>
      <3>1. y = [z EXCEPT !.rrs = [x \in DOMAIN z.rrs \ {key} |-> z.rrs[x]]]
        BY <1>13, <2>2 DEF WithRRset, Restrict
      <3> QED
        BY <2>2, <3>1 DEF Replaced, IsZone
    <2>3. CASE left # <<>>
      <3>1. y = [z EXCEPT !.rrs = [z.rrs EXCEPT ![key] = left]]
        BY <1>13, <2>3 DEF WithRRset
      <3>2. y.rrs = [z.rrs EXCEPT ![key] = left] /\ DOMAIN y = DOMAIN z /\ y.soa = z.soa
        BY <3>1 DEF IsZone
      <3> QED
        BY <1>4, <2>1, <2>3, <3>2 DEF Replaced
    <2> QED
      BY <2>2, <2>3
  <1>16. IsZone(y)
    <2>1. \A i \in DOMAIN left : left[i] = [data |-> left[i].data, ttl |-> left[i].ttl]
      BY <1>5, <1>6, <1>14
    <2>2. key = <<key[1], key[2]>> /\ key[2] # "SOA"
      BY <1>3, <1>4
    <2> QED
      BY <1>14, <1>15, <2>1, <2>2, ReplacedIsZone
  <1>17. Distinct(y)
    <2> SUFFICES ASSUME NEW x \in DOMAIN y.rrs, NEW i \in DOMAIN y.rrs[x], NEW j \in DOMAIN y.rrs[x],
                        y.rrs[x][i] = y.rrs[x][j]
                 PROVE  i = j
      BY DEF Distinct
    <2>1. CASE x # key
      BY <1>15, <2>1 DEF Replaced, Distinct
    <2>2. CASE x = key
      <3>1. y.rrs[x] = left /\ i \in 1 .. (Len(items) - 1) /\ j \in 1 .. (Len(items) - 1)
        BY <1>14, <1>15, <2>2 DEF Replaced
      <3>2. \A a, b \in 1 .. Len(items) : items[a] = items[b] => a = b
        BY <1>4, <1>6 DEF Distinct, items
      <3> DEFINE old(a) == IF a < at THEN a ELSE a + 1
      <3>3. /\ old(i) \in 1 .. Len(items) /\ old(j) \in 1 .. Len(items)
            /\ left[i] = items[old(i)] /\ left[j] = items[old(j)]
        BY <1>6, <1>14, <3>1
      <3>4. old(i) = old(j)
        BY <3>1, <3>2, <3>3
      <3> QED
        BY <1>6, <3>1, <3>4
    <2> QED
      BY <2>1, <2>2
  <1>18. recordSet(y) = recordSet(z) \ {rr}
    <2>1. ASSUME NEW r \in recordSet(y) PROVE r \in recordSet(z) /\ r # rr
      <3>1. PICK x \in DOMAIN y.rrs : \E i \in DOMAIN y.rrs[x] : r = RecordAt(x, y.rrs[x][i])
        BY <2>1, Contents
      <3>2. PICK i \in DOMAIN y.rrs[x] : r = RecordAt(x, y.rrs[x][i])
        BY <3>1
      <3>3. CASE x # key
        <4>1. x \in DOMAIN z.rrs /\ y.rrs[x] = z.rrs[x]
          BY <1>15, <3>3 DEF Replaced
        <4>2. r \in recordSet(z)
          BY <3>2, <4>1, Contents
        <4>3. x = <<x[1], x[2]>>
          BY <4>1 DEF IsZone, RRsetsShaped
        <4>4. <<r.owner, r.type>> = x
          BY <3>2, <4>3 DEF RecordAt
        <4> QED
          BY <3>3, <4>2, <4>4 DEF key
      <3>4. CASE x = key
        <4> DEFINE old == IF i < at THEN i ELSE i + 1
        <4>1. y.rrs[x] = left
          BY <1>15, <3>4 DEF Replaced
        <4>2. old \in DOMAIN items /\ old # at /\ left[i] = items[old]
          BY <1>6, <1>14, <3>2, <4>1
        <4> HIDE DEF old
        <4>3. r = RecordAt(key, items[old])
          BY <3>2, <3>4, <4>1, <4>2
        <4>4. r \in recordSet(z)
          BY <1>4, <4>2, <4>3, Contents DEF items
        <4>5. r.data # rr.data
          BY <1>9, <4>2, <4>3 DEF RecordAt
        <4> QED
          BY <4>4, <4>5
      <3> QED
        BY <3>3, <3>4
    <2>2. ASSUME NEW r \in recordSet(z), r # rr PROVE r \in recordSet(y)
      <3>1. PICK x \in DOMAIN z.rrs : \E i \in DOMAIN z.rrs[x] : r = RecordAt(x, z.rrs[x][i])
        BY <2>2, Contents
      <3>2. PICK i \in DOMAIN z.rrs[x] : r = RecordAt(x, z.rrs[x][i])
        BY <3>1
      <3>3. CASE x # key
        <4>1. x \in DOMAIN y.rrs /\ y.rrs[x] = z.rrs[x]
          BY <1>15, <3>3 DEF Replaced
        <4> QED
          BY <3>2, <4>1, Contents
      <3>4. CASE x = key
        <4> DEFINE new == IF i < at THEN i ELSE i - 1
        <4>1. i # at
          <5>1. i = at => r = rr
            BY <1>2, <1>4, <3>2, <3>4
          <5> QED
            BY <2>2, <5>1
        <4>2. i \in 1 .. Len(items)
          BY <1>6, <3>2, <3>4 DEF items
        <4>3. new \in 1 .. (Len(items) - 1) /\ left[new] = items[i]
          BY <1>6, <1>14, <4>1, <4>2
        <4>4. left # <<>> /\ new \in DOMAIN left
          BY <1>14, <4>3
        <4> HIDE DEF new
        <4>5. key \in DOMAIN y.rrs /\ y.rrs[key] = left
          BY <1>4, <1>15, <4>4 DEF Replaced
        <4>6. r = RecordAt(key, y.rrs[key][new])
          BY <3>2, <3>4, <4>3, <4>5 DEF items
        <4> QED
          BY <4>4, <4>5, <4>6, Contents
      <3> QED
        BY <3>3, <3>4
    <2> QED
      BY <2>1, <2>2
  <1>19. y.soa = z.soa
    BY <1>15 DEF Replaced
  <1> QED
    BY <1>11, <1>16, <1>17, <1>18, <1>19 DEF y

\* Adding a record that is new, of a type other than SOA, adds exactly that record.
LEMMA AddOne ==
    ASSUME NEW z, IsZone(z), Distinct(z), NEW rr, rr \notin recordSet(z),
           rr = [owner |-> rr.owner, type |-> rr.type, data |-> rr.data, ttl |-> rr.ttl],
           rr.type # "SOA", OneTTL(recordSet(z) \cup {rr})
    PROVE  LET y == AddRecord(z, rr) IN
           /\ ~zoneHasRR(z, rr)
           /\ IsZone(y) /\ Distinct(y) /\ y.soa = z.soa
           /\ recordSet(y) = recordSet(z) \cup {rr}
  <1> DEFINE y == AddRecord(z, rr)
             key == <<rr.owner, rr.type>>
             items == recordsAt(z, rr.owner, rr.type)
             item == [data |-> rr.data, ttl |-> rr.ttl]
             longer == Append(items, item)
  <1>1. key = <<key[1], key[2]>> /\ key[2] # "SOA" /\ key[1] = rr.owner /\ key[2] = rr.type
    OBVIOUS
  <1>2. items = IF key \in DOMAIN z.rrs THEN z.rrs[key] ELSE <<>>
    BY DEF recordsAt
  <1> HIDE DEF key
  <1>3. /\ IsSequence(items)
        /\ \A i \in DOMAIN items : items[i] = [data |-> items[i].data, ttl |-> items[i].ttl]
    <2>1. IsSequence(<<>>) /\ DOMAIN <<>> = {}
      BY Sequences
    <2> QED
      BY <1>2, <2>1 DEF IsZone, RRsetsShaped
  <1>4. DOMAIN items = 1 .. Len(items) /\ Len(items) \in Nat
    BY <1>3, Sequences
  <1>5. \A i \in DOMAIN items : key \in DOMAIN z.rrs /\ i \in DOMAIN z.rrs[key] /\ z.rrs[key][i] = items[i]
    <2>1. DOMAIN <<>> = {}
      OBVIOUS
    <2> QED
      BY <1>2, <2>1
  <1>6. \A i \in DOMAIN items : RecordAt(key, items[i]) \in recordSet(z)
    BY <1>5, Contents
  <1>7. \A i \in DOMAIN items : items[i].data # rr.data
    <2> SUFFICES ASSUME NEW i \in DOMAIN items, items[i].data = rr.data PROVE FALSE
      OBVIOUS
    <2>1. RecordAt(key, items[i]).ttl = rr.ttl
      <3>1. RecordAt(key, items[i]).owner = rr.owner /\ RecordAt(key, items[i]).type = rr.type
        BY <1>1 DEF RecordAt
      <3> QED
        BY <1>6, <3>1 DEF OneTTL
    <2>2. RecordAt(key, items[i]) = rr
      BY <1>1, <2>1 DEF RecordAt
    <2> QED
      BY <1>6, <2>2
  <1>8. ~zoneHasRR(z, rr)
    BY <1>7 DEF zoneHasRR, ExactRecords, ToSet
  <1>9. /\ IsSequence(longer) /\ longer # <<>> /\ DOMAIN longer = 1 .. (Len(items) + 1)
        /\ \A i \in 1 .. Len(items) : longer[i] = items[i]
        /\ longer[Len(items) + 1] = item
    <2>1. /\ IsSequence(longer) /\ longer # <<>> /\ Len(longer) = Len(items) + 1
          /\ \A i \in 1 .. Len(items) : longer[i] = items[i]
          /\ longer[Len(items) + 1] = item
      BY <1>3, Appended
    <2> QED
      BY <2>1, Sequences
  <1>10. y = [z EXCEPT !.rrs = [k \in DOMAIN z.rrs \cup {key} |-> IF k = key THEN longer ELSE z.rrs[k]]]
    BY DEF AddRecord, key
  <1> HIDE DEF items, longer, y
  <1>11. Replaced(z, y, key, longer)
    <2>1. /\ DOMAIN y = DOMAIN z /\ y.soa = z.soa
          /\ y.rrs = [x \in DOMAIN z.rrs \cup {key} |-> IF x = key THEN longer ELSE z.rrs[x]]
      BY <1>10 DEF IsZone
    <2> QED
      BY <1>9, <2>1 DEF Replaced
  <1>12. IsZone(y)
    <2>1. \A i \in DOMAIN longer : longer[i] = [data |-> longer[i].data, ttl |-> longer[i].ttl]
      <3>1. \A i \in DOMAIN longer : i \in DOMAIN items \/ i = Len(items) + 1
        BY <1>4, <1>9
      <3> QED
        BY <1>3, <1>4, <1>9, <3>1
    <2> QED
      BY <1>1, <1>9, <1>11, <2>1, ReplacedIsZone
  <1>13. Distinct(y)
    <2> SUFFICES ASSUME NEW x \in DOMAIN y.rrs, NEW i \in DOMAIN y.rrs[x], NEW j \in DOMAIN y.rrs[x],
                        y.rrs[x][i] = y.rrs[x][j]
                 PROVE  i = j
      BY DEF Distinct
    <2>1. CASE x # key
      BY <1>11, <2>1 DEF Replaced, Distinct
    <2>2. CASE x = key
      <3>1. y.rrs[x] = longer /\ i \in 1 .. (Len(items) + 1) /\ j \in 1 .. (Len(items) + 1)
        BY <1>9, <1>11, <2>2 DEF Replaced
      <3>2. \A a, b \in 1 .. Len(items) : items[a] = items[b] => a = b
        BY <1>4, <1>5 DEF Distinct
      <3>3. \A a \in 1 .. Len(items) : longer[a] # item
        BY <1>4, <1>7, <1>9
      <3> QED
        BY <1>4, <1>9, <3>1, <3>2, <3>3
    <2> QED
      BY <2>1, <2>2
  <1>14. recordSet(y) = recordSet(z) \cup {rr}
    <2>1. ASSUME NEW r \in recordSet(y) PROVE r \in recordSet(z) \/ r = rr
      <3>1. PICK x \in DOMAIN y.rrs : \E i \in DOMAIN y.rrs[x] : r = RecordAt(x, y.rrs[x][i])
        BY <2>1, Contents
      <3>2. PICK i \in DOMAIN y.rrs[x] : r = RecordAt(x, y.rrs[x][i])
        BY <3>1
      <3>3. CASE x # key
        <4>1. x \in DOMAIN z.rrs /\ y.rrs[x] = z.rrs[x]
          BY <1>9, <1>11, <3>3 DEF Replaced
        <4> QED
          BY <3>2, <4>1, Contents
      <3>4. CASE x = key
        <4>1. y.rrs[x] = longer
          BY <1>11, <3>4 DEF Replaced
        <4>2. i \in DOMAIN items \/ i = Len(items) + 1
          BY <1>4, <1>9, <3>2, <4>1
        <4>3. CASE i \in DOMAIN items
          <5>1. r = RecordAt(key, items[i])
            BY <1>4, <1>9, <3>2, <3>4, <4>1, <4>3
          <5> QED
            BY <1>6, <4>3, <5>1
        <4>4. CASE i = Len(items) + 1
          <5>1. r = RecordAt(key, item)
            BY <1>9, <3>2, <3>4, <4>1, <4>4
          <5> QED
            BY <1>1, <5>1 DEF RecordAt
        <4> QED
          BY <4>2, <4>3, <4>4
      <3> QED
        BY <3>3, <3>4
    <2>2. ASSUME NEW r \in recordSet(z) PROVE r \in recordSet(y)
      <3>1. PICK x \in DOMAIN z.rrs : \E i \in DOMAIN z.rrs[x] : r = RecordAt(x, z.rrs[x][i])
        BY <2>2, Contents
      <3>2. PICK i \in DOMAIN z.rrs[x] : r = RecordAt(x, z.rrs[x][i])
        BY <3>1
      <3>3. x \in DOMAIN y.rrs
        BY <1>9, <1>11 DEF Replaced
      <3>4. CASE x # key
        <4>1. y.rrs[x] = z.rrs[x]
          BY <1>11, <3>3, <3>4 DEF Replaced
        <4> QED
          BY <3>2, <3>3, <4>1, Contents
      <3>5. CASE x = key
        <4>1. y.rrs[x] = longer /\ items = z.rrs[key]
          BY <1>2, <1>11, <3>1, <3>3, <3>5 DEF Replaced
        <4>2. i \in 1 .. Len(items) /\ i \in DOMAIN longer /\ longer[i] = z.rrs[x][i]
          BY <1>4, <1>9, <3>2, <3>5, <4>1
        <4> QED
          BY <3>2, <3>3, <4>1, <4>2, Contents
      <3> QED
        BY <3>4, <3>5
    <2>3. rr \in recordSet(y)
      <3>1. key \in DOMAIN y.rrs /\ y.rrs[key] = longer
        BY <1>9, <1>11 DEF Replaced
      <3>2. Len(items) + 1 \in DOMAIN longer /\ longer[Len(items) + 1] = item
        BY <1>4, <1>9
      <3>3. rr = RecordAt(key, item)
        BY <1>1 DEF RecordAt
      <3> QED
        BY <3>1, <3>2, <3>3, Contents
    <2> QED
      BY <2>1, <2>2, <2>3
  <1>15. y.soa = z.soa
    BY <1>11 DEF Replaced
  <1> QED
    BY <1>8, <1>12, <1>13, <1>14, <1>15 DEF y

-----------------------------------------------------------------------------
(* The recursive functions of a transfer, step by step.                    *)

\* Induction over an initial segment of the numbers.
LEMMA Induced ==
    ASSUME NEW n \in Nat, NEW G, 0 \in G, \A i \in 1 .. n : i - 1 \in G => i \in G
    PROVE  \A i \in 0 .. n : i \in G
  <1> DEFINE B == {i \in 0 .. n : i \notin G}
             m == Min(B)
  <1>1. SUFFICES ASSUME B # {} PROVE FALSE
    OBVIOUS
  <1>2. B \in SUBSET Nat
    OBVIOUS
  <1>3. m \in B /\ \A i \in B : m <= i
    <2>1. m \in B
      BY <1>1, <1>2, FirstPosition
    <2>2. PICK x \in B : \A y \in B : x <= y
      BY <1>1, <1>2, LeastPosition
    <2> QED
      BY <2>2 DEF Min
  <1> HIDE DEF m
  <1>4. m \in 1 .. n
    BY <1>3
  <1>5. m - 1 \in 0 .. n /\ m - 1 \notin B
    BY <1>3, <1>4
  <1> QED
    BY <1>3, <1>4, <1>5

\* Deletions one by one.
LEMMA DeleteAllSteps ==
    ASSUME NEW z, NEW rrs, Len(rrs) \in Nat
    PROVE  \E f : /\ f[0] = z /\ DeleteAll(z, rrs) = f[Len(rrs)]
                  /\ \A i \in 1 .. Len(rrs) : f[i] = DeletePresent(f[i - 1], rrs[i])
  <1> DEFINE n == Len(rrs)
             Runs(f, k) == f = [i \in 0 .. k |-> IF i = 0 THEN z ELSE DeletePresent(f[i - 1], rrs[i])]
             G == {k \in 0 .. n : \E f : Runs(f, k)}
             after == CHOOSE f : Runs(f, n)
  <1>1. 0 \in G
    <2> DEFINE g == [i \in 0 .. 0 |-> z]
    <2>1. \A i \in 0 .. 0 : i = 0
      OBVIOUS
    <2>2. Runs(g, 0)
      BY <2>1
    <2>3. \E f : Runs(f, 0)
      BY <2>2
    <2> QED
      BY <2>3
  <1>2. ASSUME NEW k \in 1 .. n, k - 1 \in G PROVE k \in G
    <2>1. PICK f : Runs(f, k - 1)
      BY <1>2
    <2> DEFINE g == [i \in 0 .. k |-> IF i = k THEN DeletePresent(f[k - 1], rrs[k]) ELSE f[i]]
    <2>2. \A i \in 0 .. k : i # k => i \in 0 .. (k - 1) /\ g[i] = f[i]
      OBVIOUS
    <2>3. \A i \in 0 .. k : i # 0 => g[i - 1] = f[i - 1]
      OBVIOUS
    <2>4. \A i \in 0 .. k : g[i] = IF i = 0 THEN z ELSE DeletePresent(g[i - 1], rrs[i])
      <3> SUFFICES ASSUME NEW i \in 0 .. k
                   PROVE  g[i] = IF i = 0 THEN z ELSE DeletePresent(g[i - 1], rrs[i])
        OBVIOUS
      <3>1. CASE i = k
        <4>1. g[i] = DeletePresent(f[k - 1], rrs[k]) /\ i # 0
          BY <3>1
        <4> QED
          BY <2>3, <3>1, <4>1
      <3>2. CASE i # k
        <4>1. f[i] = IF i = 0 THEN z ELSE DeletePresent(f[i - 1], rrs[i])
          BY <2>1, <2>2, <3>2
        <4> QED
          BY <2>2, <2>3, <3>2, <4>1
      <3> QED
        BY <3>1, <3>2
    <2>5. g = [i \in 0 .. k |-> g[i]]
      OBVIOUS
    <2> HIDE DEF g
    <2>6. Runs(g, k)
      BY <2>4, <2>5
    <2> QED
      BY <2>6
  <1>3. n \in G
    <2> HIDE DEF G
    <2>1. \A i \in 1 .. n : i - 1 \in G => i \in G
      BY <1>2
    <2>2. \A i \in 0 .. n : i \in G
      BY <1>1, <2>1, Induced
    <2> QED
      BY <2>2
  <1>4. Runs(after, n)
    BY <1>3
  <1>5. DeleteAll(z, rrs) = after[n]
    BY DEF DeleteAll
  <1> HIDE DEF after
  <1>6. after[0] = z /\ \A i \in 1 .. n : after[i] = DeletePresent(after[i - 1], rrs[i])
    BY <1>4
  <1> QED
    BY <1>5, <1>6

\* Additions one by one.
LEMMA AddAllSteps ==
    ASSUME NEW z, NEW rrs, Len(rrs) \in Nat
    PROVE  \E f : /\ f[0] = z /\ AddAll(z, rrs) = f[Len(rrs)]
                  /\ \A i \in 1 .. Len(rrs) : f[i] = AddAbsent(f[i - 1], rrs[i])
  <1> DEFINE n == Len(rrs)
             Runs(f, k) == f = [i \in 0 .. k |-> IF i = 0 THEN z ELSE AddAbsent(f[i - 1], rrs[i])]
             G == {k \in 0 .. n : \E f : Runs(f, k)}
             after == CHOOSE f : Runs(f, n)
  <1>1. 0 \in G
    <2> DEFINE g == [i \in 0 .. 0 |-> z]
    <2>1. \A i \in 0 .. 0 : i = 0
      OBVIOUS
    <2>2. Runs(g, 0)
      BY <2>1
    <2>3. \E f : Runs(f, 0)
      BY <2>2
    <2> QED
      BY <2>3
  <1>2. ASSUME NEW k \in 1 .. n, k - 1 \in G PROVE k \in G
    <2>1. PICK f : Runs(f, k - 1)
      BY <1>2
    <2> DEFINE g == [i \in 0 .. k |-> IF i = k THEN AddAbsent(f[k - 1], rrs[k]) ELSE f[i]]
    <2>2. \A i \in 0 .. k : i # k => i \in 0 .. (k - 1) /\ g[i] = f[i]
      OBVIOUS
    <2>3. \A i \in 0 .. k : i # 0 => g[i - 1] = f[i - 1]
      OBVIOUS
    <2>4. \A i \in 0 .. k : g[i] = IF i = 0 THEN z ELSE AddAbsent(g[i - 1], rrs[i])
      <3> SUFFICES ASSUME NEW i \in 0 .. k
                   PROVE  g[i] = IF i = 0 THEN z ELSE AddAbsent(g[i - 1], rrs[i])
        OBVIOUS
      <3>1. CASE i = k
        <4>1. g[i] = AddAbsent(f[k - 1], rrs[k]) /\ i # 0
          BY <3>1
        <4> QED
          BY <2>3, <3>1, <4>1
      <3>2. CASE i # k
        <4>1. f[i] = IF i = 0 THEN z ELSE AddAbsent(f[i - 1], rrs[i])
          BY <2>1, <2>2, <3>2
        <4> QED
          BY <2>2, <2>3, <3>2, <4>1
      <3> QED
        BY <3>1, <3>2
    <2>5. g = [i \in 0 .. k |-> g[i]]
      OBVIOUS
    <2> HIDE DEF g
    <2>6. Runs(g, k)
      BY <2>4, <2>5
    <2> QED
      BY <2>6
  <1>3. n \in G
    <2> HIDE DEF G
    <2>1. \A i \in 1 .. n : i - 1 \in G => i \in G
      BY <1>2
    <2>2. \A i \in 0 .. n : i \in G
      BY <1>1, <2>1, Induced
    <2> QED
      BY <2>2
  <1>4. Runs(after, n)
    BY <1>3
  <1>5. AddAll(z, rrs) = after[n]
    BY DEF AddAll
  <1> HIDE DEF after
  <1>6. after[0] = z /\ \A i \in 1 .. n : after[i] = AddAbsent(after[i - 1], rrs[i])
    BY <1>4
  <1> QED
    BY <1>5, <1>6

\* Differences one by one.
ChainRun(f, z, deltas) ==
    f[0] = {z} /\ \A i \in 1 .. Len(deltas) : f[i] = ResultsOf(f[i - 1], deltas[i])

\* ApplyChain goes through the differences one by one.
LEMMA ApplyChainSteps ==
    ASSUME NEW z, NEW deltas, Len(deltas) \in Nat
    PROVE  \E f : ChainRun(f, z, deltas) /\ ApplyChain(z, deltas) = f[Len(deltas)]
  <1> DEFINE n == Len(deltas)
             Runs(f, k) == f = [i \in 0 .. k |-> IF i = 0 THEN {z} ELSE ResultsOf(f[i - 1], deltas[i])]
             G == {k \in 0 .. n : \E f : Runs(f, k)}
             after == CHOOSE f : Runs(f, n)
  <1>1. 0 \in G
    <2> DEFINE g == [i \in 0 .. 0 |-> {z}]
    <2>1. \A i \in 0 .. 0 : i = 0
      OBVIOUS
    <2>2. Runs(g, 0)
      BY <2>1
    <2>3. \E f : Runs(f, 0)
      BY <2>2
    <2> QED
      BY <2>3
  <1>2. ASSUME NEW k \in 1 .. n, k - 1 \in G PROVE k \in G
    <2>1. PICK f : Runs(f, k - 1)
      BY <1>2
    <2> DEFINE g == [i \in 0 .. k |-> IF i = k THEN ResultsOf(f[k - 1], deltas[k]) ELSE f[i]]
    <2>2. \A i \in 0 .. k : i # k => i \in 0 .. (k - 1) /\ g[i] = f[i]
      OBVIOUS
    <2>3. \A i \in 0 .. k : i # 0 => g[i - 1] = f[i - 1]
      OBVIOUS
    <2>4. \A i \in 0 .. k : g[i] = IF i = 0 THEN {z} ELSE ResultsOf(g[i - 1], deltas[i])
      <3> SUFFICES ASSUME NEW i \in 0 .. k
                   PROVE  g[i] = IF i = 0 THEN {z} ELSE ResultsOf(g[i - 1], deltas[i])
        OBVIOUS
      <3>1. CASE i = k
        <4>1. g[i] = ResultsOf(f[k - 1], deltas[k]) /\ i # 0
          BY <3>1
        <4> QED
          BY <2>3, <3>1, <4>1
      <3>2. CASE i # k
        <4>1. f[i] = IF i = 0 THEN {z} ELSE ResultsOf(f[i - 1], deltas[i])
          BY <2>1, <2>2, <3>2
        <4> QED
          BY <2>2, <2>3, <3>2, <4>1
      <3> QED
        BY <3>1, <3>2
    <2>5. g = [i \in 0 .. k |-> g[i]]
      OBVIOUS
    <2> HIDE DEF g
    <2>6. Runs(g, k)
      BY <2>4, <2>5
    <2> QED
      BY <2>6
  <1>3. n \in G
    <2> HIDE DEF G
    <2>1. \A i \in 1 .. n : i - 1 \in G => i \in G
      BY <1>2
    <2>2. \A i \in 0 .. n : i \in G
      BY <1>1, <2>1, Induced
    <2> QED
      BY <2>2
  <1>4. Runs(after, n)
    BY <1>3
  <1>5. ApplyChain(z, deltas) = after[n]
    BY DEF ApplyChain
  <1> HIDE DEF after
  <1>6. \A i \in 0 .. n : after[i] = IF i = 0 THEN {z} ELSE ResultsOf(after[i - 1], deltas[i])
    BY <1>4
  <1>7. after[0] = {z}
    BY <1>6
  <1>8. \A i \in 1 .. n : after[i] = ResultsOf(after[i - 1], deltas[i])
    BY <1>6
  <1>9. ChainRun(after, z, deltas)
    BY <1>7, <1>8 DEF ChainRun
  <1> QED
    BY <1>5, <1>9

\* Directives of an UPDATE one by one.
LEMMA applyUpdatesSteps ==
    ASSUME NEW live, NEW updates, Len(updates) \in Nat
    PROVE  \E f : /\ f[0] = [zone |-> live, rcode |-> "NOERROR"] /\ applyUpdates(live, updates) = f[Len(updates)]
                  /\ \A i \in 1 .. Len(updates) : f[i] = applyDirective(live, f[i - 1], updates[i])
  <1> DEFINE n == Len(updates)
             Runs(f, k) == f = [i \in 0 .. k |-> IF i = 0 THEN [zone |-> live, rcode |-> "NOERROR"] ELSE applyDirective(live, f[i - 1], updates[i])]
             G == {k \in 0 .. n : \E f : Runs(f, k)}
             after == CHOOSE f : Runs(f, n)
  <1>1. 0 \in G
    <2> DEFINE g == [i \in 0 .. 0 |-> [zone |-> live, rcode |-> "NOERROR"]]
    <2>1. \A i \in 0 .. 0 : i = 0
      OBVIOUS
    <2>2. Runs(g, 0)
      BY <2>1
    <2>3. \E f : Runs(f, 0)
      BY <2>2
    <2> QED
      BY <2>3
  <1>2. ASSUME NEW k \in 1 .. n, k - 1 \in G PROVE k \in G
    <2>1. PICK f : Runs(f, k - 1)
      BY <1>2
    <2> DEFINE g == [i \in 0 .. k |-> IF i = k THEN applyDirective(live, f[k - 1], updates[k]) ELSE f[i]]
    <2>2. \A i \in 0 .. k : i # k => i \in 0 .. (k - 1) /\ g[i] = f[i]
      OBVIOUS
    <2>3. \A i \in 0 .. k : i # 0 => g[i - 1] = f[i - 1]
      OBVIOUS
    <2>4. \A i \in 0 .. k : g[i] = IF i = 0 THEN [zone |-> live, rcode |-> "NOERROR"] ELSE applyDirective(live, g[i - 1], updates[i])
      <3> SUFFICES ASSUME NEW i \in 0 .. k
                   PROVE  g[i] = IF i = 0 THEN [zone |-> live, rcode |-> "NOERROR"] ELSE applyDirective(live, g[i - 1], updates[i])
        OBVIOUS
      <3>1. CASE i = k
        <4>1. g[i] = applyDirective(live, f[k - 1], updates[k]) /\ i # 0
          BY <3>1
        <4> QED
          BY <2>3, <3>1, <4>1
      <3>2. CASE i # k
        <4>1. f[i] = IF i = 0 THEN [zone |-> live, rcode |-> "NOERROR"] ELSE applyDirective(live, f[i - 1], updates[i])
          BY <2>1, <2>2, <3>2
        <4> QED
          BY <2>2, <2>3, <3>2, <4>1
      <3> QED
        BY <3>1, <3>2
    <2>5. g = [i \in 0 .. k |-> g[i]]
      OBVIOUS
    <2> HIDE DEF g
    <2>6. Runs(g, k)
      BY <2>4, <2>5
    <2> QED
      BY <2>6
  <1>3. n \in G
    <2> HIDE DEF G
    <2>1. \A i \in 1 .. n : i - 1 \in G => i \in G
      BY <1>2
    <2>2. \A i \in 0 .. n : i \in G
      BY <1>1, <2>1, Induced
    <2> QED
      BY <2>2
  <1>4. Runs(after, n)
    BY <1>3
  <1>5. applyUpdates(live, updates) = after[n]
    BY DEF applyUpdates
  <1> HIDE DEF after
  <1>6. \A i \in 0 .. n : after[i] = IF i = 0 THEN [zone |-> live, rcode |-> "NOERROR"] ELSE applyDirective(live, after[i - 1], updates[i])
    BY <1>4
  <1>7. after[0] = [zone |-> live, rcode |-> "NOERROR"]
    BY <1>6
  <1>8. \A i \in 1 .. n : after[i] = applyDirective(live, after[i - 1], updates[i])
    BY <1>6
  <1> QED
    BY <1>5, <1>7, <1>8

-----------------------------------------------------------------------------
(* A difference sequence, applied to the version it starts from.           *)

\* A record list in some order names each record once.
LEMMA OrderOf ==
    ASSUME NEW S, IsFiniteSet(S), NEW q \in SetToSeqs(S)
    PROVE  /\ Len(q) \in Nat
           /\ \A i \in 1 .. Len(q) : q[i] \in S
           /\ \A i, j \in 1 .. Len(q) : q[i] = q[j] => i = j
           /\ \A r \in S : \E i \in 1 .. Len(q) : q[i] = r
  <1> DEFINE D == 1 .. Cardinality(S)
  <1>1. Cardinality(S) \in Nat
    BY FS_CardinalityType
  <1>2. q \in [D -> S] /\ \A i, j \in D : i # j => q[i] # q[j]
    BY DEF SetToSeqs
  <1>3. q \in Injection(D, S)
    BY <1>2 DEF Injection, IsInjective
  <1>4. Cardinality(D) = Cardinality(S)
    BY <1>1, FS_Interval
  <1>5. q \in Surjection(D, S)
    BY <1>3, <1>4, FS_Injection
  <1>6. \A r \in S : \E i \in D : q[i] = r
    BY <1>5 DEF Surjection
  <1>7. Len(q) = Cardinality(S)
    BY <1>1, <1>2
  <1> QED
    BY <1>1, <1>2, <1>6, <1>7

\* The first i records of a list.
Listed(q, i) == {q[j] : j \in 1 .. i}

\* A sequence of a set lists one more of its elements at each position.
LEMMA NextListed ==
    ASSUME NEW S, IsFiniteSet(S), NEW q \in SetToSeqs(S)
    PROVE  /\ Listed(q, 0) = {} /\ Listed(q, Len(q)) = S
           /\ \A i \in 1 .. Len(q) : /\ Listed(q, i) = Listed(q, i - 1) \cup {q[i]}
                                     /\ q[i] \in S \ Listed(q, i - 1)
                                     /\ Listed(q, i) \subseteq S
  <1>1. /\ Len(q) \in Nat
        /\ \A i \in 1 .. Len(q) : q[i] \in S
        /\ \A i, j \in 1 .. Len(q) : q[i] = q[j] => i = j
        /\ \A r \in S : \E i \in 1 .. Len(q) : q[i] = r
    BY OrderOf
  <1>2. Listed(q, 0) = {}
    BY DEF Listed
  <1>3. Listed(q, Len(q)) = S
    BY <1>1 DEF Listed
  <1>4. ASSUME NEW i \in 1 .. Len(q)
        PROVE  /\ Listed(q, i) = Listed(q, i - 1) \cup {q[i]}
               /\ q[i] \in S \ Listed(q, i - 1)
               /\ Listed(q, i) \subseteq S
    <2>1. \A j : j \in 1 .. i <=> j \in 1 .. (i - 1) \/ j = i
      BY <1>1
    <2>2. Listed(q, i) = Listed(q, i - 1) \cup {q[i]}
      BY <2>1 DEF Listed
    <2>3. \A j \in 1 .. i : j \in 1 .. Len(q)
      BY <1>1
    <2>4. \A j \in 1 .. (i - 1) : j \in 1 .. Len(q) /\ j # i
      BY <1>1
    <2>5. Listed(q, i) \subseteq S
      BY <1>1, <2>3 DEF Listed
    <2>6. q[i] \in S /\ q[i] \notin Listed(q, i - 1)
      BY <1>1, <2>4 DEF Listed
    <2> QED
      BY <2>2, <2>5, <2>6
  <1> QED
    BY <1>2, <1>3, <1>4

\* A zone a secondary may hold, of serial soa and the given content.
Holds(z, soa, content) ==
    IsZone(z) /\ Distinct(z) /\ z.soa = soa /\ recordSet(z) = content

\* A zone with a serial is neither a failure nor the absence of a zone.
LEMMA NotFailed == ASSUME NEW z, z.soa \in Serial PROVE z # ZoneFailed /\ z # NoZone
  <1>1. ZoneFailed.soa = -3 /\ NoZone.soa = -1
    BY DEF ZoneFailed, NoZone
  <1> QED
    BY <1>1, SerialModAssumption DEF Serial

\* Deleting records a zone contains, in any order, succeeds and takes exactly them away.
LEMMA DeletesAll ==
    ASSUME NEW z, NEW soa \in Serial, NEW C, Holds(z, soa, C), OneTTL(C),
           NEW S \in SUBSET C, IsFiniteSet(S), NEW q \in SetToSeqs(S)
    PROVE  Holds(DeleteAll(z, q), soa, C \ S)
  <1>1. Len(q) \in Nat
    BY OrderOf
  <1>2. PICK f : /\ f[0] = z /\ DeleteAll(z, q) = f[Len(q)]
                 /\ \A i \in 1 .. Len(q) : f[i] = DeletePresent(f[i - 1], q[i])
    BY <1>1, DeleteAllSteps
  <1> DEFINE G == {i \in 0 .. Len(q) : Holds(f[i], soa, C \ Listed(q, i))}
  <1>3. 0 \in G
    <2>1. C \ Listed(q, 0) = C
      BY NextListed
    <2>2. Holds(f[0], soa, C \ Listed(q, 0))
      BY <1>2, <2>1
    <2>3. 0 \in 0 .. Len(q)
      BY <1>1
    <2> QED
      BY <2>2, <2>3
  <1>4. ASSUME NEW i \in 1 .. Len(q), i - 1 \in G PROVE i \in G
    <2> DEFINE y == f[i - 1]
               rr == q[i]
    <2>1. Holds(y, soa, C \ Listed(q, i - 1))
      BY <1>4
    <2>2. /\ Listed(q, i) = Listed(q, i - 1) \cup {rr} /\ rr \in C \ Listed(q, i - 1)
      BY NextListed
    <2>3. f[i] = DeletePresent(y, rr)
      BY <1>2
    <2> HIDE DEF y, rr, G
    <2>4. OneTTL(recordSet(y)) /\ rr \in recordSet(y)
      BY <2>1, <2>2 DEF OneTTL, Holds
    <2>5. /\ zoneHasRR(y, rr) /\ IsZone(DeleteRecord(y, rr)) /\ Distinct(DeleteRecord(y, rr))
          /\ DeleteRecord(y, rr).soa = y.soa
          /\ recordSet(DeleteRecord(y, rr)) = recordSet(y) \ {rr}
      BY <2>1, <2>4, DeleteOne DEF Holds
    <2>6. y # ZoneFailed
      BY <2>1, NotFailed DEF Holds
    <2>7. f[i] = DeleteRecord(y, rr)
      BY <2>3, <2>5, <2>6 DEF DeletePresent
    <2>8. Holds(f[i], soa, C \ Listed(q, i))
      <3>1. recordSet(y) \ {rr} = C \ Listed(q, i)
        BY <2>1, <2>2 DEF Holds
      <3> QED
        BY <2>1, <2>5, <2>7, <3>1 DEF Holds
    <2>9. i \in 0 .. Len(q)
      BY <1>1
    <2> QED
      BY <2>8, <2>9 DEF G
  <1>5. Len(q) \in G
    <2> HIDE DEF G
    <2>1. \A i \in 1 .. Len(q) : i - 1 \in G => i \in G
      BY <1>4
    <2>2. \A i \in 0 .. Len(q) : i \in G
      BY <1>1, <1>3, <2>1, Induced
    <2>3. Len(q) \in 0 .. Len(q)
      BY <1>1
    <2> QED
      BY <2>2, <2>3
  <1> QED
    BY <1>2, <1>5, NextListed

\* The record set of some zone.
IsContent(C) ==
    /\ IsFiniteSet(C)
    /\ \A r \in C : /\ r = [owner |-> r.owner, type |-> r.type, data |-> r.data, ttl |-> r.ttl]
                    /\ r.type # "SOA"

\* Adding records a zone lacks, in any order, succeeds and adds exactly them.
LEMMA AddsAll ==
    ASSUME NEW z, NEW soa \in Serial, NEW C, Holds(z, soa, C),
           NEW S, IsContent(S), S \cap C = {}, OneTTL(C \cup S), NEW q \in SetToSeqs(S)
    PROVE  Holds(AddAll(z, q), soa, C \cup S)
  <1> IsFiniteSet(S)
    BY DEF IsContent
  <1>1. Len(q) \in Nat
    BY OrderOf
  <1>2. PICK f : /\ f[0] = z /\ AddAll(z, q) = f[Len(q)]
                 /\ \A i \in 1 .. Len(q) : f[i] = AddAbsent(f[i - 1], q[i])
    BY <1>1, AddAllSteps
  <1> DEFINE G == {i \in 0 .. Len(q) : Holds(f[i], soa, C \cup Listed(q, i))}
  <1>3. 0 \in G
    <2>1. C \cup Listed(q, 0) = C
      BY NextListed
    <2>2. Holds(f[0], soa, C \cup Listed(q, 0))
      BY <1>2, <2>1
    <2>3. 0 \in 0 .. Len(q)
      BY <1>1
    <2> QED
      BY <2>2, <2>3
  <1>4. ASSUME NEW i \in 1 .. Len(q), i - 1 \in G PROVE i \in G
    <2> DEFINE y == f[i - 1]
               rr == q[i]
    <2>1. Holds(y, soa, C \cup Listed(q, i - 1))
      BY <1>4
    <2>2. /\ Listed(q, i) = Listed(q, i - 1) \cup {rr} /\ rr \in S \ Listed(q, i - 1)
          /\ Listed(q, i) \subseteq S
      BY NextListed
    <2>3. f[i] = AddAbsent(y, rr)
      BY <1>2
    <2> HIDE DEF y, rr, G
    <2>4. OneTTL(recordSet(y) \cup {rr}) /\ rr \notin recordSet(y)
      BY <2>1, <2>2 DEF OneTTL, Holds
    <2>5. rr = [owner |-> rr.owner, type |-> rr.type, data |-> rr.data, ttl |-> rr.ttl]
          /\ rr.type # "SOA"
      BY <2>2 DEF IsContent
    <2>6. /\ ~zoneHasRR(y, rr) /\ IsZone(AddRecord(y, rr)) /\ Distinct(AddRecord(y, rr))
          /\ AddRecord(y, rr).soa = y.soa
          /\ recordSet(AddRecord(y, rr)) = recordSet(y) \cup {rr}
      BY <2>1, <2>4, <2>5, AddOne DEF Holds
    <2>7. y # ZoneFailed
      BY <2>1, NotFailed DEF Holds
    <2>8. f[i] = AddRecord(y, rr)
      BY <2>3, <2>6, <2>7 DEF AddAbsent
    <2>9. Holds(f[i], soa, C \cup Listed(q, i))
      <3>1. recordSet(y) \cup {rr} = C \cup Listed(q, i)
        BY <2>1, <2>2 DEF Holds
      <3> QED
        BY <2>1, <2>6, <2>8, <3>1 DEF Holds
    <2>10. i \in 0 .. Len(q)
      BY <1>1
    <2> QED
      BY <2>9, <2>10 DEF G
  <1>5. Len(q) \in G
    <2> HIDE DEF G
    <2>1. \A i \in 1 .. Len(q) : i - 1 \in G => i \in G
      BY <1>4
    <2>2. \A i \in 0 .. Len(q) : i \in G
      BY <1>1, <1>3, <2>1, Induced
    <2>3. Len(q) \in 0 .. Len(q)
      BY <1>1
    <2> QED
      BY <2>2, <2>3
  <1> QED
    BY <1>2, <1>5, NextListed

\* The difference of two versions, applied to the first, gives the second.
LEMMA DeltaApplies ==
    ASSUME NEW z, NEW C, NEW D, NEW delta, Holds(z, delta.from, C),
           IsContent(C), IsContent(D), OneTTL(C), OneTTL(D),
           delta.from \in Serial, delta.to \in Serial, SerialGreater(delta.to, delta.from),
           delta.deleted = C \ D, delta.added = D \ C,
           NEW dels \in SetToSeqs(delta.deleted), NEW adds \in SetToSeqs(delta.added)
    PROVE  Holds(ApplyDelta(z, delta, dels, adds), delta.to, D)
  <1> DEFINE y == DeleteAll(z, dels)
             x == [y EXCEPT !.soa = delta.to, !.soaRec = delta.to]
  <1>1. IsFiniteSet(C \ D) /\ IsFiniteSet(D \ C)
    BY FS_Difference DEF IsContent
  <1>2. Holds(y, delta.from, C \ (C \ D))
    BY <1>1, DeletesAll
  <1>3. z # ZoneFailed /\ y # ZoneFailed /\ z.soa = delta.from
    BY <1>2, NotFailed DEF Holds
  <1>4. ApplyDelta(z, delta, dels, adds) = AddAll(x, adds)
    BY <1>3 DEF ApplyDelta
  <1> HIDE DEF y
  <1>5. Holds(x, delta.to, C \cap D)
    <2>1. DOMAIN y = {"soa", "soaRec", "rrs"} /\ RRsetsShaped(y.rrs) /\ Distinct(y)
          /\ recordSet(y) = C \cap D
      BY <1>2 DEF Holds, IsZone
    <2>2. DOMAIN x = {"soa", "soaRec", "rrs"} /\ x.rrs = y.rrs /\ x.soa = delta.to
      BY <2>1
    <2> HIDE DEF x
    <2>3. recordSet(x) = recordSet(y)
      BY <2>2 DEF recordSet
    <2>4. Distinct(x)
      BY <2>1, <2>2 DEF Distinct
    <2> QED
      BY <2>1, <2>2, <2>3, <2>4 DEF Holds, IsZone
  <1> HIDE DEF x
  <1>6. IsContent(D \ C) /\ (D \ C) \cap (C \cap D) = {} /\ (C \cap D) \cup (D \ C) = D
    BY <1>1 DEF IsContent
  <1>7. Holds(AddAll(x, adds), delta.to, (C \cap D) \cup (D \ C))
    BY <1>5, <1>6, AddsAll
  <1> QED
    BY <1>4, <1>6, <1>7

-----------------------------------------------------------------------------
(* Two zones of the same content.                                          *)

\* The content of a zone says what is in each of its RRsets.
LEMMA RRsetContent ==
    ASSUME NEW z, IsZone(z), NEW k \in DOMAIN z.rrs
    PROVE  /\ k = <<k[1], k[2]>> /\ 1 \in DOMAIN z.rrs[k]
           /\ \A e : e \in ToSet(z.rrs[k]) <=> /\ e = [data |-> e.data, ttl |-> e.ttl]
                                               /\ RecordAt(k, e) \in recordSet(z)
  <1>1. /\ k = <<k[1], k[2]>> /\ IsSequence(z.rrs[k]) /\ z.rrs[k] # <<>>
        /\ \A i \in DOMAIN z.rrs[k] : z.rrs[k][i] = [data |-> z.rrs[k][i].data, ttl |-> z.rrs[k][i].ttl]
    BY DEF IsZone, RRsetsShaped
  <1>2. 1 \in DOMAIN z.rrs[k]
    BY <1>1, Sequences
  <1>3. ASSUME NEW e \in ToSet(z.rrs[k])
        PROVE  e = [data |-> e.data, ttl |-> e.ttl] /\ RecordAt(k, e) \in recordSet(z)
    <2>1. PICK i \in DOMAIN z.rrs[k] : e = z.rrs[k][i]
      BY DEF ToSet
    <2>2. RecordAt(k, e) \in recordSet(z)
      BY <2>1, Contents
    <2> QED
      BY <1>1, <2>1, <2>2
  <1>4. ASSUME NEW e, e = [data |-> e.data, ttl |-> e.ttl], RecordAt(k, e) \in recordSet(z)
        PROVE  e \in ToSet(z.rrs[k])
    <2>1. PICK x \in DOMAIN z.rrs : \E i \in DOMAIN z.rrs[x] : RecordAt(k, e) = RecordAt(x, z.rrs[x][i])
      BY <1>4, Contents
    <2>2. PICK i \in DOMAIN z.rrs[x] : RecordAt(k, e) = RecordAt(x, z.rrs[x][i])
      BY <2>1
    <2>3. /\ x = <<x[1], x[2]>>
          /\ z.rrs[x][i] = [data |-> z.rrs[x][i].data, ttl |-> z.rrs[x][i].ttl]
      BY DEF IsZone, RRsetsShaped
    <2>4. k[1] = x[1] /\ k[2] = x[2] /\ e.data = z.rrs[x][i].data /\ e.ttl = z.rrs[x][i].ttl
      BY <2>2 DEF RecordAt
    <2>5. x = k /\ e = z.rrs[x][i]
      BY <1>1, <1>4, <2>3, <2>4
    <2> QED
      BY <2>5 DEF ToSet
  <1> QED
    BY <1>1, <1>2, <1>3, <1>4

\* Zones of one content have the same RRsets, up to the order of their records.
LEMMA SameContent ==
    ASSUME NEW z, NEW y, IsZone(z), IsZone(y), recordSet(z) = recordSet(y)
    PROVE  /\ DOMAIN z.rrs = DOMAIN y.rrs
           /\ \A k \in DOMAIN z.rrs : ToSet(z.rrs[k]) = ToSet(y.rrs[k])
  <1>1. ASSUME NEW a, NEW b, IsZone(a), IsZone(b), recordSet(a) = recordSet(b), NEW k \in DOMAIN a.rrs
        PROVE  k \in DOMAIN b.rrs
    <2>1. k = <<k[1], k[2]>> /\ 1 \in DOMAIN a.rrs[k]
      BY <1>1, RRsetContent
    <2>2. RecordAt(k, a.rrs[k][1]) \in recordSet(b)
      BY <1>1, <2>1, Contents
    <2>3. PICK x \in DOMAIN b.rrs : \E i \in DOMAIN b.rrs[x] :
              RecordAt(k, a.rrs[k][1]) = RecordAt(x, b.rrs[x][i])
      BY <2>2, Contents
    <2>4. x = <<x[1], x[2]>>
      BY <1>1, RRsetContent
    <2>5. x[1] = k[1] /\ x[2] = k[2]
      BY <2>3 DEF RecordAt
    <2> QED
      BY <2>1, <2>4, <2>5
  <1>2. DOMAIN z.rrs = DOMAIN y.rrs
    BY <1>1
  <1>3. ASSUME NEW k \in DOMAIN z.rrs PROVE ToSet(z.rrs[k]) = ToSet(y.rrs[k])
    <2>1. \A e : e \in ToSet(z.rrs[k]) <=> e \in ToSet(y.rrs[k])
      BY <1>2, RRsetContent
    <2> QED
      BY <2>1
  <1> QED
    BY <1>2, <1>3

\* Validate depends on the content alone, if no record is listed twice.
LEMMA SameContentValid ==
    ASSUME NEW z, NEW y, IsZone(z), IsZone(y), Distinct(y), recordSet(z) = recordSet(y), Validate(z)
    PROVE  Validate(y)
  <1>1. /\ DOMAIN z.rrs = DOMAIN y.rrs
        /\ \A k \in DOMAIN z.rrs : ToSet(z.rrs[k]) = ToSet(y.rrs[k])
    BY SameContent
  <1>2. SameDataSets(z, y)
    BY <1>1 DEF SameDataSets
  <1>3. Nameservers(y) = Nameservers(z)
    BY <1>2, SameLookup DEF Nameservers
  <1>4. GlueComplete(y)
    BY <1>2, <1>3, SameLookup DEF Validate, GlueComplete
  <1>5. \A owner : TypesAt(y, owner) = TypesAt(z, owner)
    BY <1>1 DEF TypesAt
  <1>6. CNAMEsAlone(y)
    <2> SUFFICES ASSUME NEW k \in DOMAIN y.rrs, k[2] = "CNAME"
                 PROVE  /\ TypesAt(y, k[1]) = {"CNAME"}
                        /\ \A i, j \in DOMAIN y.rrs[k] : i = j
      BY DEF CNAMEsAlone
    <2>1. TypesAt(z, k[1]) = {"CNAME"} /\ \A i, j \in DOMAIN z.rrs[k] : i = j
      BY <1>1 DEF Validate, CNAMEsAlone
    <2>2. \A d, e \in ToSet(y.rrs[k]) : d = e
      BY <1>1, <2>1 DEF ToSet
    <2>3. ASSUME NEW i \in DOMAIN y.rrs[k], NEW j \in DOMAIN y.rrs[k] PROVE i = j
      <3>1. y.rrs[k][i] = y.rrs[k][j]
        BY <2>2 DEF ToSet
      <3> QED
        BY <3>1 DEF Distinct
    <2> QED
      BY <1>5, <2>1, <2>3
  <1>7. MXTargetsCanonical(y)
    <2> SUFFICES ASSUME NEW k \in DOMAIN y.rrs, k[2] = "MX", NEW e \in ToSet(y.rrs[k]), InZone(e.data)
                 PROVE  DataAt(y, e.data, "CNAME") = {}
      BY DEF MXTargetsCanonical
    <2>1. DataAt(z, e.data, "CNAME") = {}
      BY <1>1 DEF Validate, MXTargetsCanonical
    <2> QED
      BY <1>2, <2>1, SameLookup
  <1> QED
    BY <1>3, <1>4, <1>6, <1>7 DEF Validate

\* The content of a zone is a finite set of records.
LEMMA ZoneContent ==
    ASSUME NEW z, IsZone(z) PROVE IsContent(recordSet(z))
  <1> DEFINE at(k) == {RecordAt(k, z.rrs[k][i]) : i \in DOMAIN z.rrs[k]}
             all == {at(k) : k \in DOMAIN z.rrs}
  <1>1. ASSUME NEW k \in DOMAIN z.rrs PROVE IsFiniteSet(at(k))
    <2>1. DOMAIN z.rrs[k] = 1 .. Len(z.rrs[k]) /\ Len(z.rrs[k]) \in Nat
      BY Sequences DEF IsZone, RRsetsShaped
    <2>2. IsFiniteSet(DOMAIN z.rrs[k])
      BY <2>1, FS_Interval
    <2>3. [i \in DOMAIN z.rrs[k] |-> RecordAt(k, z.rrs[k][i])] \in Surjection(DOMAIN z.rrs[k], at(k))
      BY DEF Surjection
    <2> QED
      BY <2>2, <2>3, FS_Surjection
  <1>2. IsFiniteSet(all)
    <2>1. IsFiniteSet(DOMAIN z.rrs)
      BY DEF IsZone, RRsetsShaped
    <2>2. [k \in DOMAIN z.rrs |-> at(k)] \in Surjection(DOMAIN z.rrs, all)
      BY DEF Surjection
    <2> QED
      BY <2>1, <2>2, FS_Surjection
  <1>3. \A r : r \in recordSet(z) <=> \E k \in DOMAIN z.rrs : r \in at(k)
    BY Contents
  <1> HIDE DEF at
  <1>4. recordSet(z) = UNION all
    BY <1>3
  <1>5. IsFiniteSet(recordSet(z))
    BY <1>1, <1>2, <1>4, FS_UNION
  <1>6. ASSUME NEW r \in recordSet(z)
        PROVE  r = [owner |-> r.owner, type |-> r.type, data |-> r.data, ttl |-> r.ttl] /\ r.type # "SOA"
    <2>1. PICK k \in DOMAIN z.rrs : \E i \in DOMAIN z.rrs[k] : r = RecordAt(k, z.rrs[k][i])
      BY <1>6, Contents
    <2>2. k[2] # "SOA"
      BY DEF IsZone, RRsetsShaped
    <2> QED
      BY <2>1, <2>2 DEF RecordAt
  <1> QED
    BY <1>5, <1>6 DEF IsContent

\* A whole zone, transferred.
LEMMA WholeZone ==
    ASSUME NEW z, IsZone(z), Distinct(z), Validate(z)
    PROVE  Holds(FromAXFR(z), z.soa, recordSet(z)) /\ Validate(FromAXFR(z))
  <1> DEFINE y == FromAXFR(z)
  <1>1. DOMAIN y = DOMAIN z /\ y.rrs = z.rrs /\ y.soa = z.soa
    BY DEF FromAXFR, IsZone
  <1> HIDE DEF y
  <1>2. IsZone(y) /\ Distinct(y) /\ recordSet(y) = recordSet(z)
    BY <1>1 DEF IsZone, Distinct, recordSet
  <1>3. Validate(y)
    BY <1>2, SameContentValid
  <1> QED
    BY <1>1, <1>2, <1>3 DEF Holds, y

-----------------------------------------------------------------------------
(* The chain of differences an incremental answer consists of.             *)

\* Changes is a chain from one serial to the other, of retained differences.
LEMMA ChainOf ==
    ASSUME NEW j, IsSequence(j), NEW from, NEW to, HasChanges(j, from, to)
    PROVE  LET c == Changes(j, from, to) IN
           /\ Len(c) \in Nat /\ Len(c) >= 1
           /\ c[1].from = from /\ c[Len(c)].to = to
           /\ \A i \in 1 .. Len(c) : \E x \in DOMAIN j : c[i] = j[x]
           /\ \A i \in 2 .. Len(c) : c[i].from = c[i - 1].to
  <1> DEFINE c == Changes(j, from, to)
             starts == {i \in DOMAIN j : j[i].from = from}
             first == Min(starts)
             ends == ChainEnds(j, from, to)
             e == Min(ends)
  <1>1. Len(j) \in Nat /\ DOMAIN j = 1 .. Len(j) /\ j \in Seq(ToSet(j))
    BY Sequences DEF IsSequence
  <1>2. ends # {} /\ starts # {}
    BY DEF HasChanges, ChainEnds
  <1>3. first \in 1 .. Len(j) /\ j[first].from = from
    <2>1. starts \in SUBSET Nat
      BY <1>1
    <2>2. first \in starts
      BY <1>2, <2>1, FirstPosition
    <2> QED
      BY <1>1, <2>2
  <1>4. ends = {x \in first .. Len(j) :
                  /\ j[x].to = to
                  /\ \A i \in first .. (x - 1) : j[i].to # to /\ j[i + 1].from = j[i].to}
    BY <1>2 DEF ChainEnds
  <1> HIDE DEF first
  <1>5. e \in ends
    <2>1. ends \in SUBSET Nat
      BY <1>1, <1>3, <1>4
    <2> QED
      BY <1>2, <2>1, FirstPosition
  <1>6. c = SubSeq(j, first, e)
    BY DEF Changes, first
  <1> HIDE DEF ends, e, c
  <1>7. /\ e \in first .. Len(j) /\ j[e].to = to
        /\ \A i \in first .. (e - 1) : j[i + 1].from = j[i].to
    BY <1>4, <1>5
  <1>8. /\ Len(c) = e - first + 1 /\ Len(c) \in Nat /\ Len(c) >= 1
        /\ \A i \in 1 .. Len(c) : c[i] = j[first + i - 1]
    BY <1>1, <1>3, <1>6, <1>7
  <1>9. c[1].from = from /\ c[Len(c)].to = to
    <2>1. first + 1 - 1 = first /\ first + Len(c) - 1 = e /\ 1 \in 1 .. Len(c) /\ Len(c) \in 1 .. Len(c)
      BY <1>1, <1>3, <1>7, <1>8
    <2> QED
      BY <1>3, <1>7, <1>8, <2>1
  <1>10. ASSUME NEW i \in 1 .. Len(c) PROVE \E x \in DOMAIN j : c[i] = j[x]
    <2>1. first + i - 1 \in DOMAIN j
      BY <1>1, <1>3, <1>7, <1>8
    <2> QED
      BY <1>8, <2>1
  <1>11. ASSUME NEW i \in 2 .. Len(c) PROVE c[i].from = c[i - 1].to
    <2>1. /\ first + (i - 1) - 1 \in first .. (e - 1) /\ first + (i - 1) - 1 + 1 = first + i - 1
          /\ i \in 1 .. Len(c) /\ i - 1 \in 1 .. Len(c)
      BY <1>1, <1>3, <1>7, <1>8
    <2>2. c[i] = j[first + i - 1] /\ c[i - 1] = j[first + (i - 1) - 1]
      BY <1>8, <2>1
    <2> QED
      BY <1>7, <2>1, <2>2
  <1> QED
    BY <1>8, <1>9, <1>10, <1>11 DEF c

\* The difference between two of these versions of zone n.
ExactDelta(versions, n, delta) ==
    \E v, w \in versions :
        /\ v.name = n /\ w.name = n /\ delta.from = v.serial /\ delta.to = w.serial
        /\ delta.deleted = v.content \ w.content /\ delta.added = w.content \ v.content
        /\ SerialGreater(delta.to, delta.from)

\* A known version of zone n, held as a zone.
HeldVersion(n, z, soa) ==
    \E v \in Known : v.name = n /\ v.serial = soa /\ Holds(z, soa, v.content)

\* The known versions are contents of zones, under serials of the right width.
KnownVersions == \A v \in Known : IsContent(v.content) /\ v.serial \in Serial

\* A difference between known versions leads a copy of the one to a copy of the other.
LEMMA DeltaLeads ==
    ASSUME KnownVersions, Orderly, NEW n, NEW delta, ExactDelta(Known, n, delta),
           NEW z, HeldVersion(n, z, delta.from),
           NEW dels \in SetToSeqs(delta.deleted), NEW adds \in SetToSeqs(delta.added)
    PROVE  HeldVersion(n, ApplyDelta(z, delta, dels, adds), delta.to)
  <1>1. PICK v \in Known, w \in Known :
          /\ v.name = n /\ w.name = n /\ delta.from = v.serial /\ delta.to = w.serial
          /\ delta.deleted = v.content \ w.content /\ delta.added = w.content \ v.content
          /\ SerialGreater(delta.to, delta.from)
    BY DEF ExactDelta
  <1>2. PICK u \in Known : u.name = n /\ u.serial = delta.from /\ Holds(z, delta.from, u.content)
    BY DEF HeldVersion
  <1>3. u.content = v.content
    BY <1>1, <1>2 DEF Orderly
  <1>4. /\ IsContent(v.content) /\ IsContent(w.content) /\ delta.from \in Serial /\ delta.to \in Serial
        /\ OneTTL(v.content) /\ OneTTL(w.content)
    BY <1>1 DEF KnownVersions, Orderly
  <1>5. Holds(ApplyDelta(z, delta, dels, adds), delta.to, w.content)
    BY <1>1, <1>2, <1>3, <1>4, DeltaApplies
  <1> QED
    BY <1>1, <1>5 DEF HeldVersion

\* ... and so does a chain of them.
LEMMA ChainLeads ==
    ASSUME KnownVersions, Orderly, NEW n, NEW j, IsSequence(j),
           \A i \in DOMAIN j : ExactDelta(Known, n, j[i]),
           NEW z, NEW from, NEW to, HasChanges(j, from, to), HeldVersion(n, z, from),
           NEW r \in ApplyChain(z, Changes(j, from, to))
    PROVE  HeldVersion(n, r, to)
  <1> DEFINE c == Changes(j, from, to)
             at(i) == IF i = 0 THEN from ELSE c[i].to
  <1>1. /\ Len(c) \in Nat /\ Len(c) >= 1
        /\ c[1].from = from /\ c[Len(c)].to = to
        /\ \A i \in 1 .. Len(c) : \E x \in DOMAIN j : c[i] = j[x]
        /\ \A i \in 2 .. Len(c) : c[i].from = c[i - 1].to
    BY ChainOf
  <1> HIDE DEF c
  <1>2. PICK f : ChainRun(f, z, c) /\ ApplyChain(z, c) = f[Len(c)]
    BY <1>1, ApplyChainSteps
  <1> DEFINE G == {i \in 0 .. Len(c) : \A y \in f[i] : HeldVersion(n, y, at(i))}
  <1>3. 0 \in G
    BY <1>1, <1>2 DEF ChainRun
  <1>4. ASSUME NEW i \in 1 .. Len(c), i - 1 \in G PROVE i \in G
    <2>1. c[i].from = at(i - 1)
      <3>1. CASE i = 1
        BY <1>1, <3>1
      <3>2. CASE i # 1
        <4>1. i \in 2 .. Len(c) /\ i - 1 # 0
          BY <3>2
        <4> QED
          BY <1>1, <4>1
      <3> QED
        BY <3>1, <3>2
    <2>2. ExactDelta(Known, n, c[i])
      BY <1>1
    <2>3. ASSUME NEW y \in f[i] PROVE HeldVersion(n, y, at(i))
      <3>1. y \in ResultsOf(f[i - 1], c[i])
        BY <1>2 DEF ChainRun
      <3>2. PICK x \in f[i - 1], dels \in SetToSeqs(c[i].deleted), adds \in SetToSeqs(c[i].added) :
                y = ApplyDelta(x, c[i], dels, adds)
        BY <3>1 DEF ResultsOf
      <3>3. HeldVersion(n, x, c[i].from)
        BY <1>4, <2>1
      <3>4. HeldVersion(n, y, c[i].to)
        BY <2>2, <3>2, <3>3, DeltaLeads
      <3> QED
        BY <3>4
    <2> QED
      BY <1>1, <2>3
  <1>5. Len(c) \in G
    <2> HIDE DEF G
    <2>1. \A i \in 1 .. Len(c) : i - 1 \in G => i \in G
      BY <1>4
    <2>2. \A i \in 0 .. Len(c) : i \in G
      BY <1>1, <1>3, <2>1, Induced
    <2>3. Len(c) \in 0 .. Len(c)
      BY <1>1
    <2> QED
      BY <2>2, <2>3
  <1>6. r \in f[Len(c)] /\ at(Len(c)) = to
    BY <1>1, <1>2 DEF c
  <1> QED
    BY <1>5, <1>6

-----------------------------------------------------------------------------
(* What the primary answers.                                               *)

\* Every retained difference is that of two known versions.
JournalKnown ==
    \A n \in ZoneNames : \A i \in DOMAIN journal[n] : ExactDelta(Known, n, journal[n][i])

\* A transfer is of a valid version that was published.
SessionsHold ==
    \A s \in Secondaries : session[s].open =>
        LET z == session[s].zone IN
        /\ IsZone(z) /\ z.soa \in Serial /\ Validate(z)
        /\ Version(ZoneOfSecondary[s], z) \in published

\* A copy is, record for record, a version published under its serial.
CopiesHold ==
    \A s \in Secondaries : copy[s] # NoZone =>
        \E v \in published : /\ v.name = ZoneOfSecondary[s] /\ v.serial = copy[s].soa
                             /\ Holds(copy[s], copy[s].soa, v.content)

\* What was published is known.
LEMMA PublishedKnown == published \subseteq Known
  BY DEF Known

\* Whatever is sent to a secondary that is behind leads it to the snapshot.
LEMMA AnswerHolds ==
    ASSUME KnownVersions, JournalTruth, JournalKnown, SessionsHold, CopiesHold, Orderly,
           NEW s \in Secondaries, session[s].open,
           copy[s] = NoZone \/ SerialGreater(session[s].zone.soa, copy[s].soa),
           NEW r \in answers(ZoneOfSecondary[s], session[s].zone, copy[s])
    PROVE  LET z == session[s].zone IN
           r # ZoneFailed /\ Holds(r, z.soa, recordSet(z)) /\ Validate(r)
  <1> DEFINE n == ZoneOfSecondary[s]
             z == session[s].zone
             mine == copy[s]
  <1>1. n \in ZoneNames
    BY SecondariesAssumption
  <1>2. IsZone(z) /\ z.soa \in Serial /\ Validate(z) /\ Version(n, z) \in Known
    BY PublishedKnown DEF SessionsHold
  <1>3. /\ Version(n, z).name = n /\ Version(n, z).serial = z.soa
        /\ Version(n, z).content = recordSet(z) /\ Version(n, z).distinct = Distinct(z)
    BY DEF Version
  <1>4. Distinct(z)
    BY <1>2, <1>3 DEF Orderly
  <1> HIDE DEF n, z, mine
  <1>5. CASE r = FromAXFR(z)
    BY <1>2, <1>4, <1>5, WholeZone, NotFailed DEF Holds, z
  <1>6. CASE r # FromAXFR(z)
    <2>1. mine # NoZone /\ SerialGreater(z.soa, mine.soa)
      BY <1>6 DEF answers, n, z, mine
    <2>2. /\ HasChanges(journal[n], mine.soa, z.soa)
          /\ r \in ApplyChain(mine, Changes(journal[n], mine.soa, z.soa))
      BY <1>6, <2>1 DEF answers, n, z, mine
    <2>3. HeldVersion(n, mine, mine.soa)
      BY <2>1, PublishedKnown DEF CopiesHold, HeldVersion, n, mine
    <2>4. IsSequence(journal[n]) /\ \A i \in DOMAIN journal[n] : ExactDelta(Known, n, journal[n][i])
      BY <1>1 DEF JournalTruth, Truthful, JournalKnown
    <2>5. HeldVersion(n, r, z.soa)
      BY <2>2, <2>3, <2>4, ChainLeads
    <2>6. PICK v \in Known : v.name = n /\ v.serial = z.soa /\ Holds(r, z.soa, v.content)
      BY <2>5 DEF HeldVersion
    <2>7. v.content = recordSet(z)
      BY <1>2, <1>3, <2>6 DEF Orderly
    <2>8. Holds(r, z.soa, recordSet(z))
      BY <2>6, <2>7
    <2>9. Validate(r)
      BY <1>2, <2>8, SameContentValid DEF Holds
    <2> QED
      BY <1>2, <2>8, <2>9, NotFailed DEF Holds, z
  <1> QED
    BY <1>5, <1>6

\* The two properties, in a state of the invariant.
LEMMA AnswersApply ==
    ASSUME KnownVersions, JournalTruth, JournalKnown, SessionsHold, CopiesHold, Orderly
    PROVE  CopyIsAPublishedVersion /\ EveryAnswerApplies
  <1>1. CopyIsAPublishedVersion
    BY DEF CopiesHold, CopyIsAPublishedVersion, Holds
  <1>2. ASSUME NEW s \in Secondaries, session[s].open,
               copy[s] = NoZone \/ SerialGreater(session[s].zone.soa, copy[s].soa)
        PROVE  LET z == session[s].zone
                   results == answers(ZoneOfSecondary[s], z, copy[s])
               IN /\ AllowAXFRFallback => results # {}
                  /\ \A r \in results : /\ r # ZoneFailed /\ Validate(r)
                                        /\ r.soa = z.soa /\ recordSet(r) = recordSet(z)
    <2> DEFINE z == session[s].zone
               results == answers(ZoneOfSecondary[s], z, copy[s])
    <2>1. AllowAXFRFallback => FromAXFR(z) \in results
      BY <1>2 DEF answers
    <2>2. \A r \in results : /\ r # ZoneFailed /\ Validate(r)
                             /\ r.soa = z.soa /\ recordSet(r) = recordSet(z)
      BY <1>2, AnswerHolds DEF Holds
    <2> QED
      BY <2>1, <2>2
  <1> QED
    BY <1>1, <1>2 DEF EveryAnswerApplies

\* A finished transfer leaves the secondary with a published version.
LEMMA FinishHolds ==
    ASSUME KnownVersions, JournalTruth, JournalKnown, SessionsHold, CopiesHold, Orderly,
           DOMAIN copy = Secondaries, NEW s \in Secondaries, FinishTransfer(s)
    PROVE  CopiesHold'
  <1> DEFINE z == session[s].zone
  <1>1. session[s].open /\ published' = published
    BY DEF FinishTransfer
  <1>2. PICK r \in answers(ZoneOfSecondary[s], z, copy[s]) :
          copy' = [copy EXCEPT ![s] =
                     IF /\ r # ZoneFailed /\ Validate(r)
                        /\ @ = NoZone \/ SerialGreater(r.soa, @.soa)
                     THEN r ELSE @]
    BY DEF FinishTransfer
  <1>3. \A t \in Secondaries : t # s => copy'[t] = copy[t]
    BY <1>2
  <1>4. CASE copy'[s] = copy[s]
    BY <1>1, <1>3, <1>4 DEF CopiesHold
  <1>5. CASE copy'[s] # copy[s]
    <2>1. copy'[s] = r /\ r # ZoneFailed /\ (copy[s] = NoZone \/ SerialGreater(r.soa, copy[s].soa))
      BY <1>2, <1>5
    <2>2. copy[s] = NoZone \/ SerialGreater(z.soa, copy[s].soa)
      BY <1>5, <2>1 DEF answers
    <2>3. Holds(r, z.soa, recordSet(z))
      BY <1>1, <2>2, AnswerHolds
    <2>4. Version(ZoneOfSecondary[s], z) \in published
      BY <1>1 DEF SessionsHold
    <2>5. /\ Version(ZoneOfSecondary[s], z).name = ZoneOfSecondary[s]
          /\ Version(ZoneOfSecondary[s], z).serial = z.soa
          /\ Version(ZoneOfSecondary[s], z).content = recordSet(z)
      BY DEF Version
    <2>6. Holds(copy'[s], copy'[s].soa, recordSet(z)) /\ copy'[s].soa = z.soa
      BY <2>1, <2>3 DEF Holds
    <2>7. \E v \in published' : /\ v.name = ZoneOfSecondary[s] /\ v.serial = copy'[s].soa
                                /\ Holds(copy'[s], copy'[s].soa, v.content)
      BY <1>1, <2>4, <2>5, <2>6
    <2> QED
      BY <1>1, <1>3, <2>7 DEF CopiesHold
  <1> QED
    BY <1>4, <1>5

-----------------------------------------------------------------------------
(* UPDATE keeps zones in shape.                                            *)

\* Deleting RRsets leaves a zone.
LEMMA RestrictedIsZone ==
    ASSUME NEW z, IsZone(z), NEW K, K \subseteq DOMAIN z.rrs
    PROVE  IsZone([z EXCEPT !.rrs = Restrict(z.rrs, K)])
  <1> DEFINE y == [z EXCEPT !.rrs = Restrict(z.rrs, K)]
  <1>1. DOMAIN y = DOMAIN z /\ y.rrs = [k \in K |-> z.rrs[k]]
    BY DEF IsZone, Restrict
  <1> HIDE DEF y
  <1>2. IsFiniteSet(K)
    BY FS_Subset DEF IsZone, RRsetsShaped
  <1>3. DOMAIN y.rrs = K /\ \A k \in K : y.rrs[k] = z.rrs[k]
    BY <1>1
  <1>4. y.rrs = [k \in DOMAIN y.rrs |-> y.rrs[k]]
    BY <1>1, <1>3
  <1>5. IsZone(y)
    BY <1>1, <1>2, <1>3, <1>4 DEF IsZone, RRsetsShaped
  <1> QED
    BY <1>5 DEF y

\* DeleteRecord leaves a zone.
LEMMA DeletedIsZone ==
    ASSUME NEW z, IsZone(z), NEW rr PROVE IsZone(DeleteRecord(z, rr))
  <1> DEFINE y == DeleteRecord(z, rr)
             key == <<rr.owner, rr.type>>
             items == z.rrs[key]
             Matches(e) == e.data = rr.data /\ e.ttl = items[1].ttl
             left == RemoveFirstMatch(items, Matches)
  <1>1. CASE key \notin DOMAIN z.rrs
    BY <1>1 DEF DeleteRecord
  <1>2. CASE key \in DOMAIN z.rrs
    <2>1. /\ IsSequence(items) /\ key[2] # "SOA" /\ key = <<key[1], key[2]>>
          /\ \A i \in DOMAIN items : items[i] = [data |-> items[i].data, ttl |-> items[i].ttl]
      BY <1>2 DEF IsZone, RRsetsShaped
    <2>2. recordsAt(z, rr.owner, rr.type) = items
      BY <1>2, <2>1 DEF recordsAt
    <2>3. y = WithRRset(z, key, left)
      BY <1>2, <2>2 DEF DeleteRecord
    <2>4. IsSequence(left) /\ \A i \in DOMAIN left : \E j \in DOMAIN items : left[i] = items[j]
      <3> DEFINE hits == {i \in 1 .. Len(items) : Matches(items[i])}
                 at == Min(hits)
                 u == RemoveAt(items, at)
      <3> HIDE DEF items, Matches
      <3>1. Len(items) \in Nat /\ DOMAIN items = 1 .. Len(items)
        BY <2>1, Sequences
      <3>2. CASE hits = {}
        <4>1. left = items
          BY <3>2 DEF RemoveFirstMatch
        <4> QED
          BY <2>1, <4>1
      <3>3. CASE hits # {}
        <4>1. at \in 1 .. Len(items)
          <5>1. hits \in SUBSET Nat
            OBVIOUS
          <5>2. at \in hits
            BY <3>3, <5>1, FirstPosition
          <5> QED
            BY <5>2
        <4>2. left = u
          <5>1. SelectInSeq(items, Matches) = at
            BY <3>3 DEF SelectInSeq
          <5>2. \E i \in 1 .. Len(items) : Matches(items[i])
            BY <3>3
          <5> QED
            BY <5>1, <5>2 DEF RemoveFirstMatch
        <4> HIDE DEF at, left
        <4>3. /\ IsSequence(u) /\ Len(u) = Len(items) - 1
              /\ \A j \in 1 .. (Len(items) - 1) : u[j] = IF j < at THEN items[j] ELSE items[j + 1]
          BY <2>1, <4>1, RemovedAt
        <4> HIDE DEF u
        <4>4. DOMAIN u = 1 .. (Len(items) - 1)
          BY <4>3, Sequences
        <4>5. ASSUME NEW i \in DOMAIN u PROVE \E j \in DOMAIN items : u[i] = items[j]
          <5>1. i \in DOMAIN items /\ i + 1 \in DOMAIN items
            BY <3>1, <4>4
          <5>2. u[i] = items[i] \/ u[i] = items[i + 1]
            BY <4>3, <4>4
          <5> QED
            BY <5>1, <5>2
        <4> QED
          BY <4>2, <4>3, <4>5
      <3> QED
        BY <3>2, <3>3
    <2> HIDE DEF key, items, left, y
    <2>5. Replaced(z, y, key, left)
      <3>1. DOMAIN z.rrs \cup {key} = DOMAIN z.rrs
        BY <1>2
      <3>2. CASE left = <<>>
        <4>1. y = [z EXCEPT !.rrs = [x \in DOMAIN z.rrs \ {key} |-> z.rrs[x]]]
          BY <2>3, <3>2 DEF WithRRset, Restrict
        <4> QED
          BY <3>2, <4>1 DEF Replaced, IsZone
      <3>3. CASE left # <<>>
        <4>1. y = [z EXCEPT !.rrs = [z.rrs EXCEPT ![key] = left]]
          BY <2>3, <3>3 DEF WithRRset
        <4>2. y.rrs = [z.rrs EXCEPT ![key] = left] /\ DOMAIN y = DOMAIN z /\ y.soa = z.soa
          BY <4>1 DEF IsZone
        <4> QED
          BY <1>2, <3>1, <3>3, <4>2 DEF Replaced
      <3> QED
        BY <3>2, <3>3
    <2>6. \A i \in DOMAIN left : left[i] = [data |-> left[i].data, ttl |-> left[i].ttl]
      BY <2>1, <2>4
    <2>7. IsZone(y)
      BY <2>1, <2>4, <2>5, <2>6, ReplacedIsZone
    <2> QED
      BY <2>7 DEF y
  <1> QED
    BY <1>1, <1>2

\* AddRecord leaves a zone.
LEMMA AddedIsZone ==
    ASSUME NEW z, IsZone(z), NEW rr, rr.type # "SOA" PROVE IsZone(AddRecord(z, rr))
  <1> DEFINE y == AddRecord(z, rr)
             key == <<rr.owner, rr.type>>
             items == recordsAt(z, rr.owner, rr.type)
             item == [data |-> rr.data, ttl |-> rr.ttl]
             longer == Append(items, item)
  <1>1. key = <<key[1], key[2]>> /\ key[2] # "SOA"
    OBVIOUS
  <1>2. items = IF key \in DOMAIN z.rrs THEN z.rrs[key] ELSE <<>>
    BY DEF recordsAt
  <1>3. y = [z EXCEPT !.rrs = [k \in DOMAIN z.rrs \cup {key} |-> IF k = key THEN longer ELSE z.rrs[k]]]
    BY DEF AddRecord
  <1> HIDE DEF key, items, y
  <1>4. /\ IsSequence(items)
        /\ \A i \in DOMAIN items : items[i] = [data |-> items[i].data, ttl |-> items[i].ttl]
    <2>1. IsSequence(<<>>) /\ DOMAIN <<>> = {}
      BY Sequences
    <2> QED
      BY <1>2, <2>1 DEF IsZone, RRsetsShaped
  <1>5. /\ IsSequence(longer) /\ longer # <<>> /\ Len(longer) = Len(items) + 1
        /\ \A i \in 1 .. Len(items) : longer[i] = items[i]
        /\ longer[Len(items) + 1] = item
    BY <1>4, Appended
  <1>6. /\ DOMAIN items = 1 .. Len(items) /\ Len(items) \in Nat
        /\ DOMAIN longer = 1 .. (Len(items) + 1)
    BY <1>4, <1>5, Sequences
  <1> HIDE DEF longer
  <1>7. Replaced(z, y, key, longer)
    <2>1. /\ DOMAIN y = DOMAIN z /\ y.soa = z.soa
          /\ y.rrs = [x \in DOMAIN z.rrs \cup {key} |-> IF x = key THEN longer ELSE z.rrs[x]]
      BY <1>3 DEF IsZone
    <2> QED
      BY <1>5, <2>1 DEF Replaced
  <1>8. \A i \in DOMAIN longer : longer[i] = [data |-> longer[i].data, ttl |-> longer[i].ttl]
    <2>1. \A i \in DOMAIN longer : i \in DOMAIN items \/ i = Len(items) + 1
      BY <1>6
    <2> QED
      BY <1>4, <1>5, <1>6, <2>1
  <1>9. IsZone(y)
    BY <1>1, <1>5, <1>7, <1>8, ReplacedIsZone
  <1> QED
    BY <1>9 DEF y

\* A directive that is not refused leaves a zone.
LEMMA DirectiveIsZone ==
    ASSUME NEW live, NEW z, IsZone(z), NEW u, directiveRcode(live, z, u) = "NOERROR"
    PROVE  IsZone(directiveEffect(z, u))
  <1>1. u.class \in {"IN", "ANY", "NONE"}
    BY DEF directiveRcode
  <1>2. CASE u.class = "IN"
    <2>1. u.type # "SOA" => IsZone(AddRecord(z, u))
      BY AddedIsZone
    <2>2. directiveEffect(z, u) = z \/ (u.type # "SOA" /\ directiveEffect(z, u) = AddRecord(z, u))
      BY <1>2 DEF directiveEffect
    <2> QED
      BY <2>1, <2>2
  <1>3. CASE u.class = "ANY" /\ u.type = "ANY"
    <2>1. IsZone(DeleteName(z, u.owner))
      <3>1. {k \in DOMAIN z.rrs : k[1] # u.owner} \subseteq DOMAIN z.rrs
        OBVIOUS
      <3> QED
        BY <3>1, RestrictedIsZone DEF DeleteName
    <2>2. directiveEffect(z, u) = DeleteName(z, u.owner)
      BY <1>3 DEF directiveEffect
    <2> QED
      BY <2>1, <2>2
  <1>4. CASE u.class = "ANY" /\ u.type # "ANY"
    <2>1. IsZone(DeleteRRSet(z, u.owner, u.type))
      <3>1. DOMAIN z.rrs \ {<<u.owner, u.type>>} \subseteq DOMAIN z.rrs
        OBVIOUS
      <3> QED
        BY <3>1, RestrictedIsZone DEF DeleteRRSet
    <2>2. directiveEffect(z, u) = DeleteRRSet(z, u.owner, u.type)
      BY <1>4 DEF directiveEffect
    <2> QED
      BY <2>1, <2>2
  <1>5. CASE u.class = "NONE"
    BY <1>5, DeletedIsZone DEF directiveEffect
  <1> QED
    BY <1>1, <1>2, <1>3, <1>4, <1>5

\* An UPDATE leaves a zone: by the least directive that does not.
LEMMA OutcomeIsZone ==
    ASSUME NEW live, IsZone(live), NEW m \in Messages, NEW day
    PROVE  IsZone(updateOutcome(live, m, day).zone)
  <1> DEFINE updates == m.updates
             n == Len(updates)
  <1>1. n \in Nat
    BY RecordsAssumption, Sequences
  <1> HIDE DEF updates
  <1>2. PICK f : /\ f[0] = [zone |-> live, rcode |-> "NOERROR"]
                 /\ applyUpdates(live, updates) = f[n]
                 /\ \A i \in 1 .. n : f[i] = applyDirective(live, f[i - 1], updates[i])
    BY <1>1, applyUpdatesSteps
  <1> DEFINE G == {i \in 0 .. n : IsZone(f[i].zone)}
  <1>3. 0 \in G
    BY <1>1, <1>2
  <1>4. ASSUME NEW i \in 1 .. n, i - 1 \in G PROVE i \in G
    <2> DEFINE acc == f[i - 1]
               u == updates[i]
    <2>1. IsZone(acc.zone) /\ f[i] = applyDirective(live, acc, u) /\ i \in 0 .. n
      BY <1>1, <1>2, <1>4
    <2> HIDE DEF acc, u
    <2>2. directiveRcode(live, acc.zone, u) = "NOERROR" => IsZone(directiveEffect(acc.zone, u))
      BY <2>1, DirectiveIsZone
    <2>3. IsZone(f[i].zone)
      BY <2>1, <2>2 DEF applyDirective
    <2> QED
      BY <2>1, <2>3
  <1>5. n \in G
    <2> HIDE DEF G
    <2>1. \A i \in 1 .. n : i - 1 \in G => i \in G
      BY <1>4
    <2>2. \A i \in 0 .. n : i \in G
      BY <1>1, <1>3, <2>1, Induced
    <2>3. n \in 0 .. n
      BY <1>1
    <2> QED
      BY <2>2, <2>3
  <1>6. IsZone(applyUpdates(live, m.updates).zone)
    BY <1>2, <1>5 DEF updates
  <1>7. updateOutcome(live, m, day).zone = [soa |-> IncrementedSerial(live.soa, day),
                                            soaRec |-> live.soaRec,
                                            rrs |-> applyUpdates(live, m.updates).zone.rrs]
    BY DEF updateOutcome
  <1> QED
    BY <1>6, <1>7 DEF IsZone

-----------------------------------------------------------------------------
(* Every state of a transfer.                                              *)

\* What the primary serves is in the history.
LiveKnown ==
    \A n \in ZoneNames : Present(zones[n]) =>
        IsZone(zones[n]) /\ Version(n, zones[n]) \in published

\* The history is of contents of zones.
PublishedShaped == \A v \in published : IsContent(v.content) /\ v.serial \in Serial

\* Transferring: the part of the invariant that needs no order in the serials.
Transferring ==
    /\ Control /\ FilesReadable /\ LiveZonesValid /\ JournalTruth
    /\ DOMAIN copy = Secondaries /\ DOMAIN session = Secondaries
    /\ LiveKnown /\ PublishedShaped /\ JournalKnown /\ SessionsHold

\* What a writer is about to record or publish.
LEMMA WrittenIsZone ==
    ASSUME Control, LiveKnown, NEW p \in Procs, pc[p] \in {"record", "publish", "add", "swap"},
           NEW n \in DOMAIN write[p].ups
    PROVE  /\ n \in ZoneNames /\ n \notin write[p].rems
           /\ IsZone(write[p].ups[n]) /\ HasSOA(write[p].ups[n])
  <1>1. CASE pc[p] \in {"record", "publish"}
    <2>1. Prepared(p)
      BY <1>1 DEF Control, Fit, Updating
    <2>2. PICK day \in Store!Days :
            /\ updateOutcome(zones[job[p].zone], job[p], day).rcode = "NOERROR"
            /\ write[p] = [ups |-> [x \in {job[p].zone} |->
                                      updateOutcome(zones[job[p].zone], job[p], day).zone],
                           rems |-> {}]
      BY <2>1 DEF Prepared
    <2>3. /\ n = job[p].zone /\ n \in ZoneNames /\ write[p].rems = {} /\ HasSOA(write[p].ups[n])
      BY <2>1, PreparedWrite
    <2>4. job[p] \in Messages /\ Present(zones[n])
      BY <2>1, <2>3 DEF Prepared, Served
    <2>5. IsZone(updateOutcome(zones[n], job[p], day).zone)
      BY <2>3, <2>4, OutcomeIsZone DEF LiveKnown
    <2>6. write[p].ups[n] = updateOutcome(zones[n], job[p], day).zone
      BY <2>2, <2>3
    <2> QED
      BY <2>3, <2>5, <2>6
  <1>2. CASE pc[p] \in {"add", "swap"}
    <2>1. Batched(write[p])
      BY <1>2 DEF Control, Fit
    <2>2. n \in ZoneNames /\ n \notin write[p].rems /\ HasSOA(write[p].ups[n])
      BY <2>1, BatchedWrite
    <2>3. PICK chosen \in SUBSET Images, removals \in SUBSET ZoneNames :
            write[p] = [ups |-> [x \in {i.name : i \in chosen} |->
                                   (CHOOSE i \in chosen : i.name = x).zone],
                        rems |-> removals]
      BY <2>1 DEF Batched
    <2>4. \E i \in chosen : i.name = n
      BY <2>3
    <2> DEFINE i == CHOOSE x \in chosen : x.name = n
    <2>5. i \in chosen
      BY <2>4
    <2>6. write[p].ups[n] = i.zone
      BY <2>3
    <2> HIDE DEF i
    <2>7. IsZone(i.zone)
      BY <2>5, RecordsAssumption DEF IsZone
    <2> QED
      BY <2>2, <2>6, <2>7
  <1> QED
    BY <1>1, <1>2

\* Every known version has records for its content and a serial of the right width.
LEMMA KnownHold ==
    ASSUME Control, LiveKnown, PublishedShaped PROVE KnownVersions
  <1> SUFFICES ASSUME NEW v \in Known PROVE IsContent(v.content) /\ v.serial \in Serial
    BY DEF KnownVersions
  <1>1. CASE v \in published
    BY <1>1 DEF PublishedShaped
  <1>2. CASE v \notin published
    <2>1. PICK p \in Procs : /\ pc[p] \in {"publish", "swap"}
                             /\ \E n \in DOMAIN write[p].ups : v = Version(n, write[p].ups[n])
      BY <1>2 DEF Known
    <2>2. PICK n \in DOMAIN write[p].ups : v = Version(n, write[p].ups[n])
      BY <2>1
    <2>3. IsZone(write[p].ups[n]) /\ HasSOA(write[p].ups[n])
      BY <2>1, WrittenIsZone
    <2> QED
      BY <2>2, <2>3, ZoneContent DEF Version, HasSOA
  <1> QED
    BY <1>1, <1>2

\* A zone file is read into a zone.
LEMMA ParsedIsZone ==
    ASSUME NEW f, RRsetsShaped(f.rrs), f # NoFile PROVE IsZone(Parsed(f))
  <1> DEFINE y == Parsed(f)
             kept(items) == [i \in DOMAIN items |-> [data |-> items[i].data, ttl |-> DefaultTTL]]
  <1>1. DOMAIN y = {"soa", "soaRec", "rrs"} /\ y.rrs = [k \in DOMAIN f.rrs |-> kept(f.rrs[k])]
    BY DEF Parsed
  <1>2. ASSUME NEW k \in DOMAIN f.rrs
        PROVE  /\ IsSequence(kept(f.rrs[k])) /\ kept(f.rrs[k]) # <<>>
               /\ \A i \in DOMAIN kept(f.rrs[k]) :
                     kept(f.rrs[k])[i] = [data |-> kept(f.rrs[k])[i].data, ttl |-> kept(f.rrs[k])[i].ttl]
    <2> DEFINE items == f.rrs[k]
               T == {[data |-> items[i].data, ttl |-> DefaultTTL] : i \in DOMAIN items}
    <2>1. IsSequence(items) /\ items # <<>>
      BY DEF RRsetsShaped
    <2>2. DOMAIN items = 1 .. Len(items) /\ Len(items) \in Nat /\ Len(items) # 0
      BY <2>1, Sequences
    <2>3. kept(items) \in [1 .. Len(items) -> T]
      BY <2>2
    <2>4. kept(items) \in Seq(T) /\ Len(kept(items)) = Len(items)
      BY <2>2, <2>3
    <2>5. IsSequence(kept(items))
      BY <2>4, OwnElements
    <2>6. kept(items) # <<>>
      BY <2>2, <2>4
    <2> QED
      BY <2>5, <2>6
  <1> HIDE DEF y, kept
  <1>3. \A k \in DOMAIN f.rrs : k = <<k[1], k[2]>> /\ k[2] # "SOA"
    BY DEF RRsetsShaped
  <1>4. IsFiniteSet(DOMAIN f.rrs)
    BY DEF RRsetsShaped
  <1>5. DOMAIN y.rrs = DOMAIN f.rrs /\ y.rrs = [k \in DOMAIN y.rrs |-> y.rrs[k]]
        /\ \A k \in DOMAIN y.rrs : y.rrs[k] = kept(f.rrs[k])
    BY <1>1
  <1>6. \A k \in DOMAIN y.rrs :
          /\ k = <<k[1], k[2]>> /\ k[2] # "SOA"
          /\ IsSequence(y.rrs[k]) /\ y.rrs[k] # <<>>
          /\ \A i \in DOMAIN y.rrs[k] :
                y.rrs[k][i] = [data |-> y.rrs[k][i].data, ttl |-> y.rrs[k][i].ttl]
    <2> SUFFICES ASSUME NEW k \in DOMAIN y.rrs
                 PROVE  /\ k = <<k[1], k[2]>> /\ k[2] # "SOA"
                        /\ IsSequence(y.rrs[k]) /\ y.rrs[k] # <<>>
                        /\ \A i \in DOMAIN y.rrs[k] :
                              y.rrs[k][i] = [data |-> y.rrs[k][i].data, ttl |-> y.rrs[k][i].ttl]
      OBVIOUS
    <2> DEFINE items == kept(f.rrs[k])
    <2>1. k \in DOMAIN f.rrs /\ y.rrs[k] = items
      BY <1>5
    <2>2. /\ IsSequence(items) /\ items # <<>>
          /\ \A i \in DOMAIN items : items[i] = [data |-> items[i].data, ttl |-> items[i].ttl]
      BY <1>2, <2>1
    <2> HIDE DEF items
    <2> QED
      BY <1>3, <2>1, <2>2
  <1>7. IsZone(y)
    BY <1>1, <1>4, <1>5, <1>6 DEF IsZone, RRsetsShaped
  <1> QED
    BY <1>7 DEF y

\* At the start no secondary has a copy, and the journal is empty.
LEMMA TransferInit == XInit => Transferring /\ CopiesHold
  <1> SUFFICES ASSUME XInit PROVE Transferring /\ CopiesHold
    OBVIOUS
  <1>1. Control /\ FilesReadable /\ LiveZonesValid /\ JournalTruth
    BY ControlInit, ValidInit, TruthInit DEF XInit
  <1>2. /\ DOMAIN copy = Secondaries /\ DOMAIN session = Secondaries
        /\ \A s \in Secondaries : copy[s] = NoZone /\ session[s].open = FALSE
    BY DEF XInit, NoSession
  <1>3. ASSUME NEW n \in ZoneNames, Present(zones[n])
        PROVE  IsZone(zones[n]) /\ Version(n, zones[n]) \in published
    <2>1. InitialFiles[n] # NoFile /\ zones[n] = Parsed(InitialFiles[n])
      BY <1>3 DEF XInit, Init, Loaded, Present
    <2>2. IsZone(zones[n])
      BY <2>1, ParsedIsZone, RecordsAssumption
    <2>3. Version(n, zones[n]) \in published
      BY <1>3 DEF XInit
    <2> QED
      BY <2>2, <2>3
  <1>4. LiveKnown
    BY <1>3 DEF LiveKnown
  <1>5. PublishedShaped
    <2> SUFFICES ASSUME NEW v \in published PROVE IsContent(v.content) /\ v.serial \in Serial
      BY DEF PublishedShaped
    <2>1. PICK n \in ZoneNames : Present(zones[n]) /\ v = Version(n, zones[n])
      BY DEF XInit
    <2>2. HasSOA(zones[n])
      BY <1>1, <2>1 DEF Control
    <2> QED
      BY <1>3, <2>1, <2>2, ZoneContent DEF Version, HasSOA
  <1>6. JournalKnown
    <2>1. \A n \in ZoneNames : journal[n] = <<>>
      BY DEF XInit, Init, NoHistory
    <2>2. DOMAIN <<>> = {}
      OBVIOUS
    <2> QED
      BY <2>1, <2>2 DEF JournalKnown
  <1>7. SessionsHold /\ CopiesHold
    BY <1>2 DEF SessionsHold, CopiesHold
  <1> QED
    BY <1>1, <1>2, <1>4, <1>5, <1>6, <1>7 DEF Transferring

-----------------------------------------------------------------------------
(* Steps of the primary.                                                   *)

\* The primary keeps running: every step of it is one of the store's, and none
\* of them is a restart.
LEMMA PrimaryIsNext ==
    ASSUME Control, PrimaryStep PROVE Next /\ ~Restart
  <1>1. Next
    BY DEF PrimaryStep, Next, AdminStep
  <1>2. boots' = boots
    <2>1. ASSUME NEW p \in Procs, UpdateStep(p) PROVE boots' = boots
      BY <2>1 DEF UpdateStep, ReceiveUpdate, LockUpdate, WriteTemp, RenameTemp, SyncDirectory,
                  RecordUpdate, PublishUpdate, ReplyUpdate
    <2>2. ASSUME NEW p \in Procs, NEW image \in Images, AddZone(p, image) PROVE boots' = boots
      BY <2>2 DEF AddZone, Admit
    <2>3. ASSUME NEW p \in Procs,
                 RecordZones(p) \/ PublishZones(p) \/ ResetJournal(p) \/ \E n \in ZoneNames : RemoveZone(p, n)
          PROVE  boots' = boots
      BY <2>3 DEF RecordZones, PublishZones, ResetJournal, RemoveZone
    <2>4. NewDay => boots' = boots
      BY DEF NewDay
    <2> QED
      BY <2>1, <2>2, <2>3, <2>4 DEF PrimaryStep
  <1>3. boots + 1 # boots
    BY DEF Control
  <1> QED
    BY <1>1, <1>2, <1>3 DEF Restart

\* What a step of the primary does to the history of versions.
LEMMA PublishedGrows ==
    ASSUME PrimaryStep
    PROVE  /\ published \subseteq published' /\ copy' = copy /\ session' = session
           /\ \A n \in ZoneNames : Present(zones'[n]) => Version(n, zones'[n]) \in published'
           /\ \A v \in published' : v \in published
                \/ \E n \in ZoneNames : Present(zones'[n]) /\ v = Version(n, zones'[n])
  BY DEF PrimaryStep

\* A version that is about to be published stays so until it is.
LEMMA KnownGrows ==
    ASSUME Control, LiveKnown, PrimaryStep PROVE Known \subseteq Known'
  <1> SUFFICES ASSUME NEW v \in Known PROVE v \in Known'
    OBVIOUS
  <1>1. CASE v \in published
    BY <1>1, PublishedGrows DEF Known
  <1>2. CASE v \notin published
    <2>1. PICK q \in Procs : /\ pc[q] \in {"publish", "swap"}
                             /\ \E n \in DOMAIN write[q].ups : v = Version(n, write[q].ups[n])
      BY <1>2 DEF Known
    <2>2. PICK n \in DOMAIN write[q].ups : v = Version(n, write[q].ups[n])
      BY <2>1
    <2>3. n \in ZoneNames /\ n \notin write[q].rems /\ HasSOA(write[q].ups[n])
      BY <2>1, WrittenIsZone
    <2>4. Present(write[q].ups[n])
      BY <2>3, NotFailed DEF HasSOA, Present
    <2>5. CASE pc'[q] = pc[q] /\ write'[q] = write[q]
      BY <2>1, <2>2, <2>5 DEF Known
    <2>6. CASE PublishUpdate(q) \/ PublishZones(q)
      <3>1. SwapZones(write[q])
        BY <2>6 DEF PublishUpdate, PublishZones
      <3>2. zones'[n] = write[q].ups[n]
        BY <2>3, <3>1, SwappedZone
      <3>3. v \in published'
        BY <2>2, <2>3, <2>4, <3>2, PublishedGrows
      <3> QED
        BY <3>3 DEF Known
    <2>7. CASE UpdateStep(q) \/ AdminStep(q)
      <3>1. PublishUpdate(q) \/ PublishZones(q)
        BY <2>1, <2>7 DEF UpdateStep, AdminStep, ReceiveUpdate, LockUpdate, WriteTemp, RenameTemp,
                          SyncDirectory, RecordUpdate, ReplyUpdate, AddZone, ApplyZoneBatch, Admit,
                          RecordZones, RemoveZone, ResetJournal
      <3> QED
        BY <2>6, <3>1
    <2>8. ASSUME NEW p \in Procs, p # q, UpdateStep(p) \/ AdminStep(p)
          PROVE  pc'[q] = pc[q] /\ write'[q] = write[q]
      BY <2>8, OthersStay
    <2>9. NewDay => pc'[q] = pc[q] /\ write'[q] = write[q]
      BY DEF NewDay, local
    <2>10. (\E p \in Procs : UpdateStep(p) \/ AdminStep(p)) \/ NewDay
      BY PrimaryIsNext DEF Next
    <2> QED
      BY <2>5, <2>7, <2>8, <2>9, <2>10
  <1> QED
    BY <1>1, <1>2

\* A writer publishes a zone and enters it in the history in one step.
LEMMA LiveStep ==
    ASSUME Transferring, PrimaryStep PROVE LiveKnown'
  <1> SUFFICES ASSUME NEW n \in ZoneNames, Present(zones'[n])
               PROVE  IsZone(zones'[n]) /\ Version(n, zones'[n]) \in published'
    BY DEF LiveKnown, Present
  <1>1. Version(n, zones'[n]) \in published'
    BY PublishedGrows
  <1>2. [Next]_vars /\ ~Restart
    BY PrimaryIsNext DEF Transferring
  <1>3. zones'[n] = zones[n] => IsZone(zones'[n])
    BY DEF Transferring, LiveKnown, Present
  <1>4. ASSUME NEW p \in Procs, PublishUpdate(p) \/ PublishZones(p) PROVE IsZone(zones'[n])
    <2>1. SwapZones(write[p]) /\ pc[p] \in {"publish", "swap"}
      BY <1>4 DEF PublishUpdate, PublishZones
    <2>2. \/ zones'[n] = zones[n]
          \/ n \in DOMAIN write[p].ups /\ zones'[n] = write[p].ups[n]
      BY <2>1, SwappedZone DEF Present
    <2>3. n \in DOMAIN write[p].ups => IsZone(write[p].ups[n])
      BY <2>1, WrittenIsZone DEF Transferring
    <2> QED
      BY <1>3, <2>2, <2>3
  <1>5. ASSUME NEW p \in Procs, NEW m \in ZoneNames, RemoveZone(p, m) PROVE IsZone(zones'[n])
    <2>1. zones'[n] = zones[n]
      BY <1>5 DEF RemoveZone, Present, Transferring, Control
    <2> QED
      BY <1>3, <2>1
  <1> QED
    BY <1>1, <1>2, <1>3, <1>4, <1>5, MapSteps

\* The history gains only versions of live zones.
LEMMA ShapedStep ==
    ASSUME Transferring, PrimaryStep, Control', LiveKnown' PROVE PublishedShaped'
  <1> SUFFICES ASSUME NEW v \in published' PROVE IsContent(v.content) /\ v.serial \in Serial
    BY DEF PublishedShaped
  <1>1. CASE v \in published
    BY <1>1 DEF Transferring, PublishedShaped
  <1>2. CASE v \notin published
    <2>1. PICK n \in ZoneNames : Present(zones'[n]) /\ v = Version(n, zones'[n])
      BY <1>2, PublishedGrows
    <2>2. IsZone(zones'[n]) /\ HasSOA(zones'[n])
      BY <2>1 DEF LiveKnown, Control, Present
    <2> QED
      BY <2>1, <2>2, ZoneContent DEF Version, HasSOA
  <1> QED
    BY <1>1, <1>2

\* Record adds the difference of the two versions, or drops what it had.
LEMMA RecordElements ==
    ASSUME NEW j, IsSequence(j), NEW y, NEW z, NEW i \in DOMAIN Record(j, y, z)
    PROVE  LET delta == Record(j, y, z)[i] IN
           \/ \E k \in DOMAIN j : delta = j[k]
           \/ delta = Diff(y, z) /\ SerialGreater(z.soa, y.soa)
  <1> DEFINE delta == Diff(y, z)
             kept == IF Contiguous(j, delta) THEN j ELSE <<>>
             s == Append(kept, delta)
             t == Trimmed(s)
  <1>1. CASE ~SerialGreater(z.soa, y.soa)
    <2>1. Record(j, y, z) = <<>> /\ DOMAIN <<>> = {}
      BY <1>1 DEF Record, NoHistory
    <2> QED
      BY <2>1
  <1>2. CASE SerialGreater(z.soa, y.soa)
    <2>1. Record(j, y, z) = t
      BY <1>2 DEF Record
    <2>2. IsSequence(kept) /\ \A k \in DOMAIN kept : k \in DOMAIN j /\ kept[k] = j[k]
      <3>1. IsSequence(<<>>) /\ DOMAIN <<>> = {}
        BY Sequences
      <3> QED
        BY <3>1
    <2> HIDE DEF kept, delta
    <2>3. /\ IsSequence(s) /\ Len(s) = Len(kept) + 1 /\ s[Len(kept) + 1] = delta
          /\ \A k \in 1 .. Len(kept) : s[k] = kept[k]
      BY <2>2, Appended
    <2>4. Len(kept) \in Nat /\ DOMAIN kept = 1 .. Len(kept)
      BY <2>2, Sequences
    <2> HIDE DEF s
    <2>5. /\ IsSequence(t) /\ Len(t) <= Len(s)
          /\ \A k \in 1 .. Len(t) : t[k] = s[Len(s) - Len(t) + k]
      BY <2>3, TrimmedSequence
    <2>6. Len(t) \in Nat /\ DOMAIN t = 1 .. Len(t)
      BY <2>5, Sequences
    <2> HIDE DEF t
    <2> DEFINE x == Len(s) - Len(t) + i
    <2>7. i \in 1 .. Len(t) /\ x \in 1 .. (Len(kept) + 1) /\ t[i] = s[x]
      BY <2>1, <2>3, <2>4, <2>5, <2>6
    <2> HIDE DEF x
    <2>8. CASE x = Len(kept) + 1
      BY <1>2, <2>1, <2>3, <2>7, <2>8 DEF delta
    <2>9. CASE x # Len(kept) + 1
      <3>1. x \in DOMAIN kept
        BY <2>4, <2>7, <2>9
      <3>2. t[i] = j[x] /\ x \in DOMAIN j
        BY <2>2, <2>3, <2>4, <2>7, <3>1
      <3> QED
        BY <2>1, <3>2
    <2> QED
      BY <2>8, <2>9
  <1> QED
    BY <1>1, <1>2

\* A step changes the journal by a call of Record or Reset, a restart or not at all.
LEMMA JournalSteps ==
    ASSUME [Next]_vars
    PROVE  \/ \E p \in Procs : RecordUpdate(p) \/ RecordZones(p) \/ ResetJournal(p)
           \/ Restart
           \/ journal' = journal
  <1>1. ASSUME NEW p \in Procs, UpdateStep(p) PROVE RecordUpdate(p) \/ journal' = journal
    BY <1>1 DEF UpdateStep, ReceiveUpdate, LockUpdate, WriteTemp, RenameTemp, SyncDirectory,
                PublishUpdate, ReplyUpdate, store
  <1>2. ASSUME NEW p \in Procs, AdminStep(p)
        PROVE  RecordZones(p) \/ ResetJournal(p) \/ journal' = journal
    BY <1>2 DEF AdminStep, AddZone, ApplyZoneBatch, Admit, PublishZones, RemoveZone, store
  <1>3. CASE NewDay \/ UNCHANGED vars
    BY <1>3 DEF NewDay, store, vars
  <1> QED
    BY <1>1, <1>2, <1>3 DEF Next

\* The difference of two known versions stays that.
LEMMA DeltasStay ==
    ASSUME Control, LiveKnown, PrimaryStep, NEW n, NEW delta, ExactDelta(Known, n, delta)
    PROVE  ExactDelta(Known', n, delta)
  BY KnownGrows DEF ExactDelta

\* What is recorded is the difference of two known versions; nothing else enters.
LEMMA JournalStep ==
    ASSUME Transferring, PrimaryStep PROVE JournalKnown'
  <1> USE DEF Transferring
  <1> SUFFICES ASSUME NEW n \in ZoneNames, NEW i \in DOMAIN journal'[n]
               PROVE  ExactDelta(Known', n, journal'[n][i])
    BY DEF JournalKnown
  <1>1. ASSUME NEW k \in DOMAIN journal[n], journal'[n][i] = journal[n][k]
        PROVE  ExactDelta(Known', n, journal'[n][i])
    <2>1. ExactDelta(Known, n, journal[n][k])
      BY DEF JournalKnown
    <2>2. ExactDelta(Known', n, journal[n][k])
      BY <2>1, DeltasStay
    <2> QED
      BY <1>1, <2>2
  <1>2. journal'[n] = journal[n] => ExactDelta(Known', n, journal'[n][i])
    BY <1>1
  <1>3. journal'[n] # <<>>
    <2>1. DOMAIN <<>> = {}
      OBVIOUS
    <2> QED
      BY <2>1
  <1>4. ASSUME NEW p \in Procs, RecordUpdate(p) \/ RecordZones(p) PROVE ExactDelta(Known', n, journal'[n][i])
    <2>1. /\ RecordWrite(write[p]) /\ write'[p] = write[p] /\ pc[p] \in {"record", "add"}
          /\ pc'[p] \in {"publish", "swap"}
      BY <1>4 DEF RecordUpdate, RecordZones, Goto, Control
    <2>2. journal'[n] = IF n \in write[p].rems THEN NoHistory
                        ELSE IF n \in DOMAIN write[p].ups THEN RecordedJournal(n, write[p].ups[n])
                        ELSE journal[n]
      BY <2>1 DEF RecordWrite
    <2>3. CASE n \in DOMAIN write[p].ups /\ Present(zones[n])
      <3> DEFINE z == write[p].ups[n]
                 v == Version(n, zones[n])
                 w == Version(n, z)
      <3>1. n \notin write[p].rems
        BY <2>1, <2>3, WrittenIsZone
      <3>2. journal'[n] = Record(journal[n], zones[n], z)
        BY <2>2, <2>3, <3>1 DEF RecordedJournal
      <3>3. IsSequence(journal[n])
        BY DEF JournalTruth, Truthful
      <3>4. \/ \E k \in DOMAIN journal[n] : journal'[n][i] = journal[n][k]
            \/ journal'[n][i] = Diff(zones[n], z) /\ SerialGreater(z.soa, zones[n].soa)
        BY <3>2, <3>3, RecordElements
      <3>5. v \in Known'
        BY <2>3, PublishedGrows DEF LiveKnown, Known
      <3>6. w \in Known'
        BY <2>1, <2>3 DEF Known
      <3>7. CASE journal'[n][i] = Diff(zones[n], z) /\ SerialGreater(z.soa, zones[n].soa)
        <4> DEFINE delta == Diff(zones[n], z)
        <4>1. /\ delta.from = v.serial /\ delta.to = w.serial /\ v.name = n /\ w.name = n
              /\ delta.deleted = v.content \ w.content /\ delta.added = w.content \ v.content
              /\ SerialGreater(delta.to, delta.from)
          BY <3>7 DEF Diff, Version
        <4> HIDE DEF delta, v, w
        <4>2. ExactDelta(Known', n, delta)
          BY <3>5, <3>6, <4>1 DEF ExactDelta
        <4> QED
          BY <3>7, <4>2 DEF delta
      <3> QED
        BY <1>1, <3>4, <3>7
    <2>4. CASE ~(n \in DOMAIN write[p].ups /\ Present(zones[n]))
      BY <1>2, <1>3, <2>2, <2>4 DEF RecordedJournal, NoHistory
    <2> QED
      BY <2>3, <2>4
  <1>5. ASSUME NEW p \in Procs, ResetJournal(p) PROVE ExactDelta(Known', n, journal'[n][i])
    <2>1. RecordWrite(write[p]) /\ \E m \in ZoneNames : write[p] = [ups |-> <<>>, rems |-> {m}]
      BY <1>5 DEF ResetJournal, Control, Fit
    <2>2. DOMAIN write[p].ups = {}
      BY <2>1
    <2>3. journal'[n] = NoHistory \/ journal'[n] = journal[n]
      BY <2>1, <2>2 DEF RecordWrite
    <2> QED
      BY <1>2, <1>3, <2>3 DEF NoHistory
  <1>6. [Next]_vars /\ ~Restart
    BY PrimaryIsNext
  <1> QED
    BY <1>2, <1>4, <1>5, <1>6, JournalSteps

-----------------------------------------------------------------------------
(* The copies, for every behaviour.                                        *)

\* Every step keeps the invariant.
LEMMA TransferStep ==
    ASSUME Transferring, [XNext]_xvars PROVE Transferring'
  <1> USE DEF Transferring
  <1>1. CASE PrimaryStep
    <2>1. [Next]_vars
      BY <1>1, PrimaryIsNext
    <2>2. Control' /\ FilesReadable' /\ LiveZonesValid' /\ JournalTruth'
      BY <2>1, ControlStep, ReadableStep, ValidStep, TruthStep
    <2>3. LiveKnown'
      BY <1>1, LiveStep
    <2>4. PublishedShaped'
      BY <1>1, <2>2, <2>3, ShapedStep
    <2>5. JournalKnown'
      BY <1>1, JournalStep
    <2>6. DOMAIN copy' = Secondaries /\ DOMAIN session' = Secondaries /\ SessionsHold'
      BY <1>1, PublishedGrows DEF SessionsHold
    <2> QED
      BY <2>2, <2>3, <2>4, <2>5, <2>6
  <1>2. ASSUME UNCHANGED <<vars, published>>
        PROVE  /\ Control' /\ FilesReadable' /\ LiveZonesValid' /\ JournalTruth'
               /\ LiveKnown' /\ PublishedShaped' /\ JournalKnown'
    <2>1. [Next]_vars
      BY <1>2
    <2>2. Control' /\ FilesReadable' /\ LiveZonesValid' /\ JournalTruth'
      BY <2>1, ControlStep, ReadableStep, ValidStep, TruthStep
    <2>3. UNCHANGED <<zones, journal, pc, write, published>>
      BY <1>2 DEF vars
    <2>4. LiveKnown' /\ PublishedShaped' /\ JournalKnown'
      BY <2>3 DEF LiveKnown, PublishedShaped, JournalKnown, ExactDelta, Known
    <2> QED
      BY <2>2, <2>4
  <1>3. ASSUME NEW s \in Secondaries, BeginTransfer(s) PROVE Transferring'
    <2> DEFINE n == ZoneOfSecondary[s]
               z == zones[n]
    <2>1. /\ Present(z) /\ session' = [session EXCEPT ![s] = [open |-> TRUE, zone |-> z]]
          /\ UNCHANGED <<vars, copy, published>>
      BY <1>3 DEF BeginTransfer
    <2>2. n \in ZoneNames
      BY SecondariesAssumption
    <2>3. IsZone(z) /\ z.soa \in Serial /\ Validate(z) /\ Version(n, z) \in published
      BY <2>1, <2>2 DEF LiveKnown, LiveZonesValid, Control, HasSOA
    <2>4. session'[s].zone = z /\ \A t \in Secondaries : t # s => session'[t] = session[t]
      BY <2>1
    <2>5. SessionsHold'
      <3> SUFFICES ASSUME NEW t \in Secondaries, session'[t].open
                   PROVE  LET y == session'[t].zone IN
                          /\ IsZone(y) /\ y.soa \in Serial /\ Validate(y)
                          /\ Version(ZoneOfSecondary[t], y) \in published'
        BY DEF SessionsHold
      <3>1. CASE t = s
        BY <2>1, <2>3, <2>4, <3>1
      <3>2. CASE t # s
        BY <2>1, <2>4, <3>2 DEF SessionsHold
      <3> QED
        BY <3>1, <3>2
    <2>6. DOMAIN copy' = Secondaries /\ DOMAIN session' = Secondaries
      BY <2>1
    <2> QED
      BY <1>2, <2>1, <2>5, <2>6
  <1>4. ASSUME NEW s \in Secondaries, FinishTransfer(s) \/ AbortTransfer(s) PROVE Transferring'
    <2>1. /\ session' = [session EXCEPT ![s] = NoSession] /\ UNCHANGED <<vars, published>>
          /\ DOMAIN copy' = Secondaries
      BY <1>4 DEF FinishTransfer, AbortTransfer
    <2>2. \A t \in Secondaries : session'[t].open => session[t].open /\ session'[t] = session[t]
      BY <2>1 DEF NoSession
    <2>3. SessionsHold'
      BY <2>1, <2>2 DEF SessionsHold
    <2>4. DOMAIN session' = Secondaries
      BY <2>1
    <2> QED
      BY <1>2, <2>1, <2>3, <2>4
  <1>5. CASE UNCHANGED xvars
    <2>1. UNCHANGED <<vars, copy, session, published>>
      BY <1>5 DEF xvars
    <2> QED
      BY <1>2, <2>1 DEF SessionsHold
  <1> QED
    BY <1>1, <1>3, <1>4, <1>5 DEF XNext, SecondaryStep

\* No step makes what the primary published orderly again.
LEMMA OrderlyBefore ==
    ASSUME Transferring, [XNext]_xvars, Orderly' PROVE Orderly
  <1>1. Known \subseteq Known'
    <2>1. CASE PrimaryStep
      BY <2>1, KnownGrows DEF Transferring
    <2>2. CASE UNCHANGED <<vars, published>>
      BY <2>2 DEF vars, Known
    <2> QED
      BY <2>1, <2>2 DEF XNext, SecondaryStep, BeginTransfer, FinishTransfer, AbortTransfer, xvars
  <1> QED
    BY <1>1 DEF Orderly, OneTTL

\* Every step that leaves the history orderly keeps the copies.
LEMMA CopiesStep ==
    ASSUME Transferring, Orderly => CopiesHold, [XNext]_xvars PROVE (Orderly => CopiesHold)'
  <1> SUFFICES ASSUME Orderly' PROVE CopiesHold'
    OBVIOUS
  <1>1. Orderly /\ CopiesHold
    BY OrderlyBefore
  <1>2. KnownVersions
    BY KnownHold DEF Transferring
  <1>3. CASE copy' = copy /\ published \subseteq published'
    BY <1>1, <1>3 DEF CopiesHold
  <1>4. PrimaryStep => copy' = copy /\ published \subseteq published'
    BY PublishedGrows
  <1>5. ASSUME NEW s \in Secondaries, BeginTransfer(s) \/ AbortTransfer(s)
        PROVE  copy' = copy /\ published \subseteq published'
    BY <1>5 DEF BeginTransfer, AbortTransfer
  <1>6. ASSUME NEW s \in Secondaries, FinishTransfer(s) PROVE CopiesHold'
    BY <1>1, <1>2, <1>6, FinishHolds DEF Transferring
  <1>7. UNCHANGED xvars => copy' = copy /\ published \subseteq published'
    BY DEF xvars
  <1> QED
    BY <1>3, <1>4, <1>5, <1>6, <1>7 DEF XNext, SecondaryStep

\* The inductive invariant of a primary and its secondaries.
LEMMA CopiesAlwaysHold == XSpec => [](Transferring /\ (Orderly => CopiesHold))
  BY TransferInit, TransferStep, CopiesStep, PTL DEF XSpec

\* What the invariant says of the two properties.
LEMMA TransferProperties ==
    ASSUME Transferring, Orderly => CopiesHold
    PROVE  /\ Orderly => CopyIsAPublishedVersion
           /\ Orderly => EveryAnswerApplies
  BY AnswersApply, KnownHold DEF Transferring

\* ixfr.go applyTransfer on axfr.go's answers: as long as no serial has stood for two
\* contents of a zone and RRsets have one TTL and no duplicates, whatever transfers,
\* UPDATEs, zone administration and broken connections interleave, a secondary serves,
\* record for record, a version the primary published under that serial.
THEOREM CopiesArePublished == XSpec => [](Orderly => CopyIsAPublishedVersion)
  BY CopiesAlwaysHold, TransferProperties, PTL

\* ... and no answer is in vain: each applies without an error, passes Validate and
\* leads to exactly the version the primary took its snapshot of.
THEOREM AnswersAlwaysApply == XSpec => [](Orderly => EveryAnswerApplies)
  BY CopiesAlwaysHold, TransferProperties, PTL
=============================================================================

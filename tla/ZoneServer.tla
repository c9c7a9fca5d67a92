----------------------------- MODULE ZoneServer -----------------------------
(***************************************************************************)
(* The authoritative zone store of internal/server: the map cfg.Zones, the *)
(* IXFR journal and the zone files, and the goroutines that change them.   *)
(*                                                                         *)
(* Every writer holds persistMu from the moment it reads the live zone to  *)
(* the moment it publishes a replacement; the map itself is guarded by     *)
(* zonesMu, which is only held for one access, and the journal has a mutex *)
(* of its own.  A reader that holds neither therefore sees the states      *)
(* between a writer's steps, which is why each writer is several actions.  *)
(*                                                                         *)
(* An UPDATE is                                                            *)
(*   ReceiveUpdate  guards that need no lock                               *)
(*   LockUpdate     persistMu, re-read, prerequisites, clone, apply,       *)
(*                  Validate, IncrementSerial                              *)
(*   WriteTemp, RenameTemp, SyncDirectory   persistZone                    *)
(*   RecordUpdate   ixfrJournal.Record                                     *)
(*   PublishUpdate  swap the map entry, unlock                             *)
(*   ReplyUpdate    the NOERROR answer (and the NOTIFY that follows it)    *)
(* AddZone, ApplyZoneBatch and RemoveZone take the same lock.              *)
(***************************************************************************)
EXTENDS Journal

CONSTANTS
    ZoneNames,     \* origins the server may be authoritative for
    Procs,         \* goroutines serving UPDATE requests and zone administration
    Persisted,     \* origins with a persist path
    Messages,      \* UPDATE requests: [zone, authorized, contained, prereqs, updates]
    Images,        \* zones built outside the server: [name, zone]
    InitialFiles,  \* [ZoneNames -> file], what is on disk at the first start
    DefaultTTL,    \* the TTL a reloaded zone file gives its records
    FirstDay,      \* today's YYYYMMDD00 when the server first starts
    Faults,        \* the file-system calls that may fail
    MaxJobs,       \* bound: requests served
    MaxDays,       \* bound: midnights that pass
    MaxBoots       \* bound: restarts

ASSUME PersistedAssumption == Persisted \subseteq ZoneNames
ASSUME FirstDayAssumption ==
    /\ FirstDay \in Nat /\ MaxDays \in Nat
    /\ FirstDay + MaxDays * (PerDay + 1) < Half /\ PerDay <= Half
ASSUME BoundsAssumption == MaxJobs \in Nat /\ MaxBoots \in Nat

VARIABLES
    zones,    \* cfg.Zones: the live zone of every origin, or NoZone
    journal,  \* ixfrJournal.zones
    fileNow,  \* the zone file as the running system sees it
    fileSafe, \* the zone file a power failure would leave at worst
    mu,       \* the holder of persistMu, or Free
    pc,       \* what each goroutine does next
    job,      \* the request each goroutine is serving
    write,    \* [ups, rems]: the map change each goroutine is about to publish
    reply,    \* the rcode of each goroutine's last request
    today,    \* the date as a serial, YYYYMMDD00
    hist,     \* history: contents published since the journal last restarted
    byUpdate, \* history: origins whose live zone an UPDATE published
    jobs,     \* history: requests served
    boots     \* history: restarts

NoZone == [soa |-> -1, soaRec |-> -1, rrs |-> <<>>]
NoFile == [serial |-> -1, rrs |-> <<>>]
AutoSerial == -2
Free == "free"
ASSUME ProcsAssumption == Free \notin Procs
NoJob == [zone |-> "none", authorized |-> FALSE, contained |-> FALSE,
          prereqs |-> <<>>, updates |-> <<>>]
Nothing == [ups |-> <<>>, rems |-> {}]

HasSOA(z) == z.soa \in Serial /\ z.soaRec \in Serial

\* Requests and zones name an origin of the server, and a zone has its SOA.
ASSUME InputsAssumption ==
    /\ \A m \in Messages : m.zone \in ZoneNames
    /\ \A i \in Images : i.name \in ZoneNames /\ HasSOA(i.zone)
    /\ DOMAIN InitialFiles = ZoneNames
    /\ \A n \in ZoneNames : InitialFiles[n] # NoFile => InitialFiles[n].serial \in Serial \cup {AutoSerial}

store == <<zones, journal, hist, byUpdate>>
disk == <<fileNow, fileSafe>>
local == <<pc, job, write, reply>>
vars == <<zones, journal, fileNow, fileSafe, mu, pc, job, write, reply, today,
          hist, byUpdate, jobs, boots>>

-----------------------------------------------------------------------------
(* Zone files.  SerializeDNSZone writes the serial as "auto" and one TTL   *)
(* for the zone; parsing a file turns "auto" into the serial of the day.   *)

Serialized(z) == [serial |-> AutoSerial, rrs |-> z.rrs]

\* Mutant: the file's "auto" is never resolved to a serial.
ParsedKeepingAuto(f) ==
    IF f = NoFile THEN NoZone ELSE [soa |-> f.serial, soaRec |-> f.serial, rrs |-> f.rrs]

\* Mutant: of each RRset only the first record survives the file.
ParsedFirstOnly(f) ==
    IF f = NoFile THEN NoZone
    ELSE LET serial == IF f.serial = AutoSerial THEN today ELSE f.serial
         IN [soa |-> serial, soaRec |-> serial,
             rrs |-> [k \in DOMAIN f.rrs |-> <<f.rrs[k][1]>>]]

Parsed(f) ==
    IF f = NoFile THEN NoZone
    ELSE LET serial == IF f.serial = AutoSerial THEN today ELSE f.serial
             OneTTL(items) ==
                 [i \in DOMAIN items |-> [data |-> items[i].data, ttl |-> DefaultTTL]]
         IN [soa |-> serial, soaRec |-> serial,
             rrs |-> [k \in DOMAIN f.rrs |-> OneTTL(f.rrs[k])]]

-----------------------------------------------------------------------------
(* The steps writers share.                                                *)

Present(z) == z # NoZone

\* Journal entry and published contents of origin n when z replaces its zone.
RecordedJournal(n, z) ==
    IF Present(zones[n]) THEN Record(journal[n], zones[n], z) ELSE NoHistory

RecordedHist(n, z) ==
    IF Present(zones[n]) /\ SerialGreater(z.soa, zones[n].soa)
    THEN Append(hist[n], recordSet(z))
    ELSE <<recordSet(z)>>

\* The journal calls a writer makes before it touches the zone map.
RecordWrite(w) ==
    /\ journal' = [n \in ZoneNames |->
                     IF n \in w.rems THEN NoHistory
                     ELSE IF n \in DOMAIN w.ups THEN RecordedJournal(n, w.ups[n])
                     ELSE journal[n]]
    /\ hist' = [n \in ZoneNames |->
                     IF n \in w.rems THEN <<>>
                     ELSE IF n \in DOMAIN w.ups THEN RecordedHist(n, w.ups[n])
                     ELSE hist[n]]

\* The single assignment under zonesMu that makes the change visible.
SwapZones(w) ==
    zones' = [n \in ZoneNames |->
                IF n \in w.rems THEN NoZone
                ELSE IF n \in DOMAIN w.ups THEN w.ups[n]
                ELSE zones[n]]

Goto(p, label) == pc' = [pc EXCEPT ![p] = label]

Lock(p) == mu = Free /\ mu' = p

\* Answer with an rcode and drop whatever was being prepared.
Finish(p, rcode) ==
    /\ pc' = [pc EXCEPT ![p] = "idle"]
    /\ job' = [job EXCEPT ![p] = NoJob]
    /\ write' = [write EXCEPT ![p] = Nothing]
    /\ reply' = [reply EXCEPT ![p] = rcode]

-----------------------------------------------------------------------------
(* UPDATE (internal/server/update.go).                                     *)

\* Guards 4-7: zone lookup, key and address authorization, containment.
updateGuard(m) ==
    CASE ~Present(zones[m.zone]) -> "REFUSED"
      [] Present(zones[m.zone]) /\ ~m.authorized -> "REFUSED"
      [] Present(zones[m.zone]) /\ m.authorized /\ ~m.contained -> "NOTZONE"
      [] OTHER -> "NOERROR"

ReceiveUpdate(p, m) ==
    /\ pc[p] = "idle" /\ jobs < MaxJobs
    /\ jobs' = jobs + 1
    /\ \/ /\ updateGuard(m) = "NOERROR"
          /\ job' = [job EXCEPT ![p] = m]
          /\ Goto(p, "lock")
          /\ UNCHANGED <<write, reply>>
       \/ /\ updateGuard(m) # "NOERROR"
          /\ Finish(p, updateGuard(m))
    /\ UNCHANGED <<store, disk, mu, today, boots>>

\* The zone is read again under the lock: it may have gone since the guards.
LockUpdate(p) ==
    /\ pc[p] = "lock"
    /\ mu = Free
    /\ LET m == job[p]
           live == zones[m.zone]
           outcome == updateOutcome(live, m, today)
       IN \/ /\ Present(live) /\ outcome.rcode = "NOERROR"
             /\ mu' = p
             /\ write' = [write EXCEPT ![p] = [ups |-> [n \in {m.zone} |-> outcome.zone], rems |-> {}]]
             /\ Goto(p, IF m.zone \in Persisted THEN "temp" ELSE "record")
             /\ UNCHANGED <<job, reply>>
          \/ /\ ~(Present(live) /\ outcome.rcode = "NOERROR")
             /\ mu' = mu
             /\ Finish(p, IF Present(live) THEN outcome.rcode ELSE "REFUSED")
    /\ UNCHANGED <<store, disk, today, jobs, boots>>

\* Mutant: the error path of persistZone returns with persistMu held.
FailPersistHolding(p) == mu' = mu /\ Finish(p, "SERVFAIL")

FailPersist(p) ==
    /\ mu' = Free
    /\ Finish(p, "SERVFAIL")

\* CreateTemp, Write, Sync, Close: the zone file itself is not involved.
WriteTemp(p) ==
    /\ pc[p] = "temp"
    /\ \/ Goto(p, "rename") /\ UNCHANGED <<mu, job, write, reply>>
       \/ "write" \in Faults /\ FailPersist(p)
    /\ UNCHANGED <<store, disk, today, jobs, boots>>

\* The rename replaces the file at once, but the directory entry is not yet
\* safe from a power failure.
RenameTemp(p) ==
    LET n == job[p].zone IN
    /\ pc[p] = "rename"
    /\ \/ /\ fileNow' = [fileNow EXCEPT ![n] = Serialized(write[p].ups[n])]
          /\ Goto(p, "sync")
          /\ UNCHANGED <<mu, job, write, reply>>
       \/ "rename" \in Faults /\ FailPersist(p) /\ UNCHANGED fileNow
    /\ UNCHANGED <<store, fileSafe, today, jobs, boots>>

\* Mutant: the directory is not synced.
SkipDirectorySync(p) ==
    /\ pc[p] = "sync"
    /\ Goto(p, "record")
    /\ UNCHANGED <<store, disk, mu, job, write, reply, today, jobs, boots>>

\* Opening or syncing the directory may fail after the rename took effect.
SyncDirectory(p) ==
    LET n == job[p].zone IN
    /\ pc[p] = "sync"
    /\ \/ /\ fileSafe' = [fileSafe EXCEPT ![n] = fileNow[n]]
          /\ Goto(p, "record")
          /\ UNCHANGED <<mu, job, write, reply>>
       \/ "sync" \in Faults /\ FailPersist(p) /\ UNCHANGED fileSafe
    /\ UNCHANGED <<store, fileNow, today, jobs, boots>>

RecordUpdate(p) ==
    /\ pc[p] = "record"
    /\ RecordWrite(write[p])
    /\ Goto(p, "publish")
    /\ UNCHANGED <<zones, byUpdate, disk, mu, job, write, reply, today, jobs, boots>>

PublishUpdate(p) ==
    /\ pc[p] = "publish"
    /\ SwapZones(write[p])
    /\ byUpdate' = byUpdate \cup {job[p].zone}
    /\ mu' = Free
    /\ Goto(p, "reply")
    /\ UNCHANGED <<journal, hist, disk, job, write, reply, today, jobs, boots>>

ReplyUpdate(p) ==
    /\ pc[p] = "reply"
    /\ Finish(p, "NOERROR")
    /\ UNCHANGED <<store, disk, mu, today, jobs, boots>>

-----------------------------------------------------------------------------
(* Zone administration (internal/server/server.go).                        *)

\* Mutant: zones are admitted without Validate.
AdmitUnchecked(p, w, next) ==
    /\ pc[p] = "idle" /\ jobs < MaxJobs
    /\ jobs' = jobs + 1
    /\ write' = [write EXCEPT ![p] = w]
    /\ Goto(p, next)
    /\ UNCHANGED <<store, disk, mu, job, reply, today, boots>>

\* Validation needs no lock; the whole request fails on the first bad zone.
Admit(p, w, next) ==
    /\ pc[p] = "idle" /\ jobs < MaxJobs
    /\ jobs' = jobs + 1
    /\ \/ /\ \A n \in DOMAIN w.ups : Validate(w.ups[n])
          /\ write' = [write EXCEPT ![p] = w]
          /\ Goto(p, next)
          /\ UNCHANGED <<job, reply>>
       \/ /\ \E n \in DOMAIN w.ups : ~Validate(w.ups[n])
          /\ Finish(p, "INVALID")
    /\ UNCHANGED <<store, disk, mu, today, boots>>

AddZone(p, image) ==
    Admit(p, [ups |-> [n \in {image.name} |-> image.zone], rems |-> {}], "add")

\* A batch that names an origin twice is refused before any lock is taken.
ApplyZoneBatch(p, chosen, removals) ==
    /\ \A i, j \in chosen : i.name = j.name => i = j
    /\ \A i \in chosen : i.name \notin removals
    /\ chosen # {} \/ removals # {}
    /\ LET names == {i.name : i \in chosen}
           ups == [n \in names |-> (CHOOSE i \in chosen : i.name = n).zone]
       IN Admit(p, [ups |-> ups, rems |-> removals], "add")

\* Mutant: AddZone does not take persistMu.
RecordZonesUnlocked(p) ==
    /\ pc[p] = "add"
    /\ RecordWrite(write[p])
    /\ Goto(p, "swap")
    /\ UNCHANGED <<zones, byUpdate, disk, mu, job, write, reply, today, jobs, boots>>

RecordZones(p) ==
    /\ pc[p] = "add"
    /\ Lock(p)
    /\ RecordWrite(write[p])
    /\ Goto(p, "swap")
    /\ UNCHANGED <<zones, byUpdate, disk, job, write, reply, today, jobs, boots>>

PublishZones(p) ==
    /\ pc[p] = "swap"
    /\ SwapZones(write[p])
    /\ byUpdate' = byUpdate \ (DOMAIN write[p].ups \cup write[p].rems)
    /\ mu' = Free
    /\ Finish(p, "OK")
    /\ UNCHANGED <<journal, hist, disk, today, jobs, boots>>

\* RemoveZone deletes the map entry first and resets the journal afterwards.
RemoveZone(p, n) ==
    /\ pc[p] = "idle" /\ jobs < MaxJobs
    /\ Lock(p)
    /\ jobs' = jobs + 1
    /\ write' = [write EXCEPT ![p] = [ups |-> <<>>, rems |-> {n}]]
    /\ zones' = [zones EXCEPT ![n] = NoZone]
    /\ byUpdate' = byUpdate \ {n}
    /\ Goto(p, "reset")
    /\ UNCHANGED <<journal, hist, disk, job, reply, today, boots>>

ResetJournal(p) ==
    /\ pc[p] = "reset"
    /\ RecordWrite(write[p])
    /\ mu' = Free
    /\ Finish(p, "OK")
    /\ UNCHANGED <<zones, byUpdate, disk, today, jobs, boots>>

-----------------------------------------------------------------------------
(* The environment: midnight, and a stop of the process or the machine.    *)

NewDay ==
    /\ today < FirstDay + MaxDays * (PerDay + 1)
    /\ today' = today + PerDay + 1
    /\ UNCHANGED <<store, disk, mu, local, jobs, boots>>

\* Start-up parses every configured file and adds the zones that validate to an
\* empty store.
Loaded(files) ==
    [n \in ZoneNames |->
       IF files[n] # NoFile /\ Validate(Parsed(files[n]))
       THEN Parsed(files[n]) ELSE NoZone]

\* A process that stops leaves the file it last renamed; a machine that loses
\* power may lose a rename whose directory was not synced.
Restart ==
    /\ boots < MaxBoots
    /\ boots' = boots + 1
    /\ \E left \in {fileNow, fileSafe} :
          /\ fileNow' = left /\ fileSafe' = left
          /\ zones' = Loaded(left)
          /\ hist' = [n \in ZoneNames |->
                        IF Present(Loaded(left)[n]) THEN <<recordSet(Loaded(left)[n])>>
                        ELSE <<>>]
    /\ journal' = [n \in ZoneNames |-> NoHistory]
    /\ byUpdate' = {}
    /\ mu' = Free
    /\ pc' = [p \in Procs |-> "idle"]
    /\ job' = [p \in Procs |-> NoJob]
    /\ write' = [p \in Procs |-> Nothing]
    /\ reply' = [p \in Procs |-> "none"]
    /\ UNCHANGED <<today, jobs>>

Init ==
    /\ today = FirstDay
    /\ fileNow = InitialFiles /\ fileSafe = InitialFiles
    /\ zones = Loaded(InitialFiles)
    /\ hist = [n \in ZoneNames |->
                 IF Present(zones[n]) THEN <<recordSet(zones[n])>> ELSE <<>>]
    /\ journal = [n \in ZoneNames |-> NoHistory]
    /\ byUpdate = {}
    /\ mu = Free
    /\ pc = [p \in Procs |-> "idle"]
    /\ job = [p \in Procs |-> NoJob]
    /\ write = [p \in Procs |-> Nothing]
    /\ reply = [p \in Procs |-> "none"]
    /\ jobs = 0 /\ boots = 0

UpdateStep(p) ==
    \/ \E m \in Messages : ReceiveUpdate(p, m)
    \/ LockUpdate(p)
    \/ WriteTemp(p) \/ RenameTemp(p) \/ SyncDirectory(p)
    \/ RecordUpdate(p) \/ PublishUpdate(p) \/ ReplyUpdate(p)

AdminStep(p) ==
    \/ \E image \in Images : AddZone(p, image)
    \/ \E chosen \in SUBSET Images, removals \in SUBSET ZoneNames :
          ApplyZoneBatch(p, chosen, removals)
    \/ RecordZones(p) \/ PublishZones(p)
    \/ \E n \in ZoneNames : RemoveZone(p, n)
    \/ ResetJournal(p)

Next == \/ \E p \in Procs : UpdateStep(p) \/ AdminStep(p)
        \/ NewDay
        \/ Restart

Spec == Init /\ [][Next]_vars

\* A request that was accepted is carried through: goroutines are scheduled, and
\* Go's mutex hands itself to a waiter that has been starved.
ServeStep(p) ==
    \/ WriteTemp(p) \/ RenameTemp(p) \/ SyncDirectory(p)
    \/ RecordUpdate(p) \/ PublishUpdate(p) \/ ReplyUpdate(p)
    \/ PublishZones(p) \/ ResetJournal(p)

AcquireStep(p) == LockUpdate(p) \/ RecordZones(p)

FairSpec ==
    /\ Spec
    /\ \A p \in Procs : WF_vars(ServeStep(p)) /\ SF_vars(AcquireStep(p))

-----------------------------------------------------------------------------
(* What makes the store correct.                                           *)

Labels == {"idle", "lock", "temp", "rename", "sync", "record", "publish",
           "reply", "add", "swap", "reset"}

\* Goroutines inside the persistMu critical section.
Holding == {"temp", "rename", "sync", "record", "publish", "swap", "reset"}

\* Shapes of the control state, and a serial in every live zone.
TypeOK ==
    /\ DOMAIN zones = ZoneNames
    /\ \A n \in ZoneNames : Present(zones[n]) => HasSOA(zones[n])
    /\ DOMAIN journal = ZoneNames /\ DOMAIN hist = ZoneNames
    /\ pc \in [Procs -> Labels]
    /\ mu \in Procs \cup {Free}
    /\ today \in Serial
    /\ \A p \in Procs : DOMAIN write[p].ups \subseteq ZoneNames

\* The journal entries of n, applied in order to the contents published before
\* them, give the contents published after them, and each starts at the serial
\* where the one before it ended (journal.go: "a contiguous oldest-to-newest
\* chain").
JournalReplays ==
    \A n \in ZoneNames :
        LET offset == Len(hist[n]) - Len(journal[n]) IN
        /\ Len(journal[n]) <= MaxDeltas
        /\ journal[n] # <<>> => offset >= 1
        /\ \A i \in 1 .. Len(journal[n]) :
              hist[n][offset + i] = Patch(hist[n][offset + i - 1], journal[n][i])
        /\ \A i \in 1 .. (Len(journal[n]) - 1) :
              journal[n][i].to = journal[n][i + 1].from

\* The history of n ends with zone z.
Meets(n, z) ==
    /\ hist[n] # <<>>
    /\ Last(hist[n]) = recordSet(z)
    /\ journal[n] # <<>> => Last(journal[n]).to = z.soa

\* The journal runs ahead of the map only for the writer between Record and the
\* swap, and then by exactly the zone that writer is about to publish; otherwise
\* it ends at the live zone.  Nobody can record a version from anything else.
JournalMeetsZone ==
    \A n \in ZoneNames :
        LET ahead == {p \in Procs : pc[p] \in {"publish", "swap"}
                                    /\ n \in DOMAIN write[p].ups}
            dropped == \E p \in Procs : pc[p] = "swap" /\ n \in write[p].rems
        IN /\ \A p \in ahead : Meets(n, write[p].ups[n])
           /\ ahead = {} /\ ~dropped /\ Present(zones[n]) => Meets(n, zones[n])

\* An incremental answer computed at any moment, the window between Record and
\* the swap included, walks from one published version to the next and ends at
\* the content of the zone the answer names.
IncrementalAnswersExact ==
    \A n \in ZoneNames : \A i \in DOMAIN journal[n] :
        LET from == journal[n][i].from
            first == Min({j \in DOMAIN journal[n] : journal[n][j].from = from})
            base == Len(hist[n]) - Len(journal[n]) + first - 1
            changes == Changes(journal[n], from, zones[n].soa)
        IN (Present(zones[n]) /\ HasChanges(journal[n], from, zones[n].soa))
           => /\ \A k \in DOMAIN changes :
                   hist[n][base + k] = Patch(hist[n][base + k - 1], changes[k])
              /\ hist[n][base + Len(changes)] = recordSet(zones[n])

\* No sequence of UPDATEs, however they interleave with zone administration and
\* restarts, leaves a live zone without name servers, without glue, or with a
\* CNAME beside other data (update.go steps 12-13).
LiveZonesValid ==
    \A n \in ZoneNames : Present(zones[n]) => Validate(zones[n])

Values(rrs) ==
    UNION {{[key |-> k, data |-> e.data] : e \in ToSet(rrs[k])} : k \in DOMAIN rrs}

\* The UPDATE of n whose file is written but whose zone is not published yet.
InFlight(n) ==
    {Values(write[p].ups[n].rrs) :
       p \in {q \in Procs : pc[q] \in Holding /\ n \in DOMAIN write[q].ups}}

\* An UPDATE that readers can see is already safe from a power failure
\* (update.go step 15: durable before published or acknowledged).
DurableBeforeVisible ==
    \A n \in Persisted \cap byUpdate :
        Values(fileSafe[n].rrs) \in {Values(zones[n].rrs)} \cup InFlight(n)

\* The journal tells secondaries the truth at every moment: its deltas are a
\* chain, the chain leads to the live zone, and an incremental answer is the
\* difference between the two versions it names.
JournalIsExact == JournalReplays /\ JournalMeetsZone /\ IncrementalAnswersExact

\* A zone readers can see is one the server may stand for: valid, and safe from
\* a power failure if an UPDATE made it.
PublishedZonesSound == LiveZonesValid /\ DurableBeforeVisible

\* A restart brings back the records last published by UPDATE, or those of the
\* one UPDATE whose commit it interrupted, and nothing else.
RestartKeepsUpdates ==
    [][boots' # boots =>
         \A n \in Persisted \cap byUpdate :
             Values(zones'[n].rrs) \in {Values(zones[n].rrs)} \cup InFlight(n)]_vars

\* Every accepted request is answered: no error path leaves persistMu held.
EveryRequestAnswered ==
    \A p \in Procs : (pc[p] # "idle") ~> (pc[p] = "idle")

Store == INSTANCE AtomicZoneStore WITH zones <- zones, boots <- boots

\* Concurrent writers are equivalent to atomic ones: an UPDATE is computed from
\* the zone it replaces, so no committed change is lost, and a batch appears at
\* once (update.go step 9: "linearizable with AddZone and batches").
WritersAreAtomic == Store!Spec

-----------------------------------------------------------------------------
(* What the repository says and the code does not do.                      *)

\* update_durability_test.go:45 wants the persisted serial to be the live one.
PersistedSerialIsLive ==
    \A n \in Persisted \cap byUpdate :
        InFlight(n) = {} => Parsed(fileNow[n]).soa = zones[n].soa

\* zone.go:205: "keep z.SOA consistent with Records", so that an SOA query and
\* a transfer of the same zone name the same serial.
SOARecordsAgree ==
    \A n \in ZoneNames :
        Present(zones[n]) => ExactRecords(zones[n], Origin, "SOA")[1].data = <<zones[n].soa>>

=============================================================================

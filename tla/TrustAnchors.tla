---------------------------- MODULE TrustAnchors ----------------------------
(***************************************************************************)
(* Automated maintenance of the root trust anchors, RFC 5011               *)
(* (internal/dnssec/rfc5011.go).                                           *)
(*                                                                         *)
(* refresh fetches the root DNSKEY RRset and process moves the keys it     *)
(* knows from state to state, writes them to the state file and replaces   *)
(* the validator's anchors.  process holds m.mu; validators read the       *)
(* anchors without it, and a crash may fall between any two of its parts,  *)
(* so the parts are steps.  A write may fail before the rename or after.   *)
(*                                                                         *)
(* A response is [form, sigs, ttl]: how each key appears in the RRset,     *)
(* which keys signed it, and its TTL.  The tag of a key changes with its   *)
(* REVOKE bit, so a signature counts for the form the key appears in.      *)
(* Times are ages in days, counted up to MaxHold, past which they make no  *)
(* difference.                                                             *)
(***************************************************************************)
EXTENDS Integers, FiniteSets

CONSTANTS
    Keys,               \* root DNSKEYs
    Eligible,           \* those with the SEP flag and an enabled algorithm
    Bootstrap,          \* those in the trust anchor file
    TTLs,
    AddHoldDown,        \* 30 days in the program
    RemoveHoldDown,     \* 30 days in the program
    MaxHold,            \* the longest hold-down
    MaxFaults,          \* bound on failed writes and crashes
    Settleable          \* RRsets the root zone may settle on

ASSUME AnchorAssumption ==
    /\ Bootstrap \subseteq Eligible /\ Eligible \subseteq Keys
    /\ Bootstrap # {}
    /\ AddHoldDown \in Nat /\ RemoveHoldDown \in Nat /\ MaxHold \in Nat
    /\ MaxFaults \in Nat
    /\ TTLs # {} /\ TTLs \subseteq 0 .. MaxHold /\ AddHoldDown <= MaxHold /\ RemoveHoldDown <= MaxHold

VARIABLES
    keys,     \* m.keys: an item per key
    disk,     \* the state file: written or not, and the items in it
    live,     \* the anchors the validator uses
    pc,       \* the part of process that runs next
    rrset,    \* the response being processed
    steady,   \* the response that is the only one from now on, if any
    faults,   \* failed writes and crashes so far
    seen,     \* ghost: how long each new key has been in every accepted RRset
    seenDisk  \* ghost: the same as of the last write of the state file

vars == <<keys, disk, live, pc, rrset, steady, faults, seen, seenDisk>>

States == {"unknown", "add-pending", "valid", "missing", "revoked", "removed"}
Item(state, hold, by) == [state |-> state, age |-> 0, hold |-> hold, by |-> by]
Unknown == Item("unknown", 0, {})
Items == [state : States, age : 0 .. MaxHold, hold : 0 .. MaxHold, by : SUBSET Keys]
Responses == [form : [Keys -> {"absent", "active", "revoked"}], sigs : SUBSET Keys, ttl : TTLs]
ASSUME SettleAssumption == Settleable \subseteq Responses
Never == -1
New == Keys \ Bootstrap
Silence == [form |-> [k \in Keys |-> "absent"], sigs |-> {}, ttl |-> CHOOSE t \in TTLs : TRUE]

\* States whose keys are trusted, and states a key never leaves for them.
Trusted == {"valid", "missing"}
Withdrawn == {"revoked", "removed"}

usableAnchors(items) == {k \in Keys : items[k].state \in Trusted}

\* The trusted keys whose signature over the RRset verifies.
Validators(r) == {k \in usableAnchors(keys) : k \in r.sigs /\ r.form[k] # "revoked"}

\* What refresh may be answered; once the root zone has settled, only that.
Answers == IF steady = {} THEN Responses ELSE steady

\* selfSignedDNSKEY of a trusted key with the REVOKE bit.
Revoking(r) == {k \in usableAnchors(keys) : k \in r.sigs /\ r.form[k] = "revoked"}

-----------------------------------------------------------------------------
(* loadOrBootstrap, publishAnchors and persist.                            *)

publishAnchors == live' = usableAnchors(keys)

\* The temporary file is renamed over the state file unless the write fails
\* before; the sync of the directory may fail after it.
persist(items, failed) ==
    /\ failed => steady = {} /\ faults < MaxFaults
    /\ faults' = faults + (IF failed THEN 1 ELSE 0)
    /\ \/ disk' = [written |-> TRUE, items |-> items] /\ seenDisk' = seen
       \/ failed /\ UNCHANGED <<disk, seenDisk>>

Fresh == [k \in Keys |-> IF k \in Bootstrap THEN Item("valid", 0, {}) ELSE Unknown]

\* newRFC5011Manager with a state file.
Load ==
    /\ pc = "down" /\ disk.written
    /\ keys' = disk.items /\ live' = usableAnchors(disk.items) /\ seen' = seenDisk
    /\ pc' = "idle"
    /\ UNCHANGED <<disk, rrset, steady, seenDisk, faults>>

\* Without one: the configured anchors, if they can be written.
Bootstrapped ==
    /\ pc = "down" /\ ~disk.written
    /\ \E failed \in BOOLEAN :
          /\ persist(Fresh, failed)
          /\ IF failed THEN UNCHANGED <<keys, live, pc>>
             ELSE keys' = Fresh /\ live' = Bootstrap /\ pc' = "idle"
    /\ UNCHANGED <<rrset, steady, seen>>

-----------------------------------------------------------------------------
(* process.                                                                *)

\* The revocations in a response are recorded, authenticated or not.
Revoke(r) ==
    /\ pc = "idle"
    /\ Revoking(r) # {}
    /\ keys' = [k \in Keys |-> IF k \in Revoking(r) THEN Item("revoked", 0, {}) ELSE keys[k]]
    /\ pc' = "persistRevoked"
    /\ rrset' = [r EXCEPT !.sigs = @ \cap usableAnchors(keys)]
    /\ UNCHANGED <<disk, live, steady, seen, seenDisk, faults>>

\* Mutant: a revocation that could not be written is not published.
PersistRevokedFirst ==
    /\ pc = "persistRevoked"
    /\ \E failed \in BOOLEAN :
          /\ persist(keys, failed)
          /\ pc' = IF failed THEN "idle" ELSE "publishRevoked"
    /\ rrset' = IF pc' = "idle" THEN Silence ELSE rrset
    /\ UNCHANGED <<keys, live, steady, seen>>

PersistRevoked ==
    /\ pc = "persistRevoked"
    /\ \E failed \in BOOLEAN :
          /\ persist(keys, failed)
          /\ pc' = IF failed THEN "publishUnwritten" ELSE "publishRevoked"
    /\ UNCHANGED <<keys, live, rrset, steady, seen>>

\* Published whether or not it could be written; an error ends process.
PublishRevoked ==
    /\ pc \in {"publishRevoked", "publishUnwritten"}
    /\ publishAnchors
    /\ pc' = IF pc = "publishRevoked" /\ Validators(rrset) # {} THEN "advance" ELSE "idle"
    /\ rrset' = IF pc' = "idle" THEN Silence ELSE rrset
    /\ UNCHANGED <<keys, disk, steady, seen, seenDisk, faults>>

anyValidatorRemaining(item) == item.by \cap usableAnchors(keys) # {}

\* Mutant: the TTL is added to a hold-down that is too long.
HoldDownPadded(ttl) == AddHoldDown + ttl + 1

HoldDown(ttl) == IF ttl > AddHoldDown THEN ttl ELSE AddHoldDown

\* Mutant: a pending key that is not in the RRset keeps waiting.
AdvancedPatient(k, r) ==
    LET item == keys[k]
    IN IF item.state = "add-pending" /\ item.age >= item.hold THEN Item("valid", 0, {})
       ELSE item

\* Mutant: a revoked key that has gone is forgotten.
AdvancedForgetting(k, r) ==
    IF keys[k].state = "revoked" /\ r.form[k] = "absent" THEN Unknown ELSE keys[k]

\* Mutant: every sighting of a pending key starts its hold-down.
AdvancedRestarting(k, r) ==
    IF keys[k].state = "add-pending" /\ r.form[k] = "active" /\ keys[k].age < keys[k].hold
    THEN Item("add-pending", keys[k].hold, keys[k].by) ELSE keys[k]

\* The transition of a known key.
Advanced(k, r) ==
    LET item == keys[k]
        exists == r.form[k] # "absent"
    IN CASE item.state = "add-pending" ->
              IF r.form[k] # "active" \/ ~anyValidatorRemaining(item) THEN Unknown
              ELSE IF item.age >= item.hold THEN Item("valid", 0, {}) ELSE item
         [] item.state = "valid" -> IF exists THEN item ELSE Item("missing", 0, {})
         [] item.state = "missing" -> IF exists THEN Item("valid", 0, {}) ELSE item
         [] item.state = "revoked" ->
              IF ~exists /\ item.age >= RemoveHoldDown THEN Item("removed", 0, {}) ELSE item
         [] OTHER -> item

\* Mutant: the TTL alone sets the hold-down.
AdmittedByTTL(k, item, r) ==
    IF item = Unknown /\ r.form[k] = "active" /\ k \in Eligible
    THEN Item("add-pending", r.ttl, Validators(r)) ELSE item

\* Keys not known, also those just deleted, begin their hold-down.
Admitted(k, item, r) ==
    IF item = Unknown /\ r.form[k] = "active" /\ k \in Eligible
    THEN Item("add-pending", HoldDown(r.ttl), Validators(r)) ELSE item

\* The second part of process, for an RRset that a trusted key signed.  Any
\* other leaves everything as it is.
Advance(r) ==
    /\ Validators(r) # {}
    /\ keys' = [k \in Keys |-> Admitted(k, Advanced(k, r), r)]
    /\ seen' = [k \in New |-> IF r.form[k] # "active" THEN Never
                               ELSE IF seen[k] = Never THEN 0 ELSE seen[k]]
    /\ pc' = "persist" /\ rrset' = Silence
    /\ UNCHANGED <<disk, live, steady, seenDisk, faults>>

Accept(r) == pc = "idle" /\ Revoking(r) = {} /\ Advance(r)
AcceptRest == pc = "advance" /\ Advance(rrset)

Persist ==
    /\ pc = "persist"
    /\ \E failed \in BOOLEAN :
          /\ persist(keys, failed)
          /\ pc' = IF failed THEN "idle" ELSE "publish"
    /\ UNCHANGED <<keys, live, rrset, steady, seen>>

Publish ==
    /\ pc = "publish"
    /\ publishAnchors
    /\ pc' = "idle"
    /\ UNCHANGED <<keys, disk, rrset, steady, seen, seenDisk, faults>>

-----------------------------------------------------------------------------
(* The process dies and time passes.                                       *)

Crash ==
    /\ pc # "down" /\ steady = {} /\ faults < MaxFaults
    /\ faults' = faults + 1
    /\ keys' = [k \in Keys |-> Unknown] /\ live' = {} /\ pc' = "down"
    /\ rrset' = Silence /\ seen' = [k \in New |-> Never]
    /\ UNCHANGED <<disk, steady, seenDisk>>

\* Only pending and revoked items look at their age.
Older(items) ==
    [k \in Keys |-> IF items[k].state \in {"add-pending", "revoked"} /\ items[k].age < MaxHold
                    THEN [items[k] EXCEPT !.age = @ + 1] ELSE items[k]]
Longer(times) ==
    [k \in New |-> IF times[k] \in 0 .. MaxHold - 1 THEN times[k] + 1 ELSE times[k]]

\* process reads the clock once: days do not pass while it runs.
Tick ==
    /\ pc \in {"down", "idle"}
    /\ keys' = Older(keys) /\ disk' = [disk EXCEPT !.items = Older(@)]
    /\ seen' = Longer(seen) /\ seenDisk' = Longer(seenDisk)
    /\ UNCHANGED <<live, pc, rrset, steady, faults>>

\* The root zone stays as it is, signed by a key that is trusted, and the
\* state file can be written.
Settle(r) ==
    /\ pc = "idle" /\ steady = {}
    /\ \E k \in usableAnchors(keys) : k \in r.sigs /\ r.form[k] = "active"
    /\ steady' = {r}
    /\ UNCHANGED <<keys, disk, live, pc, rrset, seen, seenDisk, faults>>

Init ==
    /\ keys = [k \in Keys |-> Unknown] /\ disk = [written |-> FALSE, items |-> keys]
    /\ live = {} /\ pc = "down" /\ rrset = Silence /\ steady = {} /\ faults = 0
    /\ seen = [k \in New |-> Never] /\ seenDisk = seen

Refresh ==
    \/ \E r \in Answers : Revoke(r) \/ Accept(r)
    \/ PersistRevoked \/ PublishRevoked \/ AcceptRest \/ Persist \/ Publish

Next ==
    \/ Load \/ Bootstrapped \/ Refresh \/ Crash \/ Tick
    \/ \E r \in Settleable : Settle(r)

\* The timer fires at least every 15 days, process runs to its end, and days
\* pass between its runs.  Asked only once the root zone has settled.
Spec == Init /\ [][Next]_vars /\ WF_vars(steady # {} /\ Refresh) /\ SF_vars(steady # {} /\ Tick)

-----------------------------------------------------------------------------
(* Properties.                                                             *)

TypeOK ==
    /\ keys \in [Keys -> Items]
    /\ disk \in [written : BOOLEAN, items : [Keys -> Items]]
    /\ live \subseteq Keys
    /\ pc \in {"down", "idle", "persistRevoked", "publishRevoked", "publishUnwritten",
              "advance", "persist", "publish"}
    /\ rrset \in Responses /\ steady \subseteq Responses
    /\ faults \in 0 .. MaxFaults
    /\ seen \in [New -> Never .. MaxHold] /\ seenDisk \in [New -> Never .. MaxHold]

\* The validator never uses an anchor that the manager does not hold valid or
\* missing, except for the moment between the write of a revocation and its
\* publication, whatever writes fail: "Revocation must still take live
\* effect even if persist fails".
LiveIsUsable ==
    pc \notin {"persistRevoked", "publishRevoked", "publishUnwritten"} =>
        live \subseteq usableAnchors(keys)

\* What persist writes is accepted by loadOrBootstrap after a crash: a
\* pending key has its validators and at least the minimum hold-down, and a
\* state file always has a key with a state.
StateFileLoads ==
    disk.written =>
        /\ \E k \in Keys : disk.items[k] # Unknown
        /\ \A k \in Keys :
              disk.items[k].state = "add-pending" =>
                  disk.items[k].by # {} /\ disk.items[k].hold >= AddHoldDown

\* Between memory, file and validator: what the validator trusts the manager
\* holds usable, and what the manager wrote the next process can load.
AnchorsSound == LiveIsUsable /\ StateFileLoads

\* A key becomes trusted only when every authenticated RRset over a whole
\* hold-down had it, counting across restarts what the state file kept;
\* one authenticated RRset without it starts the hold-down again.
HoldDownRespected ==
    [][\A k \in usableAnchors(keys') \ usableAnchors(keys) :
          pc = "down" \/ (k \in New /\ seen[k] >= AddHoldDown)]_vars

\* Once a revocation is in the state file the key is never trusted again, by
\* this process or a later one, however often it is published anew.
RevocationIsFinal ==
    [][\A k \in Keys :
          disk.items[k].state \in Withdrawn =>
              /\ disk'.items[k].state \in Withdrawn
              /\ k \in live' => k \in live]_vars

\* A new key that the settled root zone publishes becomes an anchor, unless it
\* was withdrawn: also after its pending entry was dropped, its validators
\* were revoked or writes failed.
PublishedKeysAdopted ==
    \A k \in Eligible \ Bootstrap :
        (\E r \in steady : r.form[k] = "active" /\ keys[k].state \notin Withdrawn)
            ~> (k \in live)
=============================================================================

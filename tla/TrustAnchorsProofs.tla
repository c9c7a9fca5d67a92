------------------------- MODULE TrustAnchorsProofs -------------------------
(***************************************************************************)
(* For any keys, bootstrap set, TTLs, hold-downs and number of faults: the *)
(* manager's safety properties.  The inductive invariant relates memory,   *)
(* state file and ghosts; every property follows from it in one step.      *)
(***************************************************************************)
EXTENDS TrustAnchors, TLAPS

\* What loadOrBootstrap accepts, and that no bootstrap key is ever unknown again.
Pending(items) == {k \in Keys : items[k].state = "add-pending"}
Rooted(items) == \A k \in Bootstrap : items[k].state \in Trusted \cup Withdrawn
Loadable(items) ==
    /\ Rooted(items)
    /\ \A k \in Pending(items) : items[k].by # {} /\ items[k].hold >= AddHoldDown

\* A pending key is new, and has been seen for as long as it has been pending.
Watched(items, times) == \A k \in Pending(items) : k \in New /\ times[k] >= items[k].age

WithdrawnIn(items) == {k \in Keys : items[k].state \in Withdrawn}

\* The inductive invariant.
IInv ==
    /\ TypeOK
    /\ LiveIsUsable
    /\ Watched(keys, seen) /\ Watched(disk.items, seenDisk)
    /\ pc # "down" => Loadable(keys) /\ WithdrawnIn(disk.items) \subseteq WithdrawnIn(keys)
    /\ disk.written => Loadable(disk.items)
    /\ ~disk.written => WithdrawnIn(disk.items) = {}

-----------------------------------------------------------------------------
(* Operators.                                                              *)

\* A key enters every state but "add-pending" with an item of the right type.
LEMMA ItemType ==
    ASSUME NEW state \in States, NEW hold \in 0 .. MaxHold, NEW by \in SUBSET Keys
    PROVE  /\ Item(state, hold, by) \in Items
           /\ Item(state, hold, by).state = state /\ Item(state, hold, by).age = 0
           /\ Item(state, hold, by).hold = hold /\ Item(state, hold, by).by = by
  BY AnchorAssumption DEF Item, Items

\* The initial items.
LEMMA UnknownType ==
    Unknown \in Items /\ Unknown.state = "unknown"
  BY ItemType, AnchorAssumption DEF Unknown, States

\* The hold-down of a new key fits and is no shorter than the minimum.
LEMMA HoldDownBounds ==
    ASSUME NEW ttl \in TTLs
    PROVE  HoldDown(ttl) \in 0 .. MaxHold /\ HoldDown(ttl) >= AddHoldDown
  BY AnchorAssumption DEF HoldDown

\* An RRset with no key is a response.
LEMMA SilenceType == Silence \in Responses
  <1>1. (CHOOSE t \in TTLs : TRUE) \in TTLs
    BY AnchorAssumption
  <1> QED
    BY <1>1 DEF Silence, Responses

\* The validators of a response are keys.
LEMMA ValidatorsAreKeys ==
    ASSUME NEW r PROVE Validators(r) \in SUBSET Keys
  BY DEF Validators, usableAnchors

\* The transition of a known key: what it may become, and from what.
LEMMA AdvancedItem ==
    ASSUME keys \in [Keys -> Items], NEW k \in Keys, NEW r
    PROVE  LET n == Advanced(k, r) IN
           /\ n \in Items
           /\ keys[k].state \in Trusted => n.state \in Trusted
           /\ keys[k].state \in Withdrawn => n.state \in Withdrawn
           /\ n.state \in Trusted /\ keys[k].state \notin Trusted =>
                keys[k].state = "add-pending" /\ keys[k].age >= keys[k].hold
           /\ n.state = "add-pending" => n = keys[k] /\ r.form[k] = "active"
           /\ n.state = "unknown" => keys[k].state \in {"unknown", "add-pending"}
  <1> DEFINE n == Advanced(k, r)
  <1>1. keys[k] \in Items
    OBVIOUS
  <1>2. keys[k].state \in States
    BY <1>1 DEF Items
  <1>3. Item("valid", 0, {}) \in Items /\ Item("valid", 0, {}).state = "valid"
    BY ItemType, AnchorAssumption DEF States
  <1>4. Item("missing", 0, {}) \in Items /\ Item("missing", 0, {}).state = "missing"
    BY ItemType, AnchorAssumption DEF States
  <1>5. Item("removed", 0, {}) \in Items /\ Item("removed", 0, {}).state = "removed"
    BY ItemType, AnchorAssumption DEF States
  <1>6. CASE keys[k].state = "add-pending"
    <2>1. \/ n = Unknown
          \/ n = Item("valid", 0, {}) /\ keys[k].age >= keys[k].hold
          \/ n = keys[k] /\ r.form[k] = "active"
      BY <1>6 DEF Advanced
    <2> QED
      BY <1>1, <1>3, <1>6, <2>1, UnknownType DEF Trusted, Withdrawn
  <1>7. CASE keys[k].state \in {"valid", "missing"}
    <2>1. n \in {keys[k], Item("valid", 0, {}), Item("missing", 0, {})}
      BY <1>7 DEF Advanced
    <2> QED
      BY <1>1, <1>3, <1>4, <1>7, <2>1 DEF Trusted, Withdrawn
  <1>8. CASE keys[k].state = "revoked"
    <2>1. n \in {keys[k], Item("removed", 0, {})}
      BY <1>8 DEF Advanced
    <2> QED
      BY <1>1, <1>5, <1>8, <2>1 DEF Trusted, Withdrawn
  <1>9. CASE keys[k].state \in {"unknown", "removed"}
    <2>1. n = keys[k]
      BY <1>9 DEF Advanced
    <2> QED
      BY <1>1, <1>9, <2>1 DEF Trusted, Withdrawn
  <1> QED
    BY <1>2, <1>6, <1>7, <1>8, <1>9 DEF States

\* The same with the admission of keys that are not known: a pending key was
\* pending, or starts a hold-down of its own with the validators of the RRset.
LEMMA AdmittedItem ==
    ASSUME keys \in [Keys -> Items], NEW k \in Keys, NEW r \in Responses
    PROVE  LET n == Admitted(k, Advanced(k, r), r) IN
           /\ n \in Items
           /\ keys[k].state \in Trusted => n.state \in Trusted
           /\ keys[k].state \in Withdrawn => n.state \in Withdrawn
           /\ n.state \in Trusted /\ keys[k].state \notin Trusted =>
                keys[k].state = "add-pending" /\ keys[k].age >= keys[k].hold
           /\ n.state = "add-pending" =>
                /\ r.form[k] = "active"
                /\ \/ n = keys[k]
                   \/ /\ keys[k].state \in {"unknown", "add-pending"}
                      /\ n.age = 0 /\ n.by = Validators(r) /\ n.hold >= AddHoldDown
  <1> DEFINE n == Admitted(k, Advanced(k, r), r)
  <1>1. CASE n = Advanced(k, r)
    BY <1>1, AdvancedItem
  <1>2. CASE /\ Advanced(k, r) = Unknown /\ r.form[k] = "active"
             /\ n = Item("add-pending", HoldDown(r.ttl), Validators(r))
    <2>1. keys[k].state \in {"unknown", "add-pending"}
      BY <1>2, AdvancedItem, UnknownType
    <2>2. r.ttl \in TTLs
      BY DEF Responses
    <2>3. HoldDown(r.ttl) \in 0 .. MaxHold /\ HoldDown(r.ttl) >= AddHoldDown
      BY <2>2, HoldDownBounds
    <2>4. "add-pending" \in States
      BY DEF States
    <2>5. /\ n \in Items /\ n.state = "add-pending" /\ n.age = 0
          /\ n.hold = HoldDown(r.ttl) /\ n.by = Validators(r)
      BY <1>2, <2>3, <2>4, ItemType, ValidatorsAreKeys
    <2> QED
      BY <1>2, <2>1, <2>3, <2>5 DEF Trusted, Withdrawn
  <1> QED
    BY <1>1, <1>2 DEF Admitted

\* A day changes the age of an item and nothing else.
LEMMA OlderItems ==
    ASSUME NEW items \in [Keys -> Items]
    PROVE  /\ Older(items) \in [Keys -> Items]
           /\ \A k \in Keys :
                /\ Older(items)[k].state = items[k].state
                /\ Older(items)[k].hold = items[k].hold /\ Older(items)[k].by = items[k].by
                /\ Older(items)[k].age \in {items[k].age, items[k].age + 1}
           /\ usableAnchors(Older(items)) = usableAnchors(items)
           /\ Pending(Older(items)) = Pending(items)
           /\ WithdrawnIn(Older(items)) = WithdrawnIn(items)
           /\ Loadable(items) => Loadable(Older(items))
  <1>1. ASSUME NEW k \in Keys
        PROVE  /\ Older(items)[k] \in Items
               /\ Older(items)[k].state = items[k].state
               /\ Older(items)[k].hold = items[k].hold /\ Older(items)[k].by = items[k].by
               /\ Older(items)[k].age \in {items[k].age, items[k].age + 1}
    <2>1. items[k] \in Items
      OBVIOUS
    <2>2. CASE items[k].age < MaxHold /\ Older(items)[k] = [items[k] EXCEPT !.age = @ + 1]
      BY <2>1, <2>2, AnchorAssumption DEF Items
    <2>3. CASE Older(items)[k] = items[k]
      BY <2>1, <2>3
    <2> QED
      BY <2>2, <2>3 DEF Older
  <1>2. Older(items) \in [Keys -> Items]
    BY <1>1 DEF Older
  <1>3. usableAnchors(Older(items)) = usableAnchors(items)
    BY <1>1 DEF usableAnchors
  <1>4. Pending(Older(items)) = Pending(items)
    BY <1>1 DEF Pending
  <1>5. WithdrawnIn(Older(items)) = WithdrawnIn(items)
    BY <1>1 DEF WithdrawnIn
  <1>6. Pending(items) \subseteq Keys
    BY DEF Pending
  <1>7. Loadable(items) => Loadable(Older(items))
    BY <1>1, <1>4, <1>6, AnchorAssumption DEF Loadable, Rooted
  <1> QED
    BY <1>1, <1>2, <1>3, <1>4, <1>5, <1>7

\* A day passes for the pending keys and for their sightings alike.
LEMMA OlderWatched ==
    ASSUME NEW items \in [Keys -> Items], NEW times \in [New -> Never .. MaxHold],
           Watched(items, times)
    PROVE  Longer(times) \in [New -> Never .. MaxHold] /\ Watched(Older(items), Longer(times))
  <1>1. Longer(times) \in [New -> Never .. MaxHold]
    BY AnchorAssumption DEF Longer, Never
  <1>2. ASSUME NEW k \in Pending(Older(items))
        PROVE  k \in New /\ Longer(times)[k] >= Older(items)[k].age
    <2>1. k \in Keys /\ items[k] \in Items /\ items[k].state = "add-pending"
      BY OlderItems DEF Pending
    <2>2. k \in New /\ times[k] >= items[k].age
      BY <2>1, OlderItems DEF Watched, Pending
    <2>3. items[k].age \in 0 .. MaxHold /\ times[k] \in Never .. MaxHold
      BY <2>1, <2>2 DEF Items
    <2>4. times[k] \in 0 .. MaxHold
      BY <2>2, <2>3, AnchorAssumption DEF Never
    <2>5. CASE items[k].age < MaxHold
      <3>1. Older(items)[k] = [items[k] EXCEPT !.age = @ + 1]
        BY <2>1, <2>5 DEF Older
      <3>2. Older(items)[k].age = items[k].age + 1
        BY <2>1, <3>1 DEF Items
      <3> QED
        BY <2>2, <2>3, <2>4, <2>5, <3>2, AnchorAssumption DEF Longer
    <2>6. CASE ~(items[k].age < MaxHold)
      <3>1. Older(items)[k] = items[k]
        BY <2>1, <2>6 DEF Older
      <3> QED
        BY <2>2, <2>3, <2>4, <2>6, <3>1, AnchorAssumption DEF Longer
    <2> QED
      BY <2>5, <2>6
  <1> QED
    BY <1>1, <1>2 DEF Watched

\* The configured anchors: nothing pending, nothing withdrawn, a key trusted.
LEMMA FreshItems ==
    /\ Fresh \in [Keys -> Items]
    /\ usableAnchors(Fresh) = Bootstrap
    /\ Pending(Fresh) = {} /\ WithdrawnIn(Fresh) = {}
    /\ Loadable(Fresh)
  <1>1. Item("valid", 0, {}) \in Items /\ Item("valid", 0, {}).state = "valid"
    BY ItemType, AnchorAssumption DEF States
  <1>2. Fresh \in [Keys -> Items]
    BY <1>1, UnknownType DEF Fresh
  <1>3. \A k \in Keys : Fresh[k].state = IF k \in Bootstrap THEN "valid" ELSE "unknown"
    BY <1>1, UnknownType DEF Fresh
  <1>4. Bootstrap \subseteq Keys
    BY AnchorAssumption
  <1>5. usableAnchors(Fresh) = Bootstrap
    BY <1>3, <1>4 DEF usableAnchors, Trusted
  <1>6. Pending(Fresh) = {}
    BY <1>3 DEF Pending
  <1>7. WithdrawnIn(Fresh) = {}
    BY <1>3 DEF WithdrawnIn, Withdrawn
  <1>8. Loadable(Fresh)
    BY <1>3, <1>4, <1>6 DEF Loadable, Rooted, Trusted
  <1> QED
    BY <1>2, <1>5, <1>6, <1>7, <1>8

\* A manager that knows no key.
LEMMA ForgottenItems ==
    LET none == [k \in Keys |-> Unknown] IN
    none \in [Keys -> Items] /\ usableAnchors(none) = {} /\ Pending(none) = {} /\ WithdrawnIn(none) = {}
  BY UnknownType DEF usableAnchors, Pending, WithdrawnIn, Trusted, Withdrawn

-----------------------------------------------------------------------------
(* The inductive invariant.                                                *)

\* What a write leaves in the state file, whether it failed or not: items as
\* sound as those written, and no withdrawal lost.
LEMMA PersistKeeps ==
    ASSUME IInv, NEW items \in [Keys -> Items], NEW failed \in BOOLEAN, persist(items, failed),
           Loadable(items), Watched(items, seen), WithdrawnIn(disk.items) \subseteq WithdrawnIn(items)
    PROVE  /\ disk' \in [written : BOOLEAN, items : [Keys -> Items]]
           /\ faults' \in 0 .. MaxFaults
           /\ seenDisk' \in [New -> Never .. MaxHold]
           /\ Watched(disk'.items, seenDisk')
           /\ disk'.written => Loadable(disk'.items)
           /\ ~disk'.written => WithdrawnIn(disk'.items) = {}
           /\ WithdrawnIn(disk.items) \subseteq WithdrawnIn(disk'.items)
           /\ WithdrawnIn(disk'.items) \subseteq WithdrawnIn(items)
           /\ ~failed => disk' = [written |-> TRUE, items |-> items]
  <1>1. faults' \in 0 .. MaxFaults
    BY AnchorAssumption DEF IInv, TypeOK, persist
  <1>2. CASE disk' = [written |-> TRUE, items |-> items] /\ seenDisk' = seen
    BY <1>1, <1>2 DEF IInv, TypeOK
  <1>3. CASE failed /\ UNCHANGED <<disk, seenDisk>>
    BY <1>1, <1>3 DEF IInv, TypeOK
  <1> QED
    BY <1>2, <1>3 DEF persist

LEMMA InitInv == Init => IInv
  <1> SUFFICES ASSUME Init PROVE IInv
    OBVIOUS
  <1>1. /\ keys \in [Keys -> Items] /\ usableAnchors(keys) = {}
        /\ Pending(keys) = {} /\ WithdrawnIn(keys) = {}
    BY ForgottenItems DEF Init
  <1>2. disk.items = keys /\ disk.written = FALSE
    BY DEF Init
  <1>3. disk \in [written : BOOLEAN, items : [Keys -> Items]]
    BY <1>1 DEF Init
  <1>4. seen \in [New -> Never .. MaxHold] /\ seenDisk \in [New -> Never .. MaxHold]
    BY AnchorAssumption DEF Init, Never
  <1>5. TypeOK
    BY <1>1, <1>3, <1>4, SilenceType, AnchorAssumption DEF Init, TypeOK
  <1> QED
    BY <1>1, <1>2, <1>5 DEF IInv, Init, LiveIsUsable, Watched

LEMMA LoadInv == IInv /\ Load => IInv'
  <1> SUFFICES ASSUME IInv, Load PROVE IInv'
    OBVIOUS
  <1>1. /\ keys' = disk.items /\ live' = usableAnchors(disk.items) /\ seen' = seenDisk
        /\ pc' = "idle" /\ disk.written
        /\ UNCHANGED <<disk, rrset, steady, seenDisk, faults>>
    BY DEF Load
  <1>2. TypeOK'
    BY <1>1 DEF IInv, TypeOK, usableAnchors
  <1>3. LiveIsUsable'
    BY <1>1 DEF LiveIsUsable, usableAnchors
  <1>4. Watched(keys, seen)' /\ Watched(disk.items, seenDisk)'
    BY <1>1 DEF IInv, Watched, Pending
  <1>5. Loadable(keys)' /\ Loadable(disk.items)'
    BY <1>1 DEF IInv, Loadable, Rooted, Pending
  <1>6. (WithdrawnIn(disk.items) \subseteq WithdrawnIn(keys))'
    BY <1>1 DEF WithdrawnIn
  <1> QED
    BY <1>1, <1>2, <1>3, <1>4, <1>5, <1>6 DEF IInv

LEMMA BootstrappedInv == IInv /\ Bootstrapped => IInv'
  <1> SUFFICES ASSUME IInv, Bootstrapped PROVE IInv'
    OBVIOUS
  <1>1. PICK failed \in BOOLEAN :
          /\ persist(Fresh, failed)
          /\ IF failed THEN UNCHANGED <<keys, live, pc>>
             ELSE keys' = Fresh /\ live' = Bootstrap /\ pc' = "idle"
    BY DEF Bootstrapped
  <1>2. pc = "down" /\ ~disk.written /\ UNCHANGED <<rrset, steady, seen>>
    BY DEF Bootstrapped
  <1>3. Watched(Fresh, seen)
    BY FreshItems DEF Watched
  <1>4. WithdrawnIn(disk.items) \subseteq WithdrawnIn(Fresh)
    BY <1>2 DEF IInv
  <1>5. /\ disk' \in [written : BOOLEAN, items : [Keys -> Items]]
        /\ faults' \in 0 .. MaxFaults
        /\ seenDisk' \in [New -> Never .. MaxHold]
        /\ Watched(disk'.items, seenDisk')
        /\ disk'.written => Loadable(disk'.items)
        /\ ~disk'.written => WithdrawnIn(disk'.items) = {}
        /\ WithdrawnIn(disk'.items) \subseteq WithdrawnIn(Fresh)
    BY <1>1, <1>3, <1>4, FreshItems, PersistKeeps
  <1>6. CASE ~failed
    <2>1. keys' = Fresh /\ live' = Bootstrap /\ pc' = "idle"
      BY <1>1, <1>6
    <2>2. TypeOK'
      BY <1>2, <1>5, <2>1, FreshItems, AnchorAssumption DEF IInv, TypeOK
    <2>3. usableAnchors(keys') = Bootstrap
      BY <2>1, FreshItems
    <2> QED
      BY <1>2, <1>3, <1>5, <2>1, <2>2, <2>3, FreshItems DEF IInv, LiveIsUsable, Watched
  <1>7. CASE failed
    <2>1. UNCHANGED <<keys, live, pc>>
      BY <1>1, <1>7
    <2>2. TypeOK'
      BY <1>2, <1>5, <2>1 DEF IInv, TypeOK
    <2> QED
      BY <1>2, <1>5, <2>1, <2>2 DEF IInv, LiveIsUsable
  <1> QED
    BY <1>6, <1>7

\* A withdrawn key leaves the trusted and the pending ones.
LEMMA RevokeInv == ASSUME IInv, NEW r \in Responses, Revoke(r) PROVE IInv'
  <1>1. /\ keys' = [k \in Keys |-> IF k \in Revoking(r) THEN Item("revoked", 0, {}) ELSE keys[k]]
        /\ pc = "idle" /\ pc' = "persistRevoked"
        /\ UNCHANGED <<disk, live, steady, seen, seenDisk, faults>>
    BY DEF Revoke
  <1>2. Item("revoked", 0, {}) \in Items /\ Item("revoked", 0, {}).state = "revoked"
    BY ItemType, AnchorAssumption DEF States
  <1>3. keys \in [Keys -> Items] /\ keys' \in [Keys -> Items]
    BY <1>1, <1>2 DEF IInv, TypeOK
  <1>4. \A k \in Keys : keys'[k] = keys[k] \/ keys'[k].state = "revoked"
    BY <1>1, <1>2
  <1>5. rrset' \in Responses
    BY DEF Revoke, Responses
  <1>6. TypeOK'
    BY <1>1, <1>3, <1>5 DEF IInv, TypeOK
  <1>7. \A k \in Pending(keys') : k \in Pending(keys) /\ keys'[k] = keys[k]
    BY <1>4 DEF Pending
  <1>8. Watched(keys, seen)'
    BY <1>1, <1>7 DEF IInv, Watched
  <1>9. Loadable(keys) /\ WithdrawnIn(disk.items) \subseteq WithdrawnIn(keys)
    BY <1>1 DEF IInv
  <1>10. Loadable(keys')
    BY <1>4, <1>7, <1>9, AnchorAssumption DEF Loadable, Rooted, Withdrawn
  <1>11. WithdrawnIn(keys) \subseteq WithdrawnIn(keys')
    BY <1>4 DEF WithdrawnIn, Withdrawn
  <1> QED
    BY <1>1, <1>6, <1>8, <1>9, <1>10, <1>11 DEF IInv, LiveIsUsable

\* Both writes of process, of the keys in memory.
LEMMA PersistInv ==
    ASSUME IInv, PersistRevoked \/ Persist PROVE IInv'
  <1>1. PICK failed \in BOOLEAN : persist(keys, failed)
    BY DEF PersistRevoked, Persist
  <1>2. /\ UNCHANGED <<keys, live, rrset, steady, seen>> /\ pc # "down" /\ pc' # "down"
        /\ pc' \in {"idle", "publish", "publishUnwritten", "publishRevoked"}
        /\ pc' \in {"idle", "publish"} => pc = "persist"
    BY DEF PersistRevoked, Persist
  <1>3. keys \in [Keys -> Items] /\ Loadable(keys) /\ Watched(keys, seen)
        /\ WithdrawnIn(disk.items) \subseteq WithdrawnIn(keys)
    BY <1>2 DEF IInv, TypeOK
  <1>4. /\ disk' \in [written : BOOLEAN, items : [Keys -> Items]]
        /\ faults' \in 0 .. MaxFaults
        /\ seenDisk' \in [New -> Never .. MaxHold]
        /\ Watched(disk'.items, seenDisk')
        /\ disk'.written => Loadable(disk'.items)
        /\ ~disk'.written => WithdrawnIn(disk'.items) = {}
        /\ WithdrawnIn(disk'.items) \subseteq WithdrawnIn(keys)
    BY <1>1, <1>3, PersistKeeps
  <1>5. TypeOK'
    BY <1>2, <1>4 DEF IInv, TypeOK
  <1>6. LiveIsUsable'
    BY <1>2 DEF IInv, LiveIsUsable
  <1> QED
    BY <1>2, <1>3, <1>4, <1>5, <1>6 DEF IInv

\* Both publications of process.
LEMMA PublishInv ==
    ASSUME IInv, PublishRevoked \/ Publish PROVE IInv'
  <1>1. /\ live' = usableAnchors(keys) /\ UNCHANGED <<keys, disk, steady, seen, seenDisk, faults>>
        /\ pc # "down" /\ pc' \in {"advance", "idle"} /\ rrset' \in {rrset, Silence}
    BY DEF PublishRevoked, Publish, publishAnchors
  <1>2. TypeOK'
    BY <1>1, SilenceType DEF IInv, TypeOK, usableAnchors
  <1>3. LiveIsUsable'
    BY <1>1 DEF LiveIsUsable
  <1> QED
    BY <1>1, <1>2, <1>3 DEF IInv

\* The transitions of process: what was trusted, withdrawn or pending.
LEMMA AdvanceInv ==
    ASSUME IInv, NEW r \in Responses, Advance(r), pc \in {"idle", "advance"} PROVE IInv'
  <1> DEFINE n(k) == Admitted(k, Advanced(k, r), r)
  <1>1. /\ Validators(r) # {} /\ keys' = [k \in Keys |-> n(k)]
        /\ seen' = [k \in New |-> IF r.form[k] # "active" THEN Never
                                   ELSE IF seen[k] = Never THEN 0 ELSE seen[k]]
        /\ pc' = "persist" /\ rrset' = Silence /\ UNCHANGED <<disk, live, steady, seenDisk, faults>>
    BY DEF Advance
  <1>2. keys \in [Keys -> Items] /\ seen \in [New -> Never .. MaxHold]
        /\ Loadable(keys) /\ Watched(keys, seen)
        /\ WithdrawnIn(disk.items) \subseteq WithdrawnIn(keys)
        /\ live \subseteq usableAnchors(keys)
    BY DEF IInv, TypeOK, LiveIsUsable
  <1>3. \A k \in Keys : keys'[k] = n(k)
    BY <1>1
  <1>4. keys' \in [Keys -> Items]
    BY <1>1, <1>2, AdmittedItem
  <1>5. seen' \in [New -> Never .. MaxHold]
    BY <1>1, <1>2, AnchorAssumption DEF Never
  <1>6. TypeOK'
    BY <1>1, <1>4, <1>5, SilenceType DEF IInv, TypeOK
  <1>7. usableAnchors(keys) \subseteq usableAnchors(keys')
    BY <1>2, <1>3, AdmittedItem DEF usableAnchors
  <1>8. WithdrawnIn(keys) \subseteq WithdrawnIn(keys')
    BY <1>2, <1>3, AdmittedItem DEF WithdrawnIn
  <1>9. ASSUME NEW k \in Pending(keys')
        PROVE  /\ k \in New /\ seen'[k] >= keys'[k].age
               /\ keys'[k].by # {} /\ keys'[k].hold >= AddHoldDown
    <2>1. k \in Keys /\ n(k).state = "add-pending" /\ n(k) = keys'[k] /\ n(k) \in Items
      BY <1>2, <1>3, AdmittedItem DEF Pending
    <2>2. r.form[k] = "active"
      BY <1>2, <2>1, AdmittedItem
    <2>3. CASE n(k) = keys[k]
      <3>1. k \in Pending(keys)
        BY <2>1, <2>3 DEF Pending
      <3>2. k \in New /\ seen[k] >= keys[k].age /\ keys[k].by # {} /\ keys[k].hold >= AddHoldDown
        BY <1>2, <3>1 DEF Watched, Loadable
      <3>3. seen[k] # Never
        BY <2>1, <2>3, <3>2 DEF Items, Never
      <3>4. seen'[k] = seen[k]
        BY <1>1, <2>2, <3>2, <3>3
      <3> QED
        BY <2>1, <2>3, <3>2, <3>4
    <2>4. CASE /\ keys[k].state \in {"unknown", "add-pending"}
               /\ n(k).age = 0 /\ n(k).by = Validators(r) /\ n(k).hold >= AddHoldDown
      <3>1. k \in New
        BY <1>2, <2>1, <2>4 DEF Loadable, Rooted, Trusted, Withdrawn, New
      <3>2. seen'[k] = IF seen[k] = Never THEN 0 ELSE seen[k]
        BY <1>1, <2>2, <3>1
      <3>3. seen'[k] >= 0
        BY <1>2, <3>1, <3>2, AnchorAssumption DEF Never
      <3> QED
        BY <1>1, <2>1, <2>4, <3>1, <3>3
    <2> QED
      BY <1>2, <2>1, <2>3, <2>4, AdmittedItem
  <1>10. Rooted(keys')
    BY <1>2, <1>3, AdmittedItem, AnchorAssumption DEF Loadable, Rooted
  <1> QED
    BY <1>1, <1>2, <1>6, <1>7, <1>8, <1>9, <1>10
    DEF IInv, LiveIsUsable, Watched, Loadable

LEMMA CrashInv == IInv /\ Crash => IInv'
  <1> SUFFICES ASSUME IInv, Crash PROVE IInv'
    OBVIOUS
  <1>1. /\ keys' = [k \in Keys |-> Unknown] /\ live' = {} /\ pc' = "down"
        /\ rrset' = Silence /\ seen' = [k \in New |-> Never]
        /\ UNCHANGED <<disk, steady, seenDisk>>
    BY DEF Crash
  <1>2. faults' \in 0 .. MaxFaults
    BY AnchorAssumption DEF IInv, TypeOK, Crash
  <1>3. seen' \in [New -> Never .. MaxHold]
    BY <1>1, AnchorAssumption DEF Never
  <1>4. keys' \in [Keys -> Items] /\ Pending(keys') = {}
    BY <1>1, ForgottenItems
  <1>5. TypeOK'
    BY <1>1, <1>2, <1>3, <1>4, SilenceType DEF IInv, TypeOK
  <1> QED
    BY <1>1, <1>4, <1>5 DEF IInv, LiveIsUsable, Watched

LEMMA TickInv == IInv /\ Tick => IInv'
  <1> SUFFICES ASSUME IInv, Tick PROVE IInv'
    OBVIOUS
  <1>1. /\ keys' = Older(keys) /\ disk' = [disk EXCEPT !.items = Older(disk.items)]
        /\ seen' = Longer(seen) /\ seenDisk' = Longer(seenDisk)
        /\ UNCHANGED <<live, pc, rrset, steady, faults>>
    BY DEF Tick
  <1>2. /\ keys \in [Keys -> Items] /\ disk.items \in [Keys -> Items]
        /\ seen \in [New -> Never .. MaxHold] /\ seenDisk \in [New -> Never .. MaxHold]
        /\ Watched(keys, seen) /\ Watched(disk.items, seenDisk)
    BY DEF IInv, TypeOK
  <1>3. disk'.items = Older(disk.items) /\ disk'.written = disk.written
        /\ disk' \in [written : BOOLEAN, items : [Keys -> Items]]
    BY <1>1, <1>2, OlderItems DEF IInv, TypeOK
  <1>4. TypeOK'
    BY <1>1, <1>2, <1>3, OlderItems, OlderWatched DEF IInv, TypeOK
  <1>5. LiveIsUsable'
    BY <1>1, <1>2, OlderItems DEF IInv, LiveIsUsable
  <1> QED
    BY <1>1, <1>2, <1>3, <1>4, <1>5, OlderItems, OlderWatched DEF IInv

\* Every step keeps the invariant.
LEMMA NextInv == IInv /\ [Next]_vars => IInv'
  <1> SUFFICES ASSUME IInv, [Next]_vars PROVE IInv'
    OBVIOUS
  <1>1. Answers \subseteq Responses
    BY DEF IInv, TypeOK, Answers
  <1>2. ASSUME NEW r \in Answers, Revoke(r) PROVE IInv'
    BY <1>1, <1>2, RevokeInv
  <1>3. ASSUME NEW r \in Answers, Accept(r) PROVE IInv'
    BY <1>1, <1>3, AdvanceInv DEF Accept
  <1>4. CASE AcceptRest
    BY <1>4, AdvanceInv DEF AcceptRest, IInv, TypeOK
  <1>5. ASSUME NEW r \in Settleable, Settle(r) PROVE IInv'
    <2>1. steady' = {r} /\ UNCHANGED <<keys, disk, live, pc, rrset, seen, seenDisk, faults>>
      BY <1>5 DEF Settle
    <2>2. TypeOK'
      BY <2>1, SettleAssumption DEF IInv, TypeOK
    <2> QED
      BY <2>1, <2>2 DEF IInv, LiveIsUsable
  <1>6. CASE UNCHANGED vars
    <2>1. TypeOK'
      BY <1>6 DEF vars, IInv, TypeOK
    <2> QED
      BY <1>6, <2>1 DEF vars, IInv, LiveIsUsable
  <1>7. CASE PersistRevoked \/ Persist
    BY <1>7, PersistInv
  <1>8. CASE PublishRevoked \/ Publish
    BY <1>8, PublishInv
  <1> QED
    BY <1>2, <1>3, <1>4, <1>5, <1>6, <1>7, <1>8,
       LoadInv, BootstrappedInv, CrashInv, TickInv DEF Next, Refresh

\* The inductive invariant holds of every behaviour of the manager.
THEOREM Invariance == Spec => []IInv
  BY InitInv, NextInv, PTL DEF Spec

\* Types, for any number of keys and any hold-downs.
THEOREM TypesHold == Spec => []TypeOK
  <1>1. IInv => TypeOK
    BY DEF IInv
  <1> QED
    BY <1>1, Invariance, PTL

\* What the validator of rfc5011.go uses the manager holds usable, whatever
\* writes fail, and what persist writes loadOrBootstrap accepts.
THEOREM AnchorsAlwaysSound == Spec => []AnchorsSound
  <1>1. ASSUME IInv PROVE StateFileLoads
    <2> SUFFICES ASSUME disk.written PROVE StateFileLoads
      BY DEF StateFileLoads
    <2>1. Loadable(disk.items)
      BY <1>1 DEF IInv
    <2>2. PICK b \in Bootstrap : b \in Keys
      BY AnchorAssumption
    <2>3. disk.items[b] # Unknown
      BY <2>1, <2>2, UnknownType DEF Loadable, Rooted, Trusted, Withdrawn
    <2> QED
      BY <2>1, <2>2, <2>3 DEF StateFileLoads, Loadable, Pending
  <1>2. IInv => AnchorsSound
    BY <1>1 DEF IInv, AnchorsSound
  <1> QED
    BY <1>2, Invariance, PTL

-----------------------------------------------------------------------------
(* What a step may do to the trusted and the withdrawn keys.               *)

\* A step of a running manager makes a key trusted only from its hold-down.
LEMMA NewlyTrusted ==
    ASSUME IInv, [Next]_vars, pc # "down", NEW k \in usableAnchors(keys') \ usableAnchors(keys)
    PROVE  k \in New /\ seen[k] >= AddHoldDown
  <1>1. k \in Keys /\ keys \in [Keys -> Items] /\ Loadable(keys) /\ Watched(keys, seen)
    BY DEF usableAnchors, IInv, TypeOK
  <1>2. keys'[k].state \in Trusted /\ keys[k].state \notin Trusted
    BY DEF usableAnchors
  <1>3. ASSUME NEW r \in Responses, Advance(r) PROVE k \in New /\ seen[k] >= AddHoldDown
    <2>1. keys'[k] = Admitted(k, Advanced(k, r), r)
      BY <1>1, <1>3 DEF Advance
    <2>2. keys[k].state = "add-pending" /\ keys[k].age >= keys[k].hold
      BY <1>1, <1>2, <2>1, AdmittedItem
    <2>3. k \in Pending(keys) /\ keys[k] \in Items
      BY <1>1, <2>2 DEF Pending
    <2>4. k \in New /\ seen[k] >= keys[k].age /\ keys[k].hold >= AddHoldDown
      BY <1>1, <2>3 DEF Watched, Loadable
    <2>5. seen[k] \in Int /\ keys[k].age \in Int /\ keys[k].hold \in Int
      BY <2>3, <2>4 DEF IInv, TypeOK, Items, Never
    <2> QED
      BY <2>2, <2>4, <2>5, AnchorAssumption
  <1>4. ASSUME NEW r \in Responses, Revoke(r) PROVE FALSE
    <2>1. keys'[k] \in {keys[k], Item("revoked", 0, {})}
      BY <1>1, <1>4 DEF Revoke
    <2> QED
      BY <1>2, <2>1 DEF Item, Trusted
  <1>5. CASE Crash
    BY <1>1, <1>2, <1>5, UnknownType DEF Crash, Trusted
  <1>6. CASE Tick
    BY <1>1, <1>2, <1>6, OlderItems DEF Tick
  <1>7. CASE keys' = keys
    BY <1>2, <1>7
  <1>8. Answers \subseteq Responses /\ rrset \in Responses
    BY DEF IInv, TypeOK, Answers
  <1> QED
    BY <1>3, <1>4, <1>5, <1>6, <1>7, <1>8
    DEF Next, Refresh, Load, Bootstrapped, Accept, AcceptRest, PersistRevoked, PublishRevoked,
        Persist, Publish, Settle, vars

\* RFC 5011 hold-down as process implements it, across crashes and restarts:
\* no key is trusted that one authenticated RRset of its hold-down lacked.
THEOREM HoldDownAlwaysRespected == Spec => HoldDownRespected
  <1>1. IInv /\ [Next]_vars =>
          [\A k \in usableAnchors(keys') \ usableAnchors(keys) :
              pc = "down" \/ (k \in New /\ seen[k] >= AddHoldDown)]_vars
    BY NewlyTrusted
  <1> QED
    BY <1>1, Invariance, PTL DEF Spec, HoldDownRespected

\* No step of any actor revives a key whose revocation is in the state file.
LEMMA NeverRevived ==
    ASSUME IInv, [Next]_vars, NEW k \in WithdrawnIn(disk.items)
    PROVE  k \in WithdrawnIn(disk'.items) /\ (k \in live' => k \in live)
  <1>1. k \in Keys /\ keys \in [Keys -> Items] /\ disk.items \in [Keys -> Items] /\ disk.written
    BY DEF IInv, TypeOK, WithdrawnIn
  <1>2. k \notin usableAnchors(disk.items)
    BY DEF WithdrawnIn, usableAnchors, Trusted, Withdrawn
  <1>3. pc # "down" => k \notin usableAnchors(keys)
    BY DEF IInv, WithdrawnIn, usableAnchors, Trusted, Withdrawn
  <1>4. CASE Load
    BY <1>2, <1>4 DEF Load
  <1>5. CASE Bootstrapped
    BY <1>1, <1>5 DEF Bootstrapped
  <1>6. CASE PersistRevoked \/ Persist
    <2>1. PICK failed \in BOOLEAN : persist(keys, failed)
      BY <1>6 DEF PersistRevoked, Persist
    <2>2. pc # "down" /\ live' = live
      BY <1>6 DEF PersistRevoked, Persist
    <2>3. k \in WithdrawnIn(disk'.items)
      BY <1>1, <2>1, <2>2, PersistKeeps DEF IInv
    <2> QED
      BY <2>2, <2>3
  <1>7. CASE PublishRevoked \/ Publish
    BY <1>3, <1>7 DEF PublishRevoked, Publish, publishAnchors
  <1>8. CASE Crash
    BY <1>8 DEF Crash
  <1>9. CASE Tick
    <2>1. disk'.items = Older(disk.items) /\ live' = live
      BY <1>9 DEF Tick, IInv, TypeOK
    <2> QED
      BY <1>1, <2>1, OlderItems
  <1>10. CASE disk' = disk /\ live' = live
    BY <1>10
  <1> QED
    BY <1>4, <1>5, <1>6, <1>7, <1>8, <1>9, <1>10
    DEF Next, Refresh, Revoke, Accept, AcceptRest, Advance, Settle, vars

\* A recorded revocation is final, for this process and every later one.
THEOREM RevocationAlwaysFinal == Spec => RevocationIsFinal
  <1>1. IInv /\ [Next]_vars =>
          [\A k \in Keys :
              disk.items[k].state \in Withdrawn =>
                  /\ disk'.items[k].state \in Withdrawn
                  /\ k \in live' => k \in live]_vars
    BY NeverRevived DEF WithdrawnIn
  <1> QED
    BY <1>1, Invariance, PTL DEF Spec, RevocationIsFinal
=============================================================================

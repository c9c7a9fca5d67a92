---------------------------- MODULE UpdateReplay ----------------------------
(***************************************************************************)
(* Duplicate delivery of an authenticated UPDATE                           *)
(* (internal/server/update_replay.go and step 8 of handleUpdate).          *)
(*                                                                         *)
(* A request is identified by its TSIG MAC.  The first delivery reserves   *)
(* an entry, runs the transaction and completes the entry with its rcode;  *)
(* a duplicate waits for the entry and repeats its rcode.  Entries sit in  *)
(* a bounded ring of slots and leave it only when the request's TSIG time  *)
(* window has passed.  Digests are spread over shards that share nothing,  *)
(* so one shard is modelled.                                               *)
(*                                                                         *)
(* The clock counts half seconds: TSIG verification compares whole seconds *)
(* and the cache compares instants, and the two are not the same test.     *)
(***************************************************************************)
EXTENDS Integers, Sequences, FiniteSets

CONSTANTS
    Requests,      \* distinct signed UPDATE requests
    Signed,        \* [Requests -> Nat], TimeSigned in seconds
    Fudge,         \* the TSIG window in seconds
    Handlers,      \* goroutines serving deliveries
    Capacity,      \* slots of the shard
    MaxDeliveries, \* bound: deliveries, duplicates included
    MaxTime        \* bound: half seconds that pass

ASSUME SignedAssumption == Signed \in [Requests -> Nat]
ASSUME BoundAssumption ==
    /\ Fudge \in Nat /\ MaxDeliveries \in Nat /\ MaxTime \in Nat
    /\ Capacity \in Nat \ {0}

VARIABLES
    now,       \* the clock, in half seconds
    entries,   \* shard.entries: the entry of each digest, or 0
    slots,     \* shard.slots
    nextSlot,  \* shard.nextSlot
    entry,     \* the entry objects: [req, complete, rcode], by allocation order
    pc,        \* what each handler does next
    req,       \* the request each handler serves
    held,      \* the entry each handler reserved or waits for, or 0
    applied,   \* history: [req, at] of every reservation that led to a transaction
    replies,   \* history: [entry, rcode] of every answer that came from an entry
    deliveries \* history: deliveries so far

cache == <<entries, slots, nextSlot, entry>>
vars == <<now, cache, pc, req, held, applied, replies, deliveries>>

NoEntry == 0
NoRequest == "none"
Rcodes == {"NOERROR", "REFUSED"}

\* now.After(expiresAt): the end of the window as an instant.
Expiry(r) == 2 * (Signed[r] + Fudge)
Expired(r) == now > Expiry(r)

\* dns.TsigVerify: the same window in whole seconds.
TsigTimeOK(r) ==
    LET second == now \div 2
    IN second - Signed[r] <= Fudge /\ Signed[r] - second <= Fudge

-----------------------------------------------------------------------------

\* The DNS library verifies the MAC and the time, then calls the handler.
Deliver(h, r) ==
    /\ pc[h] = "idle" /\ deliveries < MaxDeliveries
    /\ TsigTimeOK(r)
    /\ pc' = [pc EXCEPT ![h] = "begin"]
    /\ req' = [req EXCEPT ![h] = r]
    /\ deliveries' = deliveries + 1
    /\ UNCHANGED <<now, cache, held, applied, replies>>

\* The handler returns.
Rest(h) ==
    /\ pc' = [pc EXCEPT ![h] = "idle"]
    /\ req' = [req EXCEPT ![h] = NoRequest]
    /\ held' = [held EXCEPT ![h] = NoEntry]

\* Mutant: a transaction still running is not recognised.
DuplicateOnceComplete(r) ==
    entries[r] # NoEntry /\ ~Expired(r) /\ entry[entries[r]].complete

Duplicate(r) == entries[r] # NoEntry /\ ~Expired(r)

\* Slots in the order the ring is searched, and the first one that may go.
RingOrder == [i \in 1 .. Len(slots) |-> ((nextSlot + i - 1) % Capacity) + 1]
\* Mutant: a full ring evicts the oldest slot, expired or not.
ReusableAlways == DOMAIN RingOrder

Reusable == {i \in DOMAIN RingOrder : Expired(entry[slots[RingOrder[i]]].req)}
FirstReusable ==
    RingOrder[CHOOSE i \in Reusable : \A j \in Reusable : i <= j]

\* Mutant: the search position runs off the end of the ring.
AfterUnwrapped(slot) == slot

\* The 0-based position after the 1-based slot.
After(slot) == slot % Capacity

Saturated == Len(slots) = Capacity /\ Reusable = {}

BeginDuplicate(h) ==
    /\ pc[h] = "begin"
    /\ Duplicate(req[h])
    /\ pc' = [pc EXCEPT ![h] = "wait"]
    /\ held' = [held EXCEPT ![h] = entries[req[h]]]
    /\ UNCHANGED <<now, cache, req, applied, replies, deliveries>>

\* Fail closed: SERVFAIL without a transaction.  An expired entry of the same
\* digest has been dropped from the map by then.
BeginSaturated(h) ==
    /\ pc[h] = "begin"
    /\ ~Duplicate(req[h])
    /\ Saturated
    /\ entries' = [entries EXCEPT ![req[h]] = NoEntry]
    /\ Rest(h)
    /\ UNCHANGED <<now, slots, nextSlot, entry, applied, replies, deliveries>>

BeginReserve(h) ==
    LET r == req[h]
        id == Len(entry) + 1
        full == Len(slots) = Capacity
        evicted == slots[FirstReusable]
        victim == entry[evicted].req
    IN /\ pc[h] = "begin"
       /\ ~Duplicate(r)
       /\ ~Saturated
       /\ entry' = Append(entry, [req |-> r, complete |-> FALSE, rcode |-> "none"])
       /\ slots' = IF full THEN [slots EXCEPT ![FirstReusable] = id] ELSE Append(slots, id)
       /\ nextSlot' = IF full THEN After(FirstReusable) ELSE nextSlot
       /\ entries' = [q \in Requests |->
                        IF q = r THEN id
                        ELSE IF full /\ q = victim /\ entries[q] = evicted THEN NoEntry
                        ELSE entries[q]]
       /\ pc' = [pc EXCEPT ![h] = "apply"]
       /\ held' = [held EXCEPT ![h] = id]
       /\ applied' = applied \cup {[req |-> r, at |-> now, by |-> id]}
       /\ UNCHANGED <<now, req, replies, deliveries>>

Answer(h, rcode) ==
    /\ Rest(h)
    /\ replies' = replies \cup {[entry |-> held[h], rcode |-> rcode]}

\* The transaction (steps 9 to 16 of handleUpdate) has run to some rcode;
\* finishUpdate records it and closes entry.done once, then the handler answers.
FinishUpdate(h) ==
    /\ pc[h] = "apply"
    /\ \E rcode \in Rcodes :
          /\ entry' = IF entry[held[h]].complete THEN entry
                      ELSE [entry EXCEPT ![held[h]] =
                              [req |-> @.req, complete |-> TRUE, rcode |-> rcode]]
          /\ Answer(h, rcode)
    /\ UNCHANGED <<now, entries, slots, nextSlot, applied, deliveries>>

\* Mutant: a duplicate does not wait.
WaitNot(h) ==
    /\ pc[h] = "wait"
    /\ Answer(h, entry[held[h]].rcode)
    /\ UNCHANGED <<now, cache, applied, deliveries>>

\* Mutant: a duplicate looks its entry up again instead of keeping it.
WaitByDigest(h) ==
    /\ pc[h] = "wait"
    /\ entries[req[h]] = held[h] /\ entry[held[h]].complete
    /\ Answer(h, entry[held[h]].rcode)
    /\ UNCHANGED <<now, cache, applied, deliveries>>

\* A duplicate answers when the entry it found is complete, also if the entry
\* has left the ring by then.
WaitDone(h) ==
    /\ pc[h] = "wait"
    /\ entry[held[h]].complete
    /\ Answer(h, entry[held[h]].rcode)
    /\ UNCHANGED <<now, cache, applied, deliveries>>

Tick ==
    /\ now < MaxTime
    /\ now' = now + 1
    /\ UNCHANGED <<cache, pc, req, held, applied, replies, deliveries>>

Init ==
    /\ now = 0
    /\ entries = [r \in Requests |-> NoEntry]
    /\ slots = <<>> /\ nextSlot = 0 /\ entry = <<>>
    /\ pc = [h \in Handlers |-> "idle"]
    /\ req = [h \in Handlers |-> NoRequest]
    /\ held = [h \in Handlers |-> NoEntry]
    /\ applied = {} /\ replies = {} /\ deliveries = 0

HandlerStep(h) ==
    \/ BeginDuplicate(h) \/ BeginSaturated(h) \/ BeginReserve(h)
    \/ FinishUpdate(h) \/ WaitDone(h)

Next == \/ \E h \in Handlers, r \in Requests : Deliver(h, r)
        \/ \E h \in Handlers : HandlerStep(h)
        \/ Tick

\* Goroutines run; nothing else is promised.
Spec == Init /\ [][Next]_vars /\ \A h \in Handlers : WF_vars(HandlerStep(h))

-----------------------------------------------------------------------------

\* Shapes of the cache of update_replay.go; the search position stays inside the
\* ring.
TypeOK ==
    /\ now \in 0 .. MaxTime
    /\ entries \in [Requests -> 0 .. Len(entry)]
    /\ slots \in Seq(1 .. Len(entry)) /\ nextSlot \in 0 .. (Capacity - 1)
    /\ \A i \in DOMAIN entry : entry[i].req \in Requests /\ entry[i].complete \in BOOLEAN
    /\ pc \in [Handlers -> {"idle", "begin", "wait", "apply"}]
    /\ req \in [Handlers -> Requests \cup {NoRequest}]
    /\ held \in [Handlers -> 0 .. Len(entry)]

\* While a request's window is open it runs at most one transaction, however
\* often and however concurrently it is delivered and however full the ring is.
OncePerWindow ==
    \A r \in Requests :
        \A a, b \in {x \in applied : x.req = r /\ x.at <= Expiry(r)} : a = b

\* A reservation whose window is open can be found by its digest: eviction and
\* re-reservation never lose one.
OpenReservationsReachable ==
    /\ Len(slots) <= Capacity
    /\ \A a \in applied : ~Expired(a.req) => entries[a.req] = a.by /\ a.by \in
           {slots[i] : i \in DOMAIN slots}

\* Every answer that refers to one reservation carries the same rcode, and none
\* is sent before the transaction has completed.
DuplicatesAgree ==
    \A a, b \in replies :
        a.entry = b.entry => a.rcode = b.rcode /\ entry[a.entry].complete

\* Replay protection as update.go relies on it: one transaction per open window,
\* its reservation always found, one rcode for all who ask.
ReservationsHold == OncePerWindow /\ OpenReservationsReachable /\ DuplicatesAgree

\* A duplicate is never left waiting.
DuplicatesAnswered ==
    \A h \in Handlers : (pc[h] = "wait") ~> (pc[h] = "idle")

\* update.go:261-265: "A duplicate waits for the first transaction and receives
\* its rcode without applying the UPDATE again."
AppliedOnce ==
    \A a, b \in applied : a.req = b.req => a = b
=============================================================================

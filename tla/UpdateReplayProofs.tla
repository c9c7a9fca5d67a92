------------------------- MODULE UpdateReplayProofs -------------------------
(***************************************************************************)
(* For any requests, windows, handlers and capacity of the ring: replay    *)
(* protection (ReservationsHold).  The invariant says where the entry of   *)
(* every open reservation is, and who may still complete it.               *)
(***************************************************************************)
EXTENDS UpdateReplay, WellFoundedInduction, TLAPS

EntryType == [req : Requests, complete : BOOLEAN, rcode : Rcodes \cup {"none"}]

\* What the map refers to is an entry of that digest and still in a slot.
Indexed ==
    \A r \in Requests : entries[r] # NoEntry =>
        entry[entries[r]].req = r /\ \E i \in DOMAIN slots : slots[i] = entries[r]

\* Every transaction was started by one entry, and no reservation is from the future.
Reserved ==
    \A a \in applied :
        /\ a.req \in Requests /\ a.by \in DOMAIN entry /\ entry[a.by].req = a.req
        /\ a.at \in Nat /\ a.at <= now
        /\ ~Expired(a.req) => entries[a.req] = a.by

\* A handler past begin holds an entry; one that runs a transaction is alone in
\* it and has not completed it.
Owned ==
    \A h \in Handlers :
        /\ pc[h] = "begin" => req[h] \in Requests
        /\ pc[h] \in {"wait", "apply"} => held[h] \in DOMAIN entry
        /\ pc[h] = "apply" => ~entry[held[h]].complete
        /\ \A g \in Handlers : pc[h] = "apply" /\ pc[g] = "apply" /\ held[h] = held[g] => h = g

\* Every answer is the rcode its entry was completed with.
Answered ==
    \A a \in replies :
        a.entry \in DOMAIN entry /\ entry[a.entry].complete /\ entry[a.entry].rcode = a.rcode

\* The inductive invariant.
IInv ==
    /\ TypeOK
    /\ entry \in Seq(EntryType) /\ Len(slots) <= Capacity
    /\ Indexed /\ Reserved /\ OncePerWindow /\ Owned /\ Answered

-----------------------------------------------------------------------------
(* The ring.                                                               *)

Below == {ss \in Nat \X Nat : ss[1] < ss[2]}

\* A set of naturals has a least element.
LEMMA LeastNatural ==
    ASSUME NEW T, T \subseteq Nat, T # {}
    PROVE  \E n \in T : \A m \in T : n <= m
  <1>1. IsWellFoundedOn(Below, Nat)
    BY NatLessThanWellFounded DEF OpToRel, Below
  <1>2. PICK n \in T : \A m \in T : ~ (<<m, n>> \in Below)
    BY <1>1, WFMin
  <1>3. ASSUME NEW m \in T PROVE n <= m
    <2>1. m \in Nat /\ n \in Nat /\ ~ (<<m, n>> \in Below)
      BY <1>2
    <2>2. ~(m < n)
      BY <2>1 DEF Below
    <2> QED
      BY <2>1, <2>2
  <1> QED
    BY <1>3

\* The search of a full ring visits slots of the ring only.
LEMMA RingOrderRange ==
    ASSUME TypeOK, Len(slots) = Capacity, NEW i \in DOMAIN RingOrder
    PROVE  RingOrder[i] \in DOMAIN slots
  <1>1. i \in 1 .. Len(slots) /\ RingOrder[i] = ((nextSlot + i - 1) % Capacity) + 1
    BY DEF RingOrder
  <1>2. nextSlot + i - 1 \in Int /\ Capacity \in Nat \ {0}
    BY <1>1, BoundAssumption DEF TypeOK
  <1>3. (nextSlot + i - 1) % Capacity \in 0 .. (Capacity - 1)
    BY <1>2
  <1> QED
    BY <1>1, <1>2, <1>3 DEF TypeOK

\* The slot a full ring gives up is one of the ring, and its window has passed.
LEMMA FirstReusableExpired ==
    ASSUME TypeOK, Len(slots) = Capacity, Reusable # {}
    PROVE  FirstReusable \in DOMAIN slots /\ Expired(entry[slots[FirstReusable]].req)
  <1>1. Reusable \subseteq Nat
    BY DEF Reusable, RingOrder
  <1>2. \E i \in Reusable : \A j \in Reusable : i <= j
    BY <1>1, LeastNatural
  <1> DEFINE first == CHOOSE i \in Reusable : \A j \in Reusable : i <= j
  <1>3. first \in Reusable
    BY <1>2
  <1>4. first \in DOMAIN RingOrder /\ Expired(entry[slots[RingOrder[first]]].req)
    BY <1>3 DEF Reusable
  <1> QED
    BY <1>4, RingOrderRange DEF FirstReusable

\* Windows close and stay closed.
LEMMA ExpiryType == ASSUME NEW r \in Requests PROVE Expiry(r) \in Nat
  BY SignedAssumption, BoundAssumption DEF Expiry

-----------------------------------------------------------------------------
(* The inductive invariant.                                                *)

LEMMA InitInv == Init => IInv
  <1> SUFFICES ASSUME Init PROVE IInv
    OBVIOUS
  <1>1. entry = <<>> /\ slots = <<>> /\ applied = {} /\ replies = {}
    BY DEF Init
  <1>2. TypeOK
    BY BoundAssumption DEF Init, TypeOK, NoEntry
  <1>3. Indexed
    BY DEF Init, Indexed
  <1>4. Owned
    BY DEF Init, Owned
  <1> QED
    BY <1>1, <1>2, <1>3, <1>4, BoundAssumption DEF IInv, Reserved, OncePerWindow, Answered

\* A delivery concerns its handler only.
LEMMA DeliverInv == ASSUME IInv, NEW h \in Handlers, NEW r \in Requests, Deliver(h, r) PROVE IInv'
  <1>1. /\ pc' = [pc EXCEPT ![h] = "begin"] /\ req' = [req EXCEPT ![h] = r]
        /\ UNCHANGED <<now, entries, slots, nextSlot, entry, held, applied, replies>>
    BY DEF Deliver, cache
  <1>2. TypeOK'
    BY <1>1 DEF IInv, TypeOK
  <1>3. Owned'
    BY <1>1 DEF IInv, TypeOK, Owned
  <1>4. Indexed' /\ Reserved' /\ OncePerWindow' /\ Answered'
    BY <1>1 DEF IInv, Indexed, Reserved, OncePerWindow, Answered, Expired, Expiry
  <1> QED
    BY <1>1, <1>2, <1>3, <1>4 DEF IInv

LEMMA BeginDuplicateInv == ASSUME IInv, NEW h \in Handlers, BeginDuplicate(h) PROVE IInv'
  <1>1. /\ pc[h] = "begin" /\ pc' = [pc EXCEPT ![h] = "wait"]
        /\ held' = [held EXCEPT ![h] = entries[req[h]]]
        /\ UNCHANGED <<now, entries, slots, nextSlot, entry, req, applied, replies>>
    BY DEF BeginDuplicate, cache
  <1>2. req[h] \in Requests /\ entries[req[h]] # 0
    BY <1>1 DEF IInv, Owned, BeginDuplicate, Duplicate, NoEntry
  <1>3. entries[req[h]] \in 1 .. Len(entry) /\ Len(entry) \in Nat
    BY <1>2 DEF IInv, TypeOK
  <1>4. TypeOK'
    BY <1>1, <1>3 DEF IInv, TypeOK
  <1>5. Owned'
    BY <1>1, <1>3 DEF IInv, TypeOK, Owned
  <1>6. Indexed' /\ Reserved' /\ OncePerWindow' /\ Answered'
    BY <1>1 DEF IInv, Indexed, Reserved, OncePerWindow, Answered, Expired, Expiry
  <1> QED
    BY <1>1, <1>4, <1>5, <1>6 DEF IInv

\* A handler that returns has no entry.
LEMMA RestOwned ==
    ASSUME IInv, NEW h \in Handlers, Rest(h)
    PROVE  /\ pc' \in [Handlers -> {"idle", "begin", "wait", "apply"}]
           /\ req' \in [Handlers -> Requests \cup {NoRequest}]
           /\ held' \in [Handlers -> 0 .. Len(entry)]
           /\ \A g \in Handlers : g # h =>
                pc'[g] = pc[g] /\ req'[g] = req[g] /\ held'[g] = held[g]
           /\ pc'[h] = "idle"
  BY DEF IInv, TypeOK, Rest, NoEntry

LEMMA BeginSaturatedInv == ASSUME IInv, NEW h \in Handlers, BeginSaturated(h) PROVE IInv'
  <1>1. /\ pc[h] = "begin" /\ ~Duplicate(req[h])
        /\ entries' = [entries EXCEPT ![req[h]] = NoEntry] /\ Rest(h)
        /\ UNCHANGED <<now, slots, nextSlot, entry, applied, replies>>
    BY DEF BeginSaturated
  <1>2. req[h] \in Requests /\ entries \in [Requests -> 0 .. Len(entry)] /\ Len(entry) \in Nat
    BY <1>1 DEF IInv, TypeOK, Owned
  <1>3. entries' \in [Requests -> 0 .. Len(entry)]
    BY <1>1, <1>2 DEF NoEntry
  <1>4. TypeOK'
    BY <1>1, <1>3, RestOwned DEF IInv, TypeOK
  <1>5. Owned'
    BY <1>1, RestOwned DEF IInv, Owned
  <1>6. Indexed'
    BY <1>1, <1>2 DEF IInv, Indexed
  <1>7. Reserved'
    <2> SUFFICES ASSUME NEW a \in applied, ~Expired(a.req) PROVE entries'[a.req] = a.by
      BY <1>1 DEF IInv, Reserved, Expired, Expiry
    <2>1. a.req \in Requests /\ entries[a.req] = a.by /\ a.by \in DOMAIN entry
      BY DEF IInv, Reserved
    <2>2. a.by # NoEntry
      BY <2>1 DEF IInv, NoEntry
    <2>3. a.req # req[h]
      BY <1>1, <2>1, <2>2 DEF Duplicate
    <2> QED
      BY <1>1, <1>2, <2>1, <2>3
  <1>8. OncePerWindow' /\ Answered'
    BY <1>1 DEF IInv, OncePerWindow, Answered, Expiry
  <1> QED
    BY <1>1, <1>4, <1>5, <1>6, <1>7, <1>8 DEF IInv

\* A reservation: the new entry takes a free slot or one whose window passed.
LEMMA BeginReserveInv == ASSUME IInv, NEW h \in Handlers, BeginReserve(h) PROVE IInv'
  <1> DEFINE r == req[h]
             id == Len(entry) + 1
             full == Len(slots) = Capacity
             evicted == slots[FirstReusable]
             victim == entry[evicted].req
             new == [req |-> r, complete |-> FALSE, rcode |-> "none"]
             mine == [req |-> r, at |-> now, by |-> id]
  <1>1. /\ pc[h] = "begin" /\ ~Duplicate(r) /\ ~Saturated
        /\ entry' = Append(entry, new)
        /\ slots' = IF full THEN [slots EXCEPT ![FirstReusable] = id] ELSE Append(slots, id)
        /\ nextSlot' = IF full THEN After(FirstReusable) ELSE nextSlot
        /\ entries' = [q \in Requests |->
                        IF q = r THEN id
                        ELSE IF full /\ q = victim /\ entries[q] = evicted THEN NoEntry
                        ELSE entries[q]]
        /\ pc' = [pc EXCEPT ![h] = "apply"]
        /\ held' = [held EXCEPT ![h] = id]
        /\ applied' = applied \cup {mine}
        /\ UNCHANGED <<now, req, replies>>
    BY DEF BeginReserve
  <1>2. /\ r \in Requests /\ entry \in Seq(EntryType) /\ Len(entry) \in Nat
        /\ entries \in [Requests -> 0 .. Len(entry)] /\ slots \in Seq(1 .. Len(entry))
        /\ now \in Nat
    BY <1>1, BoundAssumption DEF IInv, TypeOK, Owned
  <1>3. new \in EntryType
    BY <1>2 DEF EntryType
  <1>4. /\ entry' \in Seq(EntryType) /\ Len(entry') = id /\ entry'[id] = new
        /\ \A i \in DOMAIN entry : i \in DOMAIN entry' /\ entry'[i] = entry[i] /\ i # id
        /\ DOMAIN entry' = 1 .. id
    BY <1>1, <1>2, <1>3
  <1>5. full => FirstReusable \in DOMAIN slots /\ Expired(victim)
    BY <1>1, FirstReusableExpired DEF IInv, Saturated
  <1>6. /\ slots' \in Seq(1 .. id) /\ Len(slots') <= Capacity
        /\ \E i \in DOMAIN slots' : slots'[i] = id
        /\ \A i \in DOMAIN slots : ~(full /\ slots[i] = evicted) =>
              i \in DOMAIN slots' /\ slots'[i] = slots[i]
    <2>1. slots \in Seq(1 .. id) /\ id \in 1 .. id
      BY <1>2
    <2>2. CASE full
      BY <1>1, <1>2, <1>5, <2>1, <2>2 DEF IInv
    <2>3. CASE ~full
      <3>1. slots' = Append(slots, id)
        BY <1>1, <2>3
      <3>2. /\ Len(slots') = Len(slots) + 1 /\ slots'[Len(slots) + 1] = id
            /\ \A i \in DOMAIN slots : i \in DOMAIN slots' /\ slots'[i] = slots[i]
            /\ slots' \in Seq(1 .. id)
        BY <1>2, <2>1, <3>1
      <3>3. Len(slots) + 1 \in DOMAIN slots'
        BY <1>2, <3>2
      <3>4. Len(slots) < Capacity /\ Len(slots) \in Nat
        BY <1>2, <2>3, BoundAssumption DEF IInv
      <3>5. Len(slots') <= Capacity
        BY <3>2, <3>4, BoundAssumption
      <3>6. \E i \in DOMAIN slots' : slots'[i] = id
        BY <3>2, <3>3
      <3> QED
        BY <3>2, <3>5, <3>6
    <2> QED
      BY <2>2, <2>3
  <1>7. nextSlot' \in 0 .. (Capacity - 1)
    <2>1. CASE full
      <3>1. FirstReusable \in Int /\ Capacity \in Nat \ {0}
        BY <1>2, <1>5, <2>1, BoundAssumption
      <3> QED
        BY <1>1, <2>1, <3>1 DEF After
    <2>2. CASE ~full
      BY <1>1, <2>2 DEF IInv, TypeOK
    <2> QED
      BY <2>1, <2>2
  <1>8. entries' \in [Requests -> 0 .. id]
    BY <1>1, <1>2 DEF NoEntry
  <1>9. TypeOK'
    <2>1. \A i \in DOMAIN entry' : entry'[i].req \in Requests /\ entry'[i].complete \in BOOLEAN
      <3> SUFFICES ASSUME NEW i \in DOMAIN entry' PROVE entry'[i] \in EntryType
        BY DEF EntryType
      <3> QED
        BY <1>4
    <2>2. pc' \in [Handlers -> {"idle", "begin", "wait", "apply"}]
          /\ held' \in [Handlers -> 0 .. id]
      BY <1>1, <1>2 DEF IInv, TypeOK
    <2> QED
      BY <1>1, <1>4, <1>6, <1>7, <1>8, <2>1, <2>2 DEF IInv, TypeOK
  <1>10. Owned'
    <2>1. pc \in [Handlers -> {"idle", "begin", "wait", "apply"}] /\ held \in [Handlers -> 0 .. Len(entry)]
      BY DEF IInv, TypeOK
    <2>2. \A g \in Handlers : g # h => pc'[g] = pc[g] /\ held'[g] = held[g]
      BY <1>1, <2>1
    <2>3. pc'[h] = "apply" /\ held'[h] = id /\ ~entry'[id].complete /\ id \in DOMAIN entry'
      BY <1>1, <1>2, <1>4, <2>1
    <2>4. \A g \in Handlers : g # h /\ pc[g] \in {"wait", "apply"} =>
             held'[g] \in DOMAIN entry /\ held'[g] # id
      BY <1>4, <2>2 DEF IInv, Owned
    <2> QED
      BY <1>1, <1>4, <2>2, <2>3, <2>4 DEF IInv, Owned
  <1>11. Indexed'
    <2> SUFFICES ASSUME NEW q \in Requests, entries'[q] # NoEntry
                 PROVE  entry'[entries'[q]].req = q /\ \E i \in DOMAIN slots' : slots'[i] = entries'[q]
      BY DEF Indexed
    <2>1. CASE q = r
      BY <1>1, <1>4, <1>6, <2>1
    <2>2. CASE q # r
      <3>1. entries'[q] = entries[q] /\ ~(full /\ q = victim /\ entries[q] = evicted)
        BY <1>1, <2>2
      <3>2. entries[q] \in DOMAIN entry
        BY <1>2, <3>1 DEF NoEntry
      <3>3. entry[entries[q]].req = q
        BY <3>1 DEF IInv, Indexed
      <3>4. PICK i \in DOMAIN slots : slots[i] = entries[q]
        BY <3>1 DEF IInv, Indexed
      <3>5. ~(full /\ slots[i] = evicted)
        BY <3>1, <3>3, <3>4
      <3> QED
        BY <1>4, <1>6, <3>1, <3>2, <3>3, <3>4, <3>5
    <2> QED
      BY <2>1, <2>2
  <1>12. \A a \in applied : ~Expired(a.req) => a.req # r
    <2> SUFFICES ASSUME NEW a \in applied, ~Expired(a.req), a.req = r PROVE FALSE
      OBVIOUS
    <2>1. entries[r] = a.by /\ a.by \in DOMAIN entry
      BY DEF IInv, Reserved
    <2> QED
      BY <1>1, <1>2, <2>1 DEF Duplicate, NoEntry
  <1>13. Reserved'
    <2> SUFFICES ASSUME NEW a \in applied'
                 PROVE  /\ a.req \in Requests /\ a.by \in DOMAIN entry' /\ entry'[a.by].req = a.req
                        /\ a.at \in Nat /\ a.at <= now
                        /\ ~Expired(a.req) => entries'[a.req] = a.by
      BY <1>1 DEF Reserved, Expired, Expiry
    <2>1. CASE a = mine
      BY <1>1, <1>2, <1>4, <2>1
    <2>2. CASE a \in applied
      <3>1. /\ a.req \in Requests /\ a.by \in DOMAIN entry /\ entry[a.by].req = a.req
            /\ a.at \in Nat /\ a.at <= now
            /\ ~Expired(a.req) => entries[a.req] = a.by
        BY <2>2 DEF IInv, Reserved
      <3>2. ASSUME ~Expired(a.req) PROVE entries'[a.req] = entries[a.req]
        BY <1>1, <1>5, <1>12, <2>2, <3>1, <3>2
      <3> QED
        BY <1>4, <3>1, <3>2
    <2> QED
      BY <1>1, <2>1, <2>2
  <1>14. OncePerWindow'
    <2> SUFFICES ASSUME NEW q \in Requests, NEW a \in applied', NEW b \in applied',
                        a.req = q, b.req = q, a.at <= Expiry(q), b.at <= Expiry(q)
                 PROVE  a = b
      BY <1>1 DEF OncePerWindow, Expiry
    <2>1. CASE a \in applied /\ b \in applied
      BY <2>1 DEF IInv, OncePerWindow
    <2>2. CASE a = mine /\ b = mine
      BY <2>2
    <2>3. ASSUME NEW c \in applied, mine.req = q, c.req = q, mine.at <= Expiry(q) PROVE FALSE
      <3>1. r = q /\ now <= Expiry(q)
        BY <2>3
      <3>2. ~Expired(q)
        BY <1>2, <3>1, ExpiryType DEF Expired
      <3> QED
        BY <1>12, <2>3, <3>1, <3>2
    <2> QED
      BY <1>1, <2>1, <2>2, <2>3
  <1>15. Answered'
    BY <1>1, <1>4 DEF IInv, Answered
  <1> QED
    BY <1>4, <1>6, <1>9, <1>10, <1>11, <1>13, <1>14, <1>15 DEF IInv

\* The one handler that owns an entry completes it.
LEMMA FinishUpdateInv == ASSUME IInv, NEW h \in Handlers, FinishUpdate(h) PROVE IInv'
  <1> DEFINE e == held[h]
  <1>1. pc[h] = "apply" /\ e \in DOMAIN entry /\ ~entry[e].complete
    BY DEF FinishUpdate, IInv, Owned
  <1>2. PICK rcode \in Rcodes :
          /\ entry' = IF entry[e].complete THEN entry
                      ELSE [entry EXCEPT ![e] = [req |-> @.req, complete |-> TRUE, rcode |-> rcode]]
          /\ Answer(h, rcode)
    BY DEF FinishUpdate
  <1>3. /\ UNCHANGED <<now, entries, slots, nextSlot, applied>> /\ Rest(h)
        /\ replies' = replies \cup {[entry |-> e, rcode |-> rcode]}
    BY <1>2 DEF FinishUpdate, Answer
  <1>4. entry \in Seq(EntryType) /\ entry[e] \in EntryType
    BY <1>1 DEF IInv
  <1> DEFINE done == [req |-> entry[e].req, complete |-> TRUE, rcode |-> rcode]
  <1>5. entry' = [entry EXCEPT ![e] = done] /\ done \in EntryType
    <2>1. done \in EntryType
      BY <1>4 DEF EntryType
    <2> QED
      BY <1>1, <1>2, <2>1
  <1>6. /\ entry' \in Seq(EntryType) /\ Len(entry') = Len(entry) /\ DOMAIN entry' = DOMAIN entry
        /\ entry'[e] = done
        /\ \A i \in DOMAIN entry : i # e => entry'[i] = entry[i]
        /\ \A i \in DOMAIN entry : entry'[i].req = entry[i].req
    <2>1. /\ entry' \in Seq(EntryType) /\ Len(entry') = Len(entry) /\ DOMAIN entry' = DOMAIN entry
      BY <1>1, <1>4, <1>5
    <2>2. entry'[e] = done /\ done.req = entry[e].req
      BY <1>1, <1>4, <1>5
    <2>3. \A i \in DOMAIN entry : i # e => entry'[i] = entry[i]
      BY <1>1, <1>4, <1>5
    <2> QED
      BY <2>1, <2>2, <2>3
  <1>7. TypeOK'
    <2>1. \A i \in DOMAIN entry' : entry'[i].req \in Requests /\ entry'[i].complete \in BOOLEAN
      <3> SUFFICES ASSUME NEW i \in DOMAIN entry' PROVE entry'[i] \in EntryType
        BY DEF EntryType
      <3> QED
        BY <1>6
    <2> QED
      BY <1>3, <1>6, <2>1, RestOwned DEF IInv, TypeOK
  <1>8. Owned'
    <2>1. \A g \in Handlers : g # h /\ pc[g] = "apply" => held[g] # e
      BY <1>1 DEF IInv, Owned
    <2>2. \A g \in Handlers :
            /\ pc'[g] \in {"begin", "wait", "apply"} => g # h
            /\ g # h => pc'[g] = pc[g] /\ req'[g] = req[g] /\ held'[g] = held[g]
      BY <1>3, RestOwned
    <2>3. \A g \in Handlers : pc'[g] = "begin" => req'[g] \in Requests
      BY <2>2 DEF IInv, Owned
    <2>4. \A g \in Handlers : pc'[g] \in {"wait", "apply"} => held'[g] \in DOMAIN entry'
      BY <1>6, <2>2 DEF IInv, Owned
    <2>5. \A g \in Handlers : pc'[g] = "apply" => ~entry'[held'[g]].complete
      BY <1>6, <2>1, <2>2 DEF IInv, Owned
    <2>6. \A f, g \in Handlers :
            pc'[f] = "apply" /\ pc'[g] = "apply" /\ held'[f] = held'[g] => f = g
      BY <2>2 DEF IInv, Owned
    <2> QED
      BY <2>3, <2>4, <2>5, <2>6 DEF Owned
  <1>9. Indexed' /\ Reserved' /\ OncePerWindow'
    <2>1. Indexed'
      <3> SUFFICES ASSUME NEW q \in Requests, entries[q] # NoEntry
                   PROVE  entry'[entries[q]].req = q /\ \E i \in DOMAIN slots : slots[i] = entries[q]
        BY <1>3 DEF Indexed
      <3>1. entries[q] \in DOMAIN entry
        BY <1>4 DEF IInv, TypeOK, NoEntry
      <3> QED
        BY <1>6, <3>1 DEF IInv, Indexed
    <2>2. Reserved'
      BY <1>3, <1>6 DEF IInv, Reserved, Expired, Expiry
    <2>3. OncePerWindow'
      BY <1>3 DEF IInv, OncePerWindow, Expiry
    <2> QED
      BY <2>1, <2>2, <2>3
  <1>10. Answered'
    <2> SUFFICES ASSUME NEW a \in replies'
                 PROVE  /\ a.entry \in DOMAIN entry' /\ entry'[a.entry].complete
                        /\ entry'[a.entry].rcode = a.rcode
      BY DEF Answered
    <2>1. CASE a \in replies
      <3>1. a.entry \in DOMAIN entry /\ entry[a.entry].complete /\ entry[a.entry].rcode = a.rcode
        BY <2>1 DEF IInv, Answered
      <3>2. a.entry # e
        BY <1>1, <3>1
      <3> QED
        BY <1>6, <3>1, <3>2
    <2>2. CASE a = [entry |-> e, rcode |-> rcode]
      BY <1>1, <1>6, <2>2
    <2> QED
      BY <1>3, <2>1, <2>2
  <1> QED
    BY <1>3, <1>6, <1>7, <1>8, <1>9, <1>10 DEF IInv

\* A duplicate repeats the rcode of its entry, wherever the entry is by then.
LEMMA WaitDoneInv == ASSUME IInv, NEW h \in Handlers, WaitDone(h) PROVE IInv'
  <1>1. /\ UNCHANGED <<now, entries, slots, nextSlot, entry, applied>> /\ Rest(h)
        /\ pc[h] = "wait" /\ entry[held[h]].complete
        /\ replies' = replies \cup {[entry |-> held[h], rcode |-> entry[held[h]].rcode]}
    BY DEF WaitDone, Answer, cache
  <1>2. held[h] \in DOMAIN entry
    BY <1>1 DEF IInv, Owned
  <1>3. TypeOK'
    BY <1>1, RestOwned DEF IInv, TypeOK
  <1>4. Owned'
    BY <1>1, RestOwned DEF IInv, Owned
  <1>5. Indexed' /\ Reserved' /\ OncePerWindow'
    BY <1>1 DEF IInv, Indexed, Reserved, OncePerWindow, Expired, Expiry
  <1>6. Answered'
    BY <1>1, <1>2 DEF IInv, Answered
  <1> QED
    BY <1>1, <1>3, <1>4, <1>5, <1>6 DEF IInv

\* Windows close and stay closed.
LEMMA TickInv == IInv /\ Tick => IInv'
  <1> SUFFICES ASSUME IInv, Tick PROVE IInv'
    OBVIOUS
  <1>1. /\ now' = now + 1 /\ now < MaxTime
        /\ UNCHANGED <<entries, slots, nextSlot, entry, pc, req, held, applied, replies>>
    BY DEF Tick, cache
  <1>2. now \in 0 .. MaxTime
    BY DEF IInv, TypeOK
  <1>3. TypeOK'
    BY <1>1, BoundAssumption DEF IInv, TypeOK
  <1>4. \A r \in Requests : Expired(r) => Expired(r)'
    BY <1>1, <1>2, ExpiryType, BoundAssumption DEF Expired, Expiry
  <1>5. Reserved'
    BY <1>1, <1>2, <1>4, BoundAssumption DEF IInv, Reserved
  <1>6. Indexed' /\ OncePerWindow' /\ Owned' /\ Answered'
    BY <1>1 DEF IInv, Indexed, OncePerWindow, Owned, Answered, Expiry
  <1> QED
    BY <1>1, <1>3, <1>5, <1>6 DEF IInv

LEMMA NextInv == IInv /\ [Next]_vars => IInv'
  <1> SUFFICES ASSUME IInv, [Next]_vars PROVE IInv'
    OBVIOUS
  <1>1. CASE UNCHANGED vars
    <2>1. UNCHANGED <<now, entries, slots, nextSlot, entry, pc, req, held, applied, replies>>
      BY <1>1 DEF vars, cache
    <2>2. TypeOK'
      BY <2>1 DEF IInv, TypeOK
    <2> QED
      BY <2>1, <2>2
      DEF IInv, Indexed, Reserved, OncePerWindow, Owned, Answered, Expired, Expiry
  <1> QED
    BY <1>1, DeliverInv, BeginDuplicateInv, BeginSaturatedInv, BeginReserveInv,
       FinishUpdateInv, WaitDoneInv, TickInv DEF Next, HandlerStep

\* The inductive invariant holds of every behaviour of the shard.
THEOREM Invariance == Spec => []IInv
  BY InitInv, NextInv, PTL DEF Spec

\* Types, the search position inside the ring included, for any capacity.
THEOREM TypesHold == Spec => []TypeOK
  <1>1. IInv => TypeOK
    BY DEF IInv
  <1> QED
    BY <1>1, Invariance, PTL

\* update_replay.go, for any number of handlers and duplicates and a ring of any
\* capacity: while its TSIG window is open a request runs at most one
\* transaction and its reservation is found, and all its answers agree.
THEOREM ReservationsAlwaysHold == Spec => []ReservationsHold
  <1>1. ASSUME IInv PROVE OpenReservationsReachable
    <2> SUFFICES ASSUME NEW a \in applied, ~Expired(a.req)
                 PROVE  entries[a.req] = a.by /\ \E i \in DOMAIN slots : slots[i] = a.by
      BY <1>1 DEF OpenReservationsReachable, IInv
    <2>1. a.req \in Requests /\ entries[a.req] = a.by /\ a.by \in DOMAIN entry
      BY <1>1 DEF IInv, Reserved
    <2>2. a.by # NoEntry
      BY <1>1, <2>1 DEF IInv, NoEntry
    <2> QED
      BY <1>1, <2>1, <2>2 DEF IInv, Indexed
  <1>2. IInv => DuplicatesAgree
    BY DEF IInv, Answered, DuplicatesAgree
  <1>3. IInv => ReservationsHold
    BY <1>1, <1>2 DEF IInv, ReservationsHold
  <1> QED
    BY <1>3, Invariance, PTL
=============================================================================

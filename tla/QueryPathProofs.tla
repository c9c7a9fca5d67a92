-------------------------- MODULE QueryPathProofs ---------------------------
(***************************************************************************)
(* Proofs about the query path, for any configurations, handlers and       *)
(* queries: the reputation shard, the buckets of the response rate limiter *)
(* and the TCP listener keep their books (IInv), and the response policy   *)
(* decides as its zones say, whatever is reloaded meanwhile (PolicyInv).   *)
(* The zone data an authoritative answer is made of stays opaque.          *)
(***************************************************************************)
EXTENDS QueryPath, FiniteSetTheorems, FunctionTheorems, SequenceTheorems,
        WellFoundedInduction, TLAPS

-----------------------------------------------------------------------------
(* The inductive invariant.                                                *)

Clock == cfg \in Configs /\ now \in Nat

\* Points of a handler that does not hold a bucket of the rate limiter, and of one
\* inside Check that does.
Outside == {"done", "admit", "validate", "cookie", "answer", "policy", "nameservers",
            "limit", "send"}
Inside == {"refill", "store", "stamp", "take", "restore"}

Handlers ==
    /\ DOMAIN proc = cfg.procs
    /\ \A p \in cfg.procs :
          /\ DOMAIN proc[p] = DOMAIN Idle
          /\ proc[p].pc \in Outside \cup Inside
          /\ proc[p].out \in {"none", "sent", "dropped", "transfer", "update"}
          /\ proc[p].obj \in 0 .. Len(objs)
          /\ proc[p].pc \in Inside => proc[p].obj # 0

\* What a handler carries between its unlocked loads and stores.  A refill that was
\* loaded with few handlers about covers what those give back later.
Carried ==
    \A p \in cfg.procs :
        /\ proc[p].pc = "refill" => proc[p].fill \in Nat /\ proc[p].fill >= cfg.rrl.limit
        /\ proc[p].pc = "store" =>
              /\ proc[p].fill \in Int /\ proc[p].fill <= MaxTokens
              /\ FewHandlers => proc[p].fill >= 0
        /\ proc[p].pc \in {"refill", "store", "stamp"} => proc[p].at \in 0 .. now

RateBuckets ==
    /\ objs \in Seq([tokens : Int, last : Nat])
    /\ \A b \in DOMAIN objs : objs[b].last <= now
    /\ \A key \in DOMAIN table : table[key] \in DOMAIN objs
    /\ TokensStayBounded
    /\ Carried

EntryOK(e) ==
    /\ e \in [score : Nat, tokens : Nat, lastRefill : Nat, lastDecay : Nat]
    /\ e.score <= cfg.rep.maxScore /\ e.tokens <= cfg.rep.burst * Unit
    /\ e.lastRefill <= now /\ e.lastDecay <= now

\* A shard whose ring lists every tracked client once.
ShardOK(r) ==
    /\ r = [entries |-> r.entries, ring |-> r.ring, cursor |-> r.cursor]
    /\ IsFiniteSet(DOMAIN r.entries)
    /\ r.ring \in Seq(DOMAIN r.entries)
    /\ Len(r.ring) = Cardinality(DOMAIN r.entries)
    /\ \A i, j \in DOMAIN r.ring : r.ring[i] = r.ring[j] => i = j
    /\ \A c \in DOMAIN r.entries : \E i \in DOMAIN r.ring : r.ring[i] = c
    /\ Len(r.ring) <= cfg.rep.capacity
    /\ r.cursor \in 0 .. cfg.rep.capacity - 1
    /\ \A c \in DOMAIN r.entries : EntryOK(r.entries[c])

Places(l) == {i \in DOMAIN l.conns : ~l.conns[i].released}
Held(l, client) == {i \in DOMAIN l.conns : ~l.conns[i].released /\ l.conns[i].client = client}

\* The counts of a TCP limiter are those of the connections that hold a place.
ListenerOK(l) ==
    /\ l = [active |-> l.active, perClient |-> l.perClient, tokens |-> l.tokens,
            lastRefill |-> l.lastRefill, conns |-> l.conns]
    /\ l.conns \in Seq([client : cfg.tcp.clients, released : BOOLEAN])
    /\ l.active = Cardinality(Places(l)) /\ l.active <= cfg.tcp.max
    /\ DOMAIN l.perClient = {l.conns[i].client : i \in Places(l)} \ {<<>>}
    /\ \A c \in DOMAIN l.perClient :
          l.perClient[c] = Cardinality(Held(l, c)) /\ l.perClient[c] <= cfg.tcp.perClient
    /\ l.tokens \in 0 .. cfg.tcp.burst
    /\ l.lastRefill \in 0 .. now

IInv ==
    /\ Clock /\ Handlers /\ RateBuckets
    /\ ShardOK(rep) /\ ListenerOK(tcp)

-----------------------------------------------------------------------------
(* Facts about the helpers.                                                *)

LEMMA MaxOfTwo ==
    ASSUME NEW a \in Int, NEW b \in Int
    PROVE  Max({a, b}) = IF a >= b THEN a ELSE b
<1>1. \E x \in {a, b} : \A y \in {a, b} : x >= y
  <2>1. CASE a >= b
    BY <2>1
  <2>2. CASE b >= a
    BY <2>2
  <2> QED
    BY <2>1, <2>2
<1>2. Max({a, b}) \in {a, b} /\ \A y \in {a, b} : Max({a, b}) >= y
  BY <1>1 DEF Max
<1> QED
  BY <1>2

LEMMA MinOfTwo ==
    ASSUME NEW a \in Int, NEW b \in Int
    PROVE  Min({a, b}) = IF a <= b THEN a ELSE b
<1>1. \E x \in {a, b} : \A y \in {a, b} : x <= y
  <2>1. CASE a <= b
    BY <2>1
  <2>2. CASE b <= a
    BY <2>2
  <2> QED
    BY <2>1, <2>2
<1>2. Min({a, b}) \in {a, b} /\ \A y \in {a, b} : Min({a, b}) <= y
  BY <1>1 DEF Min
<1> QED
  BY <1>2

\* Set changes the named fields of one handler.
LEMMA SetFacts ==
    ASSUME NEW p \in cfg.procs, NEW fields, Handlers, Set(p, fields),
           DOMAIN fields \subseteq DOMAIN Idle
    PROVE  /\ DOMAIN proc' = cfg.procs
           /\ \A q \in cfg.procs \ {p} : proc'[q] = proc[q]
           /\ DOMAIN proc'[p] = DOMAIN Idle
           /\ \A k \in DOMAIN Idle :
                 proc'[p][k] = IF k \in DOMAIN fields THEN fields[k] ELSE proc[p][k]
<1>1. proc'[p] = Over(fields, proc[p])
  BY DEF Set, Handlers
<1>2. DOMAIN proc[p] = DOMAIN Idle
  BY DEF Handlers
<1> HIDE DEF Idle
<1> QED
  BY <1>1, <1>2 DEF Set, Handlers, Over

LEMMA ConfigFacts ==
    ASSUME Clock
    PROVE  /\ IsFiniteSet(cfg.procs) /\ cfg.procs # {}
           /\ Cardinality(cfg.procs) \in Nat \ {0}
           /\ cfg.rep.base \in Nat \ {0} /\ cfg.rep.minimum \in Nat \ {0}
           /\ cfg.rep.burst \in Nat \ {0} /\ cfg.rep.capacity \in Nat \ {0}
           /\ cfg.rep.maxScore \in Nat \ {0} /\ cfg.rep.decay \in Nat \ {0}
           /\ cfg.rep.minimum <= cfg.rep.base
           /\ \A s \in Signals : cfg.rep.penalty[s] \in Nat \ {0}
           /\ cfg.rrl.limit \in Nat \ {0} /\ cfg.rrl.window \in Nat \ {0}
           /\ MaxTokens \in Nat \ {0}
           /\ cfg.tcp.max \in Nat \ {0} /\ cfg.tcp.perClient \in Nat \ {0}
           /\ cfg.tcp.rate \in Nat \ {0} /\ cfg.tcp.burst \in Nat \ {0}
<1> DEFINE c == cfg
<1>1. c \in Configs
  BY DEF Clock
<1>2. /\ IsFiniteSet(c.procs) /\ c.procs # {}
      /\ {c.rep.base, c.rep.minimum, c.rep.burst, c.rep.capacity, c.rep.maxScore,
          c.rep.decay} \subseteq Nat \ {0}
      /\ c.rep.minimum <= c.rep.base
      /\ \A s \in Signals : c.rep.penalty[s] \in Nat \ {0}
      /\ {c.rrl.limit, c.rrl.window} \subseteq Nat \ {0}
      /\ {c.tcp.max, c.tcp.perClient, c.tcp.rate, c.tcp.burst} \subseteq Nat \ {0}
  BY <1>1, ConfigsAssumption
<1>3. Cardinality(c.procs) \in Nat \ {0}
  BY <1>2, FS_CardinalityType, FS_EmptySet
<1>4. MaxTokens \in Nat \ {0}
  <2>1. ASSUME NEW m \in Nat \ {0}, NEW n \in Nat \ {0} PROVE m * n \in Nat \ {0}
    OBVIOUS
  <2> QED
    BY <1>2, <2>1 DEF MaxTokens
<1> QED
  BY <1>2, <1>3, <1>4

-----------------------------------------------------------------------------
(* Handlers.                                                               *)

Outcomes == {"none", "sent", "dropped", "transfer", "update"}

\* A handler moves and holds no bucket before and after.
Aside(p) ==
    /\ proc[p].pc \in Outside
    /\ DOMAIN proc' = cfg.procs
    /\ \A q \in cfg.procs \ {p} : proc'[q] = proc[q]
    /\ DOMAIN proc'[p] = DOMAIN Idle
    /\ proc'[p].pc \in Outside
    /\ proc'[p].out \in Outcomes
    /\ proc'[p].obj \in 0 .. Len(objs)

LEMMA SetAside ==
    ASSUME NEW p \in cfg.procs, NEW fields, Handlers, Set(p, fields),
           DOMAIN fields \subseteq DOMAIN Idle \ {"obj"},
           proc[p].pc \in Outside,
           "pc" \in DOMAIN fields, fields.pc \in Outside,
           "out" \in DOMAIN fields => fields.out \in Outcomes
    PROVE  Aside(p)
<1>1. /\ DOMAIN proc' = cfg.procs
      /\ \A q \in cfg.procs \ {p} : proc'[q] = proc[q]
      /\ DOMAIN proc'[p] = DOMAIN Idle
      /\ \A k \in DOMAIN Idle :
            proc'[p][k] = IF k \in DOMAIN fields THEN fields[k] ELSE proc[p][k]
  BY SetFacts
<1>2. {"pc", "out", "obj"} \subseteq DOMAIN Idle
  BY DEF Idle
<1>3. proc[p].out \in Outcomes /\ proc[p].obj \in 0 .. Len(objs)
  BY DEF Handlers, Outcomes
<1> HIDE DEF Idle
<1> QED
  BY <1>1, <1>2, <1>3 DEF Aside

LEMMA FinishAside ==
    ASSUME NEW p \in cfg.procs, NEW out \in Outcomes, NEW resp, Handlers,
           Finish(p, out, resp), proc[p].pc \in Outside
    PROVE  Aside(p)
<1> DEFINE fields == [pc |-> "done", out |-> out, resp |-> resp]
<1>1. DOMAIN fields = {"pc", "out", "resp"} /\ fields.pc = "done" /\ fields.out = out
  OBVIOUS
<1>2. Set(p, fields)
  BY DEF Finish
<1>3. {"pc", "out", "resp"} \subseteq DOMAIN Idle \ {"obj"}
  BY DEF Idle
<1> HIDE DEF fields
<1> QED
  BY <1>1, <1>2, <1>3, SetAside DEF Outside

\* Such a move leaves the buckets alone.
LEMMA AsideKeepsBuckets ==
    ASSUME Clock, Handlers, RateBuckets, NEW p \in cfg.procs, Aside(p),
           UNCHANGED <<cfg, now, objs, table>>
    PROVE  Clock' /\ Handlers' /\ RateBuckets'
<1>1. Clock'
  BY DEF Clock
<1>2. Handlers'
  <2> SUFFICES ASSUME NEW q \in cfg.procs
               PROVE  /\ DOMAIN proc'[q] = DOMAIN Idle
                      /\ proc'[q].pc \in Outside \cup Inside
                      /\ proc'[q].out \in Outcomes
                      /\ proc'[q].obj \in 0 .. Len(objs)
                      /\ proc'[q].pc \in Inside => proc'[q].obj # 0
    BY DEF Handlers, Aside, Outcomes, Idle, Nothing, NoNameservers, Reply
  <2> HIDE DEF Idle
  <2>1. CASE q = p
    BY <2>1 DEF Aside, Outside, Inside
  <2>2. CASE q # p
    BY <2>2 DEF Aside, Handlers, Outcomes
  <2> QED
    BY <2>1, <2>2
<1>3. \A q \in cfg.procs : proc'[q].pc \in Inside \/ proc[q].pc \in Inside => proc'[q] = proc[q]
  BY DEF Aside, Outside, Inside
<1>4. \A b : Restoring(b)' = Restoring(b)
  <2> TAKE b
  <2>1. \A q \in cfg.procs : (proc'[q].pc = "restore" /\ proc'[q].obj = b)
                               <=> (proc[q].pc = "restore" /\ proc[q].obj = b)
    BY <1>3 DEF Inside
  <2> QED
    BY <2>1 DEF Restoring
<1>5. TokensStayBounded'
  <2>1. Buckets' = Buckets /\ MaxTokens' = MaxTokens /\ FewHandlers' = FewHandlers
    BY DEF Buckets, MaxTokens, FewHandlers
  <2> SUFFICES ASSUME NEW b \in Buckets
               PROVE  /\ objs[b].tokens + Cardinality(Restoring(b))
                           <= MaxTokens + Cardinality(cfg.procs) - 1
                      /\ FewHandlers => objs[b].tokens >= -Cardinality(Restoring(b))
    BY <1>4, <2>1 DEF TokensStayBounded
  <2> QED
    BY DEF RateBuckets, TokensStayBounded
<1>6. Carried'
  <2> SUFFICES ASSUME NEW q \in cfg.procs
               PROVE  /\ proc'[q].pc = "refill" => proc'[q].fill \in Nat /\ proc'[q].fill >= cfg.rrl.limit
                      /\ proc'[q].pc = "store" =>
                            /\ proc'[q].fill \in Int /\ proc'[q].fill <= MaxTokens
                            /\ FewHandlers => proc'[q].fill >= 0
                      /\ proc'[q].pc \in {"refill", "store", "stamp"} => proc'[q].at \in 0 .. now
    BY DEF Carried, MaxTokens, FewHandlers
  <2> QED
    BY <1>3 DEF RateBuckets, Carried, Inside
<1> QED
  BY <1>1, <1>2, <1>5, <1>6 DEF RateBuckets

-----------------------------------------------------------------------------
(* The reputation shard.                                                   *)

LEMMA FreshOK == Clock => EntryOK(freshEntry)
<1> SUFFICES ASSUME Clock PROVE EntryOK(freshEntry)
  OBVIOUS
<1>1. cfg.rep.burst * Unit \in Nat /\ cfg.rep.maxScore \in Nat /\ now \in Nat
  BY ConfigFacts DEF Unit, Clock
<1> QED
  BY <1>1 DEF EntryOK, freshEntry

\* The new client takes a slot of its own, or the victim's; the ring keeps listing
\* every tracked client once.
LEMMA InsertKeeps ==
    ASSUME Clock, NEW r, ShardOK(r), NEW client
    PROVE  /\ ShardOK(getOrInsertLocked(r, client))
           /\ client \in DOMAIN getOrInsertLocked(r, client).entries
<1> DEFINE s == getOrInsertLocked(r, client)
           D == DOMAIN r.entries
           n == Len(r.ring)
<1>cap. cfg.rep.capacity \in Nat \ {0}
  BY ConfigFacts
<1>len. n \in Nat /\ DOMAIN r.ring = 1 .. n /\ n <= cfg.rep.capacity
  BY DEF ShardOK
<1>1. CASE client \in D
  BY <1>1 DEF getOrInsertLocked
<1>2. CASE client \notin D /\ Cardinality(D) = cfg.rep.capacity
  <2> DEFINE j == r.cursor + 1
             victim == r.ring[j]
             ring == [r.ring EXCEPT ![j] = client]
             entries == Over(At(client, freshEntry), Restrict(r.entries, D \ {victim}))
             E == (D \ {victim}) \cup {client}
  <2>1. s = [entries |-> entries, ring |-> ring, cursor |-> j % cfg.rep.capacity]
    BY <1>2 DEF getOrInsertLocked
  <2>2. n = cfg.rep.capacity /\ n \in Nat \ {0} /\ DOMAIN r.ring = 1 .. n /\ j \in 1 .. n
    BY <1>2, <1>cap, <1>len DEF ShardOK
  <2>3. victim \in D
    BY <2>2 DEF ShardOK
  <2>4. DOMAIN entries = E
    BY DEF Over, At, Restrict
  <2>5. IsFiniteSet(E) /\ Cardinality(E) = n
    <3>1. IsFiniteSet(D) /\ Cardinality(D) = n
      BY DEF ShardOK
    <3>2. IsFiniteSet(D \ {victim}) /\ Cardinality(D \ {victim}) = n - 1
      BY <3>1, <2>3, FS_RemoveElement
    <3>3. client \notin D \ {victim}
      BY <1>2
    <3>4. IsFiniteSet(E) /\ Cardinality(E) = (n - 1) + 1
      BY <3>2, <3>3, FS_AddElement
    <3> QED
      BY <3>4, <2>2
  <2>6. DOMAIN ring = 1 .. n /\ Len(ring) = n /\ ring[j] = client
        /\ \A i \in (1 .. n) \ {j} : ring[i] = r.ring[i] /\ ring[i] \in D \ {victim}
    <3>1. DOMAIN ring = 1 .. n /\ ring[j] = client
          /\ \A i \in (1 .. n) \ {j} : ring[i] = r.ring[i]
      BY <2>2
    <3>2. \A i \in (1 .. n) \ {j} : r.ring[i] \in D \ {victim}
      BY <2>2 DEF ShardOK
    <3>3. ring \in Seq(D \cup {client})
      BY <2>2 DEF ShardOK
    <3>4. Len(ring) = n
      BY <3>1, <3>3, <2>2
    <3> QED
      BY <3>1, <3>2, <3>4
  <2>7. ring \in Seq(E)
    <3>1. \A i \in 1 .. n : ring[i] \in E
      BY <2>6
    <3>2. ring = [i \in 1 .. n |-> ring[i]]
      BY <2>2
    <3>3. n \in Nat
      BY <2>2
    <3> HIDE DEF ring, E, n
    <3>4. ring \in [1 .. n -> E]
      BY <3>1, <3>2
    <3> QED
      BY <3>3, <3>4
  <2>8. \A i, k \in 1 .. n : ring[i] = ring[k] => i = k
    <3> TAKE i, k \in 1 .. n
    <3>1. CASE i # j /\ k # j
      BY <3>1, <2>6, <2>2 DEF ShardOK
    <3>2. CASE i = j \/ k = j
      BY <3>2, <2>6, <1>2
    <3> QED
      BY <3>1, <3>2
  <2>9. \A c \in E : \E i \in 1 .. n : ring[i] = c
    <3> TAKE c \in E
    <3>1. CASE c = client
      BY <3>1, <2>6, <2>2
    <3>2. CASE c # client
      <4>1. c \in D /\ c # victim
        BY <3>2
      <4>2. PICK i \in 1 .. n : r.ring[i] = c
        BY <4>1, <2>2 DEF ShardOK
      <4>3. i # j
        BY <4>1, <4>2
      <4> QED
        BY <4>2, <4>3, <2>6
    <3> QED
      BY <3>1, <3>2
  <2>10. j % cfg.rep.capacity \in 0 .. cfg.rep.capacity - 1
    BY <2>2
  <2>11. \A c \in E : EntryOK(entries[c])
    <3> TAKE c \in E
    <3>1. entries[c] = IF c = client THEN freshEntry ELSE r.entries[c]
      BY DEF Over, At, Restrict
    <3> QED
      BY <3>1, FreshOK DEF ShardOK
  <2>12. client \in E
    OBVIOUS
  <2> HIDE DEF entries, ring, E, victim, j
  <2>13. s.entries = entries /\ s.ring = ring /\ s.cursor = j % cfg.rep.capacity
    BY <2>1
  <2>14. s = [entries |-> s.entries, ring |-> s.ring, cursor |-> s.cursor]
    BY <2>1
  <2> HIDE DEF s
  <2>15. ShardOK(s)
    BY <2>2, <2>4, <2>5, <2>6, <2>7, <2>8, <2>9, <2>10, <2>11, <2>13, <2>14 DEF ShardOK
  <2> QED
    BY <2>4, <2>12, <2>13, <2>15 DEF s
<1>3. CASE client \notin D /\ Cardinality(D) # cfg.rep.capacity
  <2> DEFINE ring == Append(r.ring, client)
             entries == Over(At(client, freshEntry), r.entries)
             E == D \cup {client}
  <2>1. s = [entries |-> entries, ring |-> ring, cursor |-> r.cursor]
    <3>1. s = [r EXCEPT !.entries = entries, !.ring = ring]
      BY <1>3 DEF getOrInsertLocked
    <3>2. r = [entries |-> r.entries, ring |-> r.ring, cursor |-> r.cursor]
      BY DEF ShardOK
    <3> HIDE DEF s, entries, ring
    <3> QED
      BY <3>1, <3>2
  <2>2. n \in Nat /\ DOMAIN r.ring = 1 .. n /\ r.ring \in Seq(D) /\ n < cfg.rep.capacity
    BY <1>3, <1>cap, <1>len DEF ShardOK
  <2>3. DOMAIN entries = E
    BY DEF Over, At
  <2>4. IsFiniteSet(E) /\ Cardinality(E) = n + 1
    <3>1. IsFiniteSet(D) /\ Cardinality(D) = n
      BY DEF ShardOK
    <3> QED
      BY <3>1, <1>3, FS_AddElement
  <2>5. ring \in Seq(E) /\ Len(ring) = n + 1 /\ DOMAIN ring = 1 .. n + 1 /\ ring[n + 1] = client
        /\ \A i \in 1 .. n : ring[i] = r.ring[i] /\ ring[i] \in D
    <3>1. r.ring \in Seq(E)
      BY <2>2
    <3> QED
      BY <3>1, <2>2
  <2>6. \A i, k \in 1 .. n + 1 : ring[i] = ring[k] => i = k
    <3> TAKE i, k \in 1 .. n + 1
    <3> HIDE DEF ring
    <3>1. CASE i # n + 1 /\ k # n + 1
      <4>1. i \in 1 .. n /\ k \in 1 .. n
        BY <3>1, <2>2
      <4> QED
        BY <4>1, <2>5, <2>2 DEF ShardOK
    <3>2. CASE i = n + 1 \/ k = n + 1
      BY <3>2, <2>5, <1>3, <2>2
    <3> QED
      BY <3>1, <3>2
  <2>7. \A c \in E : \E i \in 1 .. n + 1 : ring[i] = c
    <3> TAKE c \in E
    <3>1. CASE c = client
      BY <3>1, <2>5, <2>2
    <3>2. CASE c \in D
      <4>1. PICK i \in 1 .. n : r.ring[i] = c
        BY <3>2, <2>2 DEF ShardOK
      <4> QED
        BY <4>1, <2>5, <2>2
    <3> QED
      BY <3>1, <3>2
  <2>8. \A c \in E : EntryOK(entries[c])
    <3> TAKE c \in E
    <3>1. entries[c] = IF c = client THEN freshEntry ELSE r.entries[c]
      BY DEF Over, At
    <3> QED
      BY <3>1, FreshOK DEF ShardOK
  <2>9. client \in E /\ r.cursor \in 0 .. cfg.rep.capacity - 1
    BY DEF ShardOK
  <2> HIDE DEF entries, ring, E
  <2>10. s.entries = entries /\ s.ring = ring /\ s.cursor = r.cursor
    BY <2>1
  <2>11. s = [entries |-> s.entries, ring |-> s.ring, cursor |-> s.cursor]
    BY <2>1
  <2> HIDE DEF s
  <2>12. n + 1 <= cfg.rep.capacity
    BY <2>2, <1>cap
  <2>13. ShardOK(s)
    BY <2>3, <2>4, <2>5, <2>6, <2>7, <2>8, <2>9, <2>10, <2>11, <2>12 DEF ShardOK
  <2> QED
    BY <2>3, <2>9, <2>10, <2>13 DEF s
<1> QED
  BY <1>1, <1>2, <1>3

LEMMA DecayKeeps ==
    ASSUME Clock, NEW e, EntryOK(e)
    PROVE  EntryOK(decayLocked(e)) /\ decayLocked(e).tokens = e.tokens
           /\ decayLocked(e).lastRefill = e.lastRefill
<1> DEFINE x == e.score - (now - e.lastDecay) * cfg.rep.decay
<1>1. now \in Nat /\ cfg.rep.decay \in Nat /\ e.score \in Nat /\ e.lastDecay \in Nat
      /\ e.lastDecay <= now
  BY ConfigFacts DEF Clock, EntryOK
<1>2. (now - e.lastDecay) * cfg.rep.decay \in Nat
  BY <1>1
<1>3. x \in Int /\ x <= e.score
  BY <1>1, <1>2
<1>4. Max({0, x}) = IF 0 >= x THEN 0 ELSE x
  BY <1>3, MaxOfTwo
<1>5. decayLocked(e) = [e EXCEPT !.score = Max({0, x}), !.lastDecay = now]
  BY DEF decayLocked
<1>6. e = [score |-> e.score, tokens |-> e.tokens, lastRefill |-> e.lastRefill,
           lastDecay |-> e.lastDecay]
  BY DEF EntryOK
<1> HIDE DEF x
<1>7. decayLocked(e) = [score |-> Max({0, x}), tokens |-> e.tokens,
                        lastRefill |-> e.lastRefill, lastDecay |-> now]
  BY <1>5, <1>6
<1>8. Max({0, x}) \in Nat /\ Max({0, x}) <= e.score
  BY <1>1, <1>3, <1>4
<1> QED
  BY <1>1, <1>7, <1>8, ConfigFacts DEF EntryOK

LEMMA PenaltyKeeps ==
    ASSUME Clock, NEW e, EntryOK(e), NEW points \in Nat
    PROVE  EntryOK(Penalized(e, points))
<1>1. e.score + points \in Nat /\ cfg.rep.maxScore \in Nat
  BY ConfigFacts DEF EntryOK
<1>2. Min({cfg.rep.maxScore, e.score + points}) \in 0 .. cfg.rep.maxScore
  BY <1>1, MinOfTwo
<1>3. Penalized(e, points) = [e EXCEPT !.score = Min({cfg.rep.maxScore, e.score + points})]
  BY DEF Penalized
<1> QED
  BY <1>1, <1>2, <1>3 DEF EntryOK

\* However bad the score, the rate is a whole token per second and more.
LEMMA RateIsFloored ==
    ASSUME Clock, NEW score \in Nat
    PROVE  effectiveRate(score) \in Nat /\ effectiveRate(score) >= Unit
<1> DEFINE m == cfg.rep.minimum * Unit
           x == cfg.rep.base * Unit - (cfg.rep.base - cfg.rep.minimum) * score
<1>1. cfg.rep.minimum \in Nat \ {0} /\ cfg.rep.base \in Nat /\ Unit \in Nat \ {0}
  BY ConfigFacts DEF Unit
<1>2. m \in Nat /\ x \in Int
  BY <1>1
<1>3. \A k \in Nat \ {0}, u \in Nat : k * u >= u
  OBVIOUS
<1>4. m >= Unit
  BY <1>1, <1>3
<1>5. effectiveRate(score) = IF m >= x THEN m ELSE x
  BY <1>2, MaxOfTwo DEF effectiveRate
<1> HIDE DEF m, x
<1> QED
  BY <1>1, <1>2, <1>4, <1>5

LEMMA RefillKeeps ==
    ASSUME Clock, NEW e, EntryOK(e)
    PROVE  /\ EntryOK(Refilled(e))
           /\ e.lastRefill # now => Refilled(e).tokens >= Unit
           /\ Refilled(e).tokens >= e.tokens
           /\ Refilled(e).lastRefill = now
<1> DEFINE d == decayLocked(e)
           rate == effectiveRate(d.score)
           x == d.tokens + (now - d.lastRefill) * rate
           top == cfg.rep.burst * Unit
<1>1. EntryOK(d) /\ d.tokens = e.tokens /\ d.lastRefill = e.lastRefill
  BY DecayKeeps
<1>2. rate \in Nat /\ rate >= Unit
  BY <1>1, RateIsFloored DEF EntryOK
<1>3. now \in Nat /\ d.lastRefill \in Nat /\ d.lastRefill <= now /\ d.tokens \in Nat
      /\ Unit \in Nat \ {0} /\ cfg.rep.burst \in Nat \ {0}
  BY <1>1, ConfigFacts DEF EntryOK, Clock, Unit
<1>4. \A k \in Nat \ {0}, u \in Nat : k * u >= u /\ k * u \in Nat
  OBVIOUS
<1>5. top \in Nat /\ top >= Unit
  BY <1>3, <1>4
<1>6. x \in Nat /\ x >= d.tokens /\ (d.lastRefill # now => x >= Unit)
  <2> DEFINE k == now - d.lastRefill
             y == k * rate
  <2>1. CASE d.lastRefill = now
    <3>1. k = 0
      BY <2>1, <1>3
    <3>2. y = 0
      BY <3>1, <1>2
    <3> QED
      BY <2>1, <3>2, <1>3
  <2>2. CASE d.lastRefill # now
    <3>1. k \in Nat \ {0}
      BY <2>2, <1>3
    <3> HIDE DEF k
    <3>2. y \in Nat /\ y >= rate
      BY <3>1, <1>2, <1>4
    <3>3. x = d.tokens + y
      BY DEF k
    <3> HIDE DEF y, x, rate, d
    <3> QED
      BY <3>2, <3>3, <1>2, <1>3
  <2> QED
    BY <2>1, <2>2
<1>7. Min({top, x}) = IF top <= x THEN top ELSE x
  BY <1>5, <1>6, MinOfTwo
<1>8. Refilled(e) = [d EXCEPT !.tokens = Min({top, x}), !.lastRefill = now]
  BY DEF Refilled
<1>9. d.tokens <= top /\ d = [score |-> d.score, tokens |-> d.tokens,
                              lastRefill |-> d.lastRefill, lastDecay |-> d.lastDecay]
  BY <1>1 DEF EntryOK
<1> HIDE DEF d, x, rate
<1>10. Refilled(e) = [score |-> d.score, tokens |-> Min({top, x}), lastRefill |-> now,
                      lastDecay |-> d.lastDecay]
  BY <1>8, <1>9
<1>11. Min({top, x}) \in Nat /\ Min({top, x}) <= top /\ Min({top, x}) >= d.tokens
       /\ (d.lastRefill # now => Min({top, x}) >= Unit)
  BY <1>3, <1>5, <1>6, <1>7, <1>9
<1> HIDE DEF top
<1>12. EntryOK(Refilled(e))
  BY <1>1, <1>3, <1>10, <1>11 DEF EntryOK, top
<1> QED
  BY <1>1, <1>10, <1>11, <1>12

LEMMA EntryReplaced ==
    ASSUME NEW s, ShardOK(s), NEW c \in DOMAIN s.entries, NEW e, EntryOK(e)
    PROVE  ShardOK([s EXCEPT !.entries[c] = e])
<1> DEFINE t == [s EXCEPT !.entries[c] = e]
           entries == [s.entries EXCEPT ![c] = e]
<1>1. DOMAIN entries = DOMAIN s.entries /\ \A d \in DOMAIN entries : EntryOK(entries[d])
  BY DEF ShardOK
<1>2. s = [entries |-> s.entries, ring |-> s.ring, cursor |-> s.cursor]
  BY DEF ShardOK
<1>3. t = [s EXCEPT !.entries = entries]
  OBVIOUS
<1> HIDE DEF t, entries
<1>4. t = [entries |-> entries, ring |-> s.ring, cursor |-> s.cursor]
  BY <1>2, <1>3
<1>5. t.entries = entries /\ t.ring = s.ring /\ t.cursor = s.cursor
      /\ t = [entries |-> t.entries, ring |-> t.ring, cursor |-> t.cursor]
  BY <1>4
<1>6. ShardOK(t)
  BY <1>1, <1>5 DEF ShardOK
<1> QED
  BY <1>6 DEF t

LEMMA ObserveKeeps ==
    ASSUME Clock, NEW r, ShardOK(r), NEW client, NEW signal \in Signals
    PROVE  ShardOK(Observe(r, client, signal))
<1> DEFINE s == getOrInsertLocked(r, client)
           e == Penalized(decayLocked(s.entries[client]), cfg.rep.penalty[signal])
<1>1. ShardOK(s) /\ client \in DOMAIN s.entries
  BY InsertKeeps
<1>2. EntryOK(s.entries[client])
  BY <1>1 DEF ShardOK
<1>3. cfg.rep.penalty[signal] \in Nat
  BY ConfigFacts
<1>4. EntryOK(e)
  <2> HIDE DEF s
  <2> QED
    BY <1>2, <1>3, DecayKeeps, PenaltyKeeps
<1>5. Observe(r, client, signal) = IF ~Tracked(client) THEN r
                                   ELSE [s EXCEPT !.entries[client] = e]
  BY DEF Observe
<1>6. ShardOK([s EXCEPT !.entries[client] = e])
  <2> HIDE DEF s, e
  <2> QED
    BY <1>1, <1>4, EntryReplaced
<1> HIDE DEF s, e
<1> QED
  BY <1>5, <1>6

LEMMA AllowKeeps ==
    ASSUME Clock, NEW r, ShardOK(r), NEW client
    PROVE  ShardOK(Allow(r, client))
<1> DEFINE s == getOrInsertLocked(r, client)
           e == Refilled(s.entries[client])
           f == IF e.tokens >= Unit THEN [e EXCEPT !.tokens = @ - Unit]
                ELSE Penalized(e, cfg.rep.penalty["rate"])
<1>1. ShardOK(s) /\ client \in DOMAIN s.entries
  BY InsertKeeps
<1>2. EntryOK(s.entries[client])
  BY <1>1 DEF ShardOK
<1>3. EntryOK(e)
  <2> HIDE DEF s
  <2> QED
    BY <1>2, RefillKeeps
<1>4. EntryOK(f)
  <2> HIDE DEF e
  <2>1. CASE e.tokens >= Unit
    <3>1. Unit \in Nat /\ e.tokens \in Nat
      BY <1>3, ConfigFacts DEF Unit, EntryOK
    <3>2. e.tokens - Unit \in Nat /\ e.tokens - Unit <= e.tokens
      BY <2>1, <3>1
    <3>3. e = [score |-> e.score, tokens |-> e.tokens, lastRefill |-> e.lastRefill,
               lastDecay |-> e.lastDecay]
      BY <1>3 DEF EntryOK
    <3>4. f = [score |-> e.score, tokens |-> e.tokens - Unit, lastRefill |-> e.lastRefill,
               lastDecay |-> e.lastDecay]
      BY <2>1, <3>3
    <3>5. cfg.rep.burst * Unit \in Nat
      BY ConfigFacts DEF Unit
    <3> HIDE DEF f
    <3> QED
      BY <1>3, <3>1, <3>2, <3>4, <3>5 DEF EntryOK
  <2>2. CASE ~(e.tokens >= Unit)
    <3>1. cfg.rep.penalty["rate"] \in Nat
      BY ConfigFacts DEF Signals
    <3> QED
      BY <2>2, <3>1, <1>3, PenaltyKeeps
  <2> QED
    BY <2>1, <2>2
<1>5. Allow(r, client) = IF ~Tracked(client) THEN r ELSE [s EXCEPT !.entries[client] = f]
  BY DEF Allow
<1>6. ShardOK([s EXCEPT !.entries[client] = f])
  <2> HIDE DEF s, f
  <2> QED
    BY <1>1, <1>4, EntryReplaced
<1> HIDE DEF s, f
<1> QED
  BY <1>5, <1>6

\* A client is refused only if its entry was refilled this very second.
LEMMA RefusedAtOnce ==
    ASSUME Clock, NEW r, ShardOK(r), NEW client, ~Admits(r, client)
    PROVE  client \in DOMAIN r.entries /\ r.entries[client].lastRefill = now
<1> DEFINE s == getOrInsertLocked(r, client)
<1>1. ShardOK(s) /\ client \in DOMAIN s.entries
  BY InsertKeeps
<1>2. EntryOK(s.entries[client]) /\ ~(Refilled(s.entries[client]).tokens >= Unit)
  BY <1>1 DEF ShardOK, Admits
<1>3. s.entries[client].lastRefill = now /\ ~(s.entries[client].tokens >= Unit)
  <2> DEFINE e == s.entries[client]
  <2>1. EntryOK(e) /\ ~(Refilled(e).tokens >= Unit)
    BY <1>2
  <2> HIDE DEF e
  <2>2. e.lastRefill = now /\ Refilled(e).tokens >= e.tokens /\ EntryOK(Refilled(e))
    BY <2>1, RefillKeeps
  <2>3. e.tokens \in Nat /\ Refilled(e).tokens \in Nat /\ Unit \in Nat
    BY <2>1, <2>2, ConfigFacts DEF EntryOK, Unit
  <2>4. ~(e.tokens >= Unit)
    BY <2>1, <2>2, <2>3
  <2> QED
    BY <2>2, <2>4 DEF e
<1>4. CASE client \in DOMAIN r.entries
  <2>1. s = r
    BY <1>4 DEF getOrInsertLocked
  <2> HIDE DEF s
  <2> QED
    BY <1>3, <1>4, <2>1
<1>5. CASE client \notin DOMAIN r.entries
  <2>1. s.entries[client] = freshEntry
    <3>1. r = [entries |-> r.entries, ring |-> r.ring, cursor |-> r.cursor]
      BY DEF ShardOK
    <3>2. \A g : Over(At(client, freshEntry), g)[client] = freshEntry
      BY DEF Over, At
    <3>3. \/ \E g : s.entries = Over(At(client, freshEntry), g)
      BY <1>5, <3>1 DEF getOrInsertLocked
    <3> HIDE DEF s
    <3> QED
      BY <3>2, <3>3
  <2>2. freshEntry.tokens = cfg.rep.burst * Unit
    BY DEF freshEntry
  <2>3. cfg.rep.burst * Unit >= Unit
    <3>1. \A k \in Nat \ {0}, u \in Nat : k * u >= u
      OBVIOUS
    <3> QED
      BY <3>1, ConfigFacts DEF Unit
  <2> QED
    BY <1>3, <2>1, <2>2, <2>3
<1> QED
  BY <1>4, <1>5

-----------------------------------------------------------------------------
(* The TCP listener.                                                       *)

LEMMA PlacesFacts ==
    ASSUME NEW l, ListenerOK(l)
    PROVE  /\ Len(l.conns) \in Nat /\ DOMAIN l.conns = 1 .. Len(l.conns)
           /\ Places(l) \subseteq DOMAIN l.conns
           /\ IsFiniteSet(Places(l)) /\ Cardinality(Places(l)) \in Nat
           /\ \A c : Held(l, c) \subseteq Places(l) /\ IsFiniteSet(Held(l, c))
           /\ \A c : Cardinality(Held(l, c)) \in Nat
           /\ \A c : c # <<>> => Counted(l, c) = Cardinality(Held(l, c))
<1>1. Len(l.conns) \in Nat /\ DOMAIN l.conns = 1 .. Len(l.conns)
  BY DEF ListenerOK
<1>2. IsFiniteSet(DOMAIN l.conns)
  BY <1>1, FS_Interval
<1>3. Places(l) \subseteq DOMAIN l.conns /\ \A c : Held(l, c) \subseteq Places(l)
  BY DEF Places, Held
<1>4. IsFiniteSet(Places(l)) /\ \A c : IsFiniteSet(Held(l, c))
  BY <1>2, <1>3, FS_Subset
<1>5. Cardinality(Places(l)) \in Nat /\ \A c : Cardinality(Held(l, c)) \in Nat
  BY <1>4, FS_CardinalityType
<1>6. ASSUME NEW c, c # <<>> PROVE Counted(l, c) = Cardinality(Held(l, c))
  <2>1. CASE c \in DOMAIN l.perClient
    BY <2>1 DEF ListenerOK, Counted
  <2>2. CASE c \notin DOMAIN l.perClient
    <3>1. Held(l, c) = {}
      BY <2>2, <1>6 DEF ListenerOK, Held, Places
    <3> QED
      BY <2>2, <3>1, FS_EmptySet DEF Counted
  <2> QED
    BY <2>1, <2>2
<1> QED
  BY <1>1, <1>3, <1>4, <1>5, <1>6

LEMMA BudgetKeeps ==
    ASSUME Clock, NEW l, ListenerOK(l)
    PROVE  RefilledBudget(l, cfg.tcp, now) \in 0 .. cfg.tcp.burst
<1> DEFINE k == now - l.lastRefill
           y == k * cfg.tcp.rate
<1>1. k \in Nat /\ cfg.tcp.rate \in Nat /\ cfg.tcp.burst \in Nat /\ l.tokens \in Nat
  <2>1. cfg.tcp.rate \in Nat /\ cfg.tcp.burst \in Nat
    BY ConfigFacts
  <2>2. now \in Nat /\ l.lastRefill \in 0 .. now /\ l.tokens \in 0 .. cfg.tcp.burst
    BY DEF Clock, ListenerOK
  <2> QED
    BY <2>1, <2>2
<1>2. y \in Nat
  <2> HIDE DEF k
  <2> QED
    BY <1>1
<1>3. RefilledBudget(l, cfg.tcp, now) = Min({cfg.tcp.burst, l.tokens + y})
  BY DEF RefilledBudget
<1> HIDE DEF y
<1>4. l.tokens + y \in Nat
  BY <1>1, <1>2
<1> QED
  BY <1>1, <1>3, <1>4, MinOfTwo

\* A connection counts from its admission; a rejected one only costs a token.
LEMMA AdmitKeeps ==
    ASSUME Clock, NEW l, ListenerOK(l), NEW client \in cfg.tcp.clients
    PROVE  ListenerOK(admit(l, cfg.tcp, client, now))
<1> DEFINE m == admit(l, cfg.tcp, client, now)
           refilled == RefilledBudget(l, cfg.tcp, now)
           tokens == IF refilled < 1 THEN refilled ELSE refilled - 1
           n == Len(l.conns)
           paid == [l EXCEPT !.tokens = tokens, !.lastRefill = now]
<1>1. tokens \in 0 .. cfg.tcp.burst /\ now \in 0 .. now
  <2>1. refilled \in 0 .. cfg.tcp.burst
    BY BudgetKeeps
  <2> HIDE DEF refilled
  <2> QED
    BY <2>1, ConfigFacts DEF Clock
<1>2. l = [active |-> l.active, perClient |-> l.perClient, tokens |-> l.tokens,
           lastRefill |-> l.lastRefill, conns |-> l.conns]
  BY DEF ListenerOK
<1>3. paid = [active |-> l.active, perClient |-> l.perClient, tokens |-> tokens,
              lastRefill |-> now, conns |-> l.conns]
  <2> DEFINE half == [l EXCEPT !.tokens = tokens]
  <2>1. paid = [half EXCEPT !.lastRefill = now]
    OBVIOUS
  <2> HIDE DEF tokens
  <2>2. half = [active |-> l.active, perClient |-> l.perClient, tokens |-> tokens,
                lastRefill |-> l.lastRefill, conns |-> l.conns]
    BY <1>2
  <2> HIDE DEF half, paid
  <2> QED
    BY <2>1, <2>2
<1>4. CASE ~admitted(l, cfg.tcp, client, now)
  <2>1. m = paid
    BY <1>4 DEF admit
  <2> HIDE DEF m, paid, tokens
  <2>2. /\ m.active = l.active /\ m.perClient = l.perClient /\ m.conns = l.conns
        /\ m.tokens = tokens /\ m.lastRefill = now
        /\ m = [active |-> m.active, perClient |-> m.perClient, tokens |-> m.tokens,
                lastRefill |-> m.lastRefill, conns |-> m.conns]
    BY <2>1, <1>3
  <2>3. Places(m) = Places(l) /\ \A c : Held(m, c) = Held(l, c)
    BY <2>2 DEF Places, Held
  <2>4. ListenerOK(m)
    BY <1>1, <2>2, <2>3 DEF ListenerOK
  <2> QED
    BY <2>4 DEF m
<1>5. CASE admitted(l, cfg.tcp, client, now)
  <2> DEFINE conns == Append(l.conns, [client |-> client, released |-> FALSE])
             per == IF client = <<>> THEN l.perClient
                    ELSE Over(At(client, Counted(l, client) + 1), l.perClient)
  <2>1. m = [active |-> l.active + 1, perClient |-> per, tokens |-> tokens,
             lastRefill |-> now, conns |-> conns]
    <3>1. m = [paid EXCEPT !.active = @ + 1,
                           !.perClient = IF client = <<>> THEN @
                                         ELSE Over(At(client, Counted(l, client) + 1), @),
                           !.conns = Append(@, [client |-> client, released |-> FALSE])]
      BY <1>5 DEF admit
    <3> HIDE DEF m, paid, tokens
    <3> QED
      BY <1>3, <3>1
  <2>2. n \in Nat /\ DOMAIN l.conns = 1 .. n
    BY PlacesFacts
  <2>3. /\ conns \in Seq([client : cfg.tcp.clients, released : BOOLEAN])
        /\ DOMAIN conns = 1 .. n + 1
        /\ conns[n + 1].client = client /\ ~conns[n + 1].released
        /\ \A i \in 1 .. n : conns[i] = l.conns[i]
    <3>1. l.conns \in Seq([client : cfg.tcp.clients, released : BOOLEAN])
      BY DEF ListenerOK
    <3>2. [client |-> client, released |-> FALSE] \in [client : cfg.tcp.clients, released : BOOLEAN]
      OBVIOUS
    <3>3. Len(conns) = n + 1 /\ conns[n + 1] = [client |-> client, released |-> FALSE]
          /\ \A i \in 1 .. n : conns[i] = l.conns[i]
      BY <2>2, <3>1
    <3> QED
      BY <2>2, <3>1, <3>2, <3>3
  <2> HIDE DEF m, tokens, conns, per
  <2>4. /\ m.active = l.active + 1 /\ m.perClient = per /\ m.conns = conns
        /\ m.tokens = tokens /\ m.lastRefill = now
        /\ m = [active |-> m.active, perClient |-> m.perClient, tokens |-> m.tokens,
                lastRefill |-> m.lastRefill, conns |-> m.conns]
    BY <2>1
  <2> DEFINE P == Places(l)
             H(c) == Held(l, c)
  <2>5. Places(m) = P \cup {n + 1}
    BY <2>2, <2>3, <2>4 DEF Places
  <2>6. \A c : Held(m, c) = IF c = client THEN H(c) \cup {n + 1} ELSE H(c)
    BY <2>2, <2>3, <2>4 DEF Held
  <2>7. n + 1 \notin P /\ \A c : n + 1 \notin H(c)
    BY <2>2, PlacesFacts
  <2>8. IsFiniteSet(P) /\ \A c : IsFiniteSet(H(c))
    BY PlacesFacts
  <2> HIDE DEF P, H
  <2>9. Cardinality(Places(m)) = Cardinality(P) + 1
    BY <2>5, <2>7, <2>8, FS_AddElement
  <2>10. Cardinality(Held(m, client)) = Cardinality(H(client)) + 1
    BY <2>6, <2>7, <2>8, FS_AddElement
  <2>11. m.active = Cardinality(Places(m)) /\ m.active <= cfg.tcp.max
    <3>1. l.active = Cardinality(P) /\ l.active \in Nat /\ l.active < cfg.tcp.max
      BY <1>5, PlacesFacts DEF ListenerOK, admitted, P
    <3>2. cfg.tcp.max \in Nat
      BY ConfigFacts
    <3> QED
      BY <2>4, <2>9, <3>1, <3>2
  <2>12. DOMAIN per = IF client = <<>> THEN DOMAIN l.perClient ELSE DOMAIN l.perClient \cup {client}
    BY DEF per, Over, At
  <2>13. {conns[i].client : i \in Places(m)} = {l.conns[i].client : i \in P} \cup {client}
    <3>1. P \subseteq 1 .. n
      BY <2>2, PlacesFacts DEF P
    <3> QED
      BY <2>3, <2>5, <3>1
  <2>14. DOMAIN m.perClient = {m.conns[i].client : i \in Places(m)} \ {<<>>}
    <3>1. DOMAIN l.perClient = {l.conns[i].client : i \in P} \ {<<>>}
      BY DEF ListenerOK, P
    <3>2. {m.conns[i].client : i \in Places(m)} = {l.conns[i].client : i \in P} \cup {client}
      BY <2>4, <2>13
    <3> HIDE DEF P
    <3> QED
      BY <2>4, <2>12, <3>1, <3>2
  <2>15. ASSUME NEW c \in DOMAIN m.perClient
         PROVE  m.perClient[c] = Cardinality(Held(m, c)) /\ m.perClient[c] <= cfg.tcp.perClient
    <3>1. CASE c = client
      <4>1. c # <<>>
        BY <2>14
      <4>2. m.perClient[c] = Counted(l, c) + 1
        BY <2>4, <3>1, <4>1 DEF per, Over, At
      <4>3. Counted(l, c) = Cardinality(H(c)) /\ Counted(l, c) \in Nat
        BY <4>1, PlacesFacts DEF H
      <4>4. Counted(l, c) < cfg.tcp.perClient
        BY <1>5, <3>1, <4>1 DEF admitted
      <4>5. cfg.tcp.perClient \in Nat
        BY ConfigFacts
      <4> QED
        BY <2>10, <3>1, <4>2, <4>3, <4>4, <4>5
    <3>2. CASE c # client
      <4>1. c \in DOMAIN l.perClient
        BY <2>4, <2>12, <3>2
      <4>2. m.perClient[c] = l.perClient[c]
        BY <2>4, <3>2 DEF per, Over, At
      <4>3. Held(m, c) = Held(l, c)
        BY <2>6, <3>2 DEF H
      <4> QED
        BY <4>1, <4>2, <4>3 DEF ListenerOK
    <3> QED
      BY <3>1, <3>2
  <2>16. m.conns \in Seq([client : cfg.tcp.clients, released : BOOLEAN])
    BY <2>3, <2>4
  <2>17. m.tokens \in 0 .. cfg.tcp.burst /\ m.lastRefill \in 0 .. now
    BY <1>1, <2>4
  <2>18. ListenerOK(m)
    BY <2>4, <2>11, <2>14, <2>15, <2>16, <2>17 DEF ListenerOK
  <2> QED
    BY <2>18 DEF m
<1> QED
  BY <1>4, <1>5

\* A closed connection gives its place back once, however often it is closed.
LEMMA CloseKeeps ==
    ASSUME Clock, NEW l, ListenerOK(l), NEW i \in DOMAIN l.conns
    PROVE  ListenerOK(Close(l, i))
<1> DEFINE m == Close(l, i)
           client == l.conns[i].client
           n == Len(l.conns)
           Conn == [client : cfg.tcp.clients, released : BOOLEAN]
<1>1. CASE l.conns[i].released
  BY <1>1 DEF Close
<1>2. CASE ~l.conns[i].released
  <2> DEFINE remaining == Counted(l, client) - 1
             per == IF client = <<>> THEN l.perClient
                    ELSE IF remaining > 0 THEN [l.perClient EXCEPT ![client] = remaining]
                    ELSE Restrict(l.perClient, DOMAIN l.perClient \ {client})
             active == Max({0, l.active - 1})
             conns == [l.conns EXCEPT ![i].released = TRUE]
             u == release(l, client)
             half == [l EXCEPT !.active = active]
  <2>1. l = [active |-> l.active, perClient |-> l.perClient, tokens |-> l.tokens,
             lastRefill |-> l.lastRefill, conns |-> l.conns]
    BY DEF ListenerOK
  <2>2. half = [active |-> active, perClient |-> l.perClient, tokens |-> l.tokens,
                lastRefill |-> l.lastRefill, conns |-> l.conns]
    <3> HIDE DEF active
    <3> QED
      BY <2>1
  <2>3. u = [half EXCEPT !.perClient = per]
    <3>1. u = [l EXCEPT !.active = active, !.perClient = per]
      BY DEF release
    <3> HIDE DEF u, per, active
    <3> QED
      BY <3>1
  <2>4. u = [active |-> active, perClient |-> per, tokens |-> l.tokens,
             lastRefill |-> l.lastRefill, conns |-> l.conns]
    <3> HIDE DEF u, half, per, active
    <3> QED
      BY <2>2, <2>3
  <2>5. m = [active |-> active, perClient |-> per, tokens |-> l.tokens,
             lastRefill |-> l.lastRefill, conns |-> conns]
    <3>1. m = [u EXCEPT !.conns[i].released = TRUE]
      BY <1>2 DEF Close
    <3> HIDE DEF m, u, per, active
    <3>2. m = [u EXCEPT !.conns = [u.conns EXCEPT ![i].released = TRUE]]
      BY <3>1
    <3>3. u.conns = l.conns
      BY <2>4
    <3>4. m = [u EXCEPT !.conns = conns]
      BY <3>2, <3>3
    <3> HIDE DEF conns
    <3> QED
      BY <2>4, <3>4
  <2> HIDE DEF m, u, half
  <2>6. /\ m.active = active /\ m.perClient = per /\ m.conns = conns
        /\ m.tokens = l.tokens /\ m.lastRefill = l.lastRefill
        /\ m = [active |-> m.active, perClient |-> m.perClient, tokens |-> m.tokens,
                lastRefill |-> m.lastRefill, conns |-> m.conns]
    <3> HIDE DEF active, per, conns
    <3> QED
      BY <2>5
  <2>7. n \in Nat /\ DOMAIN l.conns = 1 .. n /\ i \in 1 .. n
    BY PlacesFacts
  <2>8. /\ conns \in Seq(Conn) /\ DOMAIN conns = 1 .. n
        /\ conns[i].client = client /\ conns[i].released
        /\ \A k \in (1 .. n) \ {i} : conns[k] = l.conns[k]
    <3>1. l.conns \in Seq(Conn)
      BY DEF ListenerOK
    <3>2. l.conns[i] \in Conn
      <4> HIDE DEF Conn
      <4> QED
        BY <2>7, <3>1
    <3>3. ASSUME NEW d \in Conn
          PROVE  [d EXCEPT !.released = TRUE] = [client |-> d.client, released |-> TRUE]
      <4> DEFINE a == d.client
                 b == d.released
                 yes == TRUE
      <4>1. d = [client |-> a, released |-> b]
        OBVIOUS
      <4> HIDE DEF a, b, yes, Conn, conns, client
      <4>2. [d EXCEPT !.released = yes] = [client |-> a, released |-> yes]
        BY <4>1
      <4> QED
        BY <4>2 DEF a, yes
    <3>4. [client |-> client, released |-> TRUE] \in Conn
      BY <3>2
    <3> DEFINE e == [client |-> client, released |-> TRUE]
    <3>5. conns = [l.conns EXCEPT ![i] = e]
      BY <3>2, <3>3
    <3>6. e.client = client /\ e.released /\ e \in Conn
      BY <3>4
    <3> HIDE DEF conns, e, Conn, client
    <3> QED
      BY <2>7, <3>1, <3>5, <3>6
  <2> DEFINE P == Places(l)
             H(c) == Held(l, c)
  <2>9. i \in P /\ i \in H(client)
    BY <1>2 DEF Places, Held
  <2>10. IsFiniteSet(P) /\ \A c : IsFiniteSet(H(c))
    BY PlacesFacts
  <2> HIDE DEF conns, active, per
  <2>11. Places(m) = P \ {i}
    BY <2>6, <2>7, <2>8 DEF Places
  <2>12. \A c : Held(m, c) = IF c = client THEN H(c) \ {i} ELSE H(c)
    BY <1>2, <2>6, <2>7, <2>8 DEF Held
  <2> HIDE DEF P, H
  <2>13. Cardinality(Places(m)) = Cardinality(P) - 1 /\ Cardinality(P) \in Nat \ {0}
    BY <2>9, <2>10, <2>11, FS_RemoveElement, FS_CardinalityType, FS_EmptySet
  <2>14. Cardinality(Held(m, client)) = Cardinality(H(client)) - 1
         /\ Cardinality(H(client)) \in Nat \ {0}
    <3> DEFINE h == H(client)
    <3>1. i \in h /\ IsFiniteSet(h) /\ Held(m, client) = h \ {i}
      BY <2>9, <2>10, <2>12
    <3> HIDE DEF h
    <3>2. Cardinality(Held(m, client)) = Cardinality(h) - 1 /\ Cardinality(h) \in Nat \ {0}
      BY <3>1, FS_RemoveElement, FS_CardinalityType, FS_EmptySet
    <3> QED
      BY <3>2 DEF h
  <2>15. m.active = Cardinality(Places(m)) /\ m.active <= cfg.tcp.max
    <3>1. l.active = Cardinality(P) /\ l.active <= cfg.tcp.max /\ cfg.tcp.max \in Nat
      BY ConfigFacts DEF ListenerOK, P
    <3>2. active = l.active - 1
      <4>1. l.active \in Nat \ {0}
        BY <2>13, <3>1
      <4>2. Max({0, l.active - 1}) = l.active - 1
        BY <4>1, MaxOfTwo
      <4> QED
        BY <4>2 DEF active
    <3> QED
      BY <2>6, <2>13, <3>1, <3>2
  <2>16. DOMAIN l.perClient = {l.conns[k].client : k \in P} \ {<<>>}
    BY DEF ListenerOK, P
  <2>17. P \subseteq 1 .. n
    BY <2>7, PlacesFacts DEF P
  <2>18. {m.conns[k].client : k \in Places(m)} = {l.conns[k].client : k \in P \ {i}}
    BY <2>6, <2>8, <2>11, <2>17
  <2>19. client # <<>> => client \in DOMAIN l.perClient /\ remaining = Cardinality(H(client)) - 1
    BY <2>9, <2>16, PlacesFacts DEF H
  <2>rest. /\ m.conns \in Seq([client : cfg.tcp.clients, released : BOOLEAN])
           /\ m.tokens \in 0 .. cfg.tcp.burst /\ m.lastRefill \in 0 .. now
           /\ m = [active |-> m.active, perClient |-> m.perClient, tokens |-> m.tokens,
                   lastRefill |-> m.lastRefill, conns |-> m.conns]
    <3>1. l.tokens \in 0 .. cfg.tcp.burst /\ l.lastRefill \in 0 .. now
      BY DEF ListenerOK
    <3> QED
      BY <2>6, <2>8, <3>1
  <2>20. ASSUME client = <<>> PROVE ListenerOK(m)
    <3>1. m.perClient = l.perClient
      BY <2>6, <2>20 DEF per
    <3>2. DOMAIN m.perClient = {m.conns[k].client : k \in Places(m)} \ {<<>>}
      BY <2>16, <2>18, <2>20, <3>1
    <3>3. ASSUME NEW c \in DOMAIN m.perClient
          PROVE  m.perClient[c] = Cardinality(Held(m, c)) /\ m.perClient[c] <= cfg.tcp.perClient
      <4>1. c # client
        BY <2>20, <3>2
      <4>2. Held(m, c) = Held(l, c)
        BY <2>12, <4>1 DEF H
      <4> QED
        BY <3>1, <4>2 DEF ListenerOK
    <3> QED
      BY <3>2, <3>3, <2>rest, <2>15 DEF ListenerOK
  <2>21. ASSUME client # <<>> PROVE ListenerOK(m)
    <3>1. DOMAIN m.perClient = IF remaining > 0 THEN DOMAIN l.perClient
                               ELSE DOMAIN l.perClient \ {client}
      BY <2>6, <2>21 DEF per, Restrict
    <3>2. remaining > 0 <=> \E k \in P \ {i} : l.conns[k].client = client
      <4>1. Held(m, client) = {k \in P \ {i} : l.conns[k].client = client}
        BY <2>12, <2>9 DEF H, P, Held, Places
      <4>2. IsFiniteSet(Held(m, client))
        BY <2>10, <2>12, FS_Subset
      <4>3. remaining = Cardinality(Held(m, client)) /\ remaining \in Nat
        BY <2>14, <2>19, <2>21
      <4>4. remaining = 0 <=> Held(m, client) = {}
        BY <4>2, <4>3, FS_EmptySet
      <4> HIDE DEF remaining
      <4>5. remaining > 0 <=> Held(m, client) # {}
        BY <4>3, <4>4
      <4> QED
        BY <4>1, <4>5
    <3>3. DOMAIN m.perClient = {m.conns[k].client : k \in Places(m)} \ {<<>>}
      <4>1. \A c : c # client => (c \in {l.conns[k].client : k \in P}
                                   <=> c \in {l.conns[k].client : k \in P \ {i}})
        OBVIOUS
      <4> HIDE DEF remaining, client
      <4>2. client \in {l.conns[k].client : k \in P \ {i}} <=> remaining > 0
        BY <3>2
      <4>3. client \in DOMAIN l.perClient
        BY <2>19, <2>21
      <4>4. \A c : c \in DOMAIN m.perClient
                     <=> c \in {l.conns[k].client : k \in P \ {i}} \ {<<>>}
        BY <2>16, <2>21, <3>1, <4>1, <4>2, <4>3
      <4> QED
        BY <2>18, <4>4
    <3>4. ASSUME NEW c \in DOMAIN m.perClient
          PROVE  m.perClient[c] = Cardinality(Held(m, c)) /\ m.perClient[c] <= cfg.tcp.perClient
      <4>1. CASE c = client
        <5>1. remaining > 0
          BY <3>1, <4>1
        <5>2. m.perClient[c] = remaining
          BY <2>6, <2>19, <2>21, <4>1, <5>1 DEF per
        <5>3. l.perClient[client] <= cfg.tcp.perClient
              /\ l.perClient[client] = Cardinality(H(client))
          BY <2>19, <2>21 DEF ListenerOK, H
        <5>4. cfg.tcp.perClient \in Nat
          BY ConfigFacts
        <5>5. remaining = Cardinality(H(client)) - 1
          BY <2>19, <2>21
        <5> HIDE DEF remaining
        <5> QED
          BY <2>14, <4>1, <5>2, <5>3, <5>4, <5>5
      <4>2. CASE c # client
        <5>1. c \in DOMAIN l.perClient /\ m.perClient[c] = l.perClient[c]
          BY <2>6, <2>21, <3>1, <4>2 DEF per, Restrict
        <5>2. Held(m, c) = Held(l, c)
          BY <2>12, <4>2 DEF H
        <5> QED
          BY <5>1, <5>2 DEF ListenerOK
      <4> QED
        BY <4>1, <4>2
    <3> QED
      BY <3>3, <3>4, <2>rest, <2>15 DEF ListenerOK
  <2> QED
    BY <2>20, <2>21 DEF m
<1> QED
  BY <1>1, <1>2

-----------------------------------------------------------------------------
(* The buckets of the response rate limiter.                               *)

LEMMA RestoringFacts ==
    ASSUME Clock, NEW b
    PROVE  /\ IsFiniteSet(Restoring(b)) /\ Cardinality(Restoring(b)) \in Nat
           /\ Restoring(b) \subseteq cfg.procs
           /\ \A p \in cfg.procs \ Restoring(b) :
                 Cardinality(Restoring(b)) <= Cardinality(cfg.procs) - 1
<1>1. Restoring(b) \subseteq cfg.procs /\ IsFiniteSet(cfg.procs)
  BY ConfigFacts DEF Restoring
<1>2. IsFiniteSet(Restoring(b)) /\ Cardinality(Restoring(b)) \in Nat
  BY <1>1, FS_Subset, FS_CardinalityType
<1>3. ASSUME NEW p \in cfg.procs \ Restoring(b)
      PROVE  Cardinality(Restoring(b)) <= Cardinality(cfg.procs) - 1
  <2>1. Restoring(b) \subseteq cfg.procs \ {p}
    BY <1>1
  <2>2. IsFiniteSet(cfg.procs \ {p}) /\ Cardinality(cfg.procs \ {p}) = Cardinality(cfg.procs) - 1
    BY <1>1, FS_RemoveElement
  <2> QED
    BY <2>1, <2>2, FS_Subset
<1> QED
  BY <1>1, <1>2, <1>3

\* Handler p moves, the others stay where they are.
Moves(p) ==
    /\ DOMAIN proc' = cfg.procs
    /\ \A q \in cfg.procs \ {p} : proc'[q] = proc[q]
    /\ DOMAIN proc'[p] = DOMAIN Idle

LEMMA MovesKeepHandlers ==
    ASSUME Handlers, NEW p \in cfg.procs, Moves(p), cfg' = cfg,
           Len(objs) \in Nat, Len(objs') \in Nat, Len(objs) <= Len(objs'),
           proc'[p].pc \in Outside \cup Inside,
           proc'[p].out \in Outcomes,
           proc'[p].obj \in 0 .. Len(objs'),
           proc'[p].pc \in Inside => proc'[p].obj # 0
    PROVE  Handlers'
<1> SUFFICES ASSUME NEW q \in cfg.procs
             PROVE  /\ DOMAIN proc'[q] = DOMAIN Idle
                    /\ proc'[q].pc \in Outside \cup Inside
                    /\ proc'[q].out \in Outcomes
                    /\ proc'[q].obj \in 0 .. Len(objs')
                    /\ proc'[q].pc \in Inside => proc'[q].obj # 0
  BY DEF Handlers, Moves, Outcomes, Idle, Nothing, NoNameservers, Reply
<1> HIDE DEF Idle
<1>1. CASE q = p
  BY <1>1 DEF Moves
<1>2. CASE q # p
  <2>1. proc'[q] = proc[q]
    BY <1>2 DEF Moves
  <2>2. proc[q].obj \in 0 .. Len(objs)
    BY DEF Handlers
  <2> QED
    BY <2>1, <2>2 DEF Handlers, Outcomes
<1> QED
  BY <1>1, <1>2

\* The handlers about to give a token back, when p alone moves.
LEMMA RestoringMoves ==
    ASSUME NEW p \in cfg.procs, Moves(p), cfg' = cfg, NEW b
    PROVE  Restoring(b)' = (Restoring(b) \ {p}) \cup
                 (IF proc'[p].pc = "restore" /\ proc'[p].obj = b THEN {p} ELSE {})
BY DEF Restoring, Moves

\* What a refill, a stamp or a take leaves in the sequence of buckets.
LEMMA TokensWritten ==
    ASSUME objs \in Seq([tokens : Int, last : Nat]), NEW o \in DOMAIN objs, NEW v \in Int,
           objs' = [objs EXCEPT ![o].tokens = v]
    PROVE  /\ objs' \in Seq([tokens : Int, last : Nat])
           /\ DOMAIN objs' = DOMAIN objs /\ Len(objs') = Len(objs)
           /\ objs'[o] = [tokens |-> v, last |-> objs[o].last]
           /\ \A b \in DOMAIN objs \ {o} : objs'[b] = objs[b]
<1> DEFINE R == [tokens : Int, last : Nat]
           e == [tokens |-> v, last |-> objs[o].last]
<1>1. objs[o] \in R
  <2>1. objs \in Seq(R)
    OBVIOUS
  <2> HIDE DEF R
  <2> QED
    BY <2>1
<1>2. [objs[o] EXCEPT !.tokens = v] = e /\ e \in R
  BY <1>1
<1>3. objs' = [objs EXCEPT ![o] = e]
  BY <1>2
<1> HIDE DEF e, R
<1> QED
  BY <1>2, <1>3 DEF e, R

LEMMA StampWritten ==
    ASSUME objs \in Seq([tokens : Int, last : Nat]), NEW o \in DOMAIN objs, NEW v \in Nat,
           objs' = [objs EXCEPT ![o].last = v]
    PROVE  /\ objs' \in Seq([tokens : Int, last : Nat])
           /\ DOMAIN objs' = DOMAIN objs /\ Len(objs') = Len(objs)
           /\ objs'[o] = [tokens |-> objs[o].tokens, last |-> v]
           /\ \A b \in DOMAIN objs \ {o} : objs'[b] = objs[b]
<1> DEFINE R == [tokens : Int, last : Nat]
           e == [tokens |-> objs[o].tokens, last |-> v]
<1>1. objs[o] \in R
  <2>1. objs \in Seq(R)
    OBVIOUS
  <2> HIDE DEF R
  <2> QED
    BY <2>1
<1>2. [objs[o] EXCEPT !.last = v] = e /\ e \in R
  BY <1>1
<1>3. objs' = [objs EXCEPT ![o] = e]
  BY <1>2
<1> HIDE DEF e, R
<1> QED
  BY <1>2, <1>3 DEF e, R

\* The other handlers carry what they carried.
LEMMA OthersCarry ==
    ASSUME RateBuckets, NEW p \in cfg.procs, Moves(p), UNCHANGED <<cfg, now>>,
           proc'[p].pc = "refill" => proc'[p].fill \in Nat /\ proc'[p].fill >= cfg.rrl.limit,
           proc'[p].pc = "store" =>
              /\ proc'[p].fill \in Int /\ proc'[p].fill <= MaxTokens
              /\ FewHandlers => proc'[p].fill >= 0,
           proc'[p].pc \in {"refill", "store", "stamp"} => proc'[p].at \in 0 .. now
    PROVE  Carried'
<1> SUFFICES ASSUME NEW q \in cfg.procs
             PROVE  /\ proc'[q].pc = "refill" => proc'[q].fill \in Nat /\ proc'[q].fill >= cfg.rrl.limit
                    /\ proc'[q].pc = "store" =>
                          /\ proc'[q].fill \in Int /\ proc'[q].fill <= MaxTokens
                          /\ FewHandlers => proc'[q].fill >= 0
                    /\ proc'[q].pc \in {"refill", "store", "stamp"} => proc'[q].at \in 0 .. now
  BY DEF Carried, MaxTokens, FewHandlers
<1>1. CASE q = p
  BY <1>1
<1>2. CASE q # p
  BY <1>2 DEF Moves, RateBuckets, Carried
<1> QED
  BY <1>1, <1>2

\* A handler's move while the buckets keep their number: what remains to be shown
\* of them is the bucket it holds.
LEMMA BucketMove ==
    ASSUME Clock, Handlers, RateBuckets, NEW p \in cfg.procs, Moves(p),
           UNCHANGED <<cfg, now, table>>,
           NEW o \in DOMAIN objs,
           objs' \in Seq([tokens : Int, last : Nat]), DOMAIN objs' = DOMAIN objs,
           objs'[o].last <= now,
           \A b \in DOMAIN objs \ {o} : objs'[b] = objs[b],
           proc[p].obj = o, proc'[p].obj = o,
           objs'[o].tokens + Cardinality(Restoring(o)')
              <= MaxTokens + Cardinality(cfg.procs) - 1,
           FewHandlers => objs'[o].tokens >= -Cardinality(Restoring(o)'),
           Carried'
    PROVE  RateBuckets'
<1>1. \A b \in DOMAIN objs \ {o} : Restoring(b)' = Restoring(b)
  <2> TAKE b \in DOMAIN objs \ {o}
  <2>1. p \notin Restoring(b)
    BY DEF Restoring
  <2>2. Restoring(b)' = (Restoring(b) \ {p}) \cup
              (IF proc'[p].pc = "restore" /\ proc'[p].obj = b THEN {p} ELSE {})
    BY RestoringMoves
  <2>3. proc'[p].obj # b
    OBVIOUS
  <2> QED
    BY <2>1, <2>2, <2>3
<1>2. MaxTokens' = MaxTokens /\ FewHandlers' = FewHandlers /\ Buckets' = DOMAIN objs
  BY DEF MaxTokens, FewHandlers, Buckets
<1>3. TokensStayBounded'
  <2> SUFFICES ASSUME NEW b \in DOMAIN objs
               PROVE  /\ objs'[b].tokens + Cardinality(Restoring(b)')
                           <= MaxTokens + Cardinality(cfg.procs) - 1
                      /\ FewHandlers => objs'[b].tokens >= -Cardinality(Restoring(b)')
    BY <1>2 DEF TokensStayBounded
  <2>1. CASE b = o
    BY <2>1
  <2>2. CASE b # o
    BY <1>1, <2>2 DEF RateBuckets, TokensStayBounded, Buckets
  <2> QED
    BY <2>1, <2>2
<1>4. \A b \in DOMAIN objs' : objs'[b].last <= now
  BY DEF RateBuckets
<1>5. \A key \in DOMAIN table : table[key] \in DOMAIN objs'
  BY DEF RateBuckets
<1> QED
  BY <1>3, <1>4, <1>5 DEF RateBuckets

\* The bucket a handler inside Check holds, and its tokens.
LEMMA HeldBucket ==
    ASSUME Clock, Handlers, RateBuckets, NEW p \in cfg.procs, proc[p].pc \in Inside
    PROVE  LET o == proc[p].obj IN
           /\ Len(objs) \in Nat /\ o \in DOMAIN objs /\ DOMAIN objs = 1 .. Len(objs)
           /\ objs[o].tokens \in Int /\ objs[o].last \in Nat /\ objs[o].last <= now
           /\ objs[o].tokens + Cardinality(Restoring(o)) <= MaxTokens + Cardinality(cfg.procs) - 1
           /\ FewHandlers => objs[o].tokens >= -Cardinality(Restoring(o))
           /\ Cardinality(Restoring(o)) \in Nat /\ IsFiniteSet(Restoring(o))
           /\ proc[p].pc # "restore" => /\ p \notin Restoring(o)
                                        /\ Cardinality(Restoring(o)) <= Cardinality(cfg.procs) - 1
           /\ proc[p].pc = "restore" => p \in Restoring(o)
<1> DEFINE o == proc[p].obj
<1>1. Len(objs) \in Nat /\ o \in 1 .. Len(objs) /\ DOMAIN objs = 1 .. Len(objs)
  BY DEF Handlers, RateBuckets
<1>2. objs[o] \in [tokens : Int, last : Nat] /\ objs[o].last <= now
  <2> DEFINE R == [tokens : Int, last : Nat]
  <2>1. objs \in Seq(R) /\ objs[o].last <= now
    BY <1>1 DEF RateBuckets
  <2> HIDE DEF R, o
  <2>2. objs[o] \in R
    BY <1>1, <2>1
  <2> QED
    BY <2>1, <2>2 DEF R
<1>3. /\ objs[o].tokens + Cardinality(Restoring(o)) <= MaxTokens + Cardinality(cfg.procs) - 1
      /\ FewHandlers => objs[o].tokens >= -Cardinality(Restoring(o))
  BY <1>1 DEF RateBuckets, TokensStayBounded, Buckets
<1>4. Cardinality(Restoring(o)) \in Nat /\ IsFiniteSet(Restoring(o))
  BY RestoringFacts
<1>5. p \in Restoring(o) <=> proc[p].pc = "restore"
  BY DEF Restoring
<1>6. p \notin Restoring(o) => Cardinality(Restoring(o)) <= Cardinality(cfg.procs) - 1
  BY RestoringFacts
<1> QED
  BY <1>1, <1>2, <1>3, <1>4, <1>5, <1>6

\* A refill adds what a second grants at least, which with few handlers is no less
\* than what it overlooks.
LEMMA RefillLoadStep ==
    ASSUME Clock, Handlers, RateBuckets, NEW p \in cfg.procs, RefillLoad(p)
    PROVE  Clock' /\ Handlers' /\ RateBuckets'
<1> DEFINE o == proc[p].obj
           x == objs[o].tokens + proc[p].fill
           fill == Min({MaxTokens, x})
           fields == [pc |-> "store", fill |-> fill]
<1>1. proc[p].pc = "refill" /\ Set(p, fields) /\ UNCHANGED <<cfg, now, objs, table>>
  BY DEF RefillLoad
<1>2. DOMAIN fields = {"pc", "fill"} /\ fields.pc = "store" /\ fields.fill = fill
      /\ {"pc", "fill", "obj", "out", "at"} \subseteq DOMAIN Idle
  BY DEF Idle
<1> HIDE DEF fields
<1>3. /\ Moves(p) /\ proc'[p].pc = "store" /\ proc'[p].fill = fill
      /\ proc'[p].obj = o /\ proc'[p].out = proc[p].out /\ proc'[p].at = proc[p].at
  <2> HIDE DEF Idle
  <2> QED
    BY <1>1, <1>2, SetFacts DEF Moves
<1>4. /\ Len(objs) \in Nat /\ o \in DOMAIN objs /\ objs[o].tokens \in Int
      /\ FewHandlers => objs[o].tokens >= -Cardinality(Restoring(o))
      /\ Cardinality(Restoring(o)) \in Nat
      /\ Cardinality(Restoring(o)) <= Cardinality(cfg.procs) - 1
      /\ objs[o].tokens + Cardinality(Restoring(o)) <= MaxTokens + Cardinality(cfg.procs) - 1
      /\ objs[o].last <= now
  BY <1>1, HeldBucket DEF Inside
<1>5. proc[p].fill \in Nat /\ proc[p].fill >= cfg.rrl.limit /\ proc[p].at \in 0 .. now
      /\ cfg.rrl.limit \in Nat /\ MaxTokens \in Nat /\ Cardinality(cfg.procs) \in Nat
  BY <1>1, ConfigFacts DEF RateBuckets, Carried
<1>6. fill \in Int /\ fill <= MaxTokens /\ (FewHandlers => fill >= 0)
  <2>1. x \in Int /\ (FewHandlers => x >= 0)
    <3> DEFINE t == objs[o].tokens
               c == Cardinality(Restoring(o))
               n == Cardinality(cfg.procs)
               f == proc[p].fill
    <3>1. /\ t \in Int /\ c \in Nat /\ n \in Nat /\ f \in Nat /\ f >= cfg.rrl.limit
          /\ c <= n - 1 /\ (FewHandlers => t >= -c) /\ x = t + f
      BY <1>4, <1>5
    <3>2. FewHandlers => n <= cfg.rrl.limit + 1
      BY DEF FewHandlers
    <3> HIDE DEF t, c, n, f, x
    <3> QED
      BY <1>5, <3>1, <3>2
  <2> HIDE DEF x
  <2> QED
    BY <1>5, <2>1, MinOfTwo
<1> HIDE DEF fill
<1>7. Handlers'
  <2>1. o \in 0 .. Len(objs) /\ o # 0 /\ proc[p].out \in Outcomes
    BY <1>1 DEF Handlers, Inside, Outcomes
  <2> QED
    BY <1>1, <1>3, <1>4, <2>1, MovesKeepHandlers DEF Inside
<1>8. Carried'
  BY <1>1, <1>3, <1>5, <1>6, OthersCarry
<1>9. Restoring(o)' = Restoring(o)
  <2>1. p \notin Restoring(o)
    BY <1>1 DEF Restoring
  <2> QED
    BY <1>1, <1>3, <2>1, RestoringMoves
<1>10. RateBuckets'
  <2>1. objs' \in Seq([tokens : Int, last : Nat]) /\ DOMAIN objs' = DOMAIN objs
    BY <1>1 DEF RateBuckets
  <2> HIDE DEF o
  <2> QED
    BY <1>1, <1>3, <1>4, <1>8, <1>9, <2>1, BucketMove DEF o
<1> QED
  BY <1>1, <1>7, <1>10 DEF Clock

LEMMA RefillStoreStep ==
    ASSUME Clock, Handlers, RateBuckets, NEW p \in cfg.procs, RefillStore(p)
    PROVE  Clock' /\ Handlers' /\ RateBuckets'
<1> DEFINE o == proc[p].obj
           v == proc[p].fill
           fields == [pc |-> "stamp"]
<1>1. /\ proc[p].pc = "store" /\ Set(p, fields) /\ UNCHANGED <<cfg, now, table>>
      /\ objs' = [objs EXCEPT ![o].tokens = v]
  BY DEF RefillStore
<1>2. DOMAIN fields = {"pc"} /\ fields.pc = "stamp"
      /\ {"pc", "fill", "obj", "out", "at"} \subseteq DOMAIN Idle
  BY DEF Idle
<1> HIDE DEF fields
<1>3. /\ Moves(p) /\ proc'[p].pc = "stamp" /\ proc'[p].obj = o
      /\ proc'[p].out = proc[p].out /\ proc'[p].at = proc[p].at
  <2> HIDE DEF Idle
  <2> QED
    BY <1>1, <1>2, SetFacts DEF Moves
<1>4. /\ Len(objs) \in Nat /\ o \in DOMAIN objs /\ objs[o].last <= now
      /\ p \notin Restoring(o) /\ Cardinality(Restoring(o)) \in Nat
      /\ Cardinality(Restoring(o)) <= Cardinality(cfg.procs) - 1
  BY <1>1, HeldBucket DEF Inside
<1>5. /\ v \in Int /\ v <= MaxTokens /\ (FewHandlers => v >= 0) /\ proc[p].at \in 0 .. now
      /\ MaxTokens \in Nat /\ Cardinality(cfg.procs) \in Nat
  BY <1>1, ConfigFacts DEF RateBuckets, Carried
<1> HIDE DEF v
<1>6. /\ objs' \in Seq([tokens : Int, last : Nat])
      /\ DOMAIN objs' = DOMAIN objs /\ Len(objs') = Len(objs)
      /\ objs'[o] = [tokens |-> v, last |-> objs[o].last]
      /\ \A b \in DOMAIN objs \ {o} : objs'[b] = objs[b]
  <2> HIDE DEF o
  <2> QED
    BY <1>1, <1>4, <1>5, TokensWritten DEF RateBuckets
<1>7. Handlers'
  <2>1. o \in 0 .. Len(objs) /\ o # 0 /\ proc[p].out \in Outcomes
    BY <1>1 DEF Handlers, Inside, Outcomes
  <2> QED
    BY <1>1, <1>3, <1>4, <1>6, <2>1, MovesKeepHandlers DEF Inside
<1>8. Carried'
  BY <1>1, <1>3, <1>5, OthersCarry
<1>9. Restoring(o)' = Restoring(o)
  <2>1. Restoring(o)' = (Restoring(o) \ {p}) \cup
              (IF proc'[p].pc = "restore" /\ proc'[p].obj = o THEN {p} ELSE {})
    BY <1>1, <1>3, RestoringMoves
  <2>2. proc'[p].pc # "restore"
    BY <1>3
  <2> QED
    BY <1>4, <2>1, <2>2
<1>10. RateBuckets'
  <2>1. /\ v + Cardinality(Restoring(o)) <= MaxTokens + Cardinality(cfg.procs) - 1
        /\ FewHandlers => v >= -Cardinality(Restoring(o))
    BY <1>4, <1>5
  <2>2. objs'[o].tokens = v /\ objs'[o].last = objs[o].last
    BY <1>6
  <2> HIDE DEF o
  <2> QED
    BY <1>1, <1>3, <1>4, <1>6, <1>8, <1>9, <2>1, <2>2, BucketMove DEF o
<1> QED
  BY <1>1, <1>7, <1>10 DEF Clock

LEMMA RefillStampStep ==
    ASSUME Clock, Handlers, RateBuckets, NEW p \in cfg.procs, RefillStamp(p)
    PROVE  Clock' /\ Handlers' /\ RateBuckets'
<1> DEFINE o == proc[p].obj
           v == proc[p].at
           fields == [pc |-> "take"]
<1>1. /\ proc[p].pc = "stamp" /\ Set(p, fields) /\ UNCHANGED <<cfg, now, table>>
      /\ objs' = [objs EXCEPT ![o].last = v]
  BY DEF RefillStamp
<1>2. DOMAIN fields = {"pc"} /\ fields.pc = "take"
      /\ {"pc", "fill", "obj", "out", "at"} \subseteq DOMAIN Idle
  BY DEF Idle
<1> HIDE DEF fields
<1>3. /\ Moves(p) /\ proc'[p].pc = "take" /\ proc'[p].obj = o /\ proc'[p].out = proc[p].out
  <2> HIDE DEF Idle
  <2> QED
    BY <1>1, <1>2, SetFacts DEF Moves
<1>4. /\ Len(objs) \in Nat /\ o \in DOMAIN objs /\ p \notin Restoring(o)
      /\ objs[o].tokens + Cardinality(Restoring(o)) <= MaxTokens + Cardinality(cfg.procs) - 1
      /\ FewHandlers => objs[o].tokens >= -Cardinality(Restoring(o))
  BY <1>1, HeldBucket DEF Inside
<1>5. v \in 0 .. now /\ now \in Nat
  BY <1>1 DEF RateBuckets, Carried, Clock
<1> HIDE DEF v
<1>6. /\ objs' \in Seq([tokens : Int, last : Nat])
      /\ DOMAIN objs' = DOMAIN objs /\ Len(objs') = Len(objs)
      /\ objs'[o] = [tokens |-> objs[o].tokens, last |-> v]
      /\ \A b \in DOMAIN objs \ {o} : objs'[b] = objs[b]
  <2>1. v \in Nat
    BY <1>5
  <2> HIDE DEF o
  <2> QED
    BY <1>1, <1>4, <2>1, StampWritten DEF RateBuckets
<1>7. Handlers'
  <2>1. o \in 0 .. Len(objs) /\ o # 0 /\ proc[p].out \in Outcomes
    BY <1>1 DEF Handlers, Inside, Outcomes
  <2> QED
    BY <1>1, <1>3, <1>4, <1>6, <2>1, MovesKeepHandlers DEF Inside
<1>8. Carried'
  BY <1>1, <1>3, OthersCarry
<1>9. Restoring(o)' = Restoring(o)
  <2>1. Restoring(o)' = (Restoring(o) \ {p}) \cup
              (IF proc'[p].pc = "restore" /\ proc'[p].obj = o THEN {p} ELSE {})
    BY <1>1, <1>3, RestoringMoves
  <2>2. proc'[p].pc # "restore"
    BY <1>3
  <2> QED
    BY <1>4, <2>1, <2>2
<1>10. RateBuckets'
  <2>1. objs'[o].tokens = objs[o].tokens /\ objs'[o].last = v /\ v <= now
    BY <1>5, <1>6
  <2> HIDE DEF o
  <2> QED
    BY <1>1, <1>3, <1>4, <1>6, <1>8, <1>9, <2>1, BucketMove DEF o
<1> QED
  BY <1>1, <1>7, <1>10 DEF Clock

\* A token taken in vain is owed by the handler that took it.
LEMMA TakeStep ==
    ASSUME Clock, Handlers, RateBuckets, NEW p \in cfg.procs, Take(p)
    PROVE  Clock' /\ Handlers' /\ RateBuckets'
<1> DEFINE o == proc[p].obj
           t == objs[o].tokens
           next == IF t >= 1 THEN "send" ELSE "restore"
           fields == [pc |-> next]
           R == Restoring(o)
           c == Cardinality(R)
<1>1. /\ proc[p].pc = "take" /\ Set(p, fields) /\ UNCHANGED <<cfg, now, table>>
      /\ objs' = [objs EXCEPT ![o].tokens = t - 1]
  BY DEF Take
<1>2. DOMAIN fields = {"pc"} /\ fields.pc = next
      /\ {"pc", "fill", "obj", "out", "at"} \subseteq DOMAIN Idle
  BY DEF Idle
<1> HIDE DEF fields
<1>3. Moves(p) /\ proc'[p].pc = next /\ proc'[p].obj = o /\ proc'[p].out = proc[p].out
  <2> HIDE DEF Idle, next
  <2> QED
    BY <1>1, <1>2, SetFacts DEF Moves
<1>4. /\ Len(objs) \in Nat /\ o \in DOMAIN objs /\ objs[o].last <= now
      /\ t \in Int /\ c \in Nat /\ IsFiniteSet(R) /\ p \notin R
      /\ t + c <= MaxTokens + Cardinality(cfg.procs) - 1 /\ (FewHandlers => t >= -c)
  BY <1>1, HeldBucket DEF Inside
<1>5. MaxTokens \in Nat /\ Cardinality(cfg.procs) \in Nat
  BY ConfigFacts
<1> HIDE DEF t
<1>6. /\ objs' \in Seq([tokens : Int, last : Nat])
      /\ DOMAIN objs' = DOMAIN objs /\ Len(objs') = Len(objs)
      /\ objs'[o] = [tokens |-> t - 1, last |-> objs[o].last]
      /\ \A b \in DOMAIN objs \ {o} : objs'[b] = objs[b]
  <2>1. t - 1 \in Int
    BY <1>4
  <2> HIDE DEF o
  <2> QED
    BY <1>1, <1>4, <2>1, TokensWritten DEF RateBuckets
<1>7. Handlers'
  <2>1. o \in 0 .. Len(objs) /\ o # 0 /\ proc[p].out \in Outcomes
    BY <1>1 DEF Handlers, Inside, Outcomes
  <2>2. proc'[p].pc \in {"send", "restore"}
    BY <1>3
  <2>3. proc'[p].pc \in Outside \cup Inside
    BY <2>2 DEF Outside, Inside
  <2>4. /\ proc'[p].obj \in 0 .. Len(objs') /\ proc'[p].obj # 0
        /\ proc'[p].out \in Outcomes
    BY <1>3, <1>6, <2>1
  <2> HIDE DEF next, o
  <2> QED
    BY <1>1, <1>3, <1>4, <1>6, <2>3, <2>4, MovesKeepHandlers
<1>8. Carried'
  BY <1>1, <1>3, OthersCarry
<1>9. Cardinality(Restoring(o)') = c + (IF t >= 1 THEN 0 ELSE 1)
  <2>1. Restoring(o)' = R \cup (IF t >= 1 THEN {} ELSE {p})
    BY <1>1, <1>3, <1>4, RestoringMoves
  <2> HIDE DEF R
  <2>2. CASE t >= 1
    BY <1>4, <2>1, <2>2
  <2>3. CASE ~(t >= 1)
    <3>1. Restoring(o)' = R \cup {p}
      BY <2>1, <2>3
    <3>2. Cardinality(R \cup {p}) = c + 1
      BY <1>4, FS_AddElement
    <3> QED
      BY <2>3, <3>1, <3>2
  <2> QED
    BY <2>2, <2>3
<1>10. RateBuckets'
  <2> DEFINE d == Cardinality(Restoring(o)')
  <2>1. d = c + (IF t >= 1 THEN 0 ELSE 1)
    BY <1>9
  <2> HIDE DEF c, d
  <2>2. /\ (t - 1) + d <= MaxTokens + Cardinality(cfg.procs) - 1
        /\ FewHandlers => t - 1 >= -d
    BY <1>4, <1>5, <2>1
  <2>3. objs'[o].tokens = t - 1 /\ objs'[o].last = objs[o].last
    BY <1>6
  <2> HIDE DEF o
  <2> QED
    BY <1>1, <1>3, <1>4, <1>6, <1>8, <2>2, <2>3, BucketMove DEF o, d
<1> QED
  BY <1>1, <1>7, <1>10 DEF Clock

\* What holds of the new shard under the old clock and configuration.
LEMMA ShardMoves ==
    ASSUME UNCHANGED <<cfg, now>>, ShardOK(rep') PROVE ShardOK(rep)'
<1>1. \A e : EntryOK(e)' <=> EntryOK(e)
  BY DEF EntryOK, Unit
<1> QED
  BY <1>1 DEF ShardOK

LEMMA ListenerMoves ==
    ASSUME UNCHANGED <<cfg, now>>, ListenerOK(tcp') PROVE ListenerOK(tcp)'
BY DEF ListenerOK, Places, Held

\* A handler that gives its token back owes it no longer.
LEMMA RestoreStep ==
    ASSUME Clock, Handlers, RateBuckets, ShardOK(rep), NEW p \in cfg.procs, Restore(p)
    PROVE  Clock' /\ Handlers' /\ RateBuckets' /\ ShardOK(rep)'
<1> DEFINE o == proc[p].obj
           t == objs[o].tokens
           resp == [proc[p].resp EXCEPT !.tc = TRUE, !.answer = <<>>, !.ns = <<>>, !.extra = <<>>]
           R == Restoring(o)
           c == Cardinality(R)
<1>1. /\ proc[p].pc = "restore" /\ UNCHANGED <<cfg, now, table>>
      /\ objs' = [objs EXCEPT ![o].tokens = t + 1]
      /\ rep' = Observe(rep, proc[p].q.client, "rate")
      /\ IF cfg.rrl.slips THEN Set(p, [pc |-> "send", slipped |-> TRUE, resp |-> resp])
         ELSE Finish(p, "dropped", Nothing)
  BY DEF Restore
<1>2. {"pc", "fill", "obj", "out", "at", "slipped", "resp"} \subseteq DOMAIN Idle
  BY DEF Idle
<1>3. /\ Moves(p) /\ proc'[p].pc \in {"send", "done"} /\ proc'[p].obj = o
      /\ proc'[p].out \in {proc[p].out, "dropped"}
  <2>1. CASE cfg.rrl.slips
    <3> DEFINE fields == [pc |-> "send", slipped |-> TRUE, resp |-> resp]
    <3>1. Set(p, fields) /\ DOMAIN fields = {"pc", "slipped", "resp"} /\ fields.pc = "send"
      BY <1>1, <2>1
    <3> HIDE DEF fields, Idle
    <3> QED
      BY <1>2, <3>1, SetFacts DEF Moves
  <2>2. CASE ~cfg.rrl.slips
    <3> DEFINE fields == [pc |-> "done", out |-> "dropped", resp |-> Nothing]
    <3>1. Set(p, fields) /\ DOMAIN fields = {"pc", "out", "resp"} /\ fields.pc = "done"
          /\ fields.out = "dropped"
      BY <1>1, <2>2 DEF Finish
    <3> HIDE DEF fields, Idle
    <3> QED
      BY <1>2, <3>1, SetFacts DEF Moves
  <2> QED
    BY <2>1, <2>2
<1>4. /\ Len(objs) \in Nat /\ o \in DOMAIN objs /\ objs[o].last <= now
      /\ t \in Int /\ c \in Nat /\ IsFiniteSet(R) /\ p \in R
      /\ t + c <= MaxTokens + Cardinality(cfg.procs) - 1 /\ (FewHandlers => t >= -c)
  BY <1>1, HeldBucket DEF Inside
<1>5. MaxTokens \in Nat /\ Cardinality(cfg.procs) \in Nat
  BY ConfigFacts
<1> HIDE DEF t, resp
<1>6. /\ objs' \in Seq([tokens : Int, last : Nat])
      /\ DOMAIN objs' = DOMAIN objs /\ Len(objs') = Len(objs)
      /\ objs'[o] = [tokens |-> t + 1, last |-> objs[o].last]
      /\ \A b \in DOMAIN objs \ {o} : objs'[b] = objs[b]
  <2>1. t + 1 \in Int
    BY <1>4
  <2> HIDE DEF o
  <2> QED
    BY <1>1, <1>4, <2>1, TokensWritten DEF RateBuckets
<1>7. Handlers'
  <2>1. o \in 0 .. Len(objs) /\ proc[p].out \in Outcomes /\ "dropped" \in Outcomes
    BY <1>1 DEF Handlers, Outcomes
  <2>2. proc'[p].pc \in Outside /\ proc'[p].pc \notin Inside
    BY <1>3 DEF Outside, Inside
  <2>3. proc'[p].obj \in 0 .. Len(objs') /\ proc'[p].out \in Outcomes
    BY <1>3, <1>6, <2>1
  <2> HIDE DEF o
  <2> QED
    BY <1>1, <1>3, <1>4, <1>6, <2>2, <2>3, MovesKeepHandlers
<1>8. Carried'
  BY <1>1, <1>3, OthersCarry
<1>9. Cardinality(Restoring(o)') = c - 1
  <2>1. Restoring(o)' = (Restoring(o) \ {p}) \cup
              (IF proc'[p].pc = "restore" /\ proc'[p].obj = o THEN {p} ELSE {})
    BY <1>1, <1>3, RestoringMoves
  <2>2. proc'[p].pc # "restore"
    BY <1>3
  <2>3. Restoring(o)' = R \ {p}
    BY <2>1, <2>2
  <2> HIDE DEF R
  <2> QED
    BY <1>4, <2>3, FS_RemoveElement
<1>10. RateBuckets'
  <2> DEFINE d == Cardinality(Restoring(o)')
  <2>1. d = c - 1
    BY <1>9
  <2> HIDE DEF c, d
  <2>2. /\ (t + 1) + d <= MaxTokens + Cardinality(cfg.procs) - 1
        /\ FewHandlers => t + 1 >= -d
    BY <1>4, <1>5, <2>1
  <2>3. objs'[o].tokens = t + 1 /\ objs'[o].last = objs[o].last
    BY <1>6
  <2> HIDE DEF o
  <2> QED
    BY <1>1, <1>3, <1>4, <1>6, <1>8, <2>2, <2>3, BucketMove DEF o, d
<1>11. ShardOK(rep)'
  <2>1. ShardOK(rep')
    BY <1>1, ObserveKeeps DEF Signals
  <2> QED
    BY <1>1, <2>1, ShardMoves
<1> QED
  BY <1>1, <1>7, <1>10, <1>11 DEF Clock

\* A handler finds its bucket, or makes it full; the time since the last refill is
\* worth a second at least where there is something to refill.
LEMMA RRLLoadStep ==
    ASSUME Clock, Handlers, RateBuckets, NEW p \in cfg.procs, RRLLoad(p)
    PROVE  Clock' /\ Handlers' /\ RateBuckets'
<1> DEFINE key == bucketKey(proc[p].q, CategorizeResponse(proc[p].resp))
           n == Len(objs)
           b == Fetch(table, key, n + 1)
           last == IF key \in DOMAIN table THEN objs[b].last ELSE now
           fill == (now - last) * cfg.rrl.limit
           next == IF now > last THEN "refill" ELSE "take"
           fields == [obj |-> b, at |-> now, fill |-> fill, pc |-> next]
           fresh == [tokens |-> MaxTokens, last |-> now]
           B == [tokens : Int, last : Nat]
<1>1. /\ proc[p].pc = "limit" /\ UNCHANGED <<cfg, now>> /\ Set(p, fields)
      /\ IF key \in DOMAIN table THEN UNCHANGED <<table, objs>>
         ELSE table' = Over(At(key, b), table) /\ objs' = Append(objs, fresh)
  BY DEF RRLLoad
<1>2. DOMAIN fields = {"obj", "at", "fill", "pc"} /\ fields.pc = next
      /\ fields.obj = b /\ fields.at = now /\ fields.fill = fill
      /\ {"pc", "fill", "obj", "out", "at"} \subseteq DOMAIN Idle
  BY DEF Idle
<1> HIDE DEF fields, key
<1>3. Moves(p) /\ proc'[p].pc = next /\ proc'[p].obj = b /\ proc'[p].fill = fill
      /\ proc'[p].at = now /\ proc'[p].out = proc[p].out
  <2> HIDE DEF Idle, next, b, fill
  <2> QED
    BY <1>1, <1>2, SetFacts DEF Moves
<1>4. now \in Nat /\ cfg.rrl.limit \in Nat \ {0} /\ MaxTokens \in Nat
      /\ Cardinality(cfg.procs) \in Nat \ {0}
  BY ConfigFacts DEF Clock
<1>5. n \in Nat /\ objs \in Seq(B) /\ DOMAIN objs = 1 .. n
      /\ \A i \in DOMAIN objs : objs[i].last <= now
  BY DEF RateBuckets
<1>6. /\ n <= Len(objs') /\ Len(objs') \in Nat /\ objs' \in Seq(B)
      /\ DOMAIN objs' = 1 .. Len(objs') /\ b \in 1 .. Len(objs')
      /\ \A i \in 1 .. n : objs'[i] = objs[i]
      /\ \A i \in DOMAIN objs' : i \in 1 .. n \/ (i = n + 1 /\ objs'[i] = fresh)
      /\ \A k \in DOMAIN table' : table'[k] \in DOMAIN objs'
      /\ last \in 0 .. now
  <2>1. CASE key \in DOMAIN table
    <3>1. b = table[key] /\ b \in 1 .. n /\ last = objs[b].last
      BY <1>5, <2>1 DEF Fetch, RateBuckets
    <3>2. objs[b] \in B
      <4> HIDE DEF B, b
      <4> QED
        BY <1>5, <3>1
    <3>3. last \in Nat /\ last <= now
      <4> HIDE DEF b
      <4> QED
        BY <1>5, <3>1, <3>2
    <3>4. last \in 0 .. now
      BY <1>4, <3>3
    <3>5. \A k \in DOMAIN table : table[k] \in DOMAIN objs
      BY DEF RateBuckets
    <3>6. objs' = objs /\ table' = table
      BY <1>1, <2>1
    <3> HIDE DEF b, last, fresh, B, n
    <3>7. b \in 1 .. n
      BY <3>1
    <3> QED
      BY <1>5, <3>4, <3>5, <3>6, <3>7 DEF n
  <2>2. CASE key \notin DOMAIN table
    <3>1. b = n + 1 /\ last = now /\ objs' = Append(objs, fresh) /\ fresh \in B
          /\ table' = Over(At(key, b), table)
      BY <1>1, <1>4, <2>2 DEF Fetch
    <3> HIDE DEF fresh, B, last, b
    <3>2. objs' \in Seq(B) /\ Len(objs') = n + 1 /\ objs'[n + 1] = fresh
          /\ \A i \in 1 .. n : objs'[i] = objs[i]
      BY <1>5, <3>1
    <3>3. DOMAIN objs' = 1 .. n + 1
      BY <3>2
    <3>4. \A k \in DOMAIN table' :
             table'[k] = b \/ (k \in DOMAIN table /\ table'[k] = table[k])
      <4> TAKE k \in DOMAIN table'
      <4>1. k = key \/ k \in DOMAIN table
        BY <3>1 DEF Over, At
      <4>2. k = key => table'[k] = b
        BY <3>1 DEF Over, At
      <4>3. k # key => k \in DOMAIN table /\ table'[k] = table[k]
        BY <3>1 DEF Over, At
      <4> QED
        BY <4>1, <4>2, <4>3
    <3>5. \A k \in DOMAIN table : table[k] \in 1 .. n
      BY <1>5 DEF RateBuckets
    <3> HIDE DEF n
    <3>6. b \in 1 .. n + 1 /\ \A i \in 1 .. n : i \in 1 .. n + 1
      BY <1>5, <3>1
    <3>7. \A k \in DOMAIN table' : table'[k] \in DOMAIN objs'
      BY <3>3, <3>4, <3>5, <3>6
    <3>8. \A i \in 1 .. n + 1 : i \in 1 .. n \/ i = n + 1
      BY <1>5
    <3>9. n <= n + 1 /\ n + 1 \in Nat /\ last \in 0 .. now
      BY <1>4, <1>5, <3>1
    <3> QED
      BY <3>2, <3>3, <3>6, <3>7, <3>8, <3>9
  <2> QED
    BY <2>1, <2>2
<1>7. next = "refill" => fill \in Nat /\ fill >= cfg.rrl.limit
  <2> DEFINE k == now - last
  <2> HIDE DEF last
  <2>1. next = "refill" => k \in Nat \ {0}
    BY <1>4, <1>6
  <2>2. \A i \in Nat \ {0}, j \in Nat : i * j \in Nat /\ i * j >= j
    OBVIOUS
  <2>3. fill = k * cfg.rrl.limit
    OBVIOUS
  <2> HIDE DEF k, fill
  <2> QED
    BY <1>4, <2>1, <2>2, <2>3
<1>8. next \in {"refill", "take"} /\ now \in 0 .. now /\ b # 0
  BY <1>4, <1>6
<1> HIDE DEF b, last, fill, next, B
<1>9. Handlers'
  <2>1. proc'[p].pc \in Outside \cup Inside
    BY <1>3, <1>8 DEF Inside
  <2>2. proc'[p].obj \in 0 .. Len(objs') /\ proc'[p].obj # 0
    BY <1>3, <1>6, <1>8
  <2>3. proc'[p].out \in Outcomes
    BY <1>3 DEF Handlers, Outcomes
  <2> QED
    BY <1>1, <1>3, <1>5, <1>6, <2>1, <2>2, <2>3, MovesKeepHandlers DEF n
<1>10. Carried'
  <2>1. proc'[p].pc = "refill" => proc'[p].fill \in Nat /\ proc'[p].fill >= cfg.rrl.limit
    BY <1>3, <1>7
  <2>2. proc'[p].pc # "store" /\ proc'[p].at \in 0 .. now
    BY <1>3, <1>8
  <2> QED
    BY <1>1, <1>3, <2>1, <2>2, OthersCarry
<1>11. ASSUME NEW i PROVE Restoring(i)' = Restoring(i)
  <2>1. Restoring(i)' = (Restoring(i) \ {p}) \cup
              (IF proc'[p].pc = "restore" /\ proc'[p].obj = i THEN {p} ELSE {})
    BY <1>1, <1>3, RestoringMoves
  <2>2. proc'[p].pc # "restore" /\ p \notin Restoring(i)
    BY <1>1, <1>3, <1>8 DEF Restoring
  <2> QED
    BY <2>1, <2>2
<1>12. TokensStayBounded'
  <2>1. MaxTokens' = MaxTokens /\ FewHandlers' = FewHandlers /\ Buckets' = DOMAIN objs'
    BY <1>1 DEF MaxTokens, FewHandlers, Buckets
  <2> SUFFICES ASSUME NEW i \in DOMAIN objs'
               PROVE  /\ objs'[i].tokens + Cardinality(Restoring(i))
                           <= MaxTokens + Cardinality(cfg.procs) - 1
                      /\ FewHandlers => objs'[i].tokens >= -Cardinality(Restoring(i))
    BY <1>1, <1>11, <2>1 DEF TokensStayBounded
  <2>2. CASE i \in 1 .. n
    BY <1>5, <1>6, <2>2 DEF RateBuckets, TokensStayBounded, Buckets
  <2>3. CASE i = n + 1 /\ objs'[i] = fresh
    <3>1. Restoring(i) = {}
      <4>1. \A q \in cfg.procs : proc[q].obj \in 0 .. n
        BY DEF Handlers
      <4>2. i \notin 0 .. n
        BY <1>5, <2>3
      <4> QED
        BY <4>1, <4>2 DEF Restoring
    <3>2. Cardinality(Restoring(i)) = 0
      BY <3>1, FS_EmptySet
    <3>3. objs'[i].tokens = MaxTokens
      BY <2>3
    <3> QED
      BY <1>4, <3>2, <3>3
  <2> QED
    BY <1>6, <2>2, <2>3
<1>13. \A i \in DOMAIN objs' : objs'[i].last <= now
  <2> TAKE i \in DOMAIN objs'
  <2>1. CASE i \in 1 .. n
    BY <1>5, <1>6, <2>1
  <2>2. CASE objs'[i] = fresh
    BY <1>4, <2>2
  <2> QED
    BY <1>6, <2>1, <2>2
<1>14. RateBuckets'
  BY <1>1, <1>6, <1>10, <1>12, <1>13 DEF RateBuckets, B
<1> QED
  BY <1>1, <1>9, <1>14 DEF Clock

\* Dropping a bucket from the map leaves the bucket to those who hold it.
LEMMA CleanupStep ==
    ASSUME Clock, Handlers, RateBuckets, performCleanup
    PROVE  Clock' /\ Handlers' /\ RateBuckets'
<1> DEFINE stale == {key \in DOMAIN table : Stale(key)}
<1>1. /\ table' = Restrict(table, DOMAIN table \ stale)
      /\ UNCHANGED <<cfg, now, proc, objs>>
  BY DEF performCleanup
<1>2. \A key \in DOMAIN table' : key \in DOMAIN table /\ table'[key] = table[key]
  BY <1>1 DEF Restrict
<1>3. Handlers'
  BY <1>1 DEF Handlers, Idle, Nothing, NoNameservers, Reply
<1>4. TokensStayBounded'
  <2>1. MaxTokens' = MaxTokens /\ FewHandlers' = FewHandlers /\ Buckets' = Buckets
    BY <1>1 DEF MaxTokens, FewHandlers, Buckets
  <2>2. \A b : Restoring(b)' = Restoring(b)
    BY <1>1 DEF Restoring
  <2> QED
    BY <1>1, <2>1, <2>2 DEF TokensStayBounded, RateBuckets
<1>5. Carried'
  BY <1>1 DEF RateBuckets, Carried, MaxTokens, FewHandlers
<1> QED
  BY <1>1, <1>2, <1>3, <1>4, <1>5 DEF RateBuckets, Clock

-----------------------------------------------------------------------------
(* Steps that hold no bucket.                                              *)

\* Such a step keeps the books as soon as it leaves the shard in order.
LEMMA QuietStep ==
    ASSUME IInv, NEW p \in cfg.procs, Aside(p), ShardOK(rep'),
           UNCHANGED <<cfg, now, objs, table, tcp>>
    PROVE  IInv'
<1>1. Clock' /\ Handlers' /\ RateBuckets'
  BY AsideKeepsBuckets DEF IInv
<1>2. ShardOK(rep)'
  BY ShardMoves
<1>3. ListenerOK(tcp)'
  BY ListenerMoves DEF IInv
<1> QED
  BY <1>1, <1>2, <1>3 DEF IInv

LEMMA RefusalSignals ==
    ASSUME NEW q, refusal(q) # <<>> PROVE refusal(q)[2] \in Signals
<1>1. \/ refusal(q) = <<"FORMERR", "protocol">>
      \/ refusal(q) = <<"NOTIMP", "protocol">>
      \/ refusal(q) = <<"REFUSED", "protocol">>
      \/ refusal(q) = <<"BADVERS", "protocol">>
      \/ refusal(q) = <<"REFUSED", "complexity">>
  BY DEF refusal
<1> QED
  BY <1>1 DEF Signals

LEMMA JudgedKeeps ==
    ASSUME IInv, NEW p \in cfg.procs, proc[p].pc \in Outside, NEW hit, NEW r,
           Judged(p, hit, r, "limit")
    PROVE  Aside(p) /\ ShardOK(rep')
<1>1. ShardOK(rep')
  <2>1. rep' = rep \/ rep' = Observe(rep, proc[p].q.client, "policy")
    BY DEF Judged
  <2> QED
    BY <2>1, ObserveKeeps DEF IInv, Signals
<1>2. CASE hit.action = "DROP"
  <2>1. Finish(p, "dropped", Nothing)
    BY <1>2 DEF Judged
  <2> QED
    BY <1>1, <2>1, FinishAside DEF IInv, Outcomes
<1>3. CASE hit.action # "DROP"
  <2> DEFINE fields == [pc |-> "limit", resp |-> applyRPZAction(r, proc[p].q.name, hit)]
  <2>1. Set(p, fields)
    BY <1>3 DEF Judged
  <2>2. DOMAIN fields = {"pc", "resp"} /\ fields.pc = "limit"
    OBVIOUS
  <2>3. {"pc", "resp"} \subseteq DOMAIN Idle \ {"obj"} /\ "limit" \in Outside
    BY DEF Idle, Outside
  <2> HIDE DEF fields
  <2> QED
    BY <1>1, <2>1, <2>2, <2>3, SetAside DEF IInv
<1> QED
  BY <1>2, <1>3

LEMMA ReceiveStep ==
    ASSUME IInv, NEW p \in cfg.procs, Receive(p) PROVE IInv'
<1>1. PICK q \in cfg.queries :
         LET to == dispatch(q)
         IN proc' = [proc EXCEPT ![p] =
               [Idle EXCEPT !.q = q,
                            !.seen = {rpz},
                            !.pc = IF to = "query" THEN "admit" ELSE "done",
                            !.out = IF to = "query" THEN "none"
                                    ELSE IF to \in {"transfer", "update"} THEN to ELSE "sent",
                            !.resp = IF to \in {"query", "transfer", "update"}
                                     THEN Nothing ELSE Answered(to)]]
  BY DEF Receive
<1> DEFINE to == dispatch(q)
           seen == {rpz}
           pc == IF to = "query" THEN "admit" ELSE "done"
           out == IF to = "query" THEN "none"
                  ELSE IF to \in {"transfer", "update"} THEN to ELSE "sent"
           resp == IF to \in {"query", "transfer", "update"} THEN Nothing ELSE Answered(to)
           e == [Idle EXCEPT !.q = q, !.seen = seen, !.pc = pc, !.out = out, !.resp = resp]
<1>2. proc' = [proc EXCEPT ![p] = e]
  BY <1>1
<1>3. pc \in {"admit", "done"} /\ out \in Outcomes
  BY DEF Outcomes
<1>4. {"q", "seen", "pc", "out", "resp", "obj"} \subseteq DOMAIN Idle /\ Idle.obj = 0
  BY DEF Idle
<1> HIDE DEF Idle, to, seen, pc, out, resp
<1>5. DOMAIN e = DOMAIN Idle /\ e.pc = pc /\ e.out = out /\ e.obj = 0
  BY <1>4
<1> HIDE DEF e
<1>6. DOMAIN proc = cfg.procs /\ Len(objs) \in Nat
  BY DEF IInv, Handlers, RateBuckets
<1>7. DOMAIN proc' = cfg.procs /\ proc'[p] = e /\ \A r \in cfg.procs \ {p} : proc'[r] = proc[r]
  BY <1>2, <1>6
<1>8. Aside(p)
  <2>1. proc[p].pc = "done"
    BY DEF Receive
  <2> QED
    BY <1>3, <1>5, <1>6, <1>7, <2>1 DEF Aside, Outside
<1> QED
  BY <1>8, QuietStep DEF Receive, IInv

LEMMA AdmitStep ==
    ASSUME IInv, NEW p \in cfg.procs, Admit(p) PROVE IInv'
<1>1. /\ proc[p].pc \in Outside /\ ShardOK(rep') /\ UNCHANGED <<cfg, now, objs, table, tcp>>
      /\ \/ Set(p, [pc |-> "validate"])
         \/ Finish(p, "sent", Answered("REFUSED"))
         \/ Finish(p, "dropped", Nothing)
  BY AllowKeeps DEF Admit, Outside, IInv
<1>2. CASE Set(p, [pc |-> "validate"])
  <2> DEFINE fields == [pc |-> "validate"]
  <2>1. Set(p, fields) /\ DOMAIN fields = {"pc"} /\ fields.pc = "validate"
    BY <1>2
  <2>2. {"pc"} \subseteq DOMAIN Idle \ {"obj"} /\ "validate" \in Outside
    BY DEF Idle, Outside
  <2> HIDE DEF fields
  <2>3. Aside(p)
    BY <1>1, <2>1, <2>2, SetAside DEF IInv
  <2> QED
    BY <1>1, <2>3, QuietStep
<1>3. CASE Finish(p, "sent", Answered("REFUSED")) \/ Finish(p, "dropped", Nothing)
  <2>1. Aside(p)
    BY <1>1, <1>3, FinishAside DEF IInv, Outcomes
  <2> QED
    BY <1>1, <2>1, QuietStep
<1> QED
  BY <1>1, <1>2, <1>3

LEMMA BlackholeStep ==
    ASSUME IInv, NEW p \in cfg.procs, Blackhole(p) PROVE IInv'
<1>1. /\ proc[p].pc \in Outside /\ UNCHANGED <<cfg, now, rep, objs, table, tcp>>
      /\ Finish(p, "sent", Answered("REFUSED")) \/ Finish(p, "dropped", Nothing)
  BY DEF Blackhole, Outside
<1>2. Aside(p)
  BY <1>1, FinishAside DEF IInv, Outcomes
<1> QED
  BY <1>1, <1>2, QuietStep DEF IInv

LEMMA RejectStep ==
    ASSUME IInv, NEW p \in cfg.procs, Reject(p) PROVE IInv'
<1> DEFINE q == proc[p].q
<1>1. /\ proc[p].pc \in Outside /\ UNCHANGED <<cfg, now, objs, table, tcp>>
      /\ refusal(q) # <<>> /\ rep' = Observe(rep, q.client, refusal(q)[2])
      /\ Finish(p, "sent", Answered(refusal(q)[1]))
  BY DEF Reject, Outside
<1>2. Aside(p)
  BY <1>1, FinishAside DEF IInv, Outcomes
<1>3. ShardOK(rep')
  BY <1>1, RefusalSignals, ObserveKeeps DEF IInv
<1> QED
  BY <1>1, <1>2, <1>3, QuietStep

LEMMA BlockStep ==
    ASSUME IInv, NEW p \in cfg.procs, Block(p) PROVE IInv'
<1> DEFINE q == proc[p].q
           fields == [pc |-> "limit", via |-> "block", resp |-> Answered(cfg.blocked[q.name])]
<1>1. /\ proc[p].pc \in Outside /\ UNCHANGED <<cfg, now, objs, table, tcp>>
      /\ rep' = Observe(rep, q.client, "policy")
      /\ Finish(p, "dropped", Nothing) \/ Set(p, fields)
  BY DEF Block, Outside
<1>2. ShardOK(rep')
  BY <1>1, ObserveKeeps DEF IInv, Signals
<1>3. DOMAIN fields = {"pc", "via", "resp"} /\ fields.pc = "limit"
  OBVIOUS
<1>4. {"pc", "via", "resp"} \subseteq DOMAIN Idle \ {"obj"} /\ "limit" \in Outside
  BY DEF Idle, Outside
<1> HIDE DEF fields
<1>5. CASE Finish(p, "dropped", Nothing)
  <2>1. Aside(p)
    BY <1>1, <1>5, FinishAside DEF IInv, Outcomes
  <2> QED
    BY <1>1, <1>2, <2>1, QuietStep
<1>6. CASE Set(p, fields)
  <2>1. Aside(p)
    BY <1>1, <1>3, <1>4, <1>6, SetAside DEF IInv
  <2> QED
    BY <1>1, <1>2, <2>1, QuietStep
<1> QED
  BY <1>1, <1>5, <1>6

LEMMA ApplyRPZQueryStep ==
    ASSUME IInv, NEW p \in cfg.procs, ApplyRPZQuery(p) PROVE IInv'
<1> DEFINE v == CheckRequestShortcut(rpz, proc[p].q.name, proc[p].q.client)
           fields == [pc |-> "cookie", decided |-> v.decisive]
<1>1. /\ proc[p].pc \in Outside /\ UNCHANGED <<cfg, now, objs, table, tcp>>
      /\ \/ Judged(p, v.hit, Answered("NOERROR"), "limit")
         \/ Set(p, fields) /\ rep' = rep
  BY DEF ApplyRPZQuery, Outside
<1>2. DOMAIN fields = {"pc", "decided"} /\ fields.pc = "cookie"
  OBVIOUS
<1>3. {"pc", "decided"} \subseteq DOMAIN Idle \ {"obj"} /\ "cookie" \in Outside
  BY DEF Idle, Outside
<1> HIDE DEF fields, v
<1>4. CASE Judged(p, v.hit, Answered("NOERROR"), "limit")
  BY <1>1, <1>4, JudgedKeeps, QuietStep
<1>5. CASE Set(p, fields) /\ rep' = rep
  <2>1. Aside(p)
    BY <1>1, <1>2, <1>3, <1>5, SetAside DEF IInv
  <2> QED
    BY <1>1, <1>5, <2>1, QuietStep DEF IInv
<1> QED
  BY <1>1, <1>4, <1>5

LEMMA CookieStep ==
    ASSUME IInv, NEW p \in cfg.procs, Cookie(p) PROVE IInv'
<1> DEFINE fields == [pc |-> "answer", minted |-> now]
<1>1. /\ proc[p].pc \in Outside /\ UNCHANGED <<cfg, now, rep, objs, table, tcp>>
      /\ Finish(p, "sent", Answered("BADCOOKIE")) \/ Set(p, fields)
  BY DEF Cookie, Outside
<1>2. DOMAIN fields = {"pc", "minted"} /\ fields.pc = "answer"
  OBVIOUS
<1>3. {"pc", "minted"} \subseteq DOMAIN Idle \ {"obj"} /\ "answer" \in Outside
  BY DEF Idle, Outside
<1> HIDE DEF fields
<1>4. CASE Finish(p, "sent", Answered("BADCOOKIE"))
  <2>1. Aside(p)
    BY <1>1, <1>4, FinishAside DEF IInv, Outcomes
  <2> QED
    BY <1>1, <2>1, QuietStep DEF IInv
<1>5. CASE Set(p, fields)
  <2>1. Aside(p)
    BY <1>1, <1>2, <1>3, <1>5, SetAside DEF IInv
  <2> QED
    BY <1>1, <2>1, QuietStep DEF IInv
<1> QED
  BY <1>1, <1>4, <1>5

LEMMA AuthoritativeStep ==
    ASSUME IInv, NEW p \in cfg.procs, Authoritative(p) PROVE IInv'
<1> DEFINE r == handleAuthoritative(cfg.zones, proc[p].q)
           next == IF proc[p].decided THEN "limit" ELSE "policy"
           fields == [via |-> "auth", resp |-> r, raw |-> r, pc |-> next]
<1>1. proc[p].pc \in Outside /\ UNCHANGED <<cfg, now, rep, objs, table, tcp>> /\ Set(p, fields)
  BY DEF Authoritative, Outside
<1>2. DOMAIN fields = {"via", "resp", "raw", "pc"} /\ fields.pc = next
  OBVIOUS
<1>3. {"via", "resp", "raw", "pc"} \subseteq DOMAIN Idle \ {"obj"} /\ next \in Outside
  BY DEF Idle, Outside
<1> HIDE DEF fields, next
<1>4. Aside(p)
  BY <1>1, <1>2, <1>3, SetAside DEF IInv
<1> QED
  BY <1>1, <1>4, QuietStep DEF IInv

LEMMA RecurseStep ==
    ASSUME IInv, NEW p \in cfg.procs, Recurse(p) PROVE IInv'
<1> DEFINE r == cfg.recursion.answers[proc[p].q.name]
           next == IF proc[p].decided THEN "limit" ELSE "policy"
           fields == [via |-> "rec", resp |-> r, raw |-> r, pc |-> next]
<1>1. /\ proc[p].pc \in Outside /\ UNCHANGED <<cfg, now, rep, objs, table, tcp>>
      /\ \/ Finish(p, "sent", Answered("REFUSED"))
         \/ Finish(p, "sent", Answered("SERVFAIL"))
         \/ Set(p, fields)
  BY DEF Recurse, Outside
<1>2. DOMAIN fields = {"via", "resp", "raw", "pc"} /\ fields.pc = next
  OBVIOUS
<1>3. {"via", "resp", "raw", "pc"} \subseteq DOMAIN Idle \ {"obj"} /\ next \in Outside
  BY DEF Idle, Outside
<1> HIDE DEF fields, next
<1>4. CASE Finish(p, "sent", Answered("REFUSED")) \/ Finish(p, "sent", Answered("SERVFAIL"))
  <2>1. Aside(p)
    BY <1>1, <1>4, FinishAside DEF IInv, Outcomes
  <2> QED
    BY <1>1, <2>1, QuietStep DEF IInv
<1>5. CASE Set(p, fields)
  <2>1. Aside(p)
    BY <1>1, <1>2, <1>3, <1>5, SetAside DEF IInv
  <2> QED
    BY <1>1, <2>1, QuietStep DEF IInv
<1> QED
  BY <1>1, <1>4, <1>5

LEMMA ApplyRPZResponseStep ==
    ASSUME IInv, NEW p \in cfg.procs, ApplyRPZResponse(p) PROVE IInv'
<1>1. PICK hit : Judged(p, hit, proc[p].resp, "limit")
  BY DEF ApplyRPZResponse
<1>2. proc[p].pc \in Outside /\ UNCHANGED <<cfg, now, objs, table, tcp>>
  BY DEF ApplyRPZResponse, Outside
<1> QED
  BY <1>1, <1>2, JudgedKeeps, QuietStep

LEMMA ApplyRPZNameserversStep ==
    ASSUME IInv, NEW p \in cfg.procs, ApplyRPZNameservers(p) PROVE IInv'
<1>1. PICK hit : Judged(p, hit, proc[p].resp, "limit")
  BY DEF ApplyRPZNameservers
<1>2. proc[p].pc \in Outside /\ UNCHANGED <<cfg, now, objs, table, tcp>>
  BY DEF ApplyRPZNameservers, Outside
<1> QED
  BY <1>1, <1>2, JudgedKeeps, QuietStep

LEMMA ApplyRPZShortcutStep ==
    ASSUME IInv, NEW p \in cfg.procs, ApplyRPZShortcut(p) PROVE IInv'
<1> DEFINE v == CheckRequestResponseShortcut(rpz, proc[p].q.name, proc[p].q.client, proc[p].resp)
           ns == IF \E i \in DOMAIN rpz : NeedsNameservers(rpz[i])
                 THEN cfg.recursion.nameservers[proc[p].q.name] ELSE NoNameservers
           fields == [pc |-> "nameservers", ns |-> ns]
<1>1. /\ proc[p].pc \in Outside /\ UNCHANGED <<cfg, now, objs, table, tcp>>
      /\ \/ Judged(p, v.hit, proc[p].resp, "limit")
         \/ Set(p, fields) /\ rep' = rep
  BY DEF ApplyRPZShortcut, Outside
<1>2. DOMAIN fields = {"pc", "ns"} /\ fields.pc = "nameservers"
  OBVIOUS
<1>3. {"pc", "ns"} \subseteq DOMAIN Idle \ {"obj"} /\ "nameservers" \in Outside
  BY DEF Idle, Outside
<1> HIDE DEF fields, v
<1>4. CASE Judged(p, v.hit, proc[p].resp, "limit")
  BY <1>1, <1>4, JudgedKeeps, QuietStep
<1>5. CASE Set(p, fields) /\ rep' = rep
  <2>1. Aside(p)
    BY <1>1, <1>2, <1>3, <1>5, SetAside DEF IInv
  <2> QED
    BY <1>1, <1>5, <2>1, QuietStep DEF IInv
<1> QED
  BY <1>1, <1>4, <1>5

LEMMA RRLOffStep ==
    ASSUME IInv, NEW p \in cfg.procs, RRLOff(p) PROVE IInv'
<1> DEFINE fields == [pc |-> "send"]
<1>1. proc[p].pc \in Outside /\ UNCHANGED <<cfg, now, rep, objs, table, tcp>> /\ Set(p, fields)
  BY DEF RRLOff, Outside
<1>2. DOMAIN fields = {"pc"} /\ fields.pc = "send"
  OBVIOUS
<1>3. {"pc"} \subseteq DOMAIN Idle \ {"obj"} /\ "send" \in Outside
  BY DEF Idle, Outside
<1> HIDE DEF fields
<1>4. Aside(p)
  BY <1>1, <1>2, <1>3, SetAside DEF IInv
<1> QED
  BY <1>1, <1>4, QuietStep DEF IInv

LEMMA SendStep ==
    ASSUME IInv, NEW p \in cfg.procs, Send(p) PROVE IInv'
<1>1. PICK resp : Finish(p, "sent", resp)
  BY DEF Send
<1>2. proc[p].pc \in Outside /\ UNCHANGED <<cfg, now, rep, objs, table, tcp>>
  BY DEF Send, Outside
<1>3. Aside(p)
  BY <1>1, <1>2, FinishAside DEF IInv, Outcomes
<1> QED
  BY <1>2, <1>3, QuietStep DEF IInv

-----------------------------------------------------------------------------
(* Around the handlers.                                                    *)

LEMMA BucketStep ==
    ASSUME IInv, NEW p \in cfg.procs,
           \/ RRLLoad(p) \/ RefillLoad(p) \/ RefillStore(p) \/ RefillStamp(p) \/ Take(p)
           \/ Restore(p)
    PROVE  IInv'
<1>1. Clock /\ Handlers /\ RateBuckets /\ ShardOK(rep)
  BY DEF IInv
<1>2. Clock' /\ Handlers' /\ RateBuckets'
  BY <1>1, RRLLoadStep, RefillLoadStep, RefillStoreStep, RefillStampStep, TakeStep, RestoreStep
<1>3. UNCHANGED <<cfg, now, tcp>>
  BY DEF RRLLoad, RefillLoad, RefillStore, RefillStamp, Take, Restore
<1>4. ListenerOK(tcp)'
  BY <1>3, ListenerMoves DEF IInv
<1>5. ShardOK(rep)'
  <2>1. CASE Restore(p)
    BY <1>1, <2>1, RestoreStep
  <2>2. CASE ~Restore(p)
    <3>1. rep' = rep
      BY <2>2 DEF RRLLoad, RefillLoad, RefillStore, RefillStamp, Take
    <3> QED
      BY <1>1, <1>3, <3>1, ShardMoves
  <2> QED
    BY <2>1, <2>2
<1> QED
  BY <1>2, <1>4, <1>5 DEF IInv

LEMMA CleanupKeeps ==
    ASSUME IInv, performCleanup PROVE IInv'
<1>1. Clock' /\ Handlers' /\ RateBuckets'
  BY CleanupStep DEF IInv
<1>2. UNCHANGED <<cfg, now, rep, tcp>>
  BY DEF performCleanup
<1> QED
  BY <1>1, <1>2, ShardMoves, ListenerMoves DEF IInv

\* The books do not mention what ReloadRPZ changes of the handlers.
LEMMA ReloadStep ==
    ASSUME IInv, ReloadRPZ PROVE IInv'
<1>1. UNCHANGED <<cfg, now, rep, objs, table, tcp>>
  BY DEF ReloadRPZ
<1>2. DOMAIN proc' = cfg.procs
  BY DEF ReloadRPZ
<1>3. ASSUME NEW p \in cfg.procs
      PROVE  /\ DOMAIN proc'[p] = DOMAIN proc[p]
             /\ \A k \in {"pc", "out", "obj", "fill", "at"} : proc'[p][k] = proc[p][k]
  <2> DEFINE seen == proc[p].seen \cup {rpz'}
  <2>1. proc'[p] = proc[p] \/ proc'[p] = [proc[p] EXCEPT !.seen = seen]
    BY DEF ReloadRPZ
  <2>2. {"pc", "out", "obj", "fill", "at"} \subseteq DOMAIN proc[p]
    <3>1. DOMAIN proc[p] = DOMAIN Idle
      BY DEF IInv, Handlers
    <3> QED
      BY <3>1 DEF Idle
  <2> HIDE DEF seen
  <2> QED
    BY <2>1, <2>2
<1>4. ASSUME NEW p \in cfg.procs
      PROVE  /\ proc'[p].pc = proc[p].pc /\ proc'[p].out = proc[p].out
             /\ proc'[p].obj = proc[p].obj /\ proc'[p].fill = proc[p].fill
             /\ proc'[p].at = proc[p].at /\ DOMAIN proc'[p] = DOMAIN proc[p]
  BY <1>3
<1>5. Handlers'
  <2> SUFFICES ASSUME NEW p \in cfg.procs
               PROVE  /\ DOMAIN proc'[p] = DOMAIN Idle
                      /\ proc'[p].pc \in Outside \cup Inside
                      /\ proc'[p].out \in Outcomes
                      /\ proc'[p].obj \in 0 .. Len(objs)
                      /\ proc'[p].pc \in Inside => proc'[p].obj # 0
    BY <1>1, <1>2 DEF Handlers, Outcomes, Idle, Nothing, NoNameservers, Reply
  <2> HIDE DEF Idle
  <2> QED
    BY <1>4 DEF IInv, Handlers, Outcomes
<1>6. TokensStayBounded'
  <2>1. MaxTokens' = MaxTokens /\ FewHandlers' = FewHandlers /\ Buckets' = Buckets
    BY <1>1 DEF MaxTokens, FewHandlers, Buckets
  <2>2. \A b : Restoring(b)' = Restoring(b)
    BY <1>1, <1>4 DEF Restoring
  <2> QED
    BY <1>1, <2>1, <2>2 DEF TokensStayBounded, IInv, RateBuckets
<1>7. Carried'
  BY <1>1, <1>4 DEF IInv, RateBuckets, Carried, MaxTokens, FewHandlers
<1>8. RateBuckets' /\ Clock'
  BY <1>1, <1>6, <1>7 DEF IInv, RateBuckets, Clock
<1>9. ShardOK(rep)' /\ ListenerOK(tcp)'
  BY <1>1, ShardMoves, ListenerMoves DEF IInv
<1> QED
  BY <1>5, <1>8, <1>9 DEF IInv

LEMMA TickStep ==
    ASSUME IInv, Tick PROVE IInv'
<1>1. now' = now + 1 /\ now \in Nat /\ UNCHANGED <<cfg, proc, rep, objs, table, tcp>>
  BY DEF Tick, IInv, Clock
<1>2. Clock'
  BY <1>1 DEF IInv, Clock
<1>3. Handlers'
  BY <1>1 DEF IInv, Handlers, Idle, Nothing, NoNameservers, Reply
<1>4. RateBuckets'
  <2>1. Carried'
    <3> SUFFICES ASSUME NEW q \in cfg.procs
                 PROVE  /\ proc[q].pc = "refill" => proc[q].fill \in Nat /\ proc[q].fill >= cfg.rrl.limit
                        /\ proc[q].pc = "store" =>
                              /\ proc[q].fill \in Int /\ proc[q].fill <= MaxTokens
                              /\ FewHandlers => proc[q].fill >= 0
                        /\ proc[q].pc \in {"refill", "store", "stamp"} => proc[q].at \in 0 .. now + 1
      BY <1>1 DEF Carried, MaxTokens, FewHandlers
    <3>1. 0 .. now \subseteq 0 .. now + 1
      BY <1>1
    <3> QED
      BY <3>1 DEF IInv, RateBuckets, Carried
  <2>2. TokensStayBounded'
    <3>1. MaxTokens' = MaxTokens /\ FewHandlers' = FewHandlers /\ Buckets' = Buckets
      BY <1>1 DEF MaxTokens, FewHandlers, Buckets
    <3>2. \A b : Restoring(b)' = Restoring(b)
      BY <1>1 DEF Restoring
    <3> QED
      BY <1>1, <3>1, <3>2 DEF TokensStayBounded, IInv, RateBuckets
  <2>3. \A b \in DOMAIN objs : objs[b].last <= now + 1
    <3> DEFINE R == [tokens : Int, last : Nat]
    <3> TAKE b \in DOMAIN objs
    <3>1. objs \in Seq(R) /\ objs[b].last <= now
      BY DEF IInv, RateBuckets
    <3> HIDE DEF R
    <3>2. objs[b] \in R
      BY <3>1
    <3> QED
      BY <1>1, <3>1, <3>2 DEF R
  <2> QED
    BY <1>1, <2>1, <2>2, <2>3 DEF IInv, RateBuckets
<1>5. ShardOK(rep)'
  <2>1. ASSUME NEW e, EntryOK(e) PROVE EntryOK(e)'
    BY <1>1, <2>1 DEF EntryOK, Unit
  <2>2. \A c \in DOMAIN rep.entries : EntryOK(rep.entries[c])
    BY DEF IInv, ShardOK
  <2>3. \A c \in DOMAIN rep.entries : EntryOK(rep.entries[c])'
    BY <2>1, <2>2, <1>1
  <2> QED
    BY <1>1, <2>3 DEF IInv, ShardOK
<1>6. ListenerOK(tcp)'
  <2>1. tcp.lastRefill \in 0 .. now + 1
    BY <1>1 DEF IInv, ListenerOK
  <2> QED
    BY <1>1, <2>1 DEF IInv, ListenerOK, Places, Held
<1> QED
  BY <1>2, <1>3, <1>4, <1>5, <1>6 DEF IInv

LEMMA TCPStep ==
    ASSUME IInv, TCPAccept \/ TCPClose PROVE IInv'
<1>1. UNCHANGED <<cfg, now, proc, rep, objs, table>>
  BY DEF TCPAccept, TCPClose
<1>2. ListenerOK(tcp')
  <2>1. CASE TCPAccept
    <3>1. PICK client \in cfg.tcp.clients : tcp' = admit(tcp, cfg.tcp, client, now)
      BY <2>1 DEF TCPAccept
    <3> QED
      BY <3>1, AdmitKeeps DEF IInv
  <2>2. CASE TCPClose
    <3>1. PICK i \in DOMAIN tcp.conns : tcp' = Close(tcp, i)
      BY <2>2 DEF TCPClose
    <3> QED
      BY <3>1, CloseKeeps DEF IInv
  <2> QED
    BY <2>1, <2>2
<1>3. Clock' /\ Handlers'
  BY <1>1 DEF IInv, Clock, Handlers, Idle, Nothing, NoNameservers, Reply
<1>4. RateBuckets'
  <2>1. Carried'
    BY <1>1 DEF IInv, RateBuckets, Carried, MaxTokens, FewHandlers
  <2>2. TokensStayBounded'
    <3>1. MaxTokens' = MaxTokens /\ FewHandlers' = FewHandlers /\ Buckets' = Buckets
      BY <1>1 DEF MaxTokens, FewHandlers, Buckets
    <3>2. \A b : Restoring(b)' = Restoring(b)
      BY <1>1 DEF Restoring
    <3> QED
      BY <1>1, <3>1, <3>2 DEF TokensStayBounded, IInv, RateBuckets
  <2> QED
    BY <1>1, <2>1, <2>2 DEF IInv, RateBuckets
<1>5. ShardOK(rep)' /\ ListenerOK(tcp)'
  BY <1>1, <1>2, ShardMoves, ListenerMoves DEF IInv
<1> QED
  BY <1>3, <1>4, <1>5 DEF IInv

-----------------------------------------------------------------------------
(* The theorems.                                                           *)

LEMMA InitOK == Init => IInv
<1> SUFFICES ASSUME Init PROVE IInv
  OBVIOUS
<1>1. Clock
  BY DEF Init, Clock
<1>2. /\ proc = [p \in cfg.procs |-> Idle] /\ objs = <<>> /\ table = <<>> /\ now = 0
      /\ rep = [entries |-> <<>>, ring |-> <<>>, cursor |-> 0]
      /\ tcp = [active |-> 0, perClient |-> <<>>, tokens |-> cfg.tcp.burst, lastRefill |-> 0,
                conns |-> <<>>]
  BY DEF Init, NewLimitedListener
<1>3. Handlers
  <2>1. Idle.pc = "done" /\ Idle.out = "none" /\ Idle.obj = 0
    BY DEF Idle
  <2>2. 0 \in 0 .. Len(objs)
    BY <1>2
  <2>3. \A p \in cfg.procs : proc[p] = Idle
    BY <1>2
  <2>4. "done" \in Outside /\ "done" \notin Inside
    BY DEF Outside, Inside
  <2>5. DOMAIN proc = cfg.procs
    BY <1>2
  <2> HIDE DEF Idle
  <2> QED
    BY <2>1, <2>2, <2>3, <2>4, <2>5 DEF Handlers
<1>4. RateBuckets
  <2>1. DOMAIN objs = {} /\ DOMAIN table = {} /\ objs \in Seq([tokens : Int, last : Nat])
    BY <1>2
  <2>2. \A p \in cfg.procs : proc[p].pc = "done"
    BY <1>2 DEF Idle
  <2>3. Carried
    BY <2>2 DEF Carried
  <2> QED
    BY <2>1, <2>3 DEF RateBuckets, TokensStayBounded, Buckets
<1>5. ShardOK(rep)
  <2>1. rep.entries = <<>> /\ rep.ring = <<>> /\ rep.cursor = 0
        /\ rep = [entries |-> rep.entries, ring |-> rep.ring, cursor |-> rep.cursor]
    BY <1>2
  <2>2. DOMAIN rep.entries = {} /\ IsFiniteSet({}) /\ Cardinality({}) = 0
    BY <2>1, FS_EmptySet
  <2>3. rep.ring \in Seq({}) /\ Len(rep.ring) = 0 /\ DOMAIN rep.ring = {}
    BY <2>1
  <2>4. cfg.rep.capacity \in Nat \ {0}
    BY <1>1, ConfigFacts
  <2>5. 0 \in 0 .. cfg.rep.capacity - 1 /\ 0 <= cfg.rep.capacity
    BY <2>4
  <2> QED
    BY <2>1, <2>2, <2>3, <2>5 DEF ShardOK
<1>6. ListenerOK(tcp)
  <2>1. tcp.conns = <<>> /\ tcp.perClient = <<>> /\ tcp.active = 0 /\ tcp.lastRefill = 0
        /\ tcp.tokens = cfg.tcp.burst
        /\ tcp = [active |-> tcp.active, perClient |-> tcp.perClient, tokens |-> tcp.tokens,
                  lastRefill |-> tcp.lastRefill, conns |-> tcp.conns]
    BY <1>2
  <2>2. Places(tcp) = {} /\ Cardinality({}) = 0
    BY <2>1, FS_EmptySet DEF Places
  <2>3. cfg.tcp.max \in Nat /\ cfg.tcp.burst \in Nat
    BY <1>1, ConfigFacts
  <2>4. DOMAIN tcp.perClient = {} /\ tcp.conns \in Seq([client : cfg.tcp.clients, released : BOOLEAN])
    BY <2>1
  <2>5. {tcp.conns[i].client : i \in Places(tcp)} \ {<<>>} = {}
    BY <2>2
  <2>6. tcp.tokens \in 0 .. cfg.tcp.burst /\ tcp.lastRefill \in 0 .. now /\ tcp.active <= cfg.tcp.max
    BY <1>2, <2>1, <2>3
  <2> QED
    BY <2>1, <2>2, <2>4, <2>5, <2>6 DEF ListenerOK
<1> QED
  BY <1>1, <1>3, <1>4, <1>5, <1>6 DEF IInv

LEMMA NextOK == IInv /\ [Next]_vars => IInv'
<1> SUFFICES ASSUME IInv, [Next]_vars PROVE IInv'
  OBVIOUS
<1>1. ASSUME NEW p \in cfg.procs,
             \/ Receive(p) \/ Blackhole(p) \/ Admit(p) \/ Reject(p) \/ Block(p)
             \/ ApplyRPZQuery(p) \/ Cookie(p) \/ Authoritative(p) \/ Recurse(p)
      PROVE  IInv'
  BY <1>1, ReceiveStep, BlackholeStep, AdmitStep, RejectStep, BlockStep, ApplyRPZQueryStep,
     CookieStep, AuthoritativeStep, RecurseStep
<1>2. ASSUME NEW p \in cfg.procs,
             \/ ApplyRPZResponse(p) \/ ApplyRPZShortcut(p) \/ ApplyRPZNameservers(p)
             \/ RRLOff(p) \/ Send(p)
      PROVE  IInv'
  BY <1>2, ApplyRPZResponseStep, ApplyRPZShortcutStep, ApplyRPZNameserversStep, RRLOffStep,
     SendStep
<1>3. ASSUME NEW p \in cfg.procs,
             \/ RRLLoad(p) \/ RefillLoad(p) \/ RefillStore(p) \/ RefillStamp(p) \/ Take(p)
             \/ Restore(p)
      PROVE  IInv'
  BY <1>3, BucketStep
<1>4. CASE ReloadRPZ
  BY <1>4, ReloadStep
<1>5. CASE performCleanup
  BY <1>5, CleanupKeeps
<1>6. CASE TCPAccept \/ TCPClose
  BY <1>6, TCPStep
<1>7. CASE Tick
  BY <1>7, TickStep
<1>8. CASE UNCHANGED vars
  <2>1. UNCHANGED <<cfg, now, proc, rep, objs, table, tcp>>
    BY <1>8 DEF vars
  <2>2. Clock' /\ Handlers'
    BY <2>1 DEF IInv, Clock, Handlers, Idle, Nothing, NoNameservers, Reply
  <2>3. Carried'
    BY <2>1 DEF IInv, RateBuckets, Carried, MaxTokens, FewHandlers
  <2>4. TokensStayBounded'
    <3>1. MaxTokens' = MaxTokens /\ FewHandlers' = FewHandlers /\ Buckets' = Buckets
      BY <2>1 DEF MaxTokens, FewHandlers, Buckets
    <3>2. \A b : Restoring(b)' = Restoring(b)
      BY <2>1 DEF Restoring
    <3> QED
      BY <2>1, <3>1, <3>2 DEF TokensStayBounded, IInv, RateBuckets
  <2>5. RateBuckets'
    BY <2>1, <2>3, <2>4 DEF IInv, RateBuckets
  <2>6. ShardOK(rep)' /\ ListenerOK(tcp)'
    BY <2>1, ShardMoves, ListenerMoves DEF IInv
  <2> QED
    BY <2>2, <2>5, <2>6 DEF IInv
<1> QED
  BY <1>1, <1>2, <1>3, <1>4, <1>5, <1>6, <1>7, <1>8 DEF Next

\* The books of the limiters, with what the handlers in flight owe, are kept by
\* every step of every handler.
THEOREM Invariance == Spec => []IInv
BY InitOK, NextOK, PTL DEF Spec

LEMMA KeepsBooks == IInv => LimitersKeepBooks
<1> SUFFICES ASSUME IInv PROVE LimitersKeepBooks
  OBVIOUS
<1>1. TypeOK
  <2>1. /\ DOMAIN proc = cfg.procs
        /\ \A p \in cfg.procs :
              /\ proc[p].pc \in Outside \cup Inside
              /\ proc[p].out \in {"none", "sent", "dropped", "transfer", "update"}
              /\ proc[p].obj \in 0 .. Len(objs)
    BY DEF IInv, Handlers
  <2>2. \A key \in DOMAIN table : table[key] \in Buckets
    BY DEF IInv, RateBuckets, Buckets
  <2>3. ASSUME NEW c \in DOMAIN rep.entries
        PROVE  /\ rep.entries[c].score \in 0 .. cfg.rep.maxScore
               /\ rep.entries[c].tokens \in 0 .. (cfg.rep.burst * Unit)
    <3>1. EntryOK(rep.entries[c])
      BY DEF IInv, ShardOK
    <3>2. cfg.rep.maxScore \in Nat /\ cfg.rep.burst * Unit \in Nat
      BY ConfigFacts DEF IInv, Unit
    <3> QED
      BY <3>1, <3>2 DEF EntryOK
  <2> QED
    BY <2>1, <2>2, <2>3 DEF TypeOK, Outside, Inside
<1>2. TokensStayBounded
  BY DEF IInv, RateBuckets
<1>3. CleanupGrantsNothing
  <2> SUFFICES ASSUME NEW key \in DOMAIN table, FewHandlers, Stale(key)
               PROVE  LET b == objs[table[key]]
                      IN b.tokens + (now - b.last) * cfg.rrl.limit >= MaxTokens
    BY DEF CleanupGrantsNothing
  <2> DEFINE o == table[key]
             t == objs[o].tokens
             age == now - objs[o].last
             c == Cardinality(Restoring(o))
             w == cfg.rrl.window
             limit == cfg.rrl.limit
             x == age * limit
             B == [tokens : Int, last : Nat]
  <2>1. o \in DOMAIN objs /\ objs \in Seq(B)
    BY DEF IInv, RateBuckets
  <2>2. objs[o] \in B
    <3> HIDE DEF B, o
    <3> QED
      BY <2>1
  <2>3. t \in Int /\ age \in Int /\ objs[o].last \in Nat /\ now \in Nat
    BY <2>2 DEF IInv, Clock
  <2>4. w \in Nat \ {0} /\ limit \in Nat \ {0} /\ Cardinality(cfg.procs) \in Nat
    BY ConfigFacts DEF IInv
  <2>5. age >= 2 * w + 1
    <3>1. objs[o].last < now - 2 * w
      BY DEF Stale
    <3> HIDE DEF w, o
    <3> QED
      BY <2>3, <2>4, <3>1
  <2>6. c \in Nat /\ c <= limit + 1 /\ t >= -c
    <3>1. c \in Nat /\ c <= Cardinality(cfg.procs)
      <4>1. Restoring(o) \subseteq cfg.procs /\ IsFiniteSet(cfg.procs) /\ c \in Nat
        BY RestoringFacts, ConfigFacts DEF IInv
      <4> QED
        BY <4>1, FS_Subset
    <3>2. Cardinality(cfg.procs) <= limit + 1
      BY DEF FewHandlers
    <3>3. t >= -c
      BY <2>1 DEF IInv, RateBuckets, TokensStayBounded, Buckets
    <3> HIDE DEF c, limit
    <3> QED
      BY <2>4, <3>1, <3>2, <3>3
  <2>7. \A i, j, k \in Nat : i >= j => i * k \in Nat /\ i * k >= j * k
    OBVIOUS
  <2> DEFINE y == w * limit
  <2>8. x >= 2 * y + limit /\ x \in Nat /\ y \in Nat /\ y >= 1
    <3> HIDE DEF age, w, limit
    <3>1. age \in Nat /\ 2 * w + 1 \in Nat /\ limit \in Nat
      BY <2>3, <2>4, <2>5
    <3>2. x \in Nat /\ x >= (2 * w + 1) * limit
      BY <2>5, <2>7, <3>1
    <3>3. (2 * w + 1) * limit = 2 * y + limit
      BY <2>4
    <3>4. y \in Nat /\ y >= 1
      <4>1. \A i, j \in Nat \ {0} : i * j \in Nat /\ i * j >= 1
        OBVIOUS
      <4> QED
        BY <2>4, <4>1
    <3> HIDE DEF x, y
    <3> QED
      BY <2>4, <3>2, <3>3, <3>4
  <2>9. MaxTokens = y
    BY <2>4 DEF MaxTokens
  <2> HIDE DEF t, c, x, y, limit
  <2>10. t + x >= y
    BY <2>3, <2>4, <2>6, <2>8
  <2> QED
    BY <2>9, <2>10 DEF t, x, limit
<1>4. RingMatchesEntries
  BY DEF IInv, ShardOK, RingMatchesEntries, ToSet
<1>5. ConnectionsCounted
  BY DEF IInv, ListenerOK, Places, Held, ConnectionsCounted
<1> QED
  BY <1>1, <1>2, <1>3, <1>4, <1>5 DEF LimitersKeepBooks

\* The limiters' accounts balance for any configuration they accept and any number
\* of handlers: ranges, ring and map, connections, and the tokens of a bucket up
\* to what the handlers in Check are about to give back.
THEOREM LimitersAlwaysKeepBooks == Spec => []LimitersKeepBooks
BY Invariance, KeepsBooks, PTL

\* A handler's step changes no other handler.
LEMMA OthersStay ==
    ASSUME IInv, NEW p \in cfg.procs, NEW q \in cfg.procs \ {p}, NEW v,
           proc' = [proc EXCEPT ![p] = v]
    PROVE  proc'[q] = proc[q]
BY DEF IInv, Handlers

LEMMA SlowClientsStep ==
    ASSUME IInv, Next, NEW p \in cfg.procs, proc[p].pc = "admit", proc'[p].pc = "done",
           proc[p].q.client \notin cfg.blackhole
    PROVE  LET c == proc[p].q.client
           IN c \in DOMAIN rep.entries /\ rep.entries[c].lastRefill = now
<1>1. ASSUME NEW q \in cfg.procs,
             \/ Receive(q) \/ Blackhole(q) \/ Admit(q) \/ Reject(q) \/ Block(q)
             \/ ApplyRPZQuery(q) \/ Cookie(q) \/ Authoritative(q) \/ Recurse(q)
             \/ ApplyRPZResponse(q) \/ ApplyRPZShortcut(q) \/ ApplyRPZNameservers(q)
             \/ RRLOff(q) \/ RRLLoad(q) \/ RefillLoad(q) \/ RefillStore(q)
             \/ RefillStamp(q) \/ Take(q) \/ Restore(q) \/ Send(q)
      PROVE  q = p /\ Admit(p)
  <2>1. \E v : proc' = [proc EXCEPT ![q] = v]
    BY <1>1 DEF Receive, Blackhole, Admit, Reject, Block, ApplyRPZQuery, Cookie, Authoritative,
       Recurse, ApplyRPZResponse, ApplyRPZShortcut, ApplyRPZNameservers, RRLOff, RRLLoad,
       RefillLoad, RefillStore, RefillStamp, Take, Restore, Send, Judged, Finish, Set
  <2>2. q = p
    <3>1. q # p => proc'[p] = proc[p]
      BY <2>1, OthersStay
    <3> QED
      BY <3>1
  <2>3. Blackhole(p) \/ Admit(p)
    BY <1>1, <2>2 DEF Receive, Reject, Block, ApplyRPZQuery, Cookie, Authoritative,
       Recurse, ApplyRPZResponse, ApplyRPZShortcut, ApplyRPZNameservers, RRLOff, RRLLoad,
       RefillLoad, RefillStore, RefillStamp, Take, Restore, Send
  <2> QED
    BY <2>2, <2>3 DEF Blackhole
<1>2. Admit(p)
  <2>1. CASE \E q \in cfg.procs :
                \/ Receive(q) \/ Blackhole(q) \/ Admit(q) \/ Reject(q) \/ Block(q)
                \/ ApplyRPZQuery(q) \/ Cookie(q) \/ Authoritative(q) \/ Recurse(q)
                \/ ApplyRPZResponse(q) \/ ApplyRPZShortcut(q) \/ ApplyRPZNameservers(q)
                \/ RRLOff(q) \/ RRLLoad(q) \/ RefillLoad(q) \/ RefillStore(q)
                \/ RefillStamp(q) \/ Take(q) \/ Restore(q) \/ Send(q)
    BY <1>1, <2>1
  <2>2. ~ReloadRPZ
    <3>1. ReloadRPZ => proc'[p].pc = proc[p].pc
      <4>1. ASSUME NEW seen PROVE [proc[p] EXCEPT !.seen = seen].pc = proc[p].pc
        BY DEF IInv, Handlers, Idle
      <4> QED
        BY <4>1 DEF ReloadRPZ
    <3> QED
      BY <3>1
  <2>3. ~(performCleanup \/ TCPAccept \/ TCPClose \/ Tick)
    BY DEF performCleanup, TCPAccept, TCPClose, Tick
  <2> QED
    BY <2>1, <2>2, <2>3 DEF Next
<1>3. ~Admits(rep, proc[p].q.client)
  <2>1. SUFFICES ASSUME Set(p, [pc |-> "validate"]) PROVE FALSE
    BY <1>2 DEF Admit
  <2> DEFINE fields == [pc |-> "validate"]
  <2>2. Set(p, fields) /\ DOMAIN fields = {"pc"} /\ fields.pc = "validate"
    BY <2>1
  <2>3. "pc" \in DOMAIN Idle
    BY DEF Idle
  <2> HIDE DEF fields, Idle
  <2>4. proc'[p].pc = "validate"
    BY <2>2, <2>3, SetFacts DEF IInv
  <2> QED
    BY <2>4
<1> QED
  BY <1>3, RefusedAtOnce DEF IInv

\* A client that is turned away was counted this very second, whatever its score
\* and whatever the other handlers do to its entry meanwhile.
THEOREM SlowClientsAlwaysAdmitted == Spec => SlowClientsAdmitted
<1>1. IInv /\ [Next]_vars =>
          [\A p \in cfg.procs :
              LET c == proc[p].q.client
              IN proc[p].pc = "admit" /\ proc'[p].pc = "done" /\ c \notin cfg.blackhole =>
                    c \in DOMAIN rep.entries /\ now - rep.entries[c].lastRefill < 1]_vars
  <2> SUFFICES ASSUME IInv, Next, NEW p \in cfg.procs,
                      proc[p].pc = "admit", proc'[p].pc = "done",
                      proc[p].q.client \notin cfg.blackhole
               PROVE  LET c == proc[p].q.client
                      IN c \in DOMAIN rep.entries /\ now - rep.entries[c].lastRefill < 1
    OBVIOUS
  <2>1. LET c == proc[p].q.client
        IN c \in DOMAIN rep.entries /\ rep.entries[c].lastRefill = now
    BY SlowClientsStep
  <2>2. now \in Nat
    BY DEF IInv, Clock
  <2>3. now - now < 1
    BY <2>2
  <2> QED
    BY <2>1, <2>3
<1> QED
  BY Invariance, <1>1, PTL DEF Spec, SlowClientsAdmitted

-----------------------------------------------------------------------------
(* The response policy: what the checks made early have in common with the *)
(* one that knows everything.                                              *)

LEMMA LeastIs ==
    ASSUME NEW S, S \subseteq Nat, NEW m \in S, \A k \in S : m <= k
    PROVE  Min(S) = m
<1>1. ASSUME NEW x \in S, \A k \in S : x <= k PROVE x = m
  <2>1. x <= m /\ m <= x
    BY <1>1
  <2> QED BY <2>1
<1>2. Min(S) = CHOOSE x \in S : \A k \in S : x <= k
  BY DEF Min
<1> QED BY <1>1, <1>2

LEMMA LeastOf ==
    ASSUME NEW S, S \subseteq Nat, S # {}
    PROVE  Min(S) \in S /\ \A k \in S : Min(S) <= k
<1> DEFINE Below == OpToRel(<, Nat)
<1>1. IsWellFoundedOn(Below, Nat)
  BY NatLessThanWellFounded DEF OpToRel
<1>2. PICK m \in S : \A k \in S : ~(<<k, m>> \in Below)
  BY <1>1, WFMin
<1>3. \A k \in S : ~(k < m)
  BY <1>2 DEF Below, OpToRel
<1>4. \A k \in S : m <= k
  BY <1>3
<1> QED BY <1>4, LeastIs

\* The first hit is a hit before which there is none.
LEMMA FirstHitIs ==
    ASSUME NEW n \in Nat, NEW hits, DOMAIN hits = 1 .. n
    PROVE  /\ (\A i \in 1 .. n : ~IsHit(hits[i])) => FirstHit(hits) = NoHit
           /\ \A i \in 1 .. n :
                 IsHit(hits[i]) /\ (\A j \in 1 .. (i - 1) : ~IsHit(hits[j]))
                     => FirstHit(hits) = hits[i]
           /\ ~IsHit(FirstHit(hits)) => \A i \in 1 .. n : ~IsHit(hits[i])
<1> DEFINE found == {i \in DOMAIN hits : IsHit(hits[i])}
<1>1. FirstHit(hits) = IF found = {} THEN NoHit ELSE hits[Min(found)]
  BY DEF FirstHit
<1>2. found \subseteq Nat
  OBVIOUS
<1>3. ASSUME NEW i \in 1 .. n, IsHit(hits[i]), \A j \in 1 .. (i - 1) : ~IsHit(hits[j])
      PROVE  FirstHit(hits) = hits[i]
  <2>1. i \in found /\ \A k \in found : i <= k
    BY <1>3
  <2>2. Min(found) = i
    BY <1>2, <2>1, LeastIs
  <2> QED BY <1>1, <2>1, <2>2
<1>4. (\A i \in 1 .. n : ~IsHit(hits[i])) => FirstHit(hits) = NoHit
  BY <1>1
<1>5. found # {} => IsHit(FirstHit(hits))
  BY <1>1, <1>2, LeastOf
<1>6. ~IsHit(FirstHit(hits)) => \A i \in 1 .. n : ~IsHit(hits[i])
  BY <1>5
<1> QED BY <1>3, <1>4, <1>6

\* One check of a sequence after another.
LEMMA FirstOfTwo ==
    ASSUME NEW a, NEW b
    PROVE  FirstHit(<<a, b>>) = IF IsHit(a) THEN a ELSE IF IsHit(b) THEN b ELSE NoHit
<1> DEFINE hits == <<a, b>>
<1>1. DOMAIN hits = 1 .. 2 /\ hits[1] = a /\ hits[2] = b
  OBVIOUS
<1> HIDE DEF hits
<1>2. /\ (\A i \in 1 .. 2 : ~IsHit(hits[i])) => FirstHit(hits) = NoHit
      /\ \A i \in 1 .. 2 :
            IsHit(hits[i]) /\ (\A j \in 1 .. (i - 1) : ~IsHit(hits[j])) => FirstHit(hits) = hits[i]
  BY <1>1, FirstHitIs
<1>3. IsHit(hits[1]) => FirstHit(hits) = hits[1]
  BY <1>2
<1>4. ~IsHit(hits[1]) /\ IsHit(hits[2]) => FirstHit(hits) = hits[2]
  BY <1>2
<1>5. ~IsHit(hits[1]) /\ ~IsHit(hits[2]) => FirstHit(hits) = NoHit
  BY <1>2
<1>6. FirstHit(hits) = IF IsHit(a) THEN a ELSE IF IsHit(b) THEN b ELSE NoHit
  BY <1>1, <1>3, <1>4, <1>5
<1> QED BY <1>6 DEF hits

LEMMA FirstOfThree ==
    ASSUME NEW a, NEW b, NEW c
    PROVE  FirstHit(<<a, b, c>>) =
               IF IsHit(a) THEN a ELSE IF IsHit(b) THEN b ELSE IF IsHit(c) THEN c ELSE NoHit
<1> DEFINE hits == <<a, b, c>>
<1>1. DOMAIN hits = 1 .. 3 /\ hits[1] = a /\ hits[2] = b /\ hits[3] = c
  OBVIOUS
<1> HIDE DEF hits
<1>2. /\ (\A i \in 1 .. 3 : ~IsHit(hits[i])) => FirstHit(hits) = NoHit
      /\ \A i \in 1 .. 3 :
            IsHit(hits[i]) /\ (\A j \in 1 .. (i - 1) : ~IsHit(hits[j])) => FirstHit(hits) = hits[i]
  BY <1>1, FirstHitIs
<1>3. IsHit(hits[1]) => FirstHit(hits) = hits[1]
  BY <1>2
<1>4. ~IsHit(hits[1]) /\ IsHit(hits[2]) => FirstHit(hits) = hits[2]
  BY <1>2
<1>5. ~IsHit(hits[1]) /\ ~IsHit(hits[2]) /\ IsHit(hits[3]) => FirstHit(hits) = hits[3]
  BY <1>2
<1>6. ~IsHit(hits[1]) /\ ~IsHit(hits[2]) /\ ~IsHit(hits[3]) => FirstHit(hits) = NoHit
  BY <1>2
<1>7. FirstHit(hits) =
          IF IsHit(a) THEN a ELSE IF IsHit(b) THEN b ELSE IF IsHit(c) THEN c ELSE NoHit
  BY <1>1, <1>3, <1>4, <1>5, <1>6
<1> QED BY <1>7 DEF hits

LEMMA FirstOfFour ==
    ASSUME NEW a, NEW b, NEW c, NEW d
    PROVE  FirstHit(<<a, b, c, d>>) =
               IF IsHit(a) THEN a ELSE IF IsHit(b) THEN b ELSE IF IsHit(c) THEN c
               ELSE IF IsHit(d) THEN d ELSE NoHit
<1> DEFINE hits == <<a, b, c, d>>
<1>1. DOMAIN hits = 1 .. 4 /\ hits[1] = a /\ hits[2] = b /\ hits[3] = c /\ hits[4] = d
  OBVIOUS
<1> HIDE DEF hits
<1>2. /\ (\A i \in 1 .. 4 : ~IsHit(hits[i])) => FirstHit(hits) = NoHit
      /\ \A i \in 1 .. 4 :
            IsHit(hits[i]) /\ (\A j \in 1 .. (i - 1) : ~IsHit(hits[j])) => FirstHit(hits) = hits[i]
  BY <1>1, FirstHitIs
<1>3. IsHit(hits[1]) => FirstHit(hits) = hits[1]
  BY <1>2
<1>4. ~IsHit(hits[1]) /\ IsHit(hits[2]) => FirstHit(hits) = hits[2]
  BY <1>2
<1>5. ~IsHit(hits[1]) /\ ~IsHit(hits[2]) /\ IsHit(hits[3]) => FirstHit(hits) = hits[3]
  BY <1>2
<1>6. ~IsHit(hits[1]) /\ ~IsHit(hits[2]) /\ ~IsHit(hits[3]) /\ IsHit(hits[4])
          => FirstHit(hits) = hits[4]
  BY <1>2
<1>7. ~IsHit(hits[1]) /\ ~IsHit(hits[2]) /\ ~IsHit(hits[3]) /\ ~IsHit(hits[4])
          => FirstHit(hits) = NoHit
  BY <1>2
<1>8. FirstHit(hits) =
          IF IsHit(a) THEN a ELSE IF IsHit(b) THEN b ELSE IF IsHit(c) THEN c
          ELSE IF IsHit(d) THEN d ELSE NoHit
  BY <1>1, <1>3, <1>4, <1>5, <1>6, <1>7
<1> QED BY <1>8 DEF hits

\* The checks of one zone: before the response is known, with the response, and
\* with its name servers.
Early(zone, name, client) == FirstHit(<<checkClientIP(zone, client), checkName(zone, name)>>)
Between(zone, name, client, resp) ==
    FirstHit(<<checkClientIP(zone, client), checkName(zone, name), matchResponseIP(zone, resp)>>)
Finally(zone, name, client, resp, nameservers) ==
    FirstHit(<<checkClientIP(zone, client),
               CheckResponseWithNameservers(zone, name, resp, nameservers)>>)

\* A zone of a policy: its tables are functions.
LEMMA NothingInAnEmptyTable ==
    ASSUME NEW kind, NEW rules, DOMAIN rules = {}, NEW addresses
    PROVE  ~IsHit(bestRPZIPRule(kind, rules, addresses))
<1>1. \A a : Covering(rules, a) = {}
  BY DEF Covering
<1>2. {rpzIPMatch(rules, a) : a \in {a \in addresses : Covering(rules, a) # {}}} = {}
  BY <1>1
<1>3. bestRPZIPRule(kind, rules, addresses) = NoHit
  BY <1>2 DEF bestRPZIPRule
<1> QED BY <1>3 DEF IsHit, NoHit

LEMMA NoNameserverRules ==
    ASSUME NEW zone, ~NeedsNameservers(zone), NEW names, NEW addresses
    PROVE  /\ ~IsHit(matchNSDName(zone, names))
           /\ ~IsHit(bestRPZIPRule("nsip", zone.nsip, addresses))
<1>1. DOMAIN zone.nsname = {} /\ DOMAIN zone.nswild = {} /\ DOMAIN zone.nsip = {}
  BY DEF NeedsNameservers
<1>2. \A n : rpzNameMatch(zone, n) = {}
  BY <1>1 DEF rpzNameMatch, Above
<1>3. UNION {rpzNameMatch(zone, n) : n \in names} = {}
  BY <1>2
<1>4. matchNSDName(zone, names) = NoHit
  BY <1>3 DEF matchNSDName
<1>5. ~IsHit(NoHit)
  BY DEF IsHit, NoHit
<1> QED BY <1>1, <1>4, <1>5, NothingInAnEmptyTable

LEMMA TwoAndTwo ==
    ASSUME NEW a, NEW b, NEW c, NEW d
    PROVE  <<a, b>> \o <<c, d>> = <<a, b, c, d>>
<1> DEFINE one == <<a, b>>
           two == <<c, d>>
           both == <<a, b, c, d>>
           S == {a, b, c, d}
<1>1. one \in Seq(S) /\ two \in Seq(S) /\ both \in Seq(S)
  OBVIOUS
<1>2. /\ Len(one) = 2 /\ one[1] = a /\ one[2] = b
      /\ Len(two) = 2 /\ two[1] = c /\ two[2] = d
      /\ Len(both) = 4 /\ both[1] = a /\ both[2] = b /\ both[3] = c /\ both[4] = d
  OBVIOUS
<1> HIDE DEF one, two, both, S
<1>3. /\ one \o two \in Seq(S) /\ Len(one \o two) = 4
      /\ \A i \in 1 .. 4 : (one \o two)[i] = IF i <= 2 THEN one[i] ELSE two[i - 2]
  <2>1. /\ one \o two \in Seq(S) /\ Len(one \o two) = Len(one) + Len(two)
        /\ \A i \in 1 .. Len(one) + Len(two) :
              (one \o two)[i] = IF i <= Len(one) THEN one[i] ELSE two[i - Len(one)]
    BY <1>1, ConcatProperties
  <2>2. Len(one) + Len(two) = 4
    BY <1>2
  <2> QED BY <1>2, <2>1, <2>2
<1>4. \A i \in 1 .. 4 : i = 1 \/ i = 2 \/ i = 3 \/ i = 4
  OBVIOUS
<1>5. \A i \in 1 .. 4 : (one \o two)[i] = both[i]
  BY <1>2, <1>3, <1>4
<1>6. one \o two = both
  BY <1>1, <1>2, <1>3, <1>5, SeqEqual
<1> QED BY <1>6 DEF one, two, both

\* What a later check of a zone adds to an earlier one.
LEMMA LaterChecks ==
    ASSUME NEW zone, NEW name, NEW client, NEW resp, NEW nameservers
    PROVE  LET e == Early(zone, name, client)
               b == Between(zone, name, client, resp)
               f == Finally(zone, name, client, resp, nameservers)
           IN /\ IsHit(e) => b = e
              /\ IsHit(b) => f = b
              /\ ~HasResponseDependentRules(zone) /\ ~IsHit(e) => ~IsHit(b)
              /\ ~NeedsNameservers(zone) /\ ~IsHit(b) => ~IsHit(f)
<1> DEFINE c == checkClientIP(zone, client)
           n == checkName(zone, name)
           i == matchResponseIP(zone, resp)
           d == matchNSDName(zone, nameservers.names)
           s == bestRPZIPRule("nsip", zone.nsip, nameservers.addresses)
           r == CheckResponseWithNameservers(zone, name, resp, nameservers)
<1>1. r = FirstHit(<<n, i, d, s>>) \/ r = FirstHit(<<n, i>>)
  <2>1. CASE nameservers.known
    <3>1. r = FirstHit(<<n, i>> \o <<d, s>>)
      BY <2>1 DEF CheckResponseWithNameservers
    <3>2. <<n, i>> \o <<d, s>> = <<n, i, d, s>>
      BY TwoAndTwo
    <3> QED BY <3>1, <3>2
  <2>2. CASE ~nameservers.known
    <3>1. r = FirstHit(<<n, i>> \o <<>>)
      BY <2>2 DEF CheckResponseWithNameservers
    <3>2. <<n, i>> \o <<>> = <<n, i>>
      OBVIOUS
    <3> QED BY <3>1, <3>2
  <2> QED BY <2>1, <2>2
<1>2. /\ Early(zone, name, client) = FirstHit(<<c, n>>)
      /\ Between(zone, name, client, resp) = FirstHit(<<c, n, i>>)
      /\ Finally(zone, name, client, resp, nameservers) = FirstHit(<<c, r>>)
  BY DEF Early, Between, Finally
<1>3. ~HasResponseDependentRules(zone) => ~IsHit(i)
  BY NothingInAnEmptyTable DEF HasResponseDependentRules, matchResponseIP
<1>4. ~NeedsNameservers(zone) => ~IsHit(d) /\ ~IsHit(s)
  BY NoNameserverRules
<1>5. ~IsHit(NoHit)
  BY DEF IsHit, NoHit
<1> HIDE DEF c, n, i, d, s, r
<1>6. /\ IsHit(n) => r = n
      /\ ~IsHit(n) /\ IsHit(i) => r = i
      /\ ~IsHit(n) /\ ~IsHit(i) /\ ~IsHit(d) /\ ~IsHit(s) => r = NoHit
  BY <1>1, FirstOfTwo, FirstOfFour
<1> QED BY <1>2, <1>3, <1>4, <1>5, <1>6, FirstOfTwo, FirstOfThree

-----------------------------------------------------------------------------
(* The checks of an aggregate.                                             *)

\* The early verdict, when decisive, is the one reached with more knowledge.
LEMMA EarlyIsFinal ==
    ASSUME NEW n \in Nat, NEW zones, DOMAIN zones = 1 .. n,
           NEW name, NEW client, CheckRequestShortcut(zones, name, client).decisive,
           NEW resp, NEW nameservers
    PROVE  LET hit == CheckRequestShortcut(zones, name, client).hit
           IN /\ CheckRequestResponseShortcut(zones, name, client, resp).hit = hit
              /\ CheckRequestResponseWithNameservers(zones, name, client, resp, nameservers) = hit
<1> DEFINE early == [i \in 1 .. n |-> Early(zones[i], name, client)]
           step == [i \in 1 .. n |-> Between(zones[i], name, client, resp)]
           last == [i \in 1 .. n |-> Finally(zones[i], name, client, resp, nameservers)]
           hits == {i \in 1 .. n : IsHit(early[i])}
           waiting == {i \in 1 .. n : HasResponseDependentRules(zones[i])}
           stops == {i \in 1 .. n : IsHit(step[i]) \/ NeedsNameservers(zones[i])}
           v == CheckRequestShortcut(zones, name, client)
           w == CheckRequestResponseShortcut(zones, name, client, resp)
           x == CheckRequestResponseWithNameservers(zones, name, client, resp, nameservers)
<1>1. v = IF hits = {} THEN [hit |-> NoHit, decisive |-> waiting = {}]
          ELSE IF \E k \in waiting : k < Min(hits) THEN Undecided
          ELSE [hit |-> early[Min(hits)], decisive |-> TRUE]
  BY DEF CheckRequestShortcut, Early
<1>2. w = IF stops = {} THEN [hit |-> NoHit, decisive |-> TRUE]
          ELSE [hit |-> step[Min(stops)], decisive |-> IsHit(step[Min(stops)])]
  BY DEF CheckRequestResponseShortcut, Between
<1>3. x = FirstHit(last)
  BY DEF CheckRequestResponseWithNameservers, Finally
<1>4. \A i \in 1 .. n :
         /\ IsHit(early[i]) => step[i] = early[i]
         /\ IsHit(step[i]) => last[i] = step[i]
         /\ ~HasResponseDependentRules(zones[i]) /\ ~IsHit(early[i]) => ~IsHit(step[i])
         /\ ~NeedsNameservers(zones[i]) /\ ~IsHit(step[i]) => ~IsHit(last[i])
  BY LaterChecks
<1>5. \A i \in 1 .. n : NeedsNameservers(zones[i]) => HasResponseDependentRules(zones[i])
  BY DEF HasResponseDependentRules
<1>6. DOMAIN last = 1 .. n /\ hits \subseteq Nat /\ stops \subseteq Nat /\ v.decisive
  OBVIOUS
<1> HIDE DEF early, step, last, v, w, x
<1>7. CASE hits = {}
  <2>1. v.hit = NoHit /\ waiting = {}
    BY <1>1, <1>6, <1>7
  <2>2. \A i \in 1 .. n : ~IsHit(step[i]) /\ ~IsHit(last[i]) /\ ~NeedsNameservers(zones[i])
    BY <1>4, <1>5, <1>7, <2>1
  <2>3. w.hit = NoHit
    BY <1>2, <2>2
  <2>4. x = NoHit
    BY <1>3, <1>6, <2>2, FirstHitIs
  <2> QED BY <2>1, <2>3, <2>4 DEF v, w, x
<1>8. CASE hits # {}
  <2> DEFINE m == Min(hits)
  <2>1. m \in hits /\ \A k \in hits : m <= k
    BY <1>6, <1>8, LeastOf
  <2>2. v.hit = early[m] /\ ~\E k \in waiting : k < m
    BY <1>1, <1>6, <1>8 DEF Undecided
  <2> HIDE DEF m
  <2>3. ASSUME NEW j \in 1 .. (m - 1)
        PROVE  j \in 1 .. n /\ ~IsHit(step[j]) /\ ~IsHit(last[j]) /\ j \notin stops
    <3>1. j \in 1 .. n /\ j \notin hits /\ j \notin waiting
      BY <2>1, <2>2
    <3> QED BY <1>4, <1>5, <3>1
  <2>4. m \in 1 .. n /\ IsHit(early[m]) /\ step[m] = early[m] /\ last[m] = early[m]
    BY <1>4, <2>1
  <2>5. m \in stops /\ \A k \in stops : m <= k
    <3>1. m \in stops
      BY <2>4
    <3>2. \A k \in stops : k \in 1 .. n /\ ~(k \in 1 .. (m - 1))
      BY <2>3
    <3> QED BY <2>4, <3>1, <3>2
  <2>6. Min(stops) = m
    BY <1>6, <2>5, LeastIs
  <2>7. w.hit = early[m]
    BY <1>2, <2>4, <2>5, <2>6
  <2>8. x = early[m]
    BY <1>3, <1>6, <2>3, <2>4, FirstHitIs
  <2> QED BY <2>2, <2>7, <2>8 DEF v, w, x
<1> QED BY <1>7, <1>8

\* The verdict on the response is final when decisive, and otherwise says nothing: a
\* zone asks for the name servers.
LEMMA BetweenIsFinal ==
    ASSUME NEW n \in Nat, NEW zones, DOMAIN zones = 1 .. n,
           NEW name, NEW client, NEW resp, NEW nameservers
    PROVE  LET w == CheckRequestResponseShortcut(zones, name, client, resp)
           IN IF w.decisive
              THEN CheckRequestResponseWithNameservers(zones, name, client, resp, nameservers) = w.hit
              ELSE ~IsHit(w.hit) /\ \E i \in 1 .. n : NeedsNameservers(zones[i])
<1> DEFINE step == [i \in 1 .. n |-> Between(zones[i], name, client, resp)]
           last == [i \in 1 .. n |-> Finally(zones[i], name, client, resp, nameservers)]
           stops == {i \in 1 .. n : IsHit(step[i]) \/ NeedsNameservers(zones[i])}
           w == CheckRequestResponseShortcut(zones, name, client, resp)
           x == CheckRequestResponseWithNameservers(zones, name, client, resp, nameservers)
           m == Min(stops)
<1>2. w = IF stops = {} THEN [hit |-> NoHit, decisive |-> TRUE]
          ELSE [hit |-> step[m], decisive |-> IsHit(step[m])]
  BY DEF CheckRequestResponseShortcut, Between
<1>3. x = FirstHit(last)
  BY DEF CheckRequestResponseWithNameservers, Finally
<1>4. \A i \in 1 .. n :
         /\ IsHit(step[i]) => last[i] = step[i]
         /\ ~NeedsNameservers(zones[i]) /\ ~IsHit(step[i]) => ~IsHit(last[i])
  BY LaterChecks
<1>5. DOMAIN last = 1 .. n /\ stops \subseteq Nat
  OBVIOUS
<1>6. stops # {} => m \in stops /\ \A k \in stops : m <= k
  BY <1>5, LeastOf
<1> HIDE DEF step, last, w, x, m
<1>7. CASE stops = {}
  <2>1. \A i \in 1 .. n : ~IsHit(last[i])
    BY <1>4, <1>7
  <2>2. x = NoHit
    BY <1>3, <1>5, <2>1, FirstHitIs
  <2> QED BY <1>2, <1>7, <2>2 DEF w, x
<1>8. CASE stops # {} /\ IsHit(step[m])
  <2>1. m \in 1 .. n /\ last[m] = step[m] /\ IsHit(last[m])
    BY <1>4, <1>6, <1>8
  <2>2. \A j \in 1 .. (m - 1) : ~IsHit(last[j])
    <3> TAKE j \in 1 .. (m - 1)
    <3>1. j \in 1 .. n /\ j \notin stops
      BY <1>6, <1>8, <2>1
    <3> QED BY <1>4, <3>1
  <2>3. x = last[m]
    BY <1>3, <1>5, <2>1, <2>2, FirstHitIs
  <2> QED BY <1>2, <1>8, <2>1, <2>3 DEF w, x
<1>9. CASE stops # {} /\ ~IsHit(step[m])
  BY <1>2, <1>6, <1>9 DEF w
<1> QED BY <1>7, <1>8, <1>9

-----------------------------------------------------------------------------
(* What a handler knows of the policies it lived through.                  *)

\* A policy that is loaded is nil or the whole of one configuration.
WholePolicy(policy) ==
    \E c \in ToSet(cfg.policies) :
        \/ ~c.enabled /\ policy = <<>>
        \/ c.enabled /\ ConfigLoads(c) /\ policy = Aggregate(c.zones)

\* Queries that nothing but the policy and the answer decide.
Steady(q) ==
    /\ ~cfg.rrl.enabled /\ ~cfg.rep.enabled
    /\ dispatch(q) = "query" /\ refusal(q) = <<>>
    /\ q.client \notin cfg.blackhole /\ q.name \notin DOMAIN cfg.blocked

Served(q) == Matching(cfg.zones, q.name) # {}
FoundServers(q) == Fetch(cfg.recursion.nameservers, q.name, NoNameservers)
Verdict(q, policy) == FinalHit(policy, q, Truth(q))
Leaves(q, policy) == ~Rewrites(Verdict(q, policy)) /\ Verdict(q, policy).action # "DROP"
Makes(q, resp, policy) ==
    /\ Verdict(q, policy).action # "DROP"
    /\ resp.rcode = applyRPZAction(Truth(q), q.name, Verdict(q, policy)).rcode
    /\ resp.answer = applyRPZAction(Truth(q), q.name, Verdict(q, policy)).answer

\* The policy was nil at first and not later, or the other way round.
Torn(seen) == <<>> \in seen /\ seen # {<<>>}
Shaped(resp) == DOMAIN resp = {"rcode", "aa", "tc", "answer", "ns", "extra"}

\* At every point of a handler h the verdict reached so far is one that a policy
\* it lived through finally gives.
Judging(h, policy) ==
    Steady(h.q) =>
        /\ h.pc \in Outside
        /\ h.pc # "done" => policy \in h.seen
        /\ h.pc \in {"cookie", "answer"} /\ h.decided =>
              \E seen \in h.seen : Leaves(h.q, seen)
        /\ h.pc \in {"policy", "nameservers"} => h.resp = Truth(h.q)
        /\ h.pc = "policy" =>
              \/ h.via = "auth" /\ Served(h.q)
              \/ h.via = "rec" /\ ~Served(h.q) /\ h.q.name \in DOMAIN cfg.recursion.answers
        /\ h.pc = "nameservers" =>
              ~Served(h.q) /\ (h.ns = FoundServers(h.q) \/ <<>> \in h.seen)
        /\ h.pc \in {"limit", "send"} =>
              Shaped(h.resp) /\ (Torn(h.seen) \/ \E seen \in h.seen : Makes(h.q, h.resp, seen))
        /\ h.pc = "done" /\ h.out = "dropped" =>
              Torn(h.seen) \/ \E seen \in h.seen : Verdict(h.q, seen).action = "DROP"
        /\ h.pc = "done" /\ h.out = "sent"
              /\ h.resp.rcode \notin {"BADCOOKIE", "REFUSED", "SERVFAIL"} =>
              Torn(h.seen) \/ \E seen \in h.seen : Makes(h.q, h.resp, seen)

PolicyInv == IInv /\ WholePolicy(rpz) /\ \A p \in cfg.procs : Judging(proc[p], rpz)

-----------------------------------------------------------------------------
(* Verdicts.                                                               *)

LEMMA PoliciesAreSequences ==
    ASSUME Clock, NEW policy, WholePolicy(policy)
    PROVE  \E n \in Nat : DOMAIN policy = 1 .. n
<1>1. PICK c \in ToSet(cfg.policies) :
           \/ ~c.enabled /\ policy = <<>>
           \/ c.enabled /\ ConfigLoads(c) /\ policy = Aggregate(c.zones)
  BY DEF WholePolicy
<1>2. CASE policy = <<>>
  <2>1. DOMAIN policy = 1 .. 0 /\ 0 \in Nat
    BY <1>2
  <2> QED
    BY <2>1
<1>3. CASE policy = Aggregate(c.zones)
  <2> DEFINE config == cfg
  <2>1. PICK i \in DOMAIN config.policies : c = config.policies[i]
    BY DEF ToSet
  <2>2. config \in Configs
    BY DEF Clock
  <2>3. IsSequence(c.zones)
    BY <2>1, <2>2, PoliciesAssumption
  <2>4. DOMAIN c.zones = 1 .. Len(c.zones) /\ Len(c.zones) \in Nat
    BY <2>3 DEF IsSequence
  <2>5. DOMAIN policy = DOMAIN c.zones
    BY <1>3 DEF Aggregate
  <2> QED
    BY <2>4, <2>5
<1> QED
  BY <1>1, <1>2, <1>3

LEMMA RepliesAreShaped ==
    ASSUME NEW rcode, NEW aa, NEW answer, NEW ns, NEW extra
    PROVE  Shaped(Reply(rcode, aa, answer, ns, extra))
BY DEF Shaped, Reply

LEMMA AnswersAreShaped ==
    ASSUME NEW zones, NEW q PROVE Shaped(handleAuthoritative(zones, q))
<1> SUFFICES ASSUME NEW z, NEW name, NEW type, NEW do PROVE Shaped(AnswerFrom(z, name, type, do))
  BY DEF handleAuthoritative
<1>1. Shaped(Negative(z, name, do)) /\ \A cut : Shaped(Referral(z, cut, do))
  BY RepliesAreShaped DEF Negative, Referral
<1>2. \A rcode, aa, answer, ns, extra : Shaped(Reply(rcode, aa, answer, ns, extra))
  BY RepliesAreShaped
<1>3. CASE type = "ANY"
  BY <1>2, <1>3 DEF AnswerFrom
<1>4. CASE /\ type # "ANY" /\ IsDelegated(z, name)
           /\ ~(name = FindDelegation(z, name) /\ type = "DS")
  BY <1>1, <1>4 DEF AnswerFrom
<1>5. CASE ~(type = "ANY") /\ ~(/\ type # "ANY" /\ IsDelegated(z, name)
             /\ ~(name = FindDelegation(z, name) /\ type = "DS"))
  BY <1>1, <1>2, <1>5 DEF AnswerFrom
<1> QED
  BY <1>3, <1>4, <1>5

LEMMA TruthIsShaped ==
    ASSUME Clock, NEW q PROVE Shaped(Truth(q))
<1> DEFINE config == cfg
<1>1. config \in Configs
  BY DEF Clock
<1>2. \A n \in DOMAIN cfg.recursion.answers : Shaped(cfg.recursion.answers[n])
  BY <1>1, PoliciesAssumption DEF Shaped
<1>3. Shaped(Nothing)
  BY RepliesAreShaped DEF Nothing
<1> QED
  BY <1>2, <1>3, AnswersAreShaped DEF Truth, Fetch

\* A rewriting verdict makes the same of every response, another one nothing.
LEMMA RewritesTell ==
    ASSUME NEW resp, Shaped(resp), NEW name, NEW hit
    PROVE  /\ Shaped(applyRPZAction(resp, name, hit))
           /\ ~Rewrites(hit) => applyRPZAction(resp, name, hit) = resp
           /\ Rewrites(hit) =>
                 \A other : Shaped(other) =>
                     /\ applyRPZAction(other, name, hit).rcode = applyRPZAction(resp, name, hit).rcode
                     /\ applyRPZAction(other, name, hit).answer = applyRPZAction(resp, name, hit).answer
<1> DEFINE cname == [owner |-> name, type |-> "CNAME", data |-> hit.trigger]
           rcode == IF hit.action = "NXDOMAIN" THEN "NXDOMAIN" ELSE "NOERROR"
           answer == IF hit.action = "REWRITE" THEN <<cname>> ELSE <<>>
<1>1. ASSUME NEW other, Shaped(other), Rewrites(hit)
      PROVE  /\ Shaped(applyRPZAction(other, name, hit))
             /\ applyRPZAction(other, name, hit).rcode = rcode
             /\ applyRPZAction(other, name, hit).answer = answer
  <2>1. applyRPZAction(other, name, hit) =
            [other EXCEPT !.rcode = rcode, !.answer = answer, !.ns = <<>>, !.extra = <<>>]
    BY <1>1 DEF applyRPZAction
  <2> HIDE DEF rcode, answer
  <2> QED
    BY <1>1, <2>1 DEF Shaped
<1>2. ~Rewrites(hit) => applyRPZAction(resp, name, hit) = resp
  BY DEF applyRPZAction
<1> HIDE DEF rcode, answer
<1> QED
  BY <1>1, <1>2

LEMMA NilHitsNothing ==
    ASSUME NEW name, NEW client, NEW resp
    PROVE  /\ CheckRequestResponseShortcut(<<>>, name, client, resp).hit = NoHit
           /\ \A nameservers :
                 CheckRequestResponseWithNameservers(<<>>, name, client, resp, nameservers) = NoHit
<1> DEFINE nil == <<>>
<1>0. DOMAIN nil = 1 .. 0 /\ 0 \in Nat /\ \A i \in 1 .. 0 : FALSE
  OBVIOUS
<1>1. CheckRequestResponseShortcut(nil, name, client, resp).hit = NoHit
  BY <1>0 DEF CheckRequestResponseShortcut
<1>2. ASSUME NEW nameservers
      PROVE  CheckRequestResponseWithNameservers(nil, name, client, resp, nameservers) = NoHit
  <2> DEFINE hits == [i \in DOMAIN nil |->
                 FirstHit(<<checkClientIP(nil[i], client),
                   CheckResponseWithNameservers(nil[i], name, resp, nameservers)>>)]
  <2>1. DOMAIN hits = 1 .. 0
    BY <1>0
  <2>2. CheckRequestResponseWithNameservers(nil, name, client, resp, nameservers) = FirstHit(hits)
    BY DEF CheckRequestResponseWithNameservers
  <2> HIDE DEF hits
  <2>3. FirstHit(hits) = NoHit
    BY <1>0, <2>1, FirstHitIs
  <2> QED
    BY <2>2, <2>3
<1> QED
  BY <1>1, <1>2

LEMMA NilSaysNothing ==
    ASSUME NEW q PROVE Leaves(q, <<>>)
<1>1. Verdict(q, <<>>) = NoHit
  BY NilHitsNothing DEF Verdict, FinalHit
<1> QED
  BY <1>1 DEF Leaves, NoHit, Rewrites

\* Every check that is decisive gives the final verdict; one that is not leaves
\* the response as it is.
LEMMA ChecksAreFinal ==
    ASSUME Clock, NEW policy, WholePolicy(policy), NEW q
    PROVE  LET early == CheckRequestShortcut(policy, q.name, q.client)
               between == CheckRequestResponseShortcut(policy, q.name, q.client, Truth(q))
           IN /\ early.decisive => Verdict(q, policy) = early.hit
              /\ Served(q) => Verdict(q, policy) = between.hit
              /\ ~between.decisive =>
                    ~IsHit(between.hit) /\ \E i \in DOMAIN policy : NeedsNameservers(policy[i])
              /\ ~Served(q) /\ between.decisive => Verdict(q, policy) = between.hit
              /\ ~Served(q) =>
                    Verdict(q, policy) = CheckRequestResponseWithNameservers(
                        policy, q.name, q.client, Truth(q), FoundServers(q))
<1>1. PICK n \in Nat : DOMAIN policy = 1 .. n
  BY PoliciesAreSequences
<1>2. Verdict(q, policy) =
          IF Served(q) THEN CheckRequestResponseShortcut(policy, q.name, q.client, Truth(q)).hit
          ELSE CheckRequestResponseWithNameservers(
                        policy, q.name, q.client, Truth(q), FoundServers(q))
  BY DEF Verdict, FinalHit, Served, FoundServers
<1> DEFINE truth == Truth(q)
           servers == FoundServers(q)
           early == CheckRequestShortcut(policy, q.name, q.client)
           between == CheckRequestResponseShortcut(policy, q.name, q.client, truth)
           last == CheckRequestResponseWithNameservers(policy, q.name, q.client, truth, servers)
<1>3. early.decisive => between.hit = early.hit /\ last = early.hit
  BY <1>1, EarlyIsFinal
<1>4. IF between.decisive THEN last = between.hit
      ELSE ~IsHit(between.hit) /\ \E i \in 1 .. n : NeedsNameservers(policy[i])
  BY <1>1, BetweenIsFinal
<1>5. Verdict(q, policy) = IF Served(q) THEN between.hit ELSE last
  BY <1>2
<1> HIDE DEF truth, servers, early, between, last
<1>6. /\ early.decisive => Verdict(q, policy) = early.hit
      /\ Served(q) => Verdict(q, policy) = between.hit
      /\ ~between.decisive =>
            ~IsHit(between.hit) /\ \E i \in DOMAIN policy : NeedsNameservers(policy[i])
      /\ ~Served(q) /\ between.decisive => Verdict(q, policy) = between.hit
      /\ ~Served(q) => Verdict(q, policy) = last
  BY <1>1, <1>3, <1>4, <1>5
<1> QED
  BY <1>6 DEF truth, servers, early, between, last

-----------------------------------------------------------------------------
(* The steps of a handler.                                                 *)

\* What Set makes of the fields the judgement is about.
LEMMA SetMoves ==
    ASSUME NEW p \in cfg.procs, NEW fields, Handlers, Set(p, fields),
           DOMAIN fields \subseteq DOMAIN Idle
    PROVE  LET After(k) == IF k \in DOMAIN fields THEN fields[k] ELSE proc[p][k]
           IN /\ \A q \in cfg.procs \ {p} : proc'[q] = proc[q]
              /\ proc'[p].q = After("q") /\ proc'[p].pc = After("pc")
              /\ proc'[p].out = After("out") /\ proc'[p].resp = After("resp")
              /\ proc'[p].via = After("via") /\ proc'[p].decided = After("decided")
              /\ proc'[p].seen = After("seen") /\ proc'[p].ns = After("ns")
<1>1. /\ \A q \in cfg.procs \ {p} : proc'[q] = proc[q]
      /\ \A k \in DOMAIN Idle :
            proc'[p][k] = IF k \in DOMAIN fields THEN fields[k] ELSE proc[p][k]
  BY SetFacts
<1>2. {"q", "pc", "out", "resp", "via", "decided", "seen", "ns"} \subseteq DOMAIN Idle
  BY DEF Idle
<1> HIDE DEF Idle
<1> QED
  BY <1>1, <1>2

\* A handler that goes on with the query it has.
Onward(p, pc) ==
    /\ \A q \in cfg.procs \ {p} : proc'[q] = proc[q]
    /\ proc'[p].q = proc[p].q /\ proc'[p].seen = proc[p].seen
    /\ proc'[p].pc = pc

LEMMA FinishMoves ==
    ASSUME NEW p \in cfg.procs, NEW out, NEW resp, Handlers, Finish(p, out, resp)
    PROVE  Onward(p, "done") /\ proc'[p].out = out /\ proc'[p].resp = resp
<1> DEFINE fields == [pc |-> "done", out |-> out, resp |-> resp]
<1>1. Set(p, fields)
  BY DEF Finish
<1>2. DOMAIN fields = {"pc", "out", "resp"} /\ fields.pc = "done" /\ fields.out = out
      /\ fields.resp = resp
  OBVIOUS
<1>3. {"pc", "out", "resp"} \subseteq DOMAIN Idle
  BY DEF Idle
<1> HIDE DEF fields
<1> QED
  BY <1>1, <1>2, <1>3, SetMoves DEF Onward

\* A handler that is steady is past nothing that answers for another reason.
LEMMA EarlySteps ==
    ASSUME PolicyInv, NEW p \in cfg.procs,
           Blackhole(p) \/ Admit(p) \/ Reject(p) \/ Block(p), Steady(proc[p].q)
    PROVE  Onward(p, "validate")
<1>1. Handlers /\ Clock
  BY DEF PolicyInv, IInv
<1>2. ~Blackhole(p) /\ ~Reject(p) /\ ~Block(p)
  BY DEF Steady, Blackhole, Reject, Block
<1>3. Admits(rep, proc[p].q.client)
  BY DEF Steady, Admits, Tracked
<1>4. Set(p, [pc |-> "validate"])
  BY <1>2, <1>3 DEF Admit
<1> DEFINE fields == [pc |-> "validate"]
<1>5. Set(p, fields) /\ DOMAIN fields = {"pc"} /\ fields.pc = "validate"
  BY <1>4
<1>6. {"pc"} \subseteq DOMAIN Idle
  BY DEF Idle
<1> HIDE DEF fields
<1> QED
  BY <1>1, <1>5, <1>6, SetMoves DEF Onward

LEMMA JudgedMoves ==
    ASSUME NEW p \in cfg.procs, NEW hit, NEW r, Handlers, Judged(p, hit, r, "limit")
    PROVE  IF hit.action = "DROP" THEN Onward(p, "done") /\ proc'[p].out = "dropped"
           ELSE /\ Onward(p, "limit")
                /\ proc'[p].resp = applyRPZAction(r, proc[p].q.name, hit)
<1>1. CASE hit.action = "DROP"
  <2>1. Finish(p, "dropped", Nothing)
    BY <1>1 DEF Judged
  <2> QED
    BY <1>1, <2>1, FinishMoves
<1>2. CASE hit.action # "DROP"
  <2> DEFINE resp == applyRPZAction(r, proc[p].q.name, hit)
             fields == [pc |-> "limit", resp |-> resp]
  <2>1. Set(p, fields)
    BY <1>2 DEF Judged
  <2>2. DOMAIN fields = {"pc", "resp"} /\ fields.pc = "limit" /\ fields.resp = resp
    OBVIOUS
  <2>3. {"pc", "resp"} \subseteq DOMAIN Idle
    BY DEF Idle
  <2> HIDE DEF fields
  <2>4. Onward(p, "limit") /\ proc'[p].resp = resp
    BY <2>1, <2>2, <2>3, SetMoves DEF Onward
  <2> QED
    BY <1>2, <2>4
<1> QED
  BY <1>1, <1>2

\* A verdict is judged where it is final, or where the policy is torn.
LEMMA JudgedIsFinal ==
    ASSUME PolicyInv, NEW p \in cfg.procs, NEW hit, NEW r, Shaped(r),
           Judged(p, hit, r, "limit"), Steady(proc[p].q), rpz \in proc[p].seen,
           \/ Torn(proc[p].seen)
           \/ /\ \/ hit = Verdict(proc[p].q, rpz)
                 \/ ~IsHit(hit) /\ ~IsHit(Verdict(proc[p].q, rpz))
              /\ r = Truth(proc[p].q) \/ Rewrites(hit) \/ hit.action = "DROP"
    PROVE  Judging(proc'[p], rpz) /\ \A q \in cfg.procs \ {p} : proc'[q] = proc[q]
<1> DEFINE h == proc[p]
           k == proc'[p]
           v == Verdict(h.q, rpz)
           judged == applyRPZAction(r, h.q.name, hit)
           final == applyRPZAction(Truth(h.q), h.q.name, v)
<1>1. Clock /\ Handlers
  BY DEF PolicyInv, IInv
<1>2. IF hit.action = "DROP" THEN Onward(p, "done") /\ k.out = "dropped"
      ELSE Onward(p, "limit") /\ k.resp = judged
  BY <1>1, JudgedMoves
<1>3. /\ \A q \in cfg.procs \ {p} : proc'[q] = proc[q]
      /\ k.q = h.q /\ k.seen = h.seen
      /\ IF hit.action = "DROP" THEN k.pc = "done" /\ k.out = "dropped"
         ELSE k.pc = "limit" /\ k.resp = judged
  BY <1>2 DEF Onward
<1>4. Shaped(judged)
  BY RewritesTell
<1>5. ~Torn(h.seen) =>
         IF hit.action = "DROP" THEN v.action = "DROP"
         ELSE v.action # "DROP" /\ judged.rcode = final.rcode /\ judged.answer = final.answer
  <2> SUFFICES ASSUME ~Torn(h.seen)
               PROVE  IF hit.action = "DROP" THEN v.action = "DROP"
                      ELSE v.action # "DROP" /\ judged.rcode = final.rcode
                             /\ judged.answer = final.answer
    OBVIOUS
  <2>1. Shaped(Truth(h.q))
    BY <1>1, TruthIsShaped
  <2>2. CASE ~IsHit(hit) /\ ~IsHit(v)
    <3>1. hit.action = "NONE" /\ v.action = "NONE"
      BY <2>2 DEF IsHit
    <3>2. ~Rewrites(hit) /\ ~Rewrites(v)
      BY <3>1 DEF Rewrites
    <3>3. r = Truth(h.q)
      BY <3>1, <3>2
    <3>4. judged = r /\ final = Truth(h.q)
      BY <2>1, <3>2, RewritesTell
    <3> QED
      BY <3>1, <3>3, <3>4
  <2>3. CASE hit = v /\ Rewrites(hit)
    <3>1. judged.rcode = final.rcode /\ judged.answer = final.answer
      BY <2>1, <2>3, RewritesTell
    <3> QED
      BY <2>3, <3>1
  <2>4. CASE hit = v /\ ~Rewrites(hit)
    BY <2>4
  <2> QED
    BY <2>2, <2>3, <2>4
<1> HIDE DEF h, k, v, judged, final
<1>6. ASSUME hit.action = "DROP" PROVE Judging(k, rpz)
  <2>1. Torn(k.seen) \/ Verdict(k.q, rpz).action = "DROP"
    BY <1>3, <1>5, <1>6 DEF v
  <2>2. rpz \in k.seen
    BY <1>3 DEF h
  <2>3. k.pc = "done" /\ k.out = "dropped"
    BY <1>3, <1>6
  <2> QED
    BY <2>1, <2>2, <2>3 DEF Judging, Outside
<1>7. ASSUME hit.action # "DROP" PROVE Judging(k, rpz)
  <2>1. Torn(k.seen) \/ Makes(k.q, k.resp, rpz)
    BY <1>3, <1>5, <1>7 DEF v, final, Makes
  <2>2. rpz \in k.seen
    BY <1>3 DEF h
  <2>3. k.pc = "limit" /\ Shaped(k.resp)
    BY <1>3, <1>4, <1>7
  <2> QED
    BY <2>1, <2>2, <2>3 DEF Judging, Outside
<1> QED
  BY <1>3, <1>6, <1>7 DEF k

\* Where a handler stands when it takes a step.
LEMMA Standing ==
    ASSUME PolicyInv, NEW p \in cfg.procs, Steady(proc[p].q)
    PROVE  /\ proc[p].pc \in Outside
           /\ proc[p].pc # "done" => rpz \in proc[p].seen
BY DEF PolicyInv, Judging

LEMMA ApplyRPZQueryJudges ==
    ASSUME PolicyInv, NEW p \in cfg.procs, ApplyRPZQuery(p), Steady(proc[p].q)
    PROVE  Judging(proc'[p], rpz) /\ \A q \in cfg.procs \ {p} : proc'[q] = proc[q]
<1> DEFINE h == proc[p]
           k == proc'[p]
           v == CheckRequestShortcut(rpz, h.q.name, h.q.client)
<1>1. Clock /\ Handlers /\ WholePolicy(rpz)
  BY DEF PolicyInv, IInv
<1>2. h.pc = "validate" /\ rpz \in h.seen
  BY Standing DEF ApplyRPZQuery
<1>3. v.decisive => Verdict(h.q, rpz) = v.hit
  BY <1>1, ChecksAreFinal
<1>4. CASE v.decisive /\ (Rewrites(v.hit) \/ v.hit.action = "DROP")
  <2>1. Judged(p, v.hit, Answered("NOERROR"), "limit")
    BY <1>4 DEF ApplyRPZQuery
  <2>2. Shaped(Answered("NOERROR"))
    BY RepliesAreShaped DEF Answered
  <2> QED
    BY <1>2, <1>3, <1>4, <2>1, <2>2, JudgedIsFinal
<1>5. CASE ~(v.decisive /\ (Rewrites(v.hit) \/ v.hit.action = "DROP"))
  <2> DEFINE decided == v.decisive
             fields == [pc |-> "cookie", decided |-> decided]
  <2>1. Set(p, fields)
    BY <1>5 DEF ApplyRPZQuery
  <2>2. DOMAIN fields = {"pc", "decided"} /\ fields.pc = "cookie" /\ fields.decided = decided
    OBVIOUS
  <2>3. {"pc", "decided"} \subseteq DOMAIN Idle
    BY DEF Idle
  <2> HIDE DEF fields, decided
  <2>4. /\ \A q \in cfg.procs \ {p} : proc'[q] = proc[q]
        /\ k.q = h.q /\ k.seen = h.seen /\ k.pc = "cookie" /\ k.decided = decided
    BY <1>1, <2>1, <2>2, <2>3, SetMoves
  <2>5. decided => Leaves(k.q, rpz)
    BY <1>3, <1>5, <2>4 DEF decided, Leaves
  <2>6. rpz \in k.seen
    BY <1>2, <2>4
  <2> HIDE DEF h, k, v
  <2>7. Judging(k, rpz)
    BY <2>4, <2>5, <2>6 DEF Judging, Outside
  <2> QED
    BY <2>4, <2>7 DEF k
<1> QED
  BY <1>4, <1>5

LEMMA CookieJudges ==
    ASSUME PolicyInv, NEW p \in cfg.procs, Cookie(p), Steady(proc[p].q)
    PROVE  Judging(proc'[p], rpz) /\ \A q \in cfg.procs \ {p} : proc'[q] = proc[q]
<1> DEFINE h == proc[p]
           k == proc'[p]
<1>1. Handlers /\ Judging(h, rpz)
  BY DEF PolicyInv, IInv
<1>2. h.pc = "cookie" /\ rpz \in h.seen
  BY Standing DEF Cookie
<1>3. CASE Finish(p, "sent", Answered("BADCOOKIE"))
  <2>1. Onward(p, "done") /\ k.out = "sent" /\ k.resp = Answered("BADCOOKIE")
    BY <1>1, <1>3, FinishMoves
  <2>2. k.resp.rcode = "BADCOOKIE"
    BY <2>1 DEF Answered, Reply
  <2>3. k.pc = "done" /\ k.out = "sent" /\ k.q = h.q
    BY <2>1 DEF Onward
  <2> HIDE DEF h, k
  <2>4. Judging(k, rpz)
    BY <2>2, <2>3 DEF Judging, Outside
  <2> QED
    BY <2>1, <2>4 DEF k, Onward
<1>4. CASE Set(p, [pc |-> "answer", minted |-> now])
  <2> DEFINE minted == now
             fields == [pc |-> "answer", minted |-> minted]
  <2>1. Set(p, fields)
    BY <1>4
  <2>2. DOMAIN fields = {"pc", "minted"} /\ fields.pc = "answer"
    OBVIOUS
  <2>3. {"pc", "minted"} \subseteq DOMAIN Idle
    BY DEF Idle
  <2> HIDE DEF fields, minted
  <2>4. /\ \A q \in cfg.procs \ {p} : proc'[q] = proc[q]
        /\ k.q = h.q /\ k.seen = h.seen /\ k.pc = "answer" /\ k.decided = h.decided
    BY <1>1, <2>1, <2>2, <2>3, SetMoves
  <2> HIDE DEF h, k
  <2>5. Judging(k, rpz)
    BY <1>1, <1>2, <2>4 DEF Judging, Outside
  <2> QED
    BY <2>4, <2>5 DEF k
<1> QED
  BY <1>3, <1>4 DEF Cookie

\* An answer is found: final where the early verdict was, and otherwise judged next.
LEMMA FoundJudges ==
    ASSUME PolicyInv, NEW p \in cfg.procs, Steady(proc[p].q), proc[p].pc = "answer",
           NEW via \in {"auth", "rec"},
           via = "auth" <=> Served(proc[p].q),
           via = "rec" => proc[p].q.name \in DOMAIN cfg.recursion.answers,
           Set(p, [via |-> via, resp |-> Truth(proc[p].q), raw |-> Truth(proc[p].q),
                   pc |-> IF proc[p].decided THEN "limit" ELSE "policy"])
    PROVE  Judging(proc'[p], rpz) /\ \A q \in cfg.procs \ {p} : proc'[q] = proc[q]
<1> DEFINE h == proc[p]
           k == proc'[p]
           truth == Truth(h.q)
           pc == IF h.decided THEN "limit" ELSE "policy"
           fields == [via |-> via, resp |-> truth, raw |-> truth, pc |-> pc]
<1>1. Handlers /\ Clock /\ Judging(h, rpz) /\ rpz \in h.seen /\ h.pc = "answer"
  BY Standing DEF PolicyInv, IInv
<1>2. Set(p, fields)
  OBVIOUS
<1>3. /\ DOMAIN fields = {"via", "resp", "raw", "pc"}
      /\ fields.via = via /\ fields.resp = truth /\ fields.pc = pc
  OBVIOUS
<1>4. {"via", "resp", "raw", "pc"} \subseteq DOMAIN Idle
  BY DEF Idle
<1>5. (via = "auth" <=> Served(h.q)) /\ (via = "rec" => h.q.name \in DOMAIN cfg.recursion.answers)
  OBVIOUS
<1> HIDE DEF fields
<1>6. /\ \A q \in cfg.procs \ {p} : proc'[q] = proc[q]
      /\ k.q = h.q /\ k.seen = h.seen /\ k.pc = pc /\ k.via = via /\ k.resp = truth
  BY <1>1, <1>2, <1>3, <1>4, SetMoves
<1>7. Shaped(truth)
  BY <1>1, TruthIsShaped
<1>8. \A seen : Leaves(h.q, seen) => Makes(h.q, truth, seen)
  <2> TAKE seen
  <2> DEFINE v == Verdict(h.q, seen)
  <2>1. ~Rewrites(v) => applyRPZAction(truth, h.q.name, v) = truth
    BY <1>7, RewritesTell
  <2> QED
    BY <2>1 DEF Leaves, Makes
<1> HIDE DEF h, k
<1>9. CASE h.decided
  <2>1. k.pc = "limit" /\ k.resp = truth
    BY <1>6, <1>9
  <2>2. PICK seen \in h.seen : Leaves(h.q, seen)
    BY <1>1, <1>9 DEF Judging, h
  <2>3. seen \in k.seen /\ Makes(k.q, k.resp, seen)
    BY <1>6, <1>8, <2>1, <2>2
  <2>4. Shaped(k.resp) /\ rpz \in k.seen
    BY <1>1, <1>6, <1>7
  <2>5. Judging(k, rpz)
    BY <2>1, <2>3, <2>4 DEF Judging, Outside
  <2> QED
    BY <1>6, <2>5 DEF k
<1>10. CASE ~h.decided
  <2>1. k.pc = "policy" /\ k.resp = Truth(k.q) /\ rpz \in k.seen
    BY <1>1, <1>6, <1>10 DEF truth
  <2>2. \/ k.via = "auth" /\ Served(k.q)
        \/ k.via = "rec" /\ ~Served(k.q) /\ k.q.name \in DOMAIN cfg.recursion.answers
    BY <1>5, <1>6
  <2>3. Judging(k, rpz)
    BY <2>1, <2>2 DEF Judging, Outside
  <2> QED
    BY <1>6, <2>3 DEF k
<1> QED
  BY <1>9, <1>10

LEMMA AuthoritativeJudges ==
    ASSUME PolicyInv, NEW p \in cfg.procs, Authoritative(p), Steady(proc[p].q)
    PROVE  Judging(proc'[p], rpz) /\ \A q \in cfg.procs \ {p} : proc'[q] = proc[q]
<1> DEFINE h == proc[p]
<1>1. h.pc = "answer" /\ Served(h.q)
  BY DEF Authoritative, Served
<1>2. Truth(h.q) = handleAuthoritative(cfg.zones, h.q)
  BY <1>1 DEF Truth, Served
<1>3. Set(p, [via |-> "auth", resp |-> Truth(h.q), raw |-> Truth(h.q),
              pc |-> IF h.decided THEN "limit" ELSE "policy"])
  BY <1>2 DEF Authoritative
<1> QED
  BY <1>1, <1>3, FoundJudges

\* A handler that ends with one of the rcodes the judgement leaves out.
LEMMA FailuresAreLeftOut ==
    ASSUME PolicyInv, NEW p \in cfg.procs, NEW rcode \in {"REFUSED", "SERVFAIL"},
           Finish(p, "sent", Answered(rcode))
    PROVE  Judging(proc'[p], rpz) /\ \A q \in cfg.procs \ {p} : proc'[q] = proc[q]
<1> DEFINE k == proc'[p]
<1>1. Handlers
  BY DEF PolicyInv, IInv
<1>2. Onward(p, "done") /\ k.out = "sent" /\ k.resp = Answered(rcode)
  BY <1>1, FinishMoves
<1>3. k.resp.rcode = rcode
  BY <1>2 DEF Answered, Reply
<1>4. k.pc = "done" /\ k.out = "sent"
  BY <1>2 DEF Onward
<1> HIDE DEF k
<1>5. Judging(k, rpz)
  BY <1>3, <1>4 DEF Judging, Outside
<1> QED
  BY <1>2, <1>5 DEF k, Onward

LEMMA RecurseJudges ==
    ASSUME PolicyInv, NEW p \in cfg.procs, Recurse(p), Steady(proc[p].q)
    PROVE  Judging(proc'[p], rpz) /\ \A q \in cfg.procs \ {p} : proc'[q] = proc[q]
<1> DEFINE h == proc[p]
<1>1. h.pc = "answer" /\ ~Served(h.q)
  BY DEF Recurse, Served
<1>2. CASE RecursionAllowed(h.q) /\ h.q.name \in DOMAIN cfg.recursion.answers
  <2>1. Truth(h.q) = cfg.recursion.answers[h.q.name]
    BY <1>1, <1>2 DEF Truth, Served, Fetch
  <2>2. Set(p, [via |-> "rec", resp |-> Truth(h.q), raw |-> Truth(h.q),
                pc |-> IF h.decided THEN "limit" ELSE "policy"])
    BY <1>2, <2>1 DEF Recurse
  <2> QED
    BY <1>1, <1>2, <2>2, FoundJudges
<1>3. CASE ~RecursionAllowed(h.q)
  <2>1. Finish(p, "sent", Answered("REFUSED"))
    BY <1>3 DEF Recurse
  <2> QED
    BY <2>1, FailuresAreLeftOut
<1>4. CASE RecursionAllowed(h.q) /\ h.q.name \notin DOMAIN cfg.recursion.answers
  <2>1. Finish(p, "sent", Answered("SERVFAIL"))
    BY <1>4 DEF Recurse
  <2> QED
    BY <2>1, FailuresAreLeftOut
<1> QED
  BY <1>2, <1>3, <1>4

LEMMA ApplyRPZResponseJudges ==
    ASSUME PolicyInv, NEW p \in cfg.procs, ApplyRPZResponse(p), Steady(proc[p].q)
    PROVE  Judging(proc'[p], rpz) /\ \A q \in cfg.procs \ {p} : proc'[q] = proc[q]
<1> DEFINE h == proc[p]
           v == CheckRequestResponseShortcut(rpz, h.q.name, h.q.client, Truth(h.q))
           hit == IF v.decisive THEN v.hit ELSE NoHit
<1>1. Clock /\ WholePolicy(rpz) /\ Judging(h, rpz) /\ rpz \in h.seen
  BY Standing DEF PolicyInv, IInv, ApplyRPZResponse
<1>2. h.pc = "policy" /\ h.via = "auth"
  BY DEF ApplyRPZResponse
<1>3. h.resp = Truth(h.q) /\ Served(h.q)
  BY <1>1, <1>2 DEF Judging
<1>4. Judged(p, hit, Truth(h.q), "limit")
  BY <1>3 DEF ApplyRPZResponse
<1>5. hit = Verdict(h.q, rpz) \/ (~IsHit(hit) /\ ~IsHit(Verdict(h.q, rpz)))
  <2>1. Verdict(h.q, rpz) = v.hit /\ (~v.decisive => ~IsHit(v.hit))
    BY <1>1, <1>3, ChecksAreFinal
  <2>2. ~IsHit(NoHit)
    BY DEF IsHit, NoHit
  <2>3. CASE v.decisive
    <3>1. hit = v.hit
      BY <2>3
    <3> HIDE DEF v, hit
    <3> QED
      BY <2>1, <3>1
  <2>4. CASE ~v.decisive
    <3>1. hit = NoHit
      BY <2>4
    <3> QED
      BY <2>1, <2>2, <2>4, <3>1
  <2> QED
    BY <2>3, <2>4
<1>6. Shaped(Truth(h.q))
  BY <1>1, TruthIsShaped
<1> HIDE DEF hit, v
<1> QED
  BY <1>1, <1>4, <1>5, <1>6, JudgedIsFinal

LEMMA ApplyRPZShortcutJudges ==
    ASSUME PolicyInv, NEW p \in cfg.procs, ApplyRPZShortcut(p), Steady(proc[p].q)
    PROVE  Judging(proc'[p], rpz) /\ \A q \in cfg.procs \ {p} : proc'[q] = proc[q]
<1> DEFINE h == proc[p]
           k == proc'[p]
           v == CheckRequestResponseShortcut(rpz, h.q.name, h.q.client, Truth(h.q))
<1>1. Clock /\ Handlers /\ WholePolicy(rpz) /\ Judging(h, rpz) /\ rpz \in h.seen
  BY Standing DEF PolicyInv, IInv, ApplyRPZShortcut
<1>2. h.pc = "policy" /\ h.via = "rec"
  BY DEF ApplyRPZShortcut
<1>3. h.resp = Truth(h.q) /\ ~Served(h.q) /\ h.q.name \in DOMAIN cfg.recursion.answers
  BY <1>1, <1>2 DEF Judging
<1>4. /\ v.decisive => Verdict(h.q, rpz) = v.hit
      /\ ~v.decisive => \E i \in DOMAIN rpz : NeedsNameservers(rpz[i])
  BY <1>1, <1>3, ChecksAreFinal
<1>5. Shaped(Truth(h.q))
  BY <1>1, TruthIsShaped
<1>6. CASE rpz # <<>> /\ v.decisive
  <2>1. Judged(p, v.hit, Truth(h.q), "limit")
    BY <1>3, <1>6 DEF ApplyRPZShortcut
  <2> HIDE DEF v
  <2> QED
    BY <1>1, <1>4, <1>5, <1>6, <2>1, JudgedIsFinal
<1>7. CASE ~(rpz # <<>> /\ v.decisive)
  <2> DEFINE ns == IF \E i \in DOMAIN rpz : NeedsNameservers(rpz[i])
                   THEN cfg.recursion.nameservers[h.q.name] ELSE NoNameservers
             fields == [pc |-> "nameservers", ns |-> ns]
  <2>1. Set(p, fields)
    BY <1>3, <1>7 DEF ApplyRPZShortcut
  <2>2. DOMAIN fields = {"pc", "ns"} /\ fields.pc = "nameservers" /\ fields.ns = ns
    OBVIOUS
  <2>3. {"pc", "ns"} \subseteq DOMAIN Idle
    BY DEF Idle
  <2> DEFINE config == cfg
  <2>4. config \in Configs
    BY <1>1 DEF Clock
  <2>5. h.q.name \in DOMAIN cfg.recursion.nameservers
    BY <1>3, <2>4, PoliciesAssumption
  <2>6. ns = FoundServers(h.q) \/ rpz = <<>>
    BY <1>4, <1>7, <2>5 DEF FoundServers, Fetch
  <2> HIDE DEF fields, ns
  <2>7. /\ \A q \in cfg.procs \ {p} : proc'[q] = proc[q]
        /\ k.q = h.q /\ k.seen = h.seen /\ k.pc = "nameservers" /\ k.resp = h.resp /\ k.ns = ns
    BY <1>1, <2>1, <2>2, <2>3, SetMoves
  <2> HIDE DEF h, k, v
  <2>8. /\ k.pc = "nameservers" /\ rpz \in k.seen /\ k.resp = Truth(k.q) /\ ~Served(k.q)
        /\ k.ns = FoundServers(k.q) \/ <<>> \in k.seen
    BY <1>1, <1>3, <2>6, <2>7
  <2>9. Judging(k, rpz)
    BY <2>8 DEF Judging, Outside
  <2> QED
    BY <2>7, <2>9 DEF k
<1> QED
  BY <1>6, <1>7

LEMMA ApplyRPZNameserversJudges ==
    ASSUME PolicyInv, NEW p \in cfg.procs, ApplyRPZNameservers(p), Steady(proc[p].q)
    PROVE  Judging(proc'[p], rpz) /\ \A q \in cfg.procs \ {p} : proc'[q] = proc[q]
<1> DEFINE h == proc[p]
           hit == CheckRequestResponseWithNameservers(rpz, h.q.name, h.q.client, Truth(h.q), h.ns)
<1>1. Clock /\ WholePolicy(rpz) /\ Judging(h, rpz) /\ rpz \in h.seen
  BY Standing DEF PolicyInv, IInv, ApplyRPZNameservers
<1>2. h.pc = "nameservers"
  BY DEF ApplyRPZNameservers
<1>3. h.resp = Truth(h.q) /\ ~Served(h.q) /\ (h.ns = FoundServers(h.q) \/ <<>> \in h.seen)
  BY <1>1, <1>2 DEF Judging
<1>4. Judged(p, hit, Truth(h.q), "limit")
  BY <1>3 DEF ApplyRPZNameservers
<1>5. Shaped(Truth(h.q))
  BY <1>1, TruthIsShaped
<1>6. \/ Torn(h.seen) \/ hit = Verdict(h.q, rpz)
      \/ ~IsHit(hit) /\ ~IsHit(Verdict(h.q, rpz))
  <2>1. CASE h.ns = FoundServers(h.q)
    BY <1>1, <1>3, <2>1, ChecksAreFinal
  <2>2. CASE <<>> \in h.seen /\ rpz # <<>>
    BY <1>1, <2>2 DEF Torn
  <2>3. CASE rpz = <<>>
    <3>1. \A ns : CheckRequestResponseWithNameservers(<<>>, h.q.name, h.q.client, Truth(h.q), ns)
                      = NoHit
      BY NilHitsNothing
    <3>2. Verdict(h.q, rpz) = NoHit
      BY <1>1, <1>3, <2>3, <3>1, ChecksAreFinal
    <3>3. hit = NoHit
      BY <2>3, <3>1
    <3> QED
      BY <3>2, <3>3
  <2> QED
    BY <1>3, <2>1, <2>2, <2>3
<1> HIDE DEF hit
<1> QED
  BY <1>1, <1>4, <1>5, <1>6, JudgedIsFinal

LEMMA RRLOffJudges ==
    ASSUME PolicyInv, NEW p \in cfg.procs, RRLOff(p), Steady(proc[p].q)
    PROVE  Judging(proc'[p], rpz) /\ \A q \in cfg.procs \ {p} : proc'[q] = proc[q]
<1> DEFINE h == proc[p]
           k == proc'[p]
           fields == [pc |-> "send"]
<1>1. Handlers /\ Judging(h, rpz) /\ rpz \in h.seen /\ h.pc = "limit"
  BY Standing DEF PolicyInv, IInv, RRLOff
<1>2. Set(p, fields) /\ DOMAIN fields = {"pc"} /\ fields.pc = "send"
  BY DEF RRLOff
<1>3. {"pc"} \subseteq DOMAIN Idle
  BY DEF Idle
<1>4. Steady(h.q)
  OBVIOUS
<1> HIDE DEF fields
<1>5. /\ \A q \in cfg.procs \ {p} : proc'[q] = proc[q]
      /\ k.q = h.q /\ k.seen = h.seen /\ k.pc = "send" /\ k.resp = h.resp
  BY <1>1, <1>2, <1>3, SetMoves
<1> HIDE DEF h, k
<1>6. Shaped(h.resp) /\ (Torn(h.seen) \/ \E seen \in h.seen : Makes(h.q, h.resp, seen))
  BY <1>1, <1>4 DEF Judging
<1>7. Judging(k, rpz)
  BY <1>1, <1>5, <1>6 DEF Judging, Outside
<1> QED
  BY <1>5, <1>7 DEF k

LEMMA SendJudges ==
    ASSUME PolicyInv, NEW p \in cfg.procs, Send(p), Steady(proc[p].q)
    PROVE  Judging(proc'[p], rpz) /\ \A q \in cfg.procs \ {p} : proc'[q] = proc[q]
<1> DEFINE h == proc[p]
           k == proc'[p]
           resp == IF h.via = "auth" THEN [h.resp EXCEPT !.tc = FALSE] ELSE h.resp
<1>1. Handlers /\ Judging(h, rpz) /\ rpz \in h.seen /\ h.pc = "send"
  BY Standing DEF PolicyInv, IInv, Send
<1>2. Onward(p, "done") /\ k.out = "sent" /\ k.resp = resp
  <2>1. Finish(p, "sent", resp)
    BY DEF Send
  <2> HIDE DEF resp
  <2> QED
    BY <1>1, <2>1, FinishMoves
<1>3. Steady(h.q)
  OBVIOUS
<1>4. Shaped(h.resp) /\ (Torn(h.seen) \/ \E seen \in h.seen : Makes(h.q, h.resp, seen))
  <2> HIDE DEF h
  <2> QED
    BY <1>1, <1>3 DEF Judging
<1>5. resp.rcode = h.resp.rcode /\ resp.answer = h.resp.answer
  <2> DEFINE was == h.resp
  <2>1. Shaped(was)
    BY <1>4
  <2> HIDE DEF was
  <2>2. [was EXCEPT !.tc = FALSE].rcode = was.rcode
        /\ [was EXCEPT !.tc = FALSE].answer = was.answer
    BY <2>1 DEF Shaped
  <2> QED
    BY <2>2 DEF was
<1>6. /\ \A q \in cfg.procs \ {p} : proc'[q] = proc[q]
      /\ k.q = h.q /\ k.seen = h.seen /\ k.pc = "done"
  BY <1>2 DEF Onward
<1> HIDE DEF h, k, resp
<1>7. Torn(k.seen) \/ \E seen \in k.seen : Makes(k.q, k.resp, seen)
  BY <1>2, <1>4, <1>5, <1>6 DEF Makes
<1>8. Judging(k, rpz)
  BY <1>2, <1>6, <1>7 DEF Judging, Outside
<1> QED
  BY <1>6, <1>8 DEF k

\* Inside Check no handler is steady: the limiter is off for those.
LEMMA CheckIsOff ==
    ASSUME PolicyInv, NEW p \in cfg.procs,
           RRLLoad(p) \/ RefillLoad(p) \/ RefillStore(p) \/ RefillStamp(p) \/ Take(p) \/ Restore(p)
    PROVE  ~Steady(proc[p].q)
<1> SUFFICES ASSUME Steady(proc[p].q) PROVE FALSE
  OBVIOUS
<1>1. proc[p].pc \in Outside /\ ~cfg.rrl.enabled
  BY Standing DEF Steady
<1> QED
  BY <1>1 DEF Outside, RRLLoad, RefillLoad, RefillStore, RefillStamp, Take, Restore

\* A message that arrives lives through the policy active now.
LEMMA ReceiveJudges ==
    ASSUME PolicyInv, NEW p \in cfg.procs, Receive(p)
    PROVE  Judging(proc'[p], rpz) /\ \A q \in cfg.procs \ {p} : proc'[q] = proc[q]
<1>1. PICK q \in cfg.queries :
         LET to == dispatch(q)
         IN proc' = [proc EXCEPT ![p] =
               [Idle EXCEPT !.q = q,
                            !.seen = {rpz},
                            !.pc = IF to = "query" THEN "admit" ELSE "done",
                            !.out = IF to = "query" THEN "none"
                                    ELSE IF to \in {"transfer", "update"} THEN to ELSE "sent",
                            !.resp = IF to \in {"query", "transfer", "update"}
                                     THEN Nothing ELSE Answered(to)]]
  BY DEF Receive
<1> DEFINE to == dispatch(q)
           seen == {rpz}
           pc == IF to = "query" THEN "admit" ELSE "done"
           out == IF to = "query" THEN "none"
                  ELSE IF to \in {"transfer", "update"} THEN to ELSE "sent"
           resp == IF to \in {"query", "transfer", "update"} THEN Nothing ELSE Answered(to)
           e == [Idle EXCEPT !.q = q, !.seen = seen, !.pc = pc, !.out = out, !.resp = resp]
<1>2. proc' = [proc EXCEPT ![p] = e] /\ DOMAIN proc = cfg.procs
  BY <1>1 DEF PolicyInv, IInv, Handlers
<1>3. to = "query" => pc = "admit"
  OBVIOUS
<1>4. rpz \in seen
  OBVIOUS
<1>5. {"q", "seen", "pc", "out", "resp"} \subseteq DOMAIN Idle
  BY DEF Idle
<1> HIDE DEF Idle, to, seen, pc, out, resp
<1>6. e.q = q /\ e.seen = seen /\ e.pc = pc
  BY <1>5
<1> HIDE DEF e
<1>7. Judging(e, rpz)
  <2>1. Steady(e.q) => to = "query"
    BY <1>6 DEF Steady, to
  <2> QED
    BY <1>3, <1>4, <1>6, <2>1 DEF Judging, Outside
<1> QED
  BY <1>2, <1>7

HandlerStep(p) ==
    \/ Receive(p) \/ Blackhole(p) \/ Admit(p) \/ Reject(p) \/ Block(p)
    \/ ApplyRPZQuery(p) \/ Cookie(p) \/ Authoritative(p) \/ Recurse(p)
    \/ ApplyRPZResponse(p) \/ ApplyRPZShortcut(p) \/ ApplyRPZNameservers(p)
    \/ RRLOff(p) \/ RRLLoad(p) \/ RefillLoad(p) \/ RefillStore(p)
    \/ RefillStamp(p) \/ Take(p) \/ Restore(p) \/ Send(p)

\* Only a new message changes the query.
LEMMA QueryStays ==
    ASSUME Handlers, NEW p \in cfg.procs, HandlerStep(p), ~Receive(p)
    PROVE  proc'[p].q = proc[p].q /\ \A q \in cfg.procs \ {p} : proc'[q] = proc[q]
<1> DEFINE Stays == proc'[p].q = proc[p].q /\ \A q \in cfg.procs \ {p} : proc'[q] = proc[q]
<1>1. ASSUME NEW fields, Set(p, fields), "q" \notin DOMAIN fields PROVE Stays
  <2>1. "q" \in DOMAIN proc[p] /\ DOMAIN proc = cfg.procs
    BY DEF Handlers, Idle
  <2> QED
    BY <1>1, <2>1 DEF Set, Over
<1>2. ASSUME NEW out, NEW resp, Finish(p, out, resp) PROVE Stays
  <2> DEFINE fields == [pc |-> "done", out |-> out, resp |-> resp]
  <2>1. Set(p, fields)
    BY <1>2 DEF Finish
  <2>2. "q" \notin DOMAIN fields
    OBVIOUS
  <2> HIDE DEF fields, Stays
  <2> QED
    BY <1>1, <2>1, <2>2
<1>3. ASSUME NEW hit, NEW r, Judged(p, hit, r, "limit") PROVE Stays
  <2> DEFINE resp == applyRPZAction(r, proc[p].q.name, hit)
             fields == [pc |-> "limit", resp |-> resp]
  <2>1. Finish(p, "dropped", Nothing) \/ Set(p, fields)
    BY <1>3 DEF Judged
  <2>2. "q" \notin DOMAIN fields
    OBVIOUS
  <2> HIDE DEF fields, Stays
  <2> QED
    BY <1>1, <1>2, <2>1, <2>2
<1> HIDE DEF Stays
<1>4. ASSUME Blackhole(p) \/ Admit(p) \/ Reject(p) \/ Block(p) PROVE Stays
  <2>1. ASSUME NEW via, NEW resp, Set(p, [pc |-> "limit", via |-> via, resp |-> resp]) PROVE Stays
    <3>1. "q" \notin DOMAIN [pc |-> "limit", via |-> via, resp |-> resp]
      OBVIOUS
    <3> QED
      BY <1>1, <2>1, <3>1
  <2>2. ASSUME Set(p, [pc |-> "validate"]) PROVE Stays
    <3>1. "q" \notin DOMAIN [pc |-> "validate"]
      OBVIOUS
    <3> QED
      BY <1>1, <2>2, <3>1
  <2>3. ASSUME Blackhole(p) PROVE Stays
    BY <1>2, <2>1, <2>2, <2>3 DEF Blackhole
  <2>4. ASSUME Admit(p) PROVE Stays
    BY <1>2, <2>1, <2>2, <2>4 DEF Admit
  <2>5. ASSUME Reject(p) PROVE Stays
    BY <1>2, <2>1, <2>2, <2>5 DEF Reject
  <2>6. ASSUME Block(p) PROVE Stays
    BY <1>2, <2>1, <2>2, <2>6 DEF Block
  <2> QED
    BY <1>4, <2>3, <2>4, <2>5, <2>6
<1>5. ASSUME ApplyRPZQuery(p) \/ ApplyRPZResponse(p) \/ ApplyRPZShortcut(p) \/ ApplyRPZNameservers(p) PROVE Stays
  <2>1. ASSUME NEW decided, Set(p, [pc |-> "cookie", decided |-> decided]) PROVE Stays
    <3>1. "q" \notin DOMAIN [pc |-> "cookie", decided |-> decided]
      OBVIOUS
    <3> QED
      BY <1>1, <2>1, <3>1
  <2>2. ASSUME NEW ns, Set(p, [pc |-> "nameservers", ns |-> ns]) PROVE Stays
    <3>1. "q" \notin DOMAIN [pc |-> "nameservers", ns |-> ns]
      OBVIOUS
    <3> QED
      BY <1>1, <2>2, <3>1
  <2>3. ASSUME ApplyRPZQuery(p) PROVE Stays
    BY <1>3, <2>1, <2>2, <2>3 DEF ApplyRPZQuery
  <2>4. ASSUME ApplyRPZResponse(p) PROVE Stays
    BY <1>3, <2>1, <2>2, <2>4 DEF ApplyRPZResponse
  <2>5. ASSUME ApplyRPZShortcut(p) PROVE Stays
    BY <1>3, <2>1, <2>2, <2>5 DEF ApplyRPZShortcut
  <2>6. ASSUME ApplyRPZNameservers(p) PROVE Stays
    BY <1>3, <2>1, <2>2, <2>6 DEF ApplyRPZNameservers
  <2> QED
    BY <1>5, <2>3, <2>4, <2>5, <2>6
<1>6. ASSUME Cookie(p) \/ Authoritative(p) \/ Recurse(p) \/ RRLOff(p) \/ Send(p) PROVE Stays
  <2>1. ASSUME NEW minted, Set(p, [pc |-> "answer", minted |-> minted]) PROVE Stays
    <3>1. "q" \notin DOMAIN [pc |-> "answer", minted |-> minted]
      OBVIOUS
    <3> QED
      BY <1>1, <2>1, <3>1
  <2>2. ASSUME NEW via, NEW r, NEW pc, Set(p, [via |-> via, resp |-> r, raw |-> r, pc |-> pc])
        PROVE  Stays
    <3>1. "q" \notin DOMAIN [via |-> via, resp |-> r, raw |-> r, pc |-> pc]
      OBVIOUS
    <3> QED
      BY <1>1, <2>2, <3>1
  <2>3. ASSUME Set(p, [pc |-> "send"]) PROVE Stays
    <3>1. "q" \notin DOMAIN [pc |-> "send"]
      OBVIOUS
    <3> QED
      BY <1>1, <2>3, <3>1
  <2>4. ASSUME Cookie(p) PROVE Stays
    BY <1>2, <2>1, <2>2, <2>3, <2>4 DEF Cookie
  <2>5. ASSUME Authoritative(p) PROVE Stays
    BY <1>2, <2>1, <2>2, <2>3, <2>5 DEF Authoritative
  <2>6. ASSUME Recurse(p) PROVE Stays
    BY <1>2, <2>1, <2>2, <2>3, <2>6 DEF Recurse
  <2>7. ASSUME RRLOff(p) PROVE Stays
    BY <1>2, <2>1, <2>2, <2>3, <2>7 DEF RRLOff
  <2>8. ASSUME Send(p) PROVE Stays
    BY <1>2, <2>1, <2>2, <2>3, <2>8 DEF Send
  <2> QED
    BY <1>6, <2>4, <2>5, <2>6, <2>7, <2>8
<1>7. ASSUME RRLLoad(p) \/ RefillLoad(p) \/ RefillStore(p) \/ RefillStamp(p) \/ Take(p) \/ Restore(p) PROVE Stays
  <2>1. ASSUME NEW obj, NEW at, NEW fill, NEW pc,
               Set(p, [obj |-> obj, at |-> at, fill |-> fill, pc |-> pc]) PROVE Stays
    <3>1. "q" \notin DOMAIN [obj |-> obj, at |-> at, fill |-> fill, pc |-> pc]
      OBVIOUS
    <3> QED
      BY <1>1, <2>1, <3>1
  <2>2. ASSUME NEW fill, Set(p, [pc |-> "store", fill |-> fill]) PROVE Stays
    <3>1. "q" \notin DOMAIN [pc |-> "store", fill |-> fill]
      OBVIOUS
    <3> QED
      BY <1>1, <2>2, <3>1
  <2>3. ASSUME NEW pc, Set(p, [pc |-> pc]) PROVE Stays
    <3>1. "q" \notin DOMAIN [pc |-> pc]
      OBVIOUS
    <3> QED
      BY <1>1, <2>3, <3>1
  <2>4. ASSUME NEW resp, Set(p, [pc |-> "send", slipped |-> TRUE, resp |-> resp]) PROVE Stays
    <3>1. "q" \notin DOMAIN [pc |-> "send", slipped |-> TRUE, resp |-> resp]
      OBVIOUS
    <3> QED
      BY <1>1, <2>4, <3>1
  <2>5. ASSUME RRLLoad(p) PROVE Stays
    BY <1>2, <2>1, <2>2, <2>3, <2>4, <2>5 DEF RRLLoad
  <2>6. ASSUME RefillLoad(p) PROVE Stays
    BY <1>2, <2>1, <2>2, <2>3, <2>4, <2>6 DEF RefillLoad
  <2>7. ASSUME RefillStore(p) PROVE Stays
    BY <1>2, <2>1, <2>2, <2>3, <2>4, <2>7 DEF RefillStore
  <2>8. ASSUME RefillStamp(p) PROVE Stays
    BY <1>2, <2>1, <2>2, <2>3, <2>4, <2>8 DEF RefillStamp
  <2>9. ASSUME Take(p) PROVE Stays
    BY <1>2, <2>1, <2>2, <2>3, <2>4, <2>9 DEF Take
  <2>10. ASSUME Restore(p) PROVE Stays
    BY <1>2, <2>1, <2>2, <2>3, <2>4, <2>10 DEF Restore
  <2> QED
    BY <1>7, <2>5, <2>6, <2>7, <2>8, <2>9, <2>10
<1> QED
  BY <1>4, <1>5, <1>6, <1>7 DEF HandlerStep, Stays

LEMMA HandlerJudges ==
    ASSUME PolicyInv, NEW p \in cfg.procs, HandlerStep(p)
    PROVE  \A q \in cfg.procs : Judging(proc'[q], rpz)
<1>1. Judging(proc'[p], rpz) /\ \A q \in cfg.procs \ {p} : proc'[q] = proc[q]
  <2>1. CASE Receive(p)
    BY <2>1, ReceiveJudges
  <2>2. CASE ~Receive(p) /\ ~Steady(proc[p].q)
    <3>1. proc'[p].q = proc[p].q /\ \A q \in cfg.procs \ {p} : proc'[q] = proc[q]
      BY <2>2, QueryStays DEF PolicyInv, IInv
    <3> QED
      BY <2>2, <3>1 DEF Judging
  <2>3. CASE ~Receive(p) /\ Steady(proc[p].q)
    <3>1. CASE Blackhole(p) \/ Admit(p) \/ Reject(p) \/ Block(p)
      <4>1. Onward(p, "validate")
        BY <2>3, <3>1, EarlySteps
      <4>2. rpz \in proc[p].seen
        BY <2>3, <3>1, Standing DEF Blackhole, Admit, Reject, Block
      <4> QED
        BY <4>1, <4>2 DEF Onward, Judging, Outside
    <3>2. ~(RRLLoad(p) \/ RefillLoad(p) \/ RefillStore(p) \/ RefillStamp(p) \/ Take(p) \/ Restore(p))
      BY <2>3, CheckIsOff
    <3>3. CASE ApplyRPZQuery(p)
      BY <2>3, <3>3, ApplyRPZQueryJudges
    <3>4. CASE Cookie(p)
      BY <2>3, <3>4, CookieJudges
    <3>5. CASE Authoritative(p)
      BY <2>3, <3>5, AuthoritativeJudges
    <3>6. CASE Recurse(p)
      BY <2>3, <3>6, RecurseJudges
    <3>7. CASE ApplyRPZResponse(p)
      BY <2>3, <3>7, ApplyRPZResponseJudges
    <3>8. CASE ApplyRPZShortcut(p)
      BY <2>3, <3>8, ApplyRPZShortcutJudges
    <3>9. CASE ApplyRPZNameservers(p)
      BY <2>3, <3>9, ApplyRPZNameserversJudges
    <3>10. CASE RRLOff(p)
      BY <2>3, <3>10, RRLOffJudges
    <3>11. CASE Send(p)
      BY <2>3, <3>11, SendJudges
    <3> QED
      BY <2>3, <3>1, <3>2, <3>3, <3>4, <3>5, <3>6, <3>7, <3>8, <3>9, <3>10, <3>11
         DEF HandlerStep
  <2> QED
    BY <2>1, <2>2, <2>3
<1>2. \A q \in cfg.procs : Judging(proc[q], rpz)
  BY DEF PolicyInv
<1> QED
  BY <1>1, <1>2

\* The judgement depends on the configuration, which stays.
LEMMA JudgementStays ==
    ASSUME cfg' = cfg, NEW h, NEW policy
    PROVE  /\ Judging(h, policy)' <=> Judging(h, policy)
           /\ WholePolicy(policy)' <=> WholePolicy(policy)
<1>1. ASSUME NEW q PROVE Steady(q)' <=> Steady(q)
  <2>1. dispatch(q)' = dispatch(q)
    BY DEF dispatch, notifyRcode
  <2>2. refusal(q)' = refusal(q)
    <3>1. queryComplexityScore(q)' = queryComplexityScore(q)
      BY DEF queryComplexityScore
    <3> QED
      BY <3>1 DEF refusal
  <2> QED
    BY <2>1, <2>2 DEF Steady
<1>2. ASSUME NEW q PROVE /\ Served(q)' <=> Served(q)
                         /\ FoundServers(q)' = FoundServers(q)
                         /\ Truth(q)' = Truth(q)
  BY DEF Served, FoundServers, Truth
<1>3. ASSUME NEW q, NEW seen PROVE Verdict(q, seen)' = Verdict(q, seen)
  BY <1>2 DEF Verdict, FinalHit
<1>4. ASSUME NEW q, NEW seen, NEW resp
      PROVE  /\ Leaves(q, seen)' <=> Leaves(q, seen)
             /\ Makes(q, resp, seen)' <=> Makes(q, resp, seen)
  BY <1>2, <1>3 DEF Leaves, Makes
<1>5. Judging(h, policy)' <=> Judging(h, policy)
  BY <1>1, <1>2, <1>3, <1>4 DEF Judging
<1>6. WholePolicy(policy)' <=> WholePolicy(policy)
  BY DEF WholePolicy
<1> QED
  BY <1>5, <1>6

\* A reload loads one configuration whole, or nothing.
LEMMA LoadedIsWhole ==
    ASSUME Clock, NEW policy, policy = <<>> \/ WholePolicy(policy), NEW i \in DOMAIN cfg.policies,
           policy = <<>> /\ ~WholePolicy(policy) => i = 1
    PROVE  WholePolicy(Loaded(policy, cfg.policies[i]))
<1> DEFINE config == cfg
           c == config.policies[i]
<1>1. config \in Configs
  BY DEF Clock
<1>2. /\ c.enabled \in BOOLEAN
      /\ config.policies[1].enabled => ConfigLoads(config.policies[1])
  BY <1>1, PoliciesAssumption
<1>3. c \in ToSet(cfg.policies)
  BY DEF ToSet
<1>4. CASE ~c.enabled
  BY <1>3, <1>4 DEF Loaded, WholePolicy
<1>5. CASE c.enabled /\ ConfigLoads(c)
  BY <1>3, <1>5 DEF Loaded, WholePolicy
<1>6. CASE c.enabled /\ ~ConfigLoads(c)
  <2>1. WholePolicy(policy)
    BY <1>2, <1>6
  <2>2. Loaded(policy, c) = policy
    BY <1>6 DEF Loaded
  <2> QED
    BY <2>1, <2>2
<1> QED
  BY <1>2, <1>4, <1>5, <1>6

\* What a handler knows is not lost when a policy is loaded in the meantime.
LEMMA JudgementGrows ==
    ASSUME NEW h, NEW old, Judging(h, old), NEW new, NEW k,
           k.q = h.q, k.pc = h.pc, k.out = h.out, k.resp = h.resp, k.via = h.via,
           k.decided = h.decided, k.ns = h.ns, k.seen = h.seen \cup {new}
    PROVE  Judging(k, new)
<1>1. Torn(h.seen) => Torn(k.seen)
  <2> SUFFICES ASSUME <<>> \in h.seen, h.seen # {<<>>} PROVE Torn(k.seen)
    BY DEF Torn
  <2> DEFINE nil == <<>>
  <2>1. nil \in h.seen /\ h.seen # {nil}
    OBVIOUS
  <2> HIDE DEF nil
  <2>2. PICK other \in h.seen : other # nil
    BY <2>1
  <2>3. nil \in k.seen /\ other \in k.seen
    BY <2>1, <2>2
  <2>4. nil \in k.seen /\ k.seen # {nil}
    BY <2>2, <2>3
  <2> QED
    BY <2>4 DEF Torn, nil
<1>2. new \in k.seen /\ \A seen \in h.seen : seen \in k.seen
  OBVIOUS
<1>3. <<>> \in h.seen => <<>> \in k.seen
  BY <1>2
<1> HIDE DEF Torn
<1> QED
  BY <1>1, <1>2, <1>3 DEF Judging

LEMMA ReloadJudges ==
    ASSUME PolicyInv, ReloadRPZ
    PROVE  WholePolicy(rpz') /\ \A p \in cfg.procs : Judging(proc'[p], rpz')
<1>1. PICK i \in DOMAIN cfg.policies : rpz' = Loaded(rpz, cfg.policies[i])
  BY DEF ReloadRPZ
<1>2. WholePolicy(rpz')
  BY <1>1, LoadedIsWhole DEF PolicyInv, IInv
<1>3. ASSUME NEW p \in cfg.procs PROVE Judging(proc'[p], rpz')
  <2> DEFINE h == proc[p]
             k == proc'[p]
             new == rpz'
  <2>1. k = IF h.pc = "done" THEN h ELSE [h EXCEPT !.seen = @ \cup {new}]
    BY DEF ReloadRPZ
  <2>2. Judging(h, rpz)
    BY DEF PolicyInv
  <2>3. {"q", "pc", "out", "resp", "via", "decided", "seen", "ns"} \subseteq DOMAIN h
    <3>1. DOMAIN h = DOMAIN Idle
      BY DEF PolicyInv, IInv, Handlers
    <3> QED
      BY <3>1 DEF Idle
  <2> HIDE DEF h, k, new
  <2>4. CASE h.pc = "done"
    <3>1. k = h
      BY <2>1, <2>4
    <3>2. Judging(h, new)
      BY <2>2, <2>4 DEF Judging
    <3> QED
      BY <3>1, <3>2 DEF k, new
  <2>5. CASE h.pc # "done"
    <3> DEFINE seen == h.seen \cup {new}
    <3>1. k = [h EXCEPT !.seen = seen]
      BY <2>1, <2>5
    <3>2. k.seen = seen
      BY <2>3, <3>1
    <3> HIDE DEF seen
    <3>3. /\ k.q = h.q /\ k.pc = h.pc /\ k.out = h.out /\ k.resp = h.resp /\ k.via = h.via
          /\ k.decided = h.decided /\ k.ns = h.ns
      BY <2>3, <3>1
    <3>4. Judging(k, new)
      BY <2>2, <3>2, <3>3, JudgementGrows DEF seen
    <3> QED
      BY <3>4 DEF k, new
  <2> QED
    BY <2>4, <2>5
<1> QED
  BY <1>2, <1>3

LEMMA PolicyInvInit == Init => PolicyInv
<1> SUFFICES ASSUME Init PROVE PolicyInv
  OBVIOUS
<1>1. IInv
  BY InitOK
<1>2. WholePolicy(rpz)
  <2> DEFINE config == cfg
  <2>1. config \in Configs
    BY DEF Init
  <2>2. IsSequence(config.policies) /\ config.policies # <<>>
    BY <2>1, PoliciesAssumption
  <2>3. 1 \in DOMAIN cfg.policies
    BY <2>2 DEF IsSequence
  <2> QED
    BY <1>1, <2>3, LoadedIsWhole DEF Init, IInv
<1>3. ASSUME NEW p \in cfg.procs PROVE Judging(proc[p], rpz)
  <2>1. proc[p] = Idle
    BY DEF Init
  <2>2. Idle.pc = "done" /\ Idle.out = "none"
    BY DEF Idle
  <2> HIDE DEF Idle
  <2> QED
    BY <2>1, <2>2 DEF Judging, Outside
<1> QED
  BY <1>1, <1>2, <1>3 DEF PolicyInv

LEMMA PolicyInvNext == PolicyInv /\ [Next]_vars => PolicyInv'
<1> SUFFICES ASSUME PolicyInv, [Next]_vars PROVE PolicyInv'
  OBVIOUS
<1>1. IInv'
  BY NextOK DEF PolicyInv
<1>2. ASSUME NEW p \in cfg.procs, HandlerStep(p)
      PROVE  /\ cfg' = cfg /\ WholePolicy(rpz')
             /\ \A q \in cfg.procs : Judging(proc'[q], rpz')
  <2>1. UNCHANGED <<cfg, rpz>>
    BY <1>2 DEF HandlerStep, Receive, Blackhole, Admit, Reject, Block, ApplyRPZQuery, Cookie,
       Authoritative, Recurse, ApplyRPZResponse, ApplyRPZShortcut, ApplyRPZNameservers, RRLOff,
       RRLLoad, RefillLoad, RefillStore, RefillStamp, Take, Restore, Send
  <2>2. \A q \in cfg.procs : Judging(proc'[q], rpz)
    BY <1>2, HandlerJudges
  <2> QED
    BY <2>1, <2>2 DEF PolicyInv
<1>3. ASSUME ReloadRPZ
      PROVE  /\ cfg' = cfg /\ WholePolicy(rpz')
             /\ \A q \in cfg.procs : Judging(proc'[q], rpz')
  <2>1. cfg' = cfg
    BY <1>3 DEF ReloadRPZ
  <2> QED
    BY <1>3, <2>1, ReloadJudges
<1>4. ASSUME UNCHANGED <<cfg, proc, rpz>>
      PROVE  /\ cfg' = cfg /\ WholePolicy(rpz')
             /\ \A q \in cfg.procs : Judging(proc'[q], rpz')
  BY <1>4 DEF PolicyInv
<1>5. performCleanup \/ TCPAccept \/ TCPClose \/ Tick \/ UNCHANGED vars => UNCHANGED <<cfg, proc, rpz>>
  BY DEF performCleanup, TCPAccept, TCPClose, Tick, vars
<1>6. /\ cfg' = cfg /\ WholePolicy(rpz')
      /\ \A q \in cfg.procs : Judging(proc'[q], rpz')
  BY <1>2, <1>3, <1>4, <1>5 DEF Next, HandlerStep
<1>7. \A h, policy : (Judging(h, policy)' <=> Judging(h, policy))
                     /\ (WholePolicy(policy)' <=> WholePolicy(policy))
  BY <1>6, JudgementStays
<1> QED
  BY <1>1, <1>6, <1>7 DEF PolicyInv

\* The verdict of a handler that is done is one that a policy it lived through gives,
\* unless the policy came or went in the middle.
LEMMA DecidedByOne ==
    ASSUME PolicyInv, NEW p \in cfg.procs, PolicyDecided(p)
    PROVE  Torn(proc[p].seen) \/ \E policy \in proc[p].seen : DecidedBy(p, policy)
<1> DEFINE h == proc[p]
<1>1. Judging(h, rpz) /\ Steady(h.q)
  BY DEF PolicyInv, PolicyDecided, Steady
<1>2. /\ h.pc = "done" /\ h.out \in {"sent", "dropped"}
      /\ h.resp.rcode \notin {"BADCOOKIE", "REFUSED", "SERVFAIL"}
  BY DEF PolicyDecided
<1>3. Torn(h.seen) \/ \E policy \in h.seen :
          IF h.out = "dropped" THEN Verdict(h.q, policy).action = "DROP"
          ELSE h.out = "sent" /\ Makes(h.q, h.resp, policy)
  <2> HIDE DEF h
  <2> QED
    BY <1>1, <1>2 DEF Judging
<1>4. ASSUME NEW policy,
             IF h.out = "dropped" THEN Verdict(h.q, policy).action = "DROP"
             ELSE h.out = "sent" /\ Makes(h.q, h.resp, policy)
      PROVE  DecidedBy(p, policy)
  BY <1>4 DEF DecidedBy, Makes, Verdict
<1> QED
  BY <1>3, <1>4

LEMMA ShortcutsFinal == PolicyInv => ShortcutsAreFinal
<1> SUFFICES ASSUME PolicyInv, NEW p \in cfg.procs, NEW policy \in proc[p].seen,
                    PolicyDecided(p), proc[p].seen = {policy}
             PROVE  DecidedBy(p, policy)
  BY DEF ShortcutsAreFinal
<1>1. ~Torn(proc[p].seen)
  BY DEF Torn
<1> QED
  BY <1>1, DecidedByOne

LEMMA StaysBlocked == PolicyInv => BlockedThroughoutStaysBlocked
<1> SUFFICES ASSUME PolicyInv, NEW p \in cfg.procs, PolicyDecided(p),
                    \A policy \in proc[p].seen : BlockedBy(p, policy)
             PROVE  \E policy \in proc[p].seen : DecidedBy(p, policy)
  BY DEF BlockedThroughoutStaysBlocked
<1>1. ~BlockedBy(p, <<>>)
  BY NilSaysNothing DEF BlockedBy, Leaves, Verdict
<1>2. ~Torn(proc[p].seen)
  BY <1>1 DEF Torn
<1> QED
  BY <1>2, DecidedByOne

-----------------------------------------------------------------------------
(* A loaded policy is whole.                                               *)

LEMMA AllPlacesTaken ==
    ASSUME NEW n \in Nat, NEW f \in [1 .. n -> 1 .. n],
           \A i, j \in 1 .. n : f[i] = f[j] => i = j
    PROVE  \A k \in 1 .. n : \E i \in 1 .. n : f[i] = k
<1>1. f \in Injection(1 .. n, 1 .. n)
  BY Fun_IsInj
<1>2. IsFiniteSet(1 .. n)
  BY FS_Interval
<1>3. f \in Surjection(1 .. n, 1 .. n)
  BY <1>1, <1>2, FS_Injection
<1> QED
  BY <1>3 DEF Surjection

\* The order of the sources.
Precedes(sources, i, j) ==
    \/ sources[i].priority < sources[j].priority
    \/ sources[i].priority = sources[j].priority /\ i < j
UpTo(sources, i) ==
    {j \in DOMAIN sources :
        \/ sources[j].priority < sources[i].priority
        \/ sources[j].priority = sources[i].priority /\ j <= i}

LEMMA RanksIncrease ==
    ASSUME NEW n \in Nat, NEW sources, DOMAIN sources = 1 .. n,
           \A i \in 1 .. n : sources[i].priority \in Int
    PROVE  /\ \A i \in 1 .. n : RankOf(sources, i) \in 1 .. n
           /\ \A i, j \in 1 .. n : Precedes(sources, i, j) => RankOf(sources, i) < RankOf(sources, j)
           /\ \A i, j \in 1 .. n : i # j => Precedes(sources, i, j) \/ Precedes(sources, j, i)
<1>1. ASSUME NEW i \in 1 .. n
      PROVE  /\ IsFiniteSet(UpTo(sources, i)) /\ RankOf(sources, i) = Cardinality(UpTo(sources, i))
             /\ i \in UpTo(sources, i) /\ UpTo(sources, i) \subseteq 1 .. n
             /\ RankOf(sources, i) \in 1 .. n
  <2>1. i \in UpTo(sources, i) /\ UpTo(sources, i) \subseteq 1 .. n
    BY DEF UpTo
  <2>2. IsFiniteSet(1 .. n) /\ Cardinality(1 .. n) = n
    BY FS_Interval
  <2>3. IsFiniteSet(UpTo(sources, i)) /\ Cardinality(UpTo(sources, i)) <= n
    BY <2>1, <2>2, FS_Subset
  <2>4. Cardinality(UpTo(sources, i)) \in Nat /\ Cardinality(UpTo(sources, i)) # 0
    BY <2>1, <2>3, FS_CardinalityType, FS_EmptySet
  <2>5. RankOf(sources, i) = Cardinality(UpTo(sources, i))
    BY DEF RankOf, UpTo
  <2> QED
    BY <2>1, <2>3, <2>4, <2>5
<1>2. ASSUME NEW i \in 1 .. n, NEW j \in 1 .. n, Precedes(sources, i, j)
      PROVE  RankOf(sources, i) < RankOf(sources, j)
  <2>1. UpTo(sources, i) \subseteq UpTo(sources, j) /\ j \notin UpTo(sources, i)
    BY <1>2 DEF UpTo, Precedes
  <2>2. UpTo(sources, i) # UpTo(sources, j)
    BY <1>1, <2>1
  <2>3. /\ Cardinality(UpTo(sources, i)) <= Cardinality(UpTo(sources, j))
        /\ Cardinality(UpTo(sources, i)) # Cardinality(UpTo(sources, j))
    BY <1>1, <2>1, <2>2, FS_Subset
  <2> QED
    BY <1>1, <2>3
<1>3. ASSUME NEW i \in 1 .. n, NEW j \in 1 .. n, i # j
      PROVE  Precedes(sources, i, j) \/ Precedes(sources, j, i)
  BY <1>3 DEF Precedes
<1> QED
  BY <1>1, <1>2, <1>3

LEMMA ImageCount ==
    ASSUME NEW S, IsFiniteSet(S), NEW F, DOMAIN F = S, \A x, y \in S : F[x] = F[y] => x = y
    PROVE  Cardinality({F[x] : x \in S}) = Cardinality(S)
<1> DEFINE T == {F[x] : x \in S}
           f == [x \in S |-> F[x]]
<1>1. f \in [S -> T] /\ \A x \in S : f[x] = F[x]
  OBVIOUS
<1>2. \A t \in T : \E x \in S : f[x] = t
  OBVIOUS
<1>3. \A x, y \in S : f[x] = f[y] => x = y
  OBVIOUS
<1> HIDE DEF f, T
<1>4. f \in Injection(S, T)
  BY <1>1, <1>3, Fun_IsInj
<1>5. f \in Surjection(S, T)
  BY <1>1, <1>2, Fun_IsSurj
<1>6. Cardinality(T) = Cardinality(S)
  BY <1>4, <1>5, FS_Surjection
<1> QED
  BY <1>6 DEF T

\* Sorted by priority, the source of each rank is at the place of its rank.
LEMMA SortedByRank ==
    ASSUME NEW n \in Nat, NEW sources, DOMAIN sources = 1 .. n,
           \A i \in 1 .. n : sources[i].priority \in Int
    PROVE  /\ DOMAIN ByPriority(sources) = 1 .. n
           /\ \A i \in 1 .. n : RankOf(sources, i) \in 1 .. n
                                /\ ByPriority(sources)[RankOf(sources, i)] = sources[i]
<1> DEFINE Sorts(f) == \A i, j \in 1 .. n : i < j => Precedes(sources, f[i], f[j])
           rank == [i \in 1 .. n |-> RankOf(sources, i)]
           order == CHOOSE f \in [1 .. n -> 1 .. n] : Sorts(f)
<1>1. /\ \A i \in 1 .. n : rank[i] \in 1 .. n /\ rank[i] = RankOf(sources, i)
      /\ \A i, j \in 1 .. n : Precedes(sources, i, j) => rank[i] < rank[j]
      /\ \A i, j \in 1 .. n : i # j => Precedes(sources, i, j) \/ Precedes(sources, j, i)
  BY RanksIncrease
<1>2. rank \in [1 .. n -> 1 .. n]
  BY <1>1
<1>3. ByPriority(sources) = [i \in 1 .. n |-> sources[order[i]]]
  BY DEF ByPriority, Precedes
<1> HIDE DEF rank
<1>4. \A i, j \in 1 .. n : rank[i] = rank[j] => i = j
  BY <1>1
<1>5. \A k \in 1 .. n : \E i \in 1 .. n : rank[i] = k
  BY <1>2, <1>4, AllPlacesTaken
<1>6. \E f \in [1 .. n -> 1 .. n] : Sorts(f)
  <2> DEFINE f == [k \in 1 .. n |-> CHOOSE i \in 1 .. n : rank[i] = k]
  <2>1. \A k \in 1 .. n : f[k] \in 1 .. n /\ rank[f[k]] = k
    BY <1>5
  <2>2. f \in [1 .. n -> 1 .. n]
    BY <2>1
  <2> HIDE DEF f
  <2>3. Sorts(f)
    <3> SUFFICES ASSUME NEW i \in 1 .. n, NEW j \in 1 .. n, i < j
                 PROVE  Precedes(sources, f[i], f[j])
      OBVIOUS
    <3>1. f[i] # f[j] /\ ~(rank[f[j]] < rank[f[i]])
      BY <2>1
    <3> QED
      BY <1>1, <2>1, <3>1
  <2> QED
    BY <2>2, <2>3
<1>7. order \in [1 .. n -> 1 .. n] /\ Sorts(order)
  BY <1>6
<1> HIDE DEF order
<1>8. \A i, j \in 1 .. n : order[i] = order[j] => i = j
  <2> SUFFICES ASSUME NEW i \in 1 .. n, NEW j \in 1 .. n, i < j, order[i] = order[j] PROVE FALSE
    OBVIOUS
  <2>1. Precedes(sources, order[i], order[i])
    BY <1>7
  <2>2. rank[order[i]] \in 1 .. n /\ rank[order[i]] < rank[order[i]]
    BY <1>1, <1>7, <2>1
  <2> QED
    BY <2>2
<1>9. \A i \in 1 .. n : \E k \in 1 .. n : order[k] = i
  BY <1>7, <1>8, AllPlacesTaken
<1>10. ASSUME NEW k \in 1 .. n PROVE rank[order[k]] = k
  <2> DEFINE S == 1 .. k
             F == [m \in S |-> order[m]]
             T == {F[m] : m \in S}
  <2>1. T = UpTo(sources, order[k])
    <3>0. order[k] \in 1 .. n /\ sources[order[k]].priority \in Int
      BY <1>7
    <3>1. ASSUME NEW m \in S PROVE order[m] \in UpTo(sources, order[k])
      <4>1. m \in 1 .. n /\ order[m] \in 1 .. n
        BY <1>7
      <4>2. m = k \/ Precedes(sources, order[m], order[k])
        BY <1>7, <4>1
      <4> QED
        BY <3>0, <4>1, <4>2 DEF UpTo, Precedes
    <3>2. ASSUME NEW j \in UpTo(sources, order[k]) PROVE \E m \in S : j = order[m]
      <4>1. j \in 1 .. n /\ (j = order[k] \/ Precedes(sources, j, order[k]))
        BY <3>0 DEF UpTo, Precedes
      <4>2. PICK m \in 1 .. n : order[m] = j
        BY <1>9, <4>1
      <4>3. ~(k < m)
        <5>1. ASSUME k < m PROVE FALSE
          <6>1. Precedes(sources, order[k], j)
            BY <1>7, <4>2, <5>1
          <6>2. j # order[k]
            BY <1>8, <4>2, <5>1
          <6>3. Precedes(sources, j, order[k])
            BY <4>1, <6>2
          <6>4. rank[j] < rank[order[k]] /\ rank[order[k]] < rank[j]
            BY <1>1, <3>0, <4>1, <6>1, <6>3
          <6>5. rank[j] \in Int /\ rank[order[k]] \in Int
            BY <1>1, <3>0, <4>1
          <6> QED
            BY <6>4, <6>5
        <5> QED
          BY <5>1
      <4> QED
        BY <4>2, <4>3
    <3> QED
      BY <3>1, <3>2
  <2>2. IsFiniteSet(S) /\ Cardinality(S) = k
    BY FS_Interval
  <2>3. \A x, y \in S : F[x] = F[y] => x = y
    BY <1>8
  <2>4. DOMAIN F = S
    OBVIOUS
  <2> HIDE DEF F, S
  <2>5. Cardinality(T) = k
    BY <2>2, <2>3, <2>4, ImageCount
  <2>6. rank[order[k]] = Cardinality(UpTo(sources, order[k]))
    BY <1>1, <1>7 DEF RankOf, UpTo
  <2> QED
    BY <2>1, <2>5, <2>6
<1>11. \A i \in 1 .. n : order[rank[i]] = i
  BY <1>9, <1>10
<1> QED
  BY <1>1, <1>3, <1>11

\* Addresses of one length that agree up to a prefix and are zero after it are equal.
LEMMA PrefixIdentifies ==
    ASSUME NEW a, IsSequence(a), NEW b, IsSequence(b), Len(a) = Len(b),
           NEW m \in 1 .. Len(a), \A i \in (m + 1) .. Len(a) : a[i] = 0,
           NEW n \in 1 .. Len(b), \A i \in (n + 1) .. Len(b) : b[i] = 0,
           SubSeq(a, 1, m) = SubSeq(b, 1, n)
    PROVE  m = n /\ a = b
<1> DEFINE S == ToSet(a)
           T == ToSet(b)
           U == S \cup T
           p == SubSeq(a, 1, m)
           q == SubSeq(b, 1, n)
<1>1. a \in Seq(S) /\ b \in Seq(T)
  BY DEF IsSequence
<1> HIDE DEF S, T
<1>2. Len(a) \in Nat /\ a \in Seq(U) /\ b \in Seq(U)
  BY <1>1
<1>3. (\A i \in 1 .. m : a[i] \in U) /\ (\A i \in 1 .. n : b[i] \in U)
  BY <1>2
<1> HIDE DEF U
<1>4. Len(p) = m /\ \A i \in 1 .. m : p[i] = a[i]
  <2>1. /\ Len(p) = (IF 1 <= m THEN m - 1 + 1 ELSE 0)
        /\ \A i \in 1 .. m - 1 + 1 : p[i] = a[1 + i - 1]
    BY <1>3, SubSeqProperties
  <2> HIDE DEF p
  <2> QED
    BY <1>2, <2>1
<1>5. Len(q) = n /\ \A i \in 1 .. n : q[i] = b[i]
  <2>1. /\ Len(q) = (IF 1 <= n THEN n - 1 + 1 ELSE 0)
        /\ \A i \in 1 .. n - 1 + 1 : q[i] = b[1 + i - 1]
    BY <1>3, SubSeqProperties
  <2> HIDE DEF q
  <2> QED
    BY <1>2, <2>1
<1>6. p = q
  OBVIOUS
<1> HIDE DEF p, q
<1>7. m = n
  BY <1>4, <1>5, <1>6
<1>8. ASSUME NEW i \in 1 .. Len(a) PROVE a[i] = b[i]
  <2>1. CASE i <= m
    BY <1>2, <1>4, <1>5, <1>6, <1>7, <2>1
  <2>2. CASE i > m
    BY <1>2, <1>7, <2>2
  <2> QED
    BY <1>2, <2>1, <2>2
<1> QED
  BY <1>2, <1>7, <1>8, SeqEqual

LEMMA TriggersIdentify ==
    ASSUME NEW source, IsSource(source, AddressBits), SourceLoads(source),
           NEW a \in ToSet(source.records), NEW b \in ToSet(source.records),
           a.family = b.family, a.wild = b.wild, TriggerOf(a) = TriggerOf(b)
    PROVE  a = b
<1> DEFINE records == source.records
<1>1. PICK i \in DOMAIN records : a = records[i]
  BY DEF ToSet
<1>2. PICK j \in DOMAIN records : b = records[j]
  BY DEF ToSet
<1>3. FileLoads(records)
  <2>1. records # <<>>
    BY <1>1
  <2> QED
    BY <2>1 DEF IsSource, SourceLoads
<1>4. /\ IsRecord(a, AddressBits) /\ IsRecord(b, AddressBits)
      /\ WellFormed(a) /\ WellFormed(b)
  BY <1>1, <1>2, <1>3 DEF IsSource, FileLoads
<1>5. a.name = b.name /\ a.bits = b.bits /\ a.address = b.address
  <2>1. CASE a.family \in Addressed
    <3>1. /\ IsSequence(a.address) /\ IsSequence(b.address)
          /\ Len(a.address) = Len(b.address) /\ a.name = b.name
      BY <1>4, <2>1 DEF IsRecord, Addressed
    <3>2. /\ a.bits \in 1 .. Len(a.address)
          /\ \A k \in (a.bits + 1) .. Len(a.address) : a.address[k] = 0
          /\ b.bits \in 1 .. Len(b.address)
          /\ \A k \in (b.bits + 1) .. Len(b.address) : b.address[k] = 0
      BY <1>4, <2>1 DEF WellFormed, Addressed
    <3>3. SubSeq(a.address, 1, a.bits) = SubSeq(b.address, 1, b.bits)
      BY <2>1 DEF TriggerOf, parseRPZIPTrigger
    <3> DEFINE x == a.address
               y == b.address
               m == a.bits
               n == b.bits
    <3>4. /\ IsSequence(x) /\ IsSequence(y) /\ Len(x) = Len(y)
          /\ m \in 1 .. Len(x) /\ \A k \in (m + 1) .. Len(x) : x[k] = 0
          /\ n \in 1 .. Len(y) /\ \A k \in (n + 1) .. Len(y) : y[k] = 0
          /\ SubSeq(x, 1, m) = SubSeq(y, 1, n)
      BY <3>1, <3>2, <3>3
    <3> HIDE DEF x, y, m, n
    <3>5. m = n /\ x = y
      BY <3>4, PrefixIdentifies
    <3> QED
      BY <3>1, <3>5 DEF x, y, m, n
  <2>2. CASE a.family \notin Addressed
    BY <1>4, <2>2 DEF IsRecord, Addressed, TriggerOf
  <2> QED
    BY <2>1, <2>2
<1>6. OwnerOf(a) = OwnerOf(b)
  BY <1>5 DEF OwnerOf
<1>7. i = j
  BY <1>1, <1>2, <1>3, <1>6 DEF FileLoads
<1> QED
  BY <1>1, <1>2, <1>7

LEMMA RulesAreEnforced ==
    ASSUME NEW source, IsSource(source, AddressBits), SourceLoads(source), NEW family, NEW wild
    PROVE  Enforced(addRules(source.records, family, wild), source.records, family, wild)
<1> DEFINE records == source.records
           given == {rec \in ToSet(records) : rec.family = family /\ rec.wild = wild}
           F == [rec \in given |-> TriggerOf(rec)]
           keys == {TriggerOf(rec) : rec \in given}
           rules == addRules(records, family, wild)
<1>1. rules = [t \in keys |->
                  rpzPolicyAction((CHOOSE rec \in given : TriggerOf(rec) = t).target)]
  BY DEF addRules
<1>2. \A a, b \in given : TriggerOf(a) = TriggerOf(b) => a = b
  BY TriggersIdentify
<1>3. IsFiniteSet(given)
  <2> DEFINE n == Len(records)
             S == ToSet(records)
             f == [i \in 1 .. n |-> records[i]]
  <2>1. records \in Seq(S)
    BY DEF IsSource, IsSequence
  <2>2. DOMAIN records = 1 .. n /\ n \in Nat
    BY <2>1, LenProperties
  <2>3. f \in [1 .. n -> S] /\ \A s \in S : \E i \in 1 .. n : f[i] = s
    BY <2>2 DEF ToSet
  <2> HIDE DEF f, S, n
  <2>4. f \in Surjection(1 .. n, S)
    BY <2>3, Fun_IsSurj
  <2>5. IsFiniteSet(S)
    BY <2>2, <2>4, FS_Interval, FS_Surjection
  <2> QED
    BY <2>5, FS_Subset DEF S
<1> HIDE DEF given, rules
<1>4. Cardinality(DOMAIN rules) = Cardinality(given)
  <2>1. DOMAIN F = given /\ \A a, b \in given : F[a] = F[b] => a = b
    BY <1>2
  <2>2. keys = {F[rec] : rec \in given}
    OBVIOUS
  <2>3. DOMAIN rules = keys
    BY <1>1
  <2> HIDE DEF F, keys
  <2> QED
    BY <1>3, <2>1, <2>2, <2>3, ImageCount
<1>5. ASSUME NEW rec \in given
      PROVE  TriggerOf(rec) \in DOMAIN rules /\ rules[TriggerOf(rec)] = rpzPolicyAction(rec.target)
  <2>1. TriggerOf(rec) \in keys
    OBVIOUS
  <2>2. (CHOOSE r \in given : TriggerOf(r) = TriggerOf(rec)) = rec
    BY <1>2
  <2> QED
    BY <1>1, <2>1, <2>2
<1> QED
  BY <1>4, <1>5 DEF Enforced, given, rules

LEMMA SourceInForce ==
    ASSUME NEW source, IsSource(source, AddressBits), SourceLoads(source)
    PROVE  InForce(LoadRPZFile(source), source)
<1> DEFINE policy == LoadRPZFile(source)
           records == source.records
           regex == [i \in DOMAIN source.regex |->
                       [names |-> source.regex[i].names, action |-> source.regex[i].action]]
<1>1. /\ policy.client = addRules(records, "client", FALSE)
      /\ policy.ip = addRules(records, "ip", FALSE)
      /\ policy.nsip = addRules(records, "nsip", FALSE)
      /\ policy.exact = addRules(records, "qname", FALSE)
      /\ policy.wild = addRules(records, "qname", TRUE)
      /\ policy.nsname = addRules(records, "nsname", FALSE)
      /\ policy.nswild = addRules(records, "nsname", TRUE)
      /\ policy.regex = regex
  BY DEF LoadRPZFile
<1>2. Len(regex) = Len(source.regex)
  <2> DEFINE n == Len(source.regex)
             S == {regex[i] : i \in 1 .. n}
  <2>1. source.regex \in Seq(ToSet(source.regex))
    BY DEF IsSource, IsSequence
  <2>2. n \in Nat /\ DOMAIN source.regex = 1 .. n
    BY <2>1, LenProperties
  <2>3. DOMAIN regex = 1 .. n
    BY <2>2
  <2>4. regex = [i \in 1 .. n |-> regex[i]]
    BY <2>2
  <2> HIDE DEF regex, n
  <2>5. regex \in [1 .. n -> S]
    BY <2>3, <2>4
  <2> HIDE DEF S
  <2>6. regex \in Seq(S)
    BY <2>2, <2>5
  <2>7. Len(regex) = n
    BY <2>2, <2>3, <2>6
  <2> QED
    BY <2>7 DEF n
<1>3. \A family, wild : Enforced(addRules(records, family, wild), records, family, wild)
  BY RulesAreEnforced
<1> HIDE DEF policy, regex, records
<1>4. InForce(policy, source)
  BY <1>1, <1>2, <1>3 DEF InForce, records
<1> QED
  BY <1>4 DEF policy

LEMMA WholeIsWhole == PolicyInv => PolicyIsWhole
<1> SUFFICES ASSUME PolicyInv PROVE PolicyIsWhole
  OBVIOUS
<1>1. PICK c \in ToSet(cfg.policies) :
           \/ ~c.enabled /\ rpz = <<>>
           \/ c.enabled /\ ConfigLoads(c) /\ rpz = Aggregate(c.zones)
  BY DEF PolicyInv, WholePolicy
<1>2. CASE ~c.enabled /\ rpz = <<>>
  BY <1>2 DEF PolicyIsWhole
<1>3. CASE c.enabled /\ ConfigLoads(c) /\ rpz = Aggregate(c.zones)
  <2> DEFINE config == cfg
             sources == c.zones
             n == Len(sources)
             sorted == ByPriority(sources)
             S == {rpz[i] : i \in 1 .. n}
  <2>1. PICK k \in DOMAIN config.policies : c = config.policies[k]
    BY DEF ToSet
  <2>2. config \in Configs
    BY DEF PolicyInv, IInv, Clock
  <2>3. IsSequence(sources) /\ \A i \in DOMAIN sources : IsSource(sources[i], AddressBits)
    BY <2>1, <2>2, PoliciesAssumption
  <2>4. n \in Nat /\ DOMAIN sources = 1 .. n
    BY <2>3, LenProperties DEF IsSequence
  <2>5. /\ DOMAIN sorted = 1 .. n
        /\ \A i \in 1 .. n : RankOf(sources, i) \in 1 .. n
                             /\ sorted[RankOf(sources, i)] = sources[i]
    <3>1. \A i \in 1 .. n : sources[i].priority \in Int
      BY <2>3, <2>4 DEF IsSource
    <3> HIDE DEF sources, n
    <3> QED
      BY <2>4, <3>1, SortedByRank
  <2>6. rpz = [i \in 1 .. n |-> LoadRPZFile(sorted[i])]
    BY <1>3, <2>4 DEF Aggregate
  <2> HIDE DEF sorted
  <2>7. \A i \in 1 .. n : InForce(rpz[RankOf(sources, i)], sources[i])
    <3> SUFFICES ASSUME NEW i \in 1 .. n PROVE InForce(rpz[RankOf(sources, i)], sources[i])
      OBVIOUS
    <3>1. SourceLoads(sources[i])
      BY <1>3, <2>4 DEF ConfigLoads
    <3>2. rpz[RankOf(sources, i)] = LoadRPZFile(sources[i])
      BY <2>5, <2>6
    <3> QED
      BY <2>3, <2>4, <3>1, <3>2, SourceInForce
  <2>8. Len(rpz) = n
    <3>1. DOMAIN rpz = 1 .. n /\ rpz \in [1 .. n -> S]
      BY <2>6
    <3> HIDE DEF S, n
    <3>2. rpz \in Seq(S)
      BY <2>4, <3>1
    <3> QED
      BY <2>4, <3>1, <3>2
  <2> QED
    BY <1>3, <2>4, <2>7, <2>8 DEF PolicyIsWhole
<1> QED
  BY <1>1, <1>2, <1>3

LEMMA EnforcesPolicy == PolicyInv => PolicyEnforced
BY ShortcutsFinal, StaysBlocked, WholeIsWhole DEF PolicyEnforced

\* Whatever is reloaded while a query is on its way, its outcome is what a policy it
\* lived through finally says of it, and what is loaded is always one whole
\* configuration, zone by zone in order of priority, rule by rule.
THEOREM PolicyAlwaysEnforced == Spec => []PolicyEnforced
<1>1. Spec => []PolicyInv
  BY PolicyInvInit, PolicyInvNext, PTL DEF Spec
<1> QED
  BY <1>1, EnforcesPolicy, PTL
=============================================================================

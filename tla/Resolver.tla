------------------------------ MODULE Resolver ------------------------------
(***************************************************************************)
(* The recursive resolver (internal/resolver/recursive.go) with its cache  *)
(* (internal/cache), its worker pool (internal/worker/pool.go) and the     *)
(* singleflight group that coalesces lookups.                              *)
(*                                                                         *)
(* Callers run Resolve or Prefetch.  A miss joins the flight of its        *)
(* question; the flight's goroutine submits one job to the pool; a worker  *)
(* runs resolveFresh, which stores what it found.  The job outlives its    *)
(* flight when Close cancels the resolver's context.  cfg is the           *)
(* configuration, fixed at the start:                                      *)
(*   env         see Iteration;  opts: see CacheShard                      *)
(*   callers, workers, queueSize, questions, maxAsks, maxTime              *)
(*   ttls        TTLs upstream answers may have                            *)
(*   verdicts    what the validator may say: none (validation off), secure,*)
(*               insecure, bogus, error                                    *)
(*   aggressive, private, size (bytes by hash)                             *)
(*   preloads    TTLs of entries that earlier lookups have left            *)
(*   timely      whether liveness is checked on the instance               *)
(*   operations  which of prefetch, flush, close, timeout occur            *)
(* A question is [name, type, spelling]: the cache key is case-sensitive,  *)
(* the flight's key is not.                                                *)
(***************************************************************************)
EXTENDS CacheShard, Iteration, NSECCache

CONSTANTS
    Settings,          \* a sequence of configurations
    NegativeFloor, NegativeCeiling, DefaultNegative,   \* 10, 10800, 300 s
    PositiveCeiling                                    \* 3600 s

\* NewRecursive refuses other values; callers and workers are finitely many.
ASSUME SettingsAssumption ==
    \A s \in ToSet(Settings) :
        /\ IsEnvironment(s.env) /\ IsOptions(s.opts)
        /\ IsFiniteSet(s.workers) /\ s.queueSize \in Nat
        /\ s.maxAsks \in Nat /\ s.maxTime \in Nat /\ s.ttls \subseteq Nat
        /\ IsSequence(s.questions)
        /\ \A i \in DOMAIN s.questions : s.size[i] \in Nat
        /\ \A p \in s.preloads :
              /\ IsSequence(p) /\ Len(p) <= Len(s.questions)
              /\ \A i \in DOMAIN p : p[i] \in Nat
ASSUME BoundsAssumption ==
    /\ NegativeFloor \in Nat /\ DefaultNegative \in Nat /\ NegativeCeiling \in Nat
    /\ PositiveCeiling \in Nat
    /\ NegativeFloor <= DefaultNegative /\ DefaultNegative <= NegativeCeiling

VARIABLES
    cfg,         \* the one that runs
    now,
    shard,       \* the cache
    nsec,        \* the NSEC cache
    flights,     \* r.lookups: [at, q, waiters, result] by key
    queue,       \* the pool's channel of jobs [q, awaited]
    work,        \* what each worker does
    callers,     \* Resolve and Prefetch calls
    refreshers,  \* goroutines started by a hit that is due for prefetch
    closer,      \* progress of Close
    asks

vars == <<cfg, now, shard, nsec, flights, queue, work, callers, refreshers, closer, asks>>

Idle == [at |-> "idle", awaited |-> FALSE]
Exited == [at |-> "exited", awaited |-> FALSE]
NoAnswer == [via |-> "none", rcode |-> "NONE", answer |-> <<>>, ttl |-> 0, ad |-> FALSE,
             born |-> 0, upstream |-> 0, negative |-> FALSE, bogus |-> FALSE, at |-> 0]
Error == [NoAnswer EXCEPT !.via = "error"]
Resting == [at |-> "done", kind |-> "none", q |-> [name |-> Root, type |-> "A", spelling |-> 0],
            box |-> <<>>, got |-> NoAnswer]

HashQuery(q) == CHOOSE i \in DOMAIN cfg.questions : cfg.questions[i] = q
FlightKey(q) == <<q.name, q.type>>
cancelled == closer # "open"

-----------------------------------------------------------------------------
(* Resolve: the cache, then cached denials.                                *)

negative(m) == m.rcode = "NXDOMAIN" \/ (m.rcode = "NOERROR" /\ m.answer = <<>>)

\* What a caller is given: the response, its TTL and where it came from;
\* born, upstream, negative and bogus record how it was obtained.
Given(entry, via, ttl) ==
    [via |-> via, rcode |-> entry.data.rcode, answer |-> entry.data.answer, ttl |-> ttl,
     ad |-> entry.secure /\ via = "cache", born |-> entry.data.born,
     upstream |-> entry.data.ttl, negative |-> entry.negative, bogus |-> entry.bogus, at |-> now]

ageCachedTTL(entry) ==
    LET remaining == IF entry.expiresAt > now THEN entry.expiresAt - now ELSE 0
    IN IF entry.data.ttl > remaining THEN remaining ELSE entry.data.ttl

FromCache(entry) ==
    IF entry.bogus THEN [NoAnswer EXCEPT !.via = "quarantine", !.rcode = "SERVFAIL", !.at = now]
    ELSE Given(entry, "cache", ageCachedTTL(entry))

Found(q) ==
    LET hash == HashQuery(q)
    IN {shard.entries[h] : h \in {g \in DOMAIN shard.entries :
            g = hash /\ Usable(cfg.opts, shard.entries[g], now)}}

\* The part of get that starts a refresh: the flag is set on the entry.
StartRefresh(q, entry) ==
    IF WantsPrefetch(cfg.opts, entry, now)
    THEN /\ shard' = [shard EXCEPT !.entries[HashQuery(q)].refreshing = TRUE]
         /\ refreshers' = refreshers \cup {[q |-> q, at |-> "joining", owner |-> TRUE]}
    ELSE UNCHANGED <<shard, refreshers>>

Finish(c, answer) == callers' = [callers EXCEPT ![c].at = "done", ![c].got = answer, ![c].box = <<>>]

Resolve(c, q) ==
    /\ callers[c].at = "done" /\ asks < cfg.maxAsks
    /\ asks' = asks + 1
    /\ IF Found(q) # {}
       THEN \E entry \in Found(q) :
               /\ callers' = [callers EXCEPT ![c] = [Resting EXCEPT !.kind = "resolve", !.q = q,
                                                                    !.got = FromCache(entry)]]
               /\ StartRefresh(q, entry)
       ELSE /\ callers' = [callers EXCEPT ![c] =
                 IF cfg.aggressive /\ SynthesizeNXDOMAIN(nsec, q.name, now)
                 THEN [Resting EXCEPT !.kind = "resolve", !.q = q,
                          !.got = [NoAnswer EXCEPT !.via = "nsec", !.rcode = "NXDOMAIN", !.at = now]]
                 ELSE [Resting EXCEPT !.kind = "resolve", !.q = q, !.at = "joining"]]
            /\ UNCHANGED <<shard, refreshers>>
    /\ UNCHANGED <<cfg, now, nsec, flights, queue, work, closer>>

\* Prefetch asks upstream whatever the cache has.
Prefetch(c, q) ==
    /\ "prefetch" \in cfg.operations
    /\ callers[c].at = "done" /\ asks < cfg.maxAsks
    /\ asks' = asks + 1
    /\ callers' = [callers EXCEPT ![c] = [Resting EXCEPT !.kind = "prefetch", !.q = q, !.at = "joining"]]
    /\ UNCHANGED <<cfg, now, shard, nsec, flights, queue, work, refreshers, closer>>

-----------------------------------------------------------------------------
(* resolveCoalesced and TrySubmit.                                         *)

\* Mutant: every caller starts a lookup of its own.
JoinedAlways(q, waiter) ==
    At(FlightKey(q), [at |-> "submit", q |-> q, result |-> <<>>,
                      waiters |-> {waiter} \cup (IF FlightKey(q) \in DOMAIN flights
                                                 THEN flights[FlightKey(q)].waiters ELSE {})])

\* DoChan: the first caller's spelling is the one looked up.
Joined(q, waiter) ==
    At(FlightKey(q),
        IF FlightKey(q) \in DOMAIN flights
        THEN [flights[FlightKey(q)] EXCEPT !.waiters = @ \cup {waiter}]
        ELSE [at |-> "submit", q |-> q, waiters |-> {waiter}, result |-> <<>>])

Join(c) ==
    /\ callers[c].at = "joining"
    /\ flights' = Over(Joined(callers[c].q, c), flights)
    /\ callers' = [callers EXCEPT ![c].at = "waiting"]
    /\ UNCHANGED <<cfg, now, shard, nsec, queue, work, refreshers, closer, asks>>

JoinRefresh(r) ==
    /\ r.at = "joining"
    /\ flights' = Over(Joined(r.q, "refresh"), flights)
    /\ refreshers' = (refreshers \ {r}) \cup {[r EXCEPT !.at = "waiting"]}
    /\ UNCHANGED <<cfg, now, shard, nsec, queue, work, callers, closer, asks>>

\* doCall ends: every waiter has a channel with room for the result.
Land(key, result) ==
    LET flight == flights[key]
    IN /\ flights' = Restrict(flights, DOMAIN flights \ {key})
       /\ callers' = [c \in DOMAIN callers |->
                        IF c \in flight.waiters THEN [callers[c] EXCEPT !.box = <<result>>]
                        ELSE callers[c]]
       /\ refreshers' = {IF r.at = "waiting" /\ FlightKey(r.q) = key
                         THEN [r EXCEPT !.at = "ending"] ELSE r : r \in refreshers}

\* Mutant: the job is queued whatever the queue holds.
TrySubmitUnbounded(key) ==
    /\ flights[key].at = "submit"
    /\ queue' = Append(queue, [q |-> flights[key].q, awaited |-> TRUE])
    /\ flights' = [flights EXCEPT ![key].at = "wait"]
    /\ UNCHANGED <<cfg, now, shard, nsec, work, callers, refreshers, closer, asks>>

TrySubmit(key) ==
    /\ flights[key].at = "submit"
    /\ IF closer \in {"closed", "done"} \/ Len(queue) >= cfg.queueSize
       THEN Land(key, Error) /\ UNCHANGED queue
       ELSE /\ queue' = Append(queue, [q |-> flights[key].q, awaited |-> TRUE])
            /\ flights' = [flights EXCEPT ![key].at = "wait"]
            /\ UNCHANGED <<callers, refreshers>>
    /\ UNCHANGED <<cfg, now, shard, nsec, work, closer, asks>>

JobResult(key) ==
    /\ flights[key].at = "wait" /\ flights[key].result # <<>>
    /\ Land(key, flights[key].result[1])
    /\ UNCHANGED <<cfg, now, shard, nsec, queue, work, closer, asks>>

\* The resolver's context ends: the flight lands, its job goes on unheard.
AbandonJob(key) ==
    /\ flights[key].at = "wait" /\ cancelled
    /\ Land(key, Error)
    /\ queue' = [i \in DOMAIN queue |->
                    IF FlightKey(queue[i].q) = key THEN [queue[i] EXCEPT !.awaited = FALSE]
                    ELSE queue[i]]
    /\ work' = [w \in DOMAIN work |->
                    IF work[w].awaited /\ FlightKey(work[w].q) = key
                    THEN [work[w] EXCEPT !.awaited = FALSE] ELSE work[w]]
    /\ UNCHANGED <<cfg, now, shard, nsec, closer, asks>>

\* The caller takes the flight's result.  An error is answered from the
\* cache when stale answers are allowed.
LastResort(c) ==
    IF callers[c].kind = "resolve" /\ cfg.opts.serveStale /\ Found(callers[c].q) # {}
    THEN \E entry \in Found(callers[c].q) :
            /\ Finish(c, Given(entry, "stale", 0))
            /\ StartRefresh(callers[c].q, entry)
    ELSE Finish(c, Error) /\ UNCHANGED <<shard, refreshers>>

Deliver(c) ==
    /\ callers[c].at = "waiting" /\ callers[c].box # <<>>
    /\ IF callers[c].box[1].via = "error" THEN LastResort(c)
       ELSE Finish(c, [callers[c].box[1] EXCEPT !.at = now]) /\ UNCHANGED <<shard, refreshers>>
    /\ UNCHANGED <<cfg, now, nsec, flights, queue, work, closer, asks>>

\* The caller's own context ends first.
Timeout(c) ==
    /\ "timeout" \in cfg.operations
    /\ callers[c].at = "waiting"
    /\ LastResort(c)
    /\ flights' = [k \in DOMAIN flights |-> [flights[k] EXCEPT !.waiters = @ \ {c}]]
    /\ UNCHANGED <<cfg, now, nsec, queue, work, closer, asks>>

\* Mutant: the flag is left set.
EndRefreshKeeps(r) ==
    /\ r.at = "ending"
    /\ refreshers' = refreshers \ {r}
    /\ UNCHANGED <<cfg, now, shard, nsec, flights, queue, work, callers, closer, asks>>

\* The refresher's deferred Store: on the entry that started it.
EndRefresh(r) ==
    /\ r.at = "ending"
    /\ refreshers' = refreshers \ {r}
    /\ shard' = IF r.owner THEN [shard EXCEPT !.entries[HashQuery(r.q)].refreshing = FALSE]
                ELSE shard
    /\ UNCHANGED <<cfg, now, nsec, flights, queue, work, callers, closer, asks>>

-----------------------------------------------------------------------------
(* The worker pool and resolveFresh.                                       *)

Begin(job) == resolveUpstream(cfg.env, Lookup(job))

Execute(w) ==
    /\ work[w].at = "idle" /\ queue # <<>>
    /\ \E l \in Begin(Head(queue)) : work' = [work EXCEPT ![w] = l]
    /\ queue' = Tail(queue)
    /\ UNCHANGED <<cfg, now, shard, nsec, flights, callers, refreshers, closer, asks>>

others == <<cfg, now, shard, nsec, flights, queue, callers, refreshers, closer, asks>>

\* A query of the hop ends and its goroutine reports to the channel.
Reply(w, s) ==
    /\ work[w].at = "hop" /\ s \in work[w].hop.running
    /\ LET h == work[w].hop
       IN \E out \in Outcomes(cfg.env, h.servers[s], h.name, h.type, cancelled) :
             work' = [work EXCEPT ![w].hop.running = @ \ {s},
                                  ![w].hop.results = Append(@, [ok |-> out.ok, msg |-> out.msg, from |-> s])]
    /\ UNCHANGED others

Hedge(w) ==
    /\ work[w].at = "hop" /\ HedgeArmed(cfg.env, work[w].hop) /\ ~cancelled
    /\ work' = [work EXCEPT ![w].hop = launch(@)]
    /\ UNCHANGED others

ReceiveResult(w) ==
    /\ work[w].at = "hop" /\ work[w].hop.results # <<>>
    /\ work' = [work EXCEPT ![w] = Receive(cfg.env, @, cancelled)]
    /\ UNCHANGED others

Cancelled(w) ==
    /\ work[w].at = "hop" /\ cancelled
    /\ work' = [work EXCEPT ![w] = Return(@, Failure)]
    /\ UNCHANGED others

Forward(w) ==
    /\ work[w].at = "forward"
    /\ \E out \in Outcomes(cfg.env, Head(work[w].todo), work[w].name, work[w].q.type, cancelled) :
          work' = [work EXCEPT ![w] = ForwarderAnswers(cfg.env, @, out)]
    /\ UNCHANGED others

ReturnFromLookup(w) ==
    /\ work[w].at = "return"
    /\ IF Len(work[w].stack) > 1
       THEN work' = [work EXCEPT ![w] = ResumeReferral(cfg.env, @)]
       ELSE \E l \in followAliases(cfg.env, work[w]) : work' = [work EXCEPT ![w] = l]
    /\ UNCHANGED others

\* resultCh has room for one result; nobody reads it once abandoned.
Report(w, result) ==
    /\ work' = [work EXCEPT ![w] = Idle]
    /\ flights' = IF work[w].awaited
                  THEN [flights EXCEPT ![FlightKey(work[w].q)].result = <<result>>]
                  ELSE flights

\* Mutant: a failed job reports nothing.
FailSilently(w) ==
    /\ work[w].at = "failed"
    /\ work' = [work EXCEPT ![w] = Idle]
    /\ UNCHANGED others

Fail(w) ==
    /\ work[w].at = "failed"
    /\ Report(w, Error)
    /\ UNCHANGED <<cfg, now, shard, nsec, queue, callers, refreshers, closer, asks>>

getTTL(m, ttl) ==
    IF negative(m)
    THEN IF \E i \in DOMAIN m.ns : m.ns[i].type = "SOA"
         THEN IF ttl < NegativeFloor THEN NegativeFloor
              ELSE IF ttl > NegativeCeiling THEN NegativeCeiling ELSE ttl
         ELSE DefaultNegative
    ELSE IF ttl < PositiveCeiling THEN ttl ELSE PositiveCeiling

IsSafe(m) ==
    \A i \in DOMAIN m.answer : m.answer[i].type \in Address => m.answer[i].data \notin cfg.private

extractZoneFromResponse(m) ==
    LET Owners(type) == {m.ns[i].owner : i \in {j \in DOMAIN m.ns : m.ns[j].type = type}}
    IN IF Owners("SOA") # {} THEN CHOOSE o \in Owners("SOA") : TRUE
       ELSE IF Owners("NS") # {} THEN CHOOSE o \in Owners("NS") : TRUE ELSE Root

Entry(q, m, ttl, verdict) ==
    [data |-> [rcode |-> m.rcode, answer |-> m.answer, ttl |-> ttl, born |-> now],
     expiresAt |-> now + getTTL(m, ttl), origTTL |-> getTTL(m, ttl), negative |-> negative(m),
     secure |-> verdict = "secure", bogus |-> verdict = "bogus",
     size |-> cfg.size[HashQuery(q)], refreshing |-> FALSE]

\* The entries that left the shard are no longer their refreshers'.
Disown(before, after) ==
    {IF r.owner /\ (HashQuery(r.q) \notin DOMAIN after.entries
                    \/ ~after.entries[HashQuery(r.q)].refreshing)
     THEN [r EXCEPT !.owner = FALSE] ELSE r : r \in before}

\* Validated, stored and handed to the flight.  A response that fails the
\* rebinding check or that the validator could not judge is replaced by
\* SERVFAIL and not stored.
Conclude(w) ==
    /\ work[w].at = "conclude"
    /\ \E verdict \in cfg.verdicts \cup (IF cancelled /\ "none" \notin cfg.verdicts
                                         THEN {"error"} ELSE {}),
          ttl \in cfg.ttls :
          LET m == work[w].msg
              entry == Entry(work[w].q, m, ttl, verdict)
              stored == ShardSet(cfg.opts, shard, HashQuery(work[w].q), entry, now)
          IN IF ~IsSafe(m) \/ verdict = "error"
             THEN /\ Report(w, [NoAnswer EXCEPT !.via = "upstream", !.rcode = "SERVFAIL"])
                  /\ UNCHANGED <<shard, nsec, refreshers>>
             ELSE /\ shard' = stored
                  /\ refreshers' = Disown(refreshers, stored)
                  /\ nsec' = IF cfg.aggressive /\ verdict = "secure" /\ negative(m)
                             THEN StoreNSEC(nsec, m.ns, extractZoneFromResponse(m), now + ttl)
                             ELSE nsec
                  /\ Report(w, [Given(entry, "upstream", ttl) EXCEPT !.ad = entry.secure])
    /\ UNCHANGED <<cfg, now, queue, callers, closer, asks>>

\* Mutant: only the pool's context ends a worker.
ExitOnContext(w) ==
    /\ work[w].at = "idle" /\ closer = "done"
    /\ work' = [work EXCEPT ![w] = Exited]
    /\ UNCHANGED others

\* A closed and empty channel ends the worker.
Exit(w) ==
    /\ work[w].at = "idle" /\ queue = <<>> /\ closer = "closed"
    /\ work' = [work EXCEPT ![w] = Exited]
    /\ UNCHANGED others

-----------------------------------------------------------------------------
(* Maintenance, Close and time.                                            *)

\* performCleanup on the ticker, until Close stops it.
performCleanup ==
    /\ closer \in {"open", "cancelled"}
    /\ shard' = ShardCleanup(shard, now)
    /\ shard' # shard
    /\ refreshers' = Disown(refreshers, shard')
    /\ UNCHANGED <<cfg, now, nsec, flights, queue, work, callers, closer, asks>>

\* The NSEC cache is not part of what Flush clears.
Flush ==
    /\ "flush" \in cfg.operations
    /\ shard' = EmptyShard
    /\ refreshers' = Disown(refreshers, EmptyShard)
    /\ UNCHANGED <<cfg, now, nsec, flights, queue, work, callers, closer, asks>>

Advance(from, to) ==
    /\ closer = from /\ closer' = to
    /\ UNCHANGED <<cfg, now, shard, nsec, flights, queue, work, callers, refreshers, asks>>

CancelContext == "close" \in cfg.operations /\ Advance("open", "cancelled")
CloseCache == Advance("cancelled", "stopped")
ClosePool == Advance("stopped", "closed")
PoolClosed == (\A w \in DOMAIN work : work[w].at = "exited") /\ Advance("closed", "done")

Tick ==
    /\ now < cfg.maxTime
    /\ now' = now + 1
    /\ UNCHANGED <<cfg, shard, nsec, flights, queue, work, callers, refreshers, closer, asks>>

\* A cache that earlier lookups of the first questions have filled.
Preloaded(s, i, ttl) ==
    LET q == cfg.questions[i]
        m == Serve(cfg.env.servers[cfg.env.roots[1]], q.name, q.type)
    IN ShardSet(cfg.opts, s, i, Entry(q, m, ttl, "none"), 0)
Warm(preload) ==
    LET after[i \in 0 .. Len(preload)] ==
            IF i = 0 THEN EmptyShard ELSE Preloaded(after[i - 1], i, preload[i])
    IN after[Len(preload)]

Init ==
    /\ cfg \in ToSet(Settings)
    /\ now = 0 /\ shard \in {Warm(preload) : preload \in cfg.preloads} /\ nsec = <<>> /\ flights = [k \in {} |-> <<>>]
    /\ queue = <<>> /\ work = [w \in cfg.workers |-> Idle]
    /\ callers = [c \in cfg.callers |-> Resting]
    /\ refreshers = {} /\ closer = "open" /\ asks = 0

WorkerStep(w) ==
    \/ Execute(w) \/ ReceiveResult(w) \/ Forward(w) \/ ReturnFromLookup(w)
    \/ Fail(w) \/ Conclude(w) \/ Exit(w)
    \/ \E s \in 1 .. Len(IF work[w].at = "hop" THEN work[w].hop.servers ELSE <<>>) : Reply(w, s)

FlightStep(k) == TrySubmit(k) \/ JobResult(k) \/ AbandonJob(k)
CloseStep == CloseCache \/ ClosePool \/ PoolClosed

Next ==
    \/ \E c \in DOMAIN callers :
          \/ \E i \in DOMAIN cfg.questions :
                Resolve(c, cfg.questions[i]) \/ Prefetch(c, cfg.questions[i])
          \/ Join(c) \/ Deliver(c) \/ Timeout(c)
    \/ \E r \in refreshers : JoinRefresh(r) \/ EndRefresh(r)
    \/ \E k \in DOMAIN flights : FlightStep(k)
    \/ \E w \in DOMAIN work : WorkerStep(w) \/ Hedge(w) \/ Cancelled(w)
    \/ performCleanup \/ Flush \/ CancelContext \/ CloseStep \/ Tick

\* Goroutines are scheduled and exchanges end by their timeout.  Nothing is
\* assumed of clients, timers, hedges or the moment Close is called; asks and
\* time are bounded, so that some goroutine moving is enough.  It is asked
\* of the timely instances.
Scheduled ==
    \/ \E w \in DOMAIN work : WorkerStep(w)
    \/ \E c \in DOMAIN callers : Join(c) \/ Deliver(c)
    \/ \E r \in refreshers : JoinRefresh(r) \/ EndRefresh(r)
    \/ \E k \in DOMAIN flights : FlightStep(k)
    \/ CloseStep
Fairness == WF_vars(cfg.timely /\ Scheduled)

Spec == Init /\ [][Next]_vars /\ Fairness

-----------------------------------------------------------------------------
(* Properties.                                                             *)

TypeOK ==
    /\ cfg \in ToSet(Settings)
    /\ now \in 0 .. cfg.maxTime /\ asks \in 0 .. cfg.maxAsks
    /\ DOMAIN shard.entries \subseteq DOMAIN cfg.questions
    /\ DOMAIN flights \subseteq {FlightKey(cfg.questions[i]) : i \in DOMAIN cfg.questions}
    /\ \A k \in DOMAIN flights :
          flights[k].at \in {"submit", "wait"} /\ Len(flights[k].result) <= 1
    /\ Len(queue) <= cfg.queueSize
    /\ \A w \in cfg.workers :
          work[w].at \in {"idle", "exited", "forward", "hop", "return", "conclude", "failed"}
    /\ \A c \in cfg.callers :
          callers[c].at \in {"joining", "waiting", "done"} /\ Len(callers[c].box) <= 1
    /\ closer \in {"open", "cancelled", "stopped", "closed", "done"}

\* However many clients, prefetches and refreshes ask the same question at
\* once, in whatever spelling, the pool holds one lookup of it
\* (resolveCoalesced; "one shared iterative lookup per question").  Close is
\* exempt: it lands flights whose job goes on.
OneLookupPerQuestion ==
    closer = "open" =>
        \A i \in DOMAIN cfg.questions :
            LET key == FlightKey(cfg.questions[i])
                queued == {j \in DOMAIN queue : FlightKey(queue[j].q) = key}
                busy == {w \in cfg.workers : /\ work[w].at \notin {"idle", "exited"}
                                             /\ FlightKey(work[w].q) = key}
            IN Cardinality(queued) + Cardinality(busy) <= 1

\* The results channel of queryNameservers has room for every query sent and
\* not yet received: no query goroutine blocks on it, even after the select
\* loop has returned with the first answer.
SendersNeverBlock ==
    \A w \in cfg.workers :
        work[w].at = "hop" =>
            active(work[w].hop) <= (IF work[w].hop.single THEN 1
                                    ELSE parallelism(cfg.env, work[w].hop))

\* Map, expiry heap and memory count of the shard agree after any order of
\* replacements, evictions, cleanups and flushes, and the limits hold.
CacheConsistent == ShardConsistent(cfg.opts, shard)

\* A set refreshing flag has a goroutine that will clear it; otherwise the
\* entry would never be prefetched again (get's compare-and-swap).
RefreshFlagsOwned ==
    \A h \in DOMAIN shard.entries :
        shard.entries[h].refreshing =>
            \E r \in refreshers : r.owner /\ HashQuery(r.q) = h

\* The lookup machinery keeps its bounds: queue and channels have room for what
\* is sent into them, and one question is looked up once.
LookupsDisciplined == TypeOK /\ OneLookupPerQuestion /\ SendersNeverBlock

\* How long an answer obtained upstream may be given out, from its TTL and
\* the configured bounds: Resolve, getTTL and applyTTLPolicy together.
Larger(a, b) == IF a > b THEN a ELSE b
Smaller(a, b) == IF a < b THEN a ELSE b
Lifetime(got) ==
    LET most == IF got.negative THEN cfg.opts.maxNegative ELSE cfg.opts.maxTTL
        least == IF got.negative THEN cfg.opts.minNegative ELSE cfg.opts.minTTL
        granted == IF got.negative
                   THEN Smaller(Larger(Larger(got.upstream, NegativeFloor), DefaultNegative),
                                NegativeCeiling)
                   ELSE Smaller(got.upstream, PositiveCeiling)
    IN IF got.bogus /\ cfg.opts.bogusTTL > 0 THEN cfg.opts.bogusTTL
       ELSE Larger(IF most > 0 THEN Smaller(granted, most) ELSE granted, least)

\* An answer from the cache is never older than its lifetime allows; past
\* that it is given only when stale answers are on, inside the stale window
\* and with TTL 0.  The TTL it carries never exceeds what upstream gave.
GivenInTime(got) ==
    LET age == got.at - got.born
    IN got.via \in {"cache", "stale"} =>
          /\ got.ttl <= got.upstream
          /\ age > Lifetime(got) =>
                /\ cfg.opts.serveStale
                /\ age < Lifetime(got) + cfg.opts.maxStale
                /\ got.ttl = 0
          /\ age + got.ttl <= Lifetime(got) + cfg.opts.maxStale
CachedInTime == \A c \in cfg.callers : GivenInTime(callers[c].got)

\* The cache is consistent in itself, its refreshes end, and nothing outlives
\* the time it was granted.
CacheSound == CacheConsistent /\ RefreshFlagsOwned /\ CachedInTime

\* What the zones say, independently of how it is fetched: the zone with the
\* longest matching origin decides, aliases are chased to their end.
TrueStep(name, type) ==
    LET origins == {o \in DOMAIN cfg.world : IsSuffix(o, name)}
        zone == cfg.world[Longest(origins)]
        Has(n, t) == <<n, t>> \in DOMAIN zone.data
        dnames == {k[1] : k \in {j \in DOMAIN zone.data :
                      j[2] = "DNAME" /\ j[1] # name /\ IsSuffix(j[1], name)}}
        d == Longest(dnames)
        renamed == SubSeq(name, 1, Len(name) - Len(d)) \o zone.data[<<d, "DNAME">>][1]
    IN IF Has(name, type)
       THEN [rcode |-> "NOERROR", records |-> Records(name, type, zone.data[<<name, type>>]),
             on |-> {}]
       ELSE IF Has(name, "CNAME")
       THEN [rcode |-> "NOERROR", on |-> {zone.data[<<name, "CNAME">>][1]},
             records |-> Records(name, "CNAME", zone.data[<<name, "CNAME">>])]
       ELSE IF dnames # {}
       THEN [rcode |-> "NOERROR", on |-> {renamed},
             records |-> Records(d, "DNAME", zone.data[<<d, "DNAME">>])
                         \o Records(name, "CNAME", <<renamed>>)]
       ELSE [rcode |-> IF Exists(zone, name) THEN "NOERROR" ELSE "NXDOMAIN",
             records |-> <<>>, on |-> {}]

Truth(q) ==
    LET Turn(acc, k) ==
            IF acc.on = {} THEN acc
            ELSE LET name == CHOOSE n \in acc.on : TRUE
                     step == TrueStep(name, q.type)
                 IN [rcode |-> step.rcode, answer |-> acc.answer \o step.records, on |-> step.on]
    IN FoldLeft(Turn, [rcode |-> "NOERROR", answer |-> <<>>, on |-> {q.name}],
                [k \in 1 .. MaxAliasChain + 1 |-> k])

\* Whatever way an answer comes (forwarder or iteration, minimized names,
\* hedged or failing servers, referrals with and without glue, alias chains,
\* the cache, another caller's lookup), it is what the zones hold for the
\* question asked.  A server nobody delegated to, reachable only by an
\* address outside the delegation (HardenGlue), never decides it.
AnswersAreTrue ==
    \A c \in cfg.callers :
        LET got == callers[c].got
        IN got.via \in {"upstream", "cache", "stale"} /\ got.rcode # "SERVFAIL" =>
              /\ got.rcode = Truth(callers[c].q).rcode
              /\ got.answer = Truth(callers[c].q).answer

\* A name denied from cached NSEC records does not exist ("checks whether
\* qname is provably non-existent", nsec.go).
SynthesizedDenialsHold ==
    \A c \in cfg.callers :
        callers[c].got.via = "nsec" => Truth(callers[c].q).rcode = "NXDOMAIN"

\* Every call of Resolve or Prefetch returns, by an answer or an error,
\* whatever servers do and whenever Close is called.
EveryCallerAnswered ==
    (cfg.timely /\ \E c \in DOMAIN callers : callers[c].at # "done")
        ~> (\A c \in DOMAIN callers : callers[c].at = "done")

\* Close returns: workers finish their jobs and drain the queue.
CloseTerminates == (cfg.timely /\ closer = "cancelled") ~> (closer = "done")

\* Nobody waits for ever, neither callers nor Close.
CallersReturn == EveryCallerAnswered /\ CloseTerminates
=============================================================================

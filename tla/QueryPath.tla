----------------------------- MODULE QueryPath ------------------------------
(***************************************************************************)
(* The way of a DNS message through Server.handleDNS, with the state that  *)
(* concurrent handlers share: the reputation entries, the response rate    *)
(* limiter's buckets and the active response policy.                       *)
(*                                                                         *)
(* Every goroutine p runs one handler at a time; proc[p] holds its         *)
(* variables and stays at pc = "done" with the outcome until the next      *)
(* message.  cfg is the server's configuration, fixed at the start:        *)
(*   procs, queries, maxQueries, maxTime, maxReloads   the instance        *)
(*   zones                   the served zones                              *)
(*   notify                  outcome of the NOTIFY handlers by query type  *)
(*   blackhole, blackholeAction                                            *)
(*   blocked                 names the protective engine or the firewall   *)
(*                           answers itself, name -> "DROP" or an rcode    *)
(*   recursion               [clients, answers, nameservers]: ACL, what    *)
(*                           Resolve returns (a name outside its domain is *)
(*                           an error), the NS data path of a name         *)
(*   policies                the policy configurations ReloadRPZ is given  *)
(*   cookies                 [enabled, required, validFor]                 *)
(*   complexity              [any, dnssec, max]                            *)
(*   rep, rrl                the limiters' settings                        *)
(*   tcp                     [clients, conns, max, perClient, rate, burst]:*)
(*                           who connects, how often at most, the limits   *)
(*   worlds                  validators that look at the answers           *)
(* A client is the bit sequence of its address.                            *)
(***************************************************************************)
EXTENDS ResponsePolicy, Validation, TCPLimiter

CONSTANTS Configs, PrefixBits, AddressBits

Signals == {"protocol", "complexity", "policy", "rate"}

\* What the limiters accept as a configuration (validateConfig of the reputation,
\* Validate of the TCP protection); a response category without a limit is not
\* limited.
ASSUME ConfigsAssumption == \A c \in Configs :
    /\ IsFiniteSet(c.procs) /\ c.procs # {}
    /\ {c.rep.base, c.rep.minimum, c.rep.burst, c.rep.capacity, c.rep.maxScore, c.rep.decay}
          \subseteq Nat \ {0}
    /\ c.rep.minimum <= c.rep.base
    /\ \A s \in Signals : c.rep.penalty[s] \in Nat \ {0}
    /\ {c.rrl.limit, c.rrl.window} \subseteq Nat \ {0}
    /\ {c.tcp.max, c.tcp.perClient, c.tcp.rate, c.tcp.burst} \subseteq Nat \ {0}

\* The server starts with a policy that loads (New).  What recursion returns is a
\* response, and its name servers are those found or none.
ASSUME PoliciesAssumption == \A c \in Configs :
    /\ IsSequence(c.policies) /\ c.policies # <<>>
    /\ c.policies[1].enabled => ConfigLoads(c.policies[1])
    /\ \A i \in DOMAIN c.policies :
          /\ c.policies[i].enabled \in BOOLEAN /\ IsSequence(c.policies[i].zones)
          /\ \A k \in DOMAIN c.policies[i].zones : IsSource(c.policies[i].zones[k], AddressBits)
    /\ \A n \in DOMAIN c.recursion.answers :
          /\ n \in DOMAIN c.recursion.nameservers
          /\ DOMAIN c.recursion.answers[n] = {"rcode", "aa", "tc", "answer", "ns", "extra"}

VARIABLES
    cfg,
    now,        \* seconds
    proc,       \* handler state by goroutine
    rep,        \* reputation.shard: [entries, ring, cursor]
    objs,       \* every rrl bucket allocated: [tokens, last]
    table,      \* l.buckets: key -> index into objs
    rpz,        \* s.rpz, the active aggregate; <<>> is nil
    asked,      \* messages received
    reloads,
    issued,     \* time of the last cookie sent, by client
    tcp         \* the TCP listener's limiter and connections

vars == <<cfg, now, proc, rep, objs, table, rpz, asked, reloads, issued, tcp>>

Nothing == Reply("NONE", FALSE, <<>>, <<>>, <<>>)
NoNameservers == [known |-> FALSE, names |-> {}, addresses |-> {}]

Idle == [pc |-> "done", q |-> [client |-> <<>>], resp |-> Nothing, raw |-> Nothing,
         via |-> "none", decided |-> FALSE, seen |-> {}, ns |-> NoNameservers, minted |-> 0, obj |-> 0,
         at |-> 0, fill |-> 0, slipped |-> FALSE, out |-> "none"]

Fetch(f, x, default) == IF x \in DOMAIN f THEN f[x] ELSE default

-----------------------------------------------------------------------------
(* Reputation.  Tokens are counted in units of 1/maxScore.                 *)

Unit == cfg.rep.maxScore
Tracked(client) == cfg.rep.enabled /\ client \notin cfg.rep.exempt

freshEntry == [score |-> 0, tokens |-> cfg.rep.burst * Unit, lastRefill |-> now, lastDecay |-> now]

\* Mutant: the evicted client keeps its place in the ring.
getOrInsertAside(r, client) ==
    IF client \in DOMAIN r.entries THEN r
    ELSE IF Cardinality(DOMAIN r.entries) = cfg.rep.capacity
    THEN [entries |-> Over(At(client, freshEntry),
                           Restrict(r.entries, DOMAIN r.entries \ {r.ring[r.cursor + 1]})),
          ring |-> r.ring,
          cursor |-> (r.cursor + 1) % cfg.rep.capacity]
    ELSE [r EXCEPT !.entries = Over(At(client, freshEntry), @), !.ring = Append(@, client)]

\* A full shard gives the slot under the cursor to the new client.
getOrInsertLocked(r, client) ==
    IF client \in DOMAIN r.entries THEN r
    ELSE IF Cardinality(DOMAIN r.entries) = cfg.rep.capacity
    THEN [entries |-> Over(At(client, freshEntry),
                           Restrict(r.entries, DOMAIN r.entries \ {r.ring[r.cursor + 1]})),
          ring |-> [r.ring EXCEPT ![r.cursor + 1] = client],
          cursor |-> (r.cursor + 1) % cfg.rep.capacity]
    ELSE [r EXCEPT !.entries = Over(At(client, freshEntry), @), !.ring = Append(@, client)]

decayLocked(e) ==
    [e EXCEPT !.score = Max({0, e.score - (now - e.lastDecay) * cfg.rep.decay}),
              !.lastDecay = now]

\* Mutant: the rate goes down to nothing.
effectiveRateUnfloored(score) == cfg.rep.base * Unit - cfg.rep.base * score
effectiveRate(score) ==
    Max({cfg.rep.minimum * Unit, cfg.rep.base * Unit - (cfg.rep.base - cfg.rep.minimum) * score})

\* Mutant: the score is not capped.
PenalizedUncapped(e, points) == [e EXCEPT !.score = @ + points]
Penalized(e, points) == [e EXCEPT !.score = Min({cfg.rep.maxScore, @ + points})]

\* The entry an admission leaves behind, and whether it had a token.
Refilled(e) ==
    LET d == decayLocked(e)
    IN [d EXCEPT !.tokens = Min({cfg.rep.burst * Unit,
                                 @ + (now - d.lastRefill) * effectiveRate(d.score)}),
                 !.lastRefill = now]
Admits(r, client) ==
    Tracked(client) => Refilled(getOrInsertLocked(r, client).entries[client]).tokens >= Unit

Allow(r, client) ==
    LET inserted == getOrInsertLocked(r, client)
        e == Refilled(inserted.entries[client])
    IN IF ~Tracked(client) THEN r
       ELSE [inserted EXCEPT !.entries[client] =
                IF e.tokens >= Unit THEN [e EXCEPT !.tokens = @ - Unit]
                ELSE Penalized(e, cfg.rep.penalty["rate"])]

Observe(r, client, signal) ==
    LET inserted == getOrInsertLocked(r, client)
    IN IF ~Tracked(client) THEN r
       ELSE [inserted EXCEPT !.entries[client] =
                Penalized(decayLocked(@), cfg.rep.penalty[signal])]

-----------------------------------------------------------------------------
(* Response rate limiting: keys and categories.                            *)

CategorizeResponse(resp) ==
    CASE resp.rcode = "NOERROR" /\ resp.answer # <<>> -> "response"
      [] resp.rcode = "NOERROR" /\ resp.answer = <<>> /\ resp.ns # <<>> -> "referral"
      [] resp.rcode = "NOERROR" /\ resp.answer = <<>> /\ resp.ns = <<>> -> "nodata"
      [] resp.rcode = "NXDOMAIN" -> "nxdomain"
      [] OTHER -> "error"

getPrefix(client) == SubSeq(client, 1, PrefixBits)

\* Negative answers share one imputed name.
bucketKey(q, category) ==
    <<getPrefix(q.client), IF category \in {"nxdomain", "nodata", "error"} THEN <<>> ELSE q.name,
      q.type, category>>

MaxTokens == cfg.rrl.limit * cfg.rrl.window

-----------------------------------------------------------------------------
Set(p, fields) == proc' = [proc EXCEPT ![p] = Over(fields, @)]
Finish(p, out, resp) == Set(p, [pc |-> "done", out |-> out, resp |-> resp])
Answered(rcode) == Reply(rcode, FALSE, <<>>, <<>>, <<>>)

Init ==
    /\ cfg \in Configs
    /\ now = 0
    /\ proc = [p \in cfg.procs |-> Idle]
    /\ rep = [entries |-> <<>>, ring |-> <<>>, cursor |-> 0]
    /\ objs = <<>>
    /\ table = <<>>
    /\ rpz = Loaded(<<>>, cfg.policies[1])
    /\ asked = 0
    /\ reloads = 0
    /\ issued = <<>>
    /\ tcp = NewLimitedListener(cfg.tcp)

-----------------------------------------------------------------------------
(* Arrival: authentication, and the opcodes other components serve.        *)

notifyRcode(q) ==
    CASE ~q.one -> "FORMERR"
      [] q.one /\ q.type = "SOA" /\ q.class # "IN" -> "REFUSED"
      [] OTHER -> Fetch(cfg.notify, q.type, "NOTIMP")

\* What handleDNS does before any policy: an rcode, a hand-over or "query".
dispatch(q) ==
    CASE q.tsig = "bad" -> "NOTAUTH"
      [] q.tsig # "bad" /\ q.op = "NOTIFY" -> notifyRcode(q)
      [] q.tsig # "bad" /\ q.op # "NOTIFY" /\ q.type \in {"AXFR", "IXFR"} -> "transfer"
      [] q.tsig # "bad" /\ q.op = "UPDATE" /\ q.type \notin {"AXFR", "IXFR"} -> "update"
      [] OTHER -> "query"

Receive(p) ==
    /\ proc[p].pc = "done"
    /\ asked < cfg.maxQueries
    /\ asked' = asked + 1
    /\ \E q \in cfg.queries :
          LET to == dispatch(q)
          IN proc' = [proc EXCEPT ![p] =
                [Idle EXCEPT !.q = q,
                             !.seen = {rpz},
                             !.pc = IF to = "query" THEN "admit" ELSE "done",
                             !.out = IF to = "query" THEN "none"
                                     ELSE IF to \in {"transfer", "update"} THEN to ELSE "sent",
                             !.resp = IF to \in {"query", "transfer", "update"}
                                      THEN Nothing ELSE Answered(to)]]
    /\ UNCHANGED <<cfg, tcp, now, rep, objs, table, rpz, reloads, issued>>

-----------------------------------------------------------------------------
(* Admission.                                                              *)

Blackhole(p) ==
    /\ proc[p].pc = "admit"
    /\ proc[p].q.client \in cfg.blackhole
    /\ IF cfg.blackholeAction = "drop" THEN Finish(p, "dropped", Nothing)
       ELSE Finish(p, "sent", Answered("REFUSED"))
    /\ UNCHANGED <<cfg, tcp, now, rep, objs, table, rpz, asked, reloads, issued>>

Admit(p) ==
    LET client == proc[p].q.client
    IN /\ proc[p].pc = "admit"
       /\ client \notin cfg.blackhole
       /\ rep' = Allow(rep, client)
       /\ IF Admits(rep, client) THEN Set(p, [pc |-> "validate"])
          ELSE IF cfg.rep.action = "refused" THEN Finish(p, "sent", Answered("REFUSED"))
          ELSE Finish(p, "dropped", Nothing)
       /\ UNCHANGED <<cfg, tcp, now, objs, table, rpz, asked, reloads, issued>>

-----------------------------------------------------------------------------
(* Validation, the fixed block lists and the query stage of the policy.    *)

queryComplexityScore(q) ==
    1 + (IF q.type = "ANY" THEN cfg.complexity.any ELSE 0)
      + (IF q.type \in {"DNSKEY", "RRSIG", "DS", "NSEC"} THEN cfg.complexity.dnssec ELSE 0)
      + (IF q.do THEN cfg.complexity.dnssec ELSE 0)
      + q.extras * cfg.complexity.max

\* The rcode and the signal of a message that is not a plain query.
refusal(q) ==
    CASE ~q.one -> <<"FORMERR", "protocol">>
      [] q.one /\ q.op # "QUERY" -> <<"NOTIMP", "protocol">>
      [] q.one /\ q.op = "QUERY" /\ q.class # "IN" -> <<"REFUSED", "protocol">>
      [] q.one /\ q.op = "QUERY" /\ q.class = "IN" /\ q.version > 0 -> <<"BADVERS", "protocol">>
      [] /\ q.one /\ q.op = "QUERY" /\ q.class = "IN" /\ q.version = 0
         /\ queryComplexityScore(q) > cfg.complexity.max -> <<"REFUSED", "complexity">>
      [] OTHER -> <<>>

Reject(p) ==
    LET q == proc[p].q
    IN /\ proc[p].pc = "validate"
       /\ refusal(q) # <<>>
       /\ rep' = Observe(rep, q.client, refusal(q)[2])
       /\ Finish(p, "sent", Answered(refusal(q)[1]))
       /\ UNCHANGED <<cfg, tcp, now, objs, table, rpz, asked, reloads, issued>>

\* Protective engine and firewall: a fixed verdict about the name.
Block(p) ==
    LET q == proc[p].q
    IN /\ proc[p].pc = "validate"
       /\ refusal(q) = <<>>
       /\ q.name \in DOMAIN cfg.blocked
       /\ rep' = Observe(rep, q.client, "policy")
       /\ IF cfg.blocked[q.name] = "DROP" THEN Finish(p, "dropped", Nothing)
          ELSE Set(p, [pc |-> "limit", via |-> "block", resp |-> Answered(cfg.blocked[q.name])])
       /\ UNCHANGED <<cfg, tcp, now, objs, table, rpz, asked, reloads, issued>>

\* A verdict of the policy on response r, whose next step is next: drop the
\* query, or go on with what applyRPZAction makes of r.
Judged(p, hit, r, next) ==
    /\ rep' = IF Rewrites(hit) \/ hit.action = "DROP"
              THEN Observe(rep, proc[p].q.client, "policy") ELSE rep
    /\ IF hit.action = "DROP" THEN Finish(p, "dropped", Nothing)
       ELSE Set(p, [pc |-> next, resp |-> applyRPZAction(r, proc[p].q.name, hit)])

ApplyRPZQuery(p) ==
    LET q == proc[p].q
        v == CheckRequestShortcut(rpz, q.name, q.client)
    IN /\ proc[p].pc = "validate"
       /\ refusal(q) = <<>>
       /\ q.name \notin DOMAIN cfg.blocked
       /\ IF v.decisive /\ (Rewrites(v.hit) \/ v.hit.action = "DROP")
          THEN Judged(p, v.hit, Answered("NOERROR"), "limit")
          ELSE /\ Set(p, [pc |-> "cookie", decided |-> v.decisive])
               /\ rep' = rep
       /\ UNCHANGED <<cfg, tcp, now, objs, table, rpz, asked, reloads, issued>>

-----------------------------------------------------------------------------
(* Cookies.  A server cookie is the time it was made, bound to its client; *)
(* the MAC lets a handler tell a cookie of its own client from any other.  *)

\* q.cookie is "none", "client" (no server part), "echo" (the last cookie the
\* server sent this client) or "forged".
HasServerCookie(q) ==
    q.cookie = "forged" \/ (q.cookie = "echo" /\ q.client \in DOMAIN issued)
ValidateServerCookie(q) ==
    /\ q.cookie = "echo"
    /\ now - issued[q.client] <= cfg.cookies.validFor

Cookie(p) ==
    LET q == proc[p].q
    IN /\ proc[p].pc = "cookie"
       /\ IF /\ cfg.cookies.enabled
             /\ cfg.cookies.required /\ HasServerCookie(q) /\ ~ValidateServerCookie(q)
          THEN /\ Finish(p, "sent", Answered("BADCOOKIE"))
               /\ issued' = Over(At(q.client, now), issued)
          ELSE /\ Set(p, [pc |-> "answer", minted |-> now])
               /\ issued' = issued
       /\ UNCHANGED <<cfg, tcp, now, rep, objs, table, rpz, asked, reloads>>

-----------------------------------------------------------------------------
(* The answer: authoritative first, then recursive.                        *)

Authoritative(p) ==
    LET q == proc[p].q
        r == handleAuthoritative(cfg.zones, q)
    IN /\ proc[p].pc = "answer"
       /\ Matching(cfg.zones, q.name) # {}
       /\ Set(p, [via |-> "auth", resp |-> r, raw |-> r,
                  pc |-> IF proc[p].decided THEN "limit" ELSE "policy"])
       /\ UNCHANGED <<cfg, tcp, now, rep, objs, table, rpz, asked, reloads, issued>>

RecursionAllowed(q) == q.rd /\ q.client \in cfg.recursion.clients

Recurse(p) ==
    LET q == proc[p].q
        r == cfg.recursion.answers[q.name]
    IN /\ proc[p].pc = "answer"
       /\ Matching(cfg.zones, q.name) = {}
       /\ IF ~RecursionAllowed(q) THEN Finish(p, "sent", Answered("REFUSED"))
          ELSE IF q.name \notin DOMAIN cfg.recursion.answers
          THEN Finish(p, "sent", Answered("SERVFAIL"))
          ELSE Set(p, [via |-> "rec", resp |-> r, raw |-> r,
                       pc |-> IF proc[p].decided THEN "limit" ELSE "policy"])
       /\ UNCHANGED <<cfg, tcp, now, rep, objs, table, rpz, asked, reloads, issued>>

\* An authoritative answer has no name server data; an undecided verdict
\* leaves it alone.
ApplyRPZResponse(p) ==
    LET q == proc[p].q
        v == CheckRequestResponseShortcut(rpz, q.name, q.client, proc[p].resp)
    IN /\ proc[p].pc = "policy"
       /\ proc[p].via = "auth"
       /\ Judged(p, IF v.decisive THEN v.hit ELSE NoHit, proc[p].resp, "limit")
       /\ UNCHANGED <<cfg, tcp, now, objs, table, rpz, asked, reloads, issued>>

\* A recursive answer is judged without name servers where that is final;
\* otherwise they are looked up, if a zone asks for them, and the policy is
\* read again.
ApplyRPZShortcut(p) ==
    LET q == proc[p].q
        v == CheckRequestResponseShortcut(rpz, q.name, q.client, proc[p].resp)
    IN /\ proc[p].pc = "policy"
       /\ proc[p].via = "rec"
       /\ IF rpz # <<>> /\ v.decisive
          THEN Judged(p, v.hit, proc[p].resp, "limit")
          ELSE /\ Set(p, [pc |-> "nameservers",
                          ns |-> IF \E i \in DOMAIN rpz : NeedsNameservers(rpz[i])
                                 THEN cfg.recursion.nameservers[q.name] ELSE NoNameservers])
               /\ rep' = rep
       /\ UNCHANGED <<cfg, tcp, now, objs, table, rpz, asked, reloads, issued>>

\* Mutant: the second look at the policy is skipped when it was reloaded.
ApplyRPZNameserversUnlessReloaded(p) ==
    LET q == proc[p].q
        hit == CheckRequestResponseWithNameservers(rpz, q.name, q.client, proc[p].resp, proc[p].ns)
    IN /\ proc[p].pc = "nameservers"
       /\ Judged(p, IF proc[p].seen = {rpz} THEN hit ELSE NoHit, proc[p].resp, "limit")
       /\ UNCHANGED <<cfg, tcp, now, objs, table, rpz, asked, reloads, issued>>

ApplyRPZNameservers(p) ==
    LET q == proc[p].q
        hit == CheckRequestResponseWithNameservers(rpz, q.name, q.client, proc[p].resp, proc[p].ns)
    IN /\ proc[p].pc = "nameservers"
       /\ Judged(p, hit, proc[p].resp, "limit")
       /\ UNCHANGED <<cfg, tcp, now, objs, table, rpz, asked, reloads, issued>>

-----------------------------------------------------------------------------
(* rrl.Limiter.Check: atomic loads and stores on the bucket, no lock.      *)

RRLOff(p) ==
    /\ proc[p].pc = "limit"
    /\ ~cfg.rrl.enabled
    /\ Set(p, [pc |-> "send"])
    /\ UNCHANGED <<cfg, tcp, now, rep, objs, table, rpz, asked, reloads, issued>>

RRLLoad(p) ==
    LET key == bucketKey(proc[p].q, CategorizeResponse(proc[p].resp))
        b == Fetch(table, key, Len(objs) + 1)
        last == IF key \in DOMAIN table THEN objs[b].last ELSE now
    IN /\ proc[p].pc = "limit"
       /\ cfg.rrl.enabled
       /\ IF key \in DOMAIN table THEN UNCHANGED <<table, objs>>
          ELSE /\ table' = Over(At(key, b), table)
               /\ objs' = Append(objs, [tokens |-> MaxTokens, last |-> now])
       /\ Set(p, [obj |-> b, at |-> now, fill |-> (now - last) * cfg.rrl.limit,
                  pc |-> IF now > last THEN "refill" ELSE "take"])
       /\ UNCHANGED <<cfg, tcp, now, rep, rpz, asked, reloads, issued>>

RefillLoad(p) ==
    /\ proc[p].pc = "refill"
    /\ Set(p, [pc |-> "store", fill |-> Min({MaxTokens, objs[proc[p].obj].tokens + proc[p].fill})])
    /\ UNCHANGED <<cfg, tcp, now, rep, objs, table, rpz, asked, reloads, issued>>

RefillStore(p) ==
    /\ proc[p].pc = "store"
    /\ objs' = [objs EXCEPT ![proc[p].obj].tokens = proc[p].fill]
    /\ Set(p, [pc |-> "stamp"])
    /\ UNCHANGED <<cfg, tcp, now, rep, table, rpz, asked, reloads, issued>>

RefillStamp(p) ==
    /\ proc[p].pc = "stamp"
    /\ objs' = [objs EXCEPT ![proc[p].obj].last = proc[p].at]
    /\ Set(p, [pc |-> "take"])
    /\ UNCHANGED <<cfg, tcp, now, rep, table, rpz, asked, reloads, issued>>

Take(p) ==
    /\ proc[p].pc = "take"
    /\ objs' = [objs EXCEPT ![proc[p].obj].tokens = @ - 1]
    /\ Set(p, [pc |-> IF objs[proc[p].obj].tokens >= 1 THEN "send" ELSE "restore"])
    /\ UNCHANGED <<cfg, tcp, now, rep, table, rpz, asked, reloads, issued>>

\* Mutant: the token taken in vain is not given back.
RestoreNothing(p) ==
    /\ proc[p].pc = "restore"
    /\ rep' = Observe(rep, proc[p].q.client, "rate")
    /\ Finish(p, "dropped", Nothing)
    /\ UNCHANGED <<cfg, tcp, now, objs, table, rpz, asked, reloads, issued>>

\* Slip depends on the hash of the key alone: cfg.rrl.slips.
Restore(p) ==
    /\ proc[p].pc = "restore"
    /\ objs' = [objs EXCEPT ![proc[p].obj].tokens = @ + 1]
    /\ rep' = Observe(rep, proc[p].q.client, "rate")
    /\ IF cfg.rrl.slips
       THEN Set(p, [pc |-> "send", slipped |-> TRUE,
                    resp |-> [proc[p].resp EXCEPT !.tc = TRUE, !.answer = <<>>, !.ns = <<>>,
                                                  !.extra = <<>>]])
       ELSE Finish(p, "dropped", Nothing)
    /\ UNCHANGED <<cfg, tcp, now, table, rpz, asked, reloads, issued>>

\* The authoritative branch copies answer, authority, additional, rcode and AA
\* into the reply prepared at the start, whose TC bit is clear.  Only resolved
\* answers carry the cookie made for them.
Send(p) ==
    /\ proc[p].pc = "send"
    /\ issued' = IF /\ cfg.cookies.enabled
                    /\ proc[p].via \in {"auth", "rec"} /\ proc[p].q.cookie # "none"
                 THEN Over(At(proc[p].q.client, proc[p].minted), issued) ELSE issued
    /\ Finish(p, "sent", IF proc[p].via = "auth" THEN [proc[p].resp EXCEPT !.tc = FALSE]
                         ELSE proc[p].resp)
    /\ UNCHANGED <<cfg, tcp, now, rep, objs, table, rpz, asked, reloads>>

-----------------------------------------------------------------------------
(* Around the handlers.                                                    *)

ReloadRPZ ==
    /\ reloads < cfg.maxReloads
    /\ \E i \in DOMAIN cfg.policies : rpz' = Loaded(rpz, cfg.policies[i])
    /\ reloads' = reloads + 1
    \* seen records for the properties which policies a handler lived through
    /\ proc' = [p \in cfg.procs |->
                  IF proc[p].pc = "done" THEN proc[p]
                  ELSE [proc[p] EXCEPT !.seen = @ \cup {rpz'}]]
    /\ UNCHANGED <<cfg, tcp, now, rep, objs, table, asked, issued>>

\* Mutant: every bucket of an earlier second is stale.
StaleAtOnce(key) == objs[table[key]].last < now
Stale(key) == objs[table[key]].last < now - 2 * cfg.rrl.window

performCleanup ==
    LET stale == {key \in DOMAIN table : Stale(key)}
    IN /\ stale # {}
       /\ table' = Restrict(table, DOMAIN table \ stale)
       /\ UNCHANGED <<cfg, tcp, now, proc, rep, objs, rpz, asked, reloads, issued>>

\* LimitedListener.Accept: a connection of a client, admitted or closed at once.
TCPAccept ==
    /\ Len(tcp.conns) < cfg.tcp.conns
    /\ \E client \in cfg.tcp.clients : tcp' = admit(tcp, cfg.tcp, client, now)
    /\ UNCHANGED <<cfg, now, proc, rep, objs, table, rpz, asked, reloads, issued>>

TCPClose ==
    /\ \E i \in DOMAIN tcp.conns : tcp' = Close(tcp, i)
    /\ UNCHANGED <<cfg, now, proc, rep, objs, table, rpz, asked, reloads, issued>>

Tick ==
    /\ now < cfg.maxTime
    /\ now' = now + 1
    /\ UNCHANGED <<cfg, tcp, proc, rep, objs, table, rpz, asked, reloads, issued>>

Next ==
    \/ \E p \in cfg.procs :
          \/ Receive(p) \/ Blackhole(p) \/ Admit(p) \/ Reject(p) \/ Block(p) \/ ApplyRPZQuery(p)
          \/ Cookie(p) \/ Authoritative(p) \/ Recurse(p) \/ ApplyRPZResponse(p)
          \/ ApplyRPZShortcut(p) \/ ApplyRPZNameservers(p)
          \/ RRLOff(p) \/ RRLLoad(p) \/ RefillLoad(p) \/ RefillStore(p) \/ RefillStamp(p)
          \/ Take(p) \/ Restore(p) \/ Send(p)
    \/ ReloadRPZ
    \/ performCleanup
    \/ TCPAccept
    \/ TCPClose
    \/ Tick

Spec == Init /\ [][Next]_vars

-----------------------------------------------------------------------------
(* Properties.                                                             *)

Buckets == DOMAIN objs

\* Handlers, entries and buckets keep their shapes.
TypeOK ==
    /\ DOMAIN proc = cfg.procs
    /\ \A p \in cfg.procs :
          /\ proc[p].pc \in {"done", "admit", "validate", "cookie", "answer", "policy",
                             "nameservers", "limit", "refill", "store", "stamp", "take",
                             "restore", "send"}
          /\ proc[p].out \in {"none", "sent", "dropped", "transfer", "update"}
          /\ proc[p].obj \in 0 .. Len(objs)
    /\ \A key \in DOMAIN table : table[key] \in Buckets
    /\ \A c \in DOMAIN rep.entries :
          /\ rep.entries[c].score \in 0 .. cfg.rep.maxScore
          /\ rep.entries[c].tokens \in 0 .. (cfg.rep.burst * Unit)

\* An answer of handleAuthoritative that was sent as it was made.
Plain(p) ==
    /\ proc[p].pc = "done" /\ proc[p].out = "sent"
    /\ proc[p].via = "auth" /\ proc[p].resp = proc[p].raw
ZoneOf(q) == cfg.zones[MatchedOrigin(cfg.zones, q.name)]
NameOf(q) == Relative(MatchedOrigin(cfg.zones, q.name), q.name)
Delegated(z, n) ==
    \E k \in DOMAIN z.rrs : k[1] # Origin /\ k[2] = "NS" /\ IsSuffix(k[1], n)

\* Whatever path led to the answer (exact, wildcard, CNAME chain), a record with
\* the AA bit never comes from below a zone cut; only the DS at the cut and the
\* synthesized reply to ANY do.
NoAuthorityBelowCuts ==
    \A p \in cfg.procs :
        Plain(p) /\ proc[p].resp.aa =>
            \A rr \in ToSet(proc[p].resp.answer) :
                Delegated(ZoneOf(proc[p].q), rr.owner) =>
                    rr.type \in {"DS", "HINFO"} \/ (rr.type = "RRSIG" /\ rr.data = <<"DS">>)

\* A CNAME answer is a path: it starts at the name asked for, every alias is
\* followed by its target, no owner repeats, and it ends only where the zone
\* cannot say more or the hop limit is reached.
ChainsAreFollowed ==
    \A p \in cfg.procs :
        LET q == proc[p].q
            z == ZoneOf(q)
            links == SelectSeq(proc[p].resp.answer, LAMBDA rr : rr.type = "CNAME")
            last == links[Len(links)].data
            rest == SelectSeq(proc[p].resp.answer, LAMBDA rr : rr.type = q.type)
        IN Plain(p) /\ q.type # "CNAME" /\ links # <<>> =>
              /\ links[1].owner = NameOf(q)
              /\ \A i \in 1 .. (Len(links) - 1) : links[i + 1].owner = links[i].data
              /\ \A i, j \in DOMAIN links : links[i].owner = links[j].owner => i = j
              /\ IF rest # <<>> THEN \A rr \in ToSet(rest) : rr.owner = last
                 ELSE \/ ~InZone(last)
                      \/ Delegated(z, last)
                      \/ Len(links) = MaxCNAMEHops
                      \/ \E i \in DOMAIN links : links[i].owner = last
                      \/ GetRecords(z, last, q.type) = <<>> /\ GetRecords(z, last, "CNAME") = <<>>

\* Canonical order by weight: the labels from the root are the digits of a number.
Weight(n) ==
    LET Digit(i) == IF i > Len(n) THEN 0 ELSE Rank(n[Len(n) + 1 - i])
        Base == Len(LabelOrder) + 1
    IN (Digit(1) * Base + Digit(2)) * Base + Digit(3)
Covers(nsec, n) ==
    IF Weight(nsec.owner) < Weight(nsec.data)
    THEN Weight(nsec.owner) < Weight(n) /\ Weight(n) < Weight(nsec.data)
    ELSE Weight(nsec.owner) < Weight(n) \/ Weight(n) < Weight(nsec.data)
WildcardOver(z, n) == <<"*">> \o closestEncloser(z, n)

\* A validating client can check every denial of a signed zone: an NXDOMAIN
\* carries NSECs that exclude the name and the wildcard that could have matched
\* it, a NODATA the NSEC of the name; names without records of their own and
\* names under an existing wildcard are left out (see the README).
DenialsAreProved ==
    \A p \in cfg.procs :
        LET q == proc[p].q
            z == ZoneOf(q)
            n == NameOf(q)
            nsecs == {rr \in ToSet(proc[p].resp.ns) : rr.type = "NSEC"}
        IN Plain(p) /\ q.do /\ proc[p].resp.aa /\ proc[p].resp.answer = <<>> =>
              IF n \in Owners(z) THEN \E rr \in nsecs : rr.owner = n
              ELSE ~HasName(z, n) /\ WildcardOver(z, n) \notin Owners(z) =>
                      /\ \E rr \in nsecs : Covers(rr, n)
                      /\ \E rr \in nsecs : Covers(rr, WildcardOver(z, n))

\* Every RRset of a signed zone that a DNSSEC client gets in the answer section
\* comes with its signature, along the whole CNAME chain; records synthesized
\* from a wildcard have none (see the README).
AnswersAreSigned ==
    \A p \in cfg.procs :
        Plain(p) /\ proc[p].q.do =>
            \A rr \in ToSet(proc[p].resp.answer) :
                rr.owner \in Owners(ZoneOf(proc[p].q)) /\ rr.type \notin {"RRSIG", "HINFO"} =>
                    \E sig \in ToSet(proc[p].resp.answer) :
                        sig.owner = rr.owner /\ sig.type = "RRSIG" /\ sig.data = <<rr.type>>

\* The links of a chain of trust, stated one by one.
Vouched(sigs, keys) == \E s \in sigs : s.fresh /\ s.key \in keys
SignsKeys(w, zone, by) ==
    w.keys[zone].set \cap w.disabled = {}
        /\ Vouched(w.keys[zone].sigs, by \cap w.keys[zone].set)
Linked(w, parent, child) ==
    Vouched(w.ds[child].sigs, w.keys[parent].set) /\ SignsKeys(w, child, w.ds[child].set)

\* What a chain may be found to be.  Where only some anchors of the root set
\* signed it the order of the anchors decides (see the README); a positive answer
\* needs all its signatures to hold, a denial one of each set.
Verdicts(w, zone, positive) ==
    LET path == <<Root>> \o PathTo(zone)
        bad == {i \in 2 .. Len(path) : i > w.maxDepth \/ ~Linked(w, path[i - 1], path[i])}
        first == Min(bad)
        good == {s \in w.signing : s.fresh /\ s.key \in w.keys[zone].set}
        anchors == ToSet(w.anchors)
    IN IF \E n \in ToSet(path) : n \in w.negative THEN {"insecure"}
       ELSE IF anchors = {} THEN {"indeterminate"}
       ELSE IF ~\E a \in anchors : SignsKeys(w, Root, {a}) THEN {"bogus"}
       ELSE (IF \E a \in anchors : ~SignsKeys(w, Root, {a}) THEN {"bogus"} ELSE {}) \cup
            (IF bad # {}
             THEN {IF first <= w.maxDepth /\ w.ds[path[first]].set = {} THEN "insecure" ELSE "bogus"}
             ELSE {IF good # {} /\ (positive => good = w.signing) THEN "secure" ELSE "bogus"})

\* The server's answers convince the project's own validator: signed records and
\* denials are secure exactly when every link of the chain of trust holds, and
\* otherwise insecure at the first missing DS or bogus.  Aliases and the names
\* DenialsAreProved leaves out are not accepted (see the README).
AnswersConvince ==
    \A p \in cfg.procs :
        LET q == proc[p].q
            z == ZoneOf(q)
            n == NameOf(q)
            zone == MatchedOrigin(cfg.zones, q.name)
            answer == ToSet(proc[p].resp.answer)
        IN /\ Plain(p) /\ q.do /\ proc[p].resp.aa
           /\ answer = {} \/ \E rr \in answer : rr.owner = n /\ rr.type = q.type
           /\ \/ n \in Owners(z)
              \/ /\ ~HasName(z, n) /\ closestEncloser(z, n) \in Owners(z)
                 /\ WildcardOver(z, n) \notin Owners(z)
           => \A w \in cfg.worlds :
                 ValidateMessage(w, zone, proc[p].resp, [o \in Owners(z) |-> TypesAt(z, o)], n, q.type)
                     \in Verdicts(w, zone, answer # {})

\* What the policy says of a query once everything about it (truth) is known.  On the
\* authoritative path the name servers never are.
Truth(q) ==
    IF Matching(cfg.zones, q.name) # {} THEN handleAuthoritative(cfg.zones, q)
    ELSE Fetch(cfg.recursion.answers, q.name, Nothing)
FinalHit(policy, q, truth) ==
    IF Matching(cfg.zones, q.name) # {}
    THEN CheckRequestResponseShortcut(policy, q.name, q.client, truth).hit
    ELSE CheckRequestResponseWithNameservers(policy, q.name, q.client, truth,
             Fetch(cfg.recursion.nameservers, q.name, NoNameservers))

\* Queries that reached the policy and whose answer the limiter left alone.
PolicyDecided(p) ==
    /\ proc[p].pc = "done" /\ proc[p].out \in {"sent", "dropped"}
    /\ ~cfg.rrl.enabled /\ ~cfg.rep.enabled
    /\ proc[p].seen # {}
    /\ LET q == proc[p].q
       IN /\ dispatch(q) = "query" /\ refusal(q) = <<>>
          /\ q.client \notin cfg.blackhole /\ q.name \notin DOMAIN cfg.blocked
          /\ proc[p].resp.rcode \notin {"BADCOOKIE", "REFUSED", "SERVFAIL"}

\* The outcome of a query is what a policy finally says of it.
DecidedBy(p, policy) ==
    \E truth \in {Truth(proc[p].q)} :
    \E hit \in {FinalHit(policy, proc[p].q, truth)} :
    \E judged \in {applyRPZAction(truth, proc[p].q.name, hit)} :
        IF hit.action = "DROP" THEN proc[p].out = "dropped"
        ELSE /\ proc[p].out = "sent"
             /\ proc[p].resp.rcode = judged.rcode
             /\ proc[p].resp.answer = judged.answer
BlockedBy(p, policy) ==
    \E hit \in {FinalHit(policy, proc[p].q, Truth(proc[p].q))} :
        Rewrites(hit) \/ hit.action = "DROP"

\* The shortcuts that answer before the response or its name servers are known
\* never change the verdict: zone priority, then trigger precedence, decide.
ShortcutsAreFinal ==
    \A p \in cfg.procs : \A policy \in proc[p].seen :
        PolicyDecided(p) /\ proc[p].seen = {policy} => DecidedBy(p, policy)

\* A reload in the middle of a query opens no gap: a name that every policy
\* active during the query blocks is answered, or not, as one of them says.
BlockedThroughoutStaysBlocked ==
    \A p \in cfg.procs :
        PolicyDecided(p) /\ (\A policy \in proc[p].seen : BlockedBy(p, policy)) =>
            \E policy \in proc[p].seen : DecidedBy(p, policy)

\* The place of a source in the order of priorities.
RankOf(sources, i) ==
    Cardinality({j \in DOMAIN sources :
                    \/ sources[j].priority < sources[i].priority
                    \/ sources[j].priority = sources[i].priority /\ j <= i})
\* A table holds the rules of one kind among the records, each and no others.
Enforced(rules, records, family, wild) ==
    LET given == {rec \in ToSet(records) : rec.family = family /\ rec.wild = wild}
    IN /\ Cardinality(DOMAIN rules) = Cardinality(given)
       /\ \A rec \in given : /\ TriggerOf(rec) \in DOMAIN rules
                             /\ rules[TriggerOf(rec)] = rpzPolicyAction(rec.target)
InForce(policy, source) ==
    /\ Enforced(policy.client, source.records, "client", FALSE)
    /\ Enforced(policy.ip, source.records, "ip", FALSE)
    /\ Enforced(policy.nsip, source.records, "nsip", FALSE)
    /\ Enforced(policy.exact, source.records, "qname", FALSE)
    /\ Enforced(policy.wild, source.records, "qname", TRUE)
    /\ Enforced(policy.nsname, source.records, "nsname", FALSE)
    /\ Enforced(policy.nswild, source.records, "nsname", TRUE)
    /\ Len(policy.regex) = Len(source.regex)

\* "A malformed reload leaves the last valid policy active": at every moment the
\* policy is the whole of one configuration, zone by zone in order of priority,
\* rule by rule.
PolicyIsWhole ==
    \E c \in ToSet(cfg.policies) :
        IF ~c.enabled THEN rpz = <<>>
        ELSE /\ Len(rpz) = Len(c.zones)
             /\ \A i \in DOMAIN c.zones : InForce(rpz[RankOf(c.zones, i)], c.zones[i])

\* Handlers between taking a token in vain and giving it back.
Restoring(b) == {p \in cfg.procs : proc[p].pc = "restore" /\ proc[p].obj = b}

\* With one handler more than tokens per second, what a refill overlooks because
\* it is about to be given back is never more than what it adds.
FewHandlers == Cardinality(cfg.procs) <= cfg.rrl.limit + 1

\* The limiter's unlocked loads and stores lose or repeat refills, but a bucket
\* never runs away: it holds a token per other handler too many at most, and with
\* few handlers only those not yet given back too few (see the README).
TokensStayBounded ==
    \A b \in Buckets :
        /\ objs[b].tokens + Cardinality(Restoring(b)) <= MaxTokens + Cardinality(cfg.procs) - 1
        /\ FewHandlers => objs[b].tokens >= -Cardinality(Restoring(b))

\* A bucket is in debt to handlers that are about to give back only.  With more than
\* FewHandlers the stores of refills forget what was owed (see the README).
DebtIsOwed == \A b \in Buckets : objs[b].tokens >= -Cardinality(Restoring(b))

\* Removing a bucket gives nobody an allowance: with few handlers the bucket the
\* cleanup drops would be full again at its next use.
CleanupGrantsNothing ==
    \A key \in DOMAIN table :
        LET b == objs[table[key]]
        IN FewHandlers /\ Stale(key) => b.tokens + (now - b.last) * cfg.rrl.limit >= MaxTokens

\* The ring and the map of a reputation shard hold the same clients, each once,
\* and never more than the capacity.
RingMatchesEntries ==
    /\ ToSet(rep.ring) = DOMAIN rep.entries
    /\ Len(rep.ring) = Cardinality(DOMAIN rep.entries)
    /\ Len(rep.ring) <= cfg.rep.capacity

\* Whatever the order of admissions and (repeated) closings, the limiter counts
\* exactly the connections that hold a place, forgets clients that hold none,
\* and stays within its limits.
ConnectionsCounted ==
    LET Holding(c) == {i \in DOMAIN tcp.conns : ~tcp.conns[i].released /\ tcp.conns[i].client = c}
        holders == {tcp.conns[i].client : i \in {i \in DOMAIN tcp.conns : ~tcp.conns[i].released}}
    IN /\ tcp.active = Cardinality({i \in DOMAIN tcp.conns : ~tcp.conns[i].released})
       /\ tcp.active <= cfg.tcp.max
       /\ DOMAIN tcp.perClient = holders \ {<<>>}
       /\ \A c \in DOMAIN tcp.perClient : /\ tcp.perClient[c] = Cardinality(Holding(c))
                                          /\ tcp.perClient[c] <= cfg.tcp.perClient
       /\ tcp.tokens \in 0 .. cfg.tcp.burst

\* What an authoritative answer promises: no authority below a cut, alias chains
\* followed to their end, denials proved, positive answers signed, and a
\* validator convinced.
AuthoritativeAnswersHold ==
    NoAuthorityBelowCuts /\ ChainsAreFollowed /\ DenialsAreProved /\ AnswersAreSigned
        /\ AnswersConvince

\* Policy decides as its zones say, whether early or after resolution and
\* whatever is reloaded meanwhile, and is always one whole configuration.
PolicyEnforced == ShortcutsAreFinal /\ BlockedThroughoutStaysBlocked /\ PolicyIsWhole

\* The limiters' accounts balance: scores and tokens in their ranges (TypeOK,
\* TokensStayBounded), nothing granted by forgetting, ring and map alike, TCP
\* connections counted as long as they hold a place.
LimitersKeepBooks ==
    TypeOK /\ TokensStayBounded /\ CleanupGrantsNothing /\ RingMatchesEntries
        /\ ConnectionsCounted

\* However bad its score, a client that waited a second since its last attempt
\* is admitted: the rate never falls below minimum_qps.
SlowClientsAdmitted ==
    [][\A p \in cfg.procs :
          LET c == proc[p].q.client
          IN proc[p].pc = "admit" /\ proc'[p].pc = "done" /\ c \notin cfg.blackhole =>
                c \in DOMAIN rep.entries /\ now - rep.entries[c].lastRefill < 1]_vars

\* A response the limiter slips goes out with the TC bit, as shouldRateLimit says.
SlipsAreTruncated ==
    \A p \in cfg.procs :
        proc[p].pc = "done" /\ proc[p].out = "sent" /\ proc[p].slipped => proc[p].resp.tc
=============================================================================

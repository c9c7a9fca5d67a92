----------------------------- MODULE Iteration ------------------------------
(***************************************************************************)
(* One upstream lookup of the recursive resolver: forwarders, iteration    *)
(* from the root, and the alias chain (internal/resolver/recursive.go),    *)
(* with the hedged query to the servers of a delegation (hedge.go).        *)
(*                                                                         *)
(* A lookup is a record that a worker goroutine owns:                      *)
(*   at      forward | hop | return | conclude | failed                    *)
(*   q       the question; awaited: whether a flight waits for the result  *)
(*   name, seen, depth   the alias chain so far                            *)
(*   msg     the combined response, todo: forwarders not tried yet         *)
(*   stack   the calls of resolveIterativeWithBudget, innermost last       *)
(*   hop     the call of queryNameservers in progress                      *)
(*   out     what the innermost call returns                               *)
(* The operators below are the parts of the Go functions between two       *)
(* waits; the module Resolver makes them steps.  env gives the resolver's  *)
(* options and the servers it can reach:                                   *)
(*   minimize, scrub, parallelism, budget, rules, roots, servers, flaky    *)
(* A name is the sequence of its labels, leaf first.                       *)
(***************************************************************************)
EXTENDS Integers, Sequences, FiniteSets, SequencesExt, Maps

CONSTANT MaxAliasChain     \* 16 in the program

ASSUME MaxAliasChainAssumption == MaxAliasChain \in Nat \ {0}

Root == <<>>
Address == {"A", "AAAA"}
Message(rcode, answer, ns, extra) ==
    [rcode |-> rcode, answer |-> answer, ns |-> ns, extra |-> extra]
ServerFailure == Message("SERVFAIL", <<>>, <<>>, <<>>)
Failure == [ok |-> FALSE, msg |-> ServerFailure]
Success(m) == [ok |-> TRUE, msg |-> m]
Records(owner, type, data) ==
    [i \in DOMAIN data |-> [owner |-> owner, type |-> type, data |-> data[i]]]

-----------------------------------------------------------------------------
(* The servers of others.  A zone is [cuts, data, soa, denial]:            *)
(* delegations by child name with their NS targets and the additional      *)
(* records sent along, data by owner and type, whether negative answers    *)
(* carry the SOA, and the NSEC records that deny a name.                   *)

\* A name has at most 127 labels.
MaxLabels == 127
IsSequence(s) == s \in Seq(ToSet(s))
IsZone(zone) ==
    /\ \A c \in DOMAIN zone.cuts : Len(c) \in 0 .. MaxLabels /\ IsSequence(zone.cuts[c].ns)
    /\ \A k \in DOMAIN zone.data :
          k = <<k[1], k[2]>> /\ Len(k[1]) \in 0 .. MaxLabels /\ IsSequence(zone.data[k])
    /\ \A n \in DOMAIN zone.denial : IsSequence(zone.denial[n])

\* One query at least may be outstanding, and there is a server to begin with.
IsEnvironment(env) ==
    /\ env.parallelism \in Nat \ {0}
    /\ IsSequence(env.roots) /\ env.roots # <<>>
    /\ \A s \in DOMAIN env.servers : \A o \in DOMAIN env.servers[s] :
          Len(o) \in 0 .. MaxLabels /\ IsZone(env.servers[s][o])

Longest(names) == CHOOSE n \in names : \A m \in names : Len(m) <= Len(n)
Exists(zone, name) ==
    \/ \E k \in DOMAIN zone.data : IsSuffix(name, k[1])
    \/ \E c \in DOMAIN zone.cuts : IsSuffix(name, c)

ServeZone(origin, zone, name, type) ==
    LET cuts == {c \in DOMAIN zone.cuts : IsSuffix(c, name)}
        cut == zone.cuts[Longest(cuts)]
        soa == IF zone.soa THEN Records(origin, "SOA", <<origin>>) ELSE <<>>
        nsec == IF name \in DOMAIN zone.denial THEN zone.denial[name] ELSE <<>>
        Data(n, t) == Records(n, t, zone.data[<<n, t>>])
        above == {k[1] : k \in {j \in DOMAIN zone.data :
                     j[2] = "DNAME" /\ j[1] # name /\ IsSuffix(j[1], name)}}
    IN IF cuts # {}
       THEN Message("NOERROR", <<>>, Records(Longest(cuts), "NS", cut.ns), cut.extra)
       ELSE IF <<name, type>> \in DOMAIN zone.data
       THEN Message("NOERROR", Data(name, type), <<>>, <<>>)
       ELSE IF <<name, "CNAME">> \in DOMAIN zone.data
       THEN Message("NOERROR", Data(name, "CNAME"), <<>>, <<>>)
       ELSE IF above # {}
       THEN Message("NOERROR", Data(Longest(above), "DNAME"), <<>>, <<>>)
       ELSE Message(IF Exists(zone, name) THEN "NOERROR" ELSE "NXDOMAIN", <<>>, soa \o nsec, <<>>)

Serve(zones, name, type) ==
    LET served == {o \in DOMAIN zones : IsSuffix(o, name)}
    IN IF served = {} THEN Message("REFUSED", <<>>, <<>>, <<>>)
       ELSE ServeZone(Longest(served), zones[Longest(served)], name, type)

\* What queryServer may return: a failing server times out or reports
\* SERVFAIL; a cancelled context ends every exchange.
Outcomes(env, server, name, type, cancelled) ==
    LET known == server \in DOMAIN env.servers
        flaws == IF known THEN env.flaky[server] ELSE {"timeout"}
    IN (IF known /\ "down" \notin flaws
        THEN {Success(Serve(env.servers[server], name, type))} ELSE {})
       \cup (IF "servfail" \in flaws THEN {Success(ServerFailure)} ELSE {})
       \cup (IF cancelled \/ "timeout" \in flaws \/ "down" \in flaws THEN {Failure} ELSE {})

-----------------------------------------------------------------------------
(* queryNameservers: one query at once, another after the hedge delay or a *)
(* failure, no more than parallelism outstanding.  running are the queries *)
(* sent, results the channel they report to.                               *)

parallelism(env, hop) ==
    IF env.parallelism < Len(hop.servers) THEN env.parallelism ELSE Len(hop.servers)

\* Queries sent whose result has not been received.
active(hop) == Cardinality(hop.running) + Len(hop.results)

launch(hop) == [hop EXCEPT !.next = @ + 1, !.running = @ \cup {hop.next}]

queryNameservers(servers, name, type, single) ==
    launch([servers |-> servers, name |-> name, type |-> type, single |-> single,
            next |-> 1, running |-> {}, results |-> <<>>])

\* Mutant: queries outstanding are not counted.
HedgeArmedAlways(env, hop) == ~hop.single /\ hop.next <= Len(hop.servers)

HedgeArmed(env, hop) ==
    ~hop.single /\ hop.next <= Len(hop.servers) /\ active(hop) < parallelism(env, hop)

isRetryable(m) == m.rcode \in {"SERVFAIL", "REFUSED", "NOTIMP"}

-----------------------------------------------------------------------------
(* resolveIterativeWithBudget.                                             *)

Top(work) == Last(work.stack)
SetTop(work, frame) == [work EXCEPT !.stack = Append(Front(@), frame)]
Return(work, out) == [work EXCEPT !.at = "return", !.out = out]

NewFrame(env, name, type, budget) ==
    [name |-> name, type |-> type, budget |-> budget, iterations |-> 0, zone |-> Root,
     servers |-> env.roots, child |-> Root, todo |-> <<>>, wanted |-> "A", found |-> <<>>]

\* RFC 9156: one label more than the zone reached.
ApplyQNAMEMinimization(name, zone) ==
    IF ~IsSuffix(zone, name) \/ name = zone THEN name
    ELSE SubSeq(name, Len(name) - Len(zone), Len(name))

\* Head of the loop: the budget is checked and the next hop begins.
Iterate(env, work) ==
    LET f == Top(work)
        send == IF env.minimize THEN ApplyQNAMEMinimization(f.name, f.zone) ELSE f.name
    IN IF f.iterations >= f.budget THEN Return(work, Failure)
       ELSE [SetTop(work, [f EXCEPT !.iterations = @ + 1]) EXCEPT
                !.at = "hop",
                !.hop = queryNameservers(f.servers, send,
                                         IF send = f.name THEN f.type ELSE "A", FALSE)]

\* Mutant: additional records are used as they come.
HardenGlueNot(extra, child, targets) == extra

\* Only addresses of the delegated servers that lie in the child zone.
HardenGlue(extra, child, targets) ==
    SelectSeq(extra, LAMBDA rr : rr.owner \in ToSet(targets) /\ IsSuffix(child, rr.owner))

\* The first A record of the target, else its first AAAA record.
findGlue(extra, target) ==
    LET Of(type) == SelectSeq(extra, LAMBDA rr : rr.owner = target /\ rr.type = type)
    IN IF Of("A") # <<>> THEN <<Of("A")[1].data>>
       ELSE IF Of("AAAA") # <<>> THEN <<Of("AAAA")[1].data>> ELSE <<>>

Descend(env, work, servers, zone) ==
    Iterate(env, SetTop(work, [Top(work) EXCEPT !.servers = servers, !.zone = zone,
                                                !.todo = <<>>, !.found = <<>>, !.wanted = "A"]))

\* A sub-chain for the address of a name server, on the remaining budget.
Push(env, work, type) ==
    LET f == Top(work)
    IN Iterate(env, [work EXCEPT !.stack =
            Append(@, NewFrame(env, Head(f.todo), type, f.budget - f.iterations))])

NextTarget(env, work) ==
    LET f == Top(work)
    IN IF f.todo # <<>> /\ f.iterations < f.budget THEN Push(env, work, "A")
       ELSE IF f.found = <<>> THEN Return(work, Failure)
       ELSE Descend(env, work, f.found, f.child)

FollowReferral(env, work, m) ==
    LET f == Top(work)
        records == Picked(m.ns, {i \in DOMAIN m.ns :
                       /\ m.ns[i].type = "NS"
                       /\ env.scrub => IsSuffix(f.zone, m.ns[i].owner)})
        targets == [i \in DOMAIN records |-> records[i].data]
        child == records[1].owner
        glue == IF env.scrub THEN HardenGlue(m.extra, child, targets) ELSE m.extra
        glued == Picked(targets, {i \in DOMAIN targets : findGlue(glue, targets[i]) # <<>>})
        addresses == [i \in DOMAIN glued |-> findGlue(glue, glued[i])[1]]
    IN IF records = <<>> THEN Return(work, Failure)
       ELSE IF addresses # <<>> THEN Descend(env, work, addresses, child)
       ELSE NextTarget(env, SetTop(work, [f EXCEPT !.todo = targets, !.child = child]))

\* Mutant: an answer to a minimized name ends the search.
RespondEarly(env, work, server, m) ==
    IF m.answer # <<>> \/ m.rcode = "NXDOMAIN" THEN Return(work, Success(m))
    ELSE IF m.ns # <<>> THEN FollowReferral(env, work, m)
    ELSE Return(work, Success(m))

\* The body of the loop once a server has answered.
Respond(env, work, server, m) ==
    LET f == Top(work)
        partial == work.hop.name # f.name
    IN IF env.minimize /\ partial /\ m.answer = <<>> /\ m.rcode = "NOERROR" /\ m.ns = <<>>
       THEN [work EXCEPT !.hop = queryNameservers(<<server>>, f.name, f.type, TRUE)]
       ELSE IF m.answer # <<>> /\ partial
       THEN Iterate(env, SetTop(work, [f EXCEPT !.zone = work.hop.name]))
       ELSE IF m.answer # <<>> \/ m.rcode = "NXDOMAIN" THEN Return(work, Success(m))
       ELSE IF m.ns # <<>> THEN FollowReferral(env, work, m)
       ELSE Return(work, Success(m))

\* The select loop of queryNameservers receives a result.  The re-issue of
\* the full name after a bare NODATA (single) takes any response, and falls
\* back to all servers of the delegation.  A failure after the context has
\* ended launches nothing.
Receive(env, work, cancelled) ==
    LET h == work.hop
        r == Head(h.results)
        rest == [h EXCEPT !.results = Tail(@)]
        f == Top(work)
    IN IF r.ok /\ (h.single \/ ~isRetryable(r.msg))
       THEN Respond(env, work, h.servers[r.from], r.msg)
       ELSE IF h.single
       THEN [work EXCEPT !.hop = queryNameservers(f.servers, f.name, f.type, FALSE)]
       ELSE IF cancelled THEN Return(work, Failure)
       ELSE IF h.next <= Len(h.servers) THEN [work EXCEPT !.hop = launch(rest)]
       ELSE IF active(rest) = 0 THEN Return(work, Failure)
       ELSE [work EXCEPT !.hop = rest]

\* A sub-chain returns to the referral that needed the address.
ResumeReferral(env, work) ==
    LET back == [work EXCEPT !.stack = Front(@)]
        f == Top(back)
        answer == work.out.msg.answer
        addresses == Picked(answer, {i \in DOMAIN answer : answer[i].type \in Address})
    IN IF ~work.out.ok /\ f.wanted = "A"
       THEN Push(env, SetTop(back, [f EXCEPT !.wanted = "AAAA"]), "AAAA")
       ELSE NextTarget(env, SetTop(back,
                [f EXCEPT !.wanted = "A", !.todo = Tail(@),
                          !.found = @ \o [i \in DOMAIN addresses |-> addresses[i].data]]))

-----------------------------------------------------------------------------
(* resolveUpstream and followAliases.                                      *)

\* normalizeForwardRules sorts by label count: the longest suffix wins.
forwardRulesFor(env, name) == {r \in env.rules : IsSuffix(r.suffix, name)}
forwardRuleFor(env, name) ==
    CHOOSE r \in forwardRulesFor(env, name) :
        \A other \in forwardRulesFor(env, name) : Len(other.suffix) <= Len(r.suffix)

resolveIterative(env, work) ==
    Iterate(env, [work EXCEPT !.stack = <<NewFrame(env, work.name, work.q.type, env.budget)>>])

\* queryForwarders begins at the forwarder the shared cursor points to.
resolveUpstream(env, work) ==
    IF forwardRulesFor(env, work.name) = {} THEN {resolveIterative(env, work)}
    ELSE LET servers == forwardRuleFor(env, work.name).servers
         IN {[work EXCEPT !.at = "forward",
                          !.todo = SubSeq(servers, k, Len(servers)) \o SubSeq(servers, 1, k - 1)]
             : k \in DOMAIN servers}

ForwarderAnswers(env, work, out) ==
    IF out.ok /\ out.msg.rcode \notin {"SERVFAIL", "REFUSED"}
    THEN [Return(work, out) EXCEPT !.todo = <<>>]
    ELSE IF Len(work.todo) > 1 THEN [work EXCEPT !.todo = Tail(@)]
    ELSE IF forwardRuleFor(env, work.name).mode = "only"
    THEN [Return(work, Failure) EXCEPT !.todo = <<>>]
    ELSE resolveIterative(env, [work EXCEPT !.todo = <<>>])

\* The CNAME at the name, else the DNAME nearest above it: the target and
\* the CNAME synthesized for it.
aliasTarget(answer, name) ==
    LET cnames == SelectSeq(answer, LAMBDA rr : rr.type = "CNAME" /\ rr.owner = name)
        dnames == {answer[i] : i \in {j \in DOMAIN answer :
                      /\ answer[j].type = "DNAME"
                      /\ answer[j].owner # name /\ IsSuffix(answer[j].owner, name)}}
        best == CHOOSE d \in dnames : \A e \in dnames : Len(e.owner) <= Len(d.owner)
        target == SubSeq(name, 1, Len(name) - Len(best.owner)) \o best.data
    IN IF cnames # <<>> THEN [target |-> {cnames[1].data}, synthesized |-> <<>>]
       ELSE IF dnames # {}
       THEN [target |-> {target}, synthesized |-> Records(name, "CNAME", <<target>>)]
       ELSE [target |-> {}, synthesized |-> <<>>]

Combine(work) ==
    IF work.depth = 0 THEN work.out.msg
    ELSE [work.out.msg EXCEPT !.answer = work.msg.answer \o @]

\* Mutant: the alias is the answer.
followAliasesNever(env, work) ==
    {[work EXCEPT !.at = IF work.out.ok THEN "conclude" ELSE "failed",
                  !.stack = <<>>, !.msg = Combine(work)]}

\* A lookup has returned: the alias chain goes on, ends or fails.
followAliases(env, work) ==
    LET m == Combine(work)
        alias == aliasTarget(m.answer, work.name)
        target == CHOOSE t \in alias.target : TRUE
        popped == [work EXCEPT !.stack = <<>>, !.msg = m]
    IN IF ~work.out.ok THEN {[popped EXCEPT !.at = "failed"]}
       ELSE IF work.q.type \in {"CNAME", "DNAME"} THEN {[popped EXCEPT !.at = "conclude"]}
       ELSE IF work.depth = MaxAliasChain THEN {[popped EXCEPT !.at = "failed"]}
       ELSE IF alias.target = {} THEN {[popped EXCEPT !.at = "conclude"]}
       ELSE IF target \in work.seen THEN {[popped EXCEPT !.at = "failed"]}
       ELSE resolveUpstream(env,
                [popped EXCEPT !.msg.answer = @ \o alias.synthesized,
                               !.name = target, !.seen = @ \cup {target}, !.depth = @ + 1])

NoHop == queryNameservers(<<>>, Root, "A", TRUE)
Lookup(job) ==
    [at |-> "hop", q |-> job.q, awaited |-> job.awaited, name |-> job.q.name,
     seen |-> {job.q.name}, depth |-> 0, msg |-> ServerFailure, todo |-> <<>>, stack |-> <<>>,
     hop |-> NoHop, out |-> Failure]
=============================================================================

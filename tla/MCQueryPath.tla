---------------------------- MODULE MCQueryPath -----------------------------
(* Small configurations of QueryPath: one that varies the zone, one the    *)
(* response policy, one for the limiters, one for the other exits.         *)
EXTENDS QueryPath

Order == <<"*", "a", "b", "c", "o", "ext">>
Apex == <<"o">>
Abs(n) == n \o Apex
Client == <<0, 0>>
Neighbour == <<0, 1>>
Stranger == <<1, 0>>

Query == [name |-> Abs(<<"a">>), type |-> "A", do |-> FALSE, rd |-> TRUE, client |-> Client,
          one |-> TRUE, op |-> "QUERY", class |-> "IN", version |-> 0, extras |-> 0,
          cookie |-> "none", tsig |-> "none"]

\* Zones: every combination of contents at a, b, the wildcard and a.b.
Item(d) == <<[data |-> d, ttl |-> 1]>>
ExtNS == <<"ns", "ext">>
Content(owner, kind) ==
    CASE kind = "none" -> <<>>
      [] kind = "A" -> (<<owner, "A">> :> Item(<<1, 0>>))
      [] kind = "NS" -> (<<owner, "NS">> :> Item(<<"a", "b">>))
      [] kind = "DS" -> (<<owner, "NS">> :> Item(ExtNS)) @@ (<<owner, "DS">> :> Item(<<0>>))
      [] OTHER -> (<<owner, "CNAME">> :> Item(kind))
Unsecured ==
    {(<<Origin, "NS">> :> Item(ExtNS)) @@ Content(<<"a">>, a) @@ Content(<<"b">>, b)
       @@ Content(<<"*">>, w) @@ Content(<<"a", "b">>, g)
       : a \in {"none", "A", <<"b">>, <<"c">>},
         b \in {"none", "A", <<"a">>, "NS", "DS"},
         w \in {"none", "A", <<"a">>, <<"c">>},
         g \in {"none", "A"}}

\* NSEC and RRSIG for all that is not below a cut.
Secured(rrs) ==
    LET z == [soa |-> 2, soaRec |-> 2, rrs |-> rrs]
        own == {o \in Owners(z) : \A n \in Suffixes(o) \ {o} : ~Delegated(z, n)}
        sorted == SetToSortSeq(own, LAMBDA m, n : Weight(m) < Weight(n))
        Next_(o) == LET i == CHOOSE i \in DOMAIN sorted : sorted[i] = o
                    IN sorted[(i % Len(sorted)) + 1]
        Types(o) == (TypesAt(z, o) \ (IF Delegated(z, o) THEN {"NS"} ELSE {})) \cup {"NSEC"}
    IN [z EXCEPT !.rrs = @ @@ [k \in own \X {"NSEC"} |-> Item(Next_(k[1]))]
                           @@ [k \in own \X {"RRSIG"} |->
                                 SetToSeq({[data |-> <<t>>, ttl |-> 1] : t \in Types(k[1])})]]

Relatives == {<<>>, <<"a">>, <<"b">>, <<"c">>, <<"a", "b">>, <<"c", "b">>}

NoRep == [enabled |-> FALSE, exempt |-> {}, base |-> 1, minimum |-> 1, burst |-> 1, maxScore |-> 1,
          decay |-> 1, capacity |-> 1, action |-> "drop",
          penalty |-> [s \in {"protocol", "complexity", "policy", "rate"} |-> 1]]
Off == [enabled |-> FALSE, zones |-> <<>>]
NoTCP == [clients |-> {}, conns |-> 0, max |-> 1, perClient |-> 1, rate |-> 1, burst |-> 1]
Plainest ==
    [procs |-> {"p1"}, maxQueries |-> 1, maxTime |-> 0, maxReloads |-> 0,
     zones |-> (Apex :> Secured((<<Origin, "NS">> :> Item(ExtNS)))),
     queries |-> {Query}, notify |-> <<>>, blackhole |-> {}, blackholeAction |-> "drop",
     blocked |-> <<>>, policies |-> <<Off>>,
     recursion |-> [clients |-> {}, answers |-> <<>>, nameservers |-> <<>>],
     cookies |-> [enabled |-> FALSE, required |-> FALSE, validFor |-> 1],
     complexity |-> [any |-> 2, dnssec |-> 1, max |-> 4],
     rep |-> NoRep, rrl |-> [enabled |-> FALSE, limit |-> 1, window |-> 1, slips |-> FALSE], worlds |-> {},
     tcp |-> NoTCP]

\* Chains of trust from the root to o and c.o: all sound, and one part after
\* another missing, stale, of another key or disabled.
Sig(key, fresh) == [key |-> key, fresh |-> fresh]
Chain == [anchors |-> <<"r1", "r2">>, negative |-> {}, maxDepth |-> 3, failOnMissing |-> FALSE,
          disabled |-> {"weak"}, signing |-> {Sig("z1", TRUE)},
          keys |-> (<<>> :> [set |-> {"r1", "r2", "rz"}, sigs |-> {Sig("r1", TRUE), Sig("r2", TRUE)}])
                     @@ (Apex :> [set |-> {"o1", "z1"}, sigs |-> {Sig("o1", TRUE)}])
                     @@ (Abs(<<"c">>) :> [set |-> {"c1", "z1"}, sigs |-> {Sig("c1", TRUE)}]),
          ds |-> (Apex :> [set |-> {"o1"}, sigs |-> {Sig("rz", TRUE)}])
                   @@ (Abs(<<"c">>) :> [set |-> {"c1", "z1"}, sigs |-> {Sig("z1", TRUE)}])]
Anchored == {[Chain EXCEPT !.anchors = a]
               : a \in {<<>>, <<"r1">>, <<"r3">>, <<"r3", "r2">>, <<"rz", "r1">>}}
Signings == {[Chain EXCEPT !.signing = s]
               : s \in {{Sig("z1", FALSE)}, {Sig("rz", TRUE), Sig("z1", TRUE)}, {Sig("x", TRUE)}}}
DSs == {[Chain EXCEPT !.ds[z] = [set |-> d, sigs |-> {Sig(k, f)}]]
          : z \in {Apex, Abs(<<"c">>)}, d \in {{}, {"o1"}, {"c1"}, {"x"}},
            k \in {"rz", "o1", "c1"}, f \in BOOLEAN}
KeySets == {[Chain EXCEPT !.keys[z].sigs = {Sig(k, f)}]
              : z \in {<<>>, Apex, Abs(<<"c">>)}, k \in {"r2", "rz", "o1", "z1"}, f \in BOOLEAN}
Settings ==
    {[Chain EXCEPT !.maxDepth = 2], [Chain EXCEPT !.negative = {Abs(<<"c">>)}],
     [Chain EXCEPT !.disabled = {"o1"}], [Chain EXCEPT !.disabled = {"c1"}],
     [Chain EXCEPT !.maxDepth = 2, !.ds[Apex].set = {}]}
Worlds == {Chain} \cup Settings \cup Anchored \cup Signings \cup DSs \cup KeySets

Chained == {(<<Origin, "NS">> :> Item(ExtNS)) @@ Content(<<"a">>, "A") @@ Content(<<"b">>, "DS")}

\* A child zone is served beside its parent, so that the longest origin decides.
Answers ==
    {[Plainest EXCEPT
        !.worlds = IF rrs \in Chained THEN Worlds ELSE {Chain},
        !.zones = (Apex :> Secured(rrs))
                    @@ (Abs(<<"c">>) :> Secured(Content(<<"a">>, "A"))),
        !.queries = {[Query EXCEPT !.name = Abs(n), !.type = t, !.do = do]
                       : n \in Relatives \cup {<<"a", "c">>},
                         t \in {"A", "CNAME", "NS", "DS", "ANY"}, do \in BOOLEAN}]
       : rrs \in Unsecured}

\* Policies of two zones over every kind of trigger.
Rec(family, name, target) ==
    [family |-> family, wild |-> FALSE, name |-> name, bits |-> 0, address |-> <<>>, target |-> target]
Below(family, name, target) == [Rec(family, name, target) EXCEPT !.wild = TRUE]
Prefix(family, bits, address, target) ==
    [Rec(family, <<>>, target) EXCEPT !.bits = bits, !.address = address]
Source(name, priority, records, regex) ==
    [name |-> name, priority |-> priority, file |-> records # <<>>, records |-> records, regex |-> regex]
Conf(zones) == [enabled |-> TRUE, zones |-> zones]
Foreign == <<"a", "ext">>
Harmless == <<Rec("qname", <<"b", "ext">>, "rpz-passthru.")>>
High == {Harmless,
         <<Prefix("ip", 1, <<1, 0>>, "."), Prefix("ip", 2, <<1, 0>>, "rpz-passthru.")>>,
         <<Prefix("client", 1, <<1, 0>>, "rpz-drop.")>>,
         <<Prefix("nsip", 1, <<0, 0>>, "*.")>>,
         <<Rec("nsname", <<"b", "ext">>, "elsewhere."), Below("nsname", <<"ext">>, ".")>>}
Low == {Source("low", 2, <<Below("qname", <<"ext">>, "."), Below("qname", Apex, ".")>>, <<>>),
        Source("low", 2, <<Rec("qname", Foreign, "elsewhere.")>>,
               <<[names |-> {Foreign, Abs(<<"a">>)}, action |-> "DROP", compiles |-> TRUE]>>)}
Resolved(address) ==
    Reply("NOERROR", FALSE, <<[owner |-> Foreign, type |-> "A", data |-> address]>>, <<>>, <<>>)
Policies ==
    {[Plainest EXCEPT
        !.maxReloads = 1,
        !.policies = <<Conf(<<l, Source("high", 1, h, <<>>)>>), Off,
                       Conf(<<Source("other", 1, other, <<>>)>>)>>,
        !.zones = (Apex :> Secured((<<Origin, "NS">> :> Item(ExtNS)) @@ Content(<<"a">>, "A"))),
        !.recursion = [clients |-> {Client, Stranger},
                       answers |-> (Foreign :> Resolved(address)),
                       nameservers |-> (Foreign :> [known |-> TRUE, names |-> {<<"b", "ext">>, <<"c", "ext">>},
                                                    addresses |-> {<<0, 1>>}])],
        !.queries = {[Query EXCEPT !.name = n, !.client = c]
                       : n \in {Foreign, Abs(<<"a">>)}, c \in {Client, Stranger}}]
       : h \in High, l \in Low, other \in High, address \in {<<1, 0>>, <<1, 1>>, <<0, 0>>}}

\* A reload with a zone that loads and, behind it, one with a flaw.
Flawed ==
    {Source("low", 2, records, <<>>)
       : records \in {<<>>, <<Prefix("ip", 1, <<1, 1>>, ".")>>, <<Prefix("nsip", 0, <<0, 0>>, ".")>>,
                      <<Rec("nsname", <<>>, ".")>>,
                      <<Rec("qname", Foreign, "."), Rec("qname", Foreign, "rpz-passthru.")>>}}
      \cup {Source("good", 2, Harmless, <<>>),
            Source("low", 2, Harmless, <<[names |-> {}, action |-> "DROP", compiles |-> FALSE]>>)}
Reloads ==
    {[Plainest EXCEPT
        !.maxReloads = 2,
        !.policies = <<Conf(<<l, Source("high", 1, Harmless, <<>>)>>), Conf(<<>>),
                       Conf(<<Source("good", 1, <<Rec("qname", Foreign, ".")>>, <<>>), flawed>>)>>]
       : l \in Low, flawed \in Flawed}

\* Two handlers on one client's bucket, and a shard of one entry for two clients.
Limits ==
    {[Plainest EXCEPT !.procs = {"p1", "p2"}, !.maxQueries = 4, !.maxTime = 3,
        !.rrl = [enabled |-> TRUE, limit |-> 1, window |-> 1, slips |-> FALSE]],
     [Plainest EXCEPT !.maxQueries = 5, !.maxTime = 4,
        !.queries = {[Query EXCEPT !.client = c] : c \in {Client, Neighbour}},
        !.rrl = [enabled |-> TRUE, limit |-> 1, window |-> 1, slips |-> FALSE],
        !.rep = [NoRep EXCEPT !.enabled = TRUE, !.base = 2, !.maxScore = 4, !.capacity = 1,
                              !.penalty = [@ EXCEPT !["protocol"] = 3]]],
     [Plainest EXCEPT !.procs = {"p1", "p2"}, !.maxQueries = 3, !.maxTime = 2,
        !.queries = {[Query EXCEPT !.client = c, !.version = v]
                       : c \in {Client, Neighbour, Stranger}, v \in {0, 1}},
        !.rep = [NoRep EXCEPT !.enabled = TRUE, !.base = 2, !.maxScore = 2, !.capacity = 2,
                              !.exempt = {<<1, 1>>}, !.action = "refused"]]}

\* Two clients with an address and one without, all limits in reach.
Connections ==
    {[Plainest EXCEPT !.maxQueries = 0, !.maxTime = 3,
        !.tcp = [clients |-> {Client, Stranger, <<>>}, conns |-> 5, max |-> 3, perClient |-> 2,
                 rate |-> rate, burst |-> 3]]
       : rate \in {1, 2}}

\* The exits of the handler that none of the above takes.
Exits ==
    {[Plainest EXCEPT
        !.maxQueries = 2, !.maxTime = 2,
        !.blackhole = {Stranger}, !.blackholeAction = action,
        !.blocked = (Abs(<<"b">>) :> "NXDOMAIN") @@ (Abs(<<"c">>) :> "DROP"),
        !.notify = ("SOA" :> "REFUSED") @@ ("CDS" :> "NOERROR"),
        !.recursion = [clients |-> {Client}, answers |-> <<>>, nameservers |-> <<>>],
        !.cookies = [enabled |-> TRUE, required |-> TRUE, validFor |-> 1],
        !.queries =
            {[Query EXCEPT !.cookie = c] : c \in {"none", "client", "echo", "forged"}}
              \cup {[Query EXCEPT !.op = op, !.type = t] : op \in {"NOTIFY", "UPDATE", "STATUS"},
                                                          t \in {"SOA", "CDS", "AXFR"}}
              \cup {[Query EXCEPT !.name = n] : n \in {Abs(<<"b">>), Abs(<<"c">>), Foreign}}
              \cup {[Query EXCEPT !.tsig = "bad"], [Query EXCEPT !.one = FALSE],
                    [Query EXCEPT !.class = "CH"], [Query EXCEPT !.version = 1],
                    [Query EXCEPT !.extras = 1], [Query EXCEPT !.client = Stranger],
                    [Query EXCEPT !.name = Foreign, !.rd = FALSE]}]
       : action \in {"drop", "refused"}}

AllConfigs == Answers \cup Policies \cup Reloads \cup Limits \cup Connections \cup Exits

\* Three handlers on a bucket of one token per second.
DriftConfigs ==
    {[Plainest EXCEPT !.procs = {"p1", "p2", "p3"}, !.maxQueries = 8, !.maxTime = 3,
        !.rrl = [enabled |-> TRUE, limit |-> 1, window |-> 1, slips |-> FALSE]]}

\* The limiter slips one response in one.
SlipConfigs ==
    {[Plainest EXCEPT !.maxQueries = 3,
        !.rrl = [enabled |-> TRUE, limit |-> 1, window |-> 1, slips |-> TRUE]]}
=============================================================================

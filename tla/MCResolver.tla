----------------------------- MODULE MCResolver -----------------------------
(***************************************************************************)
(* Small worlds for the resolver.  One set of zones serves the configs     *)
(* that follow referrals; the others answer at the root, so that callers,  *)
(* cache and pool are what interleaves.                                    *)
(***************************************************************************)
EXTENDS Resolver

Glue(owner, address) == [owner |-> owner, type |-> "A", data |-> address]
Cut(ns, extra) == [ns |-> ns, extra |-> extra]
Zone(cuts, data, soa) ==
    [cuts |-> cuts, data |-> data, soa |-> soa, denial |-> [n \in {} |-> <<>>]]
Nothing == [n \in {} |-> <<>>]

com == <<"com">>
net == <<"net">>
ex == <<"ex", "com">>
far == <<"far", "com">>
old == <<"old", "com">>
spin == <<"spin", "com">>
whirl == <<"whirl", "net">>
In(zone, label) == <<label>> \o zone

RootZone ==
    Zone(com :> Cut(<<In(com, "ns")>>, <<Glue(In(com, "ns"), "c1")>>)
         @@ net :> Cut(<<In(net, "ns")>>, <<Glue(In(net, "ns"), "n1")>>), Nothing, TRUE)
\* far has its servers in net; old too, and its parent sends the address
\* they had before; spin and whirl need each other.
ComZone ==
    Zone(ex :> Cut(<<In(ex, "n1"), In(ex, "n2")>>,
                   <<Glue(In(ex, "n1"), "e1"), Glue(In(ex, "n2"), "e2")>>)
         @@ far :> Cut(<<In(net, "far")>>, <<>>)
         @@ old :> Cut(<<In(net, "moved")>>, <<Glue(In(net, "moved"), "before")>>)
         @@ spin :> Cut(<<In(whirl, "ns")>>, <<>>), Nothing, TRUE)
NetZone ==
    Zone(whirl :> Cut(<<In(spin, "ns")>>, <<>>),
         <<In(net, "far"), "A">> :> <<"f1">> @@ <<In(net, "moved"), "AAAA">> :> <<"f1">>, TRUE)
ExZone(soa) ==
    Zone(Nothing,
         <<In(ex, "www"), "A">> :> <<"addr">>
         @@ <<In(In(ex, "www"), "deep"), "A">> :> <<"addr2">>
         @@ <<In(In(In(ex, "deep"), "b"), "a"), "A">> :> <<"addr3">>
         @@ <<In(ex, "one"), "CNAME">> :> <<In(far, "www")>>
         @@ <<In(ex, "round"), "CNAME">> :> <<In(ex, "trip")>>
         @@ <<In(ex, "trip"), "CNAME">> :> <<In(ex, "round")>>
         @@ <<In(ex, "all"), "DNAME">> :> <<ex>>, soa)
FarZone == Zone(Nothing, <<In(far, "www"), "A">> :> <<"faraddr">>, TRUE)
OldZone(address) == Zone(Nothing, <<In(old, "www"), "A">> :> <<address>>, TRUE)

World(soa) ==
    Root :> RootZone @@ com :> ComZone @@ net :> NetZone @@ ex :> ExZone(soa)
    @@ far :> FarZone @@ old :> OldZone("new")
Servers(soa) ==
    "r1" :> (Root :> RootZone) @@ "c1" :> (com :> ComZone) @@ "n1" :> (net :> NetZone)
    @@ "e1" :> (ex :> ExZone(soa)) @@ "e2" :> (ex :> ExZone(soa))
    @@ "f1" :> (far :> FarZone @@ old :> OldZone("new"))
    @@ "before" :> (old :> OldZone("outdated"))
Steady(servers) == [s \in DOMAIN servers |-> {}]

Q(name, type) == [name |-> name, type |-> type, spelling |-> 0]

Options ==
    [serveStale |-> FALSE, maxStale |-> 0, minTTL |-> 0, maxTTL |-> 0, minNegative |-> 0,
     maxNegative |-> 0, bogusTTL |-> 0, prefetch |-> 0, enforced |-> FALSE, maxSize |-> 4,
     maxMemory |-> 0]
Environment(soa) ==
    [minimize |-> TRUE, scrub |-> TRUE, parallelism |-> 2, budget |-> 7, rules |-> {},
     roots |-> <<"r1">>, servers |-> Servers(soa), flaky |-> Steady(Servers(soa))]
Sizes == [h \in 1 .. 12 |-> 1]
Base(soa) ==
    [env |-> Environment(soa), world |-> World(soa), opts |-> Options, callers |-> {"c1"},
     workers |-> {"w1"}, queueSize |-> 1, questions |-> <<>>, maxAsks |-> 1, maxTime |-> 0,
     ttls |-> {2}, verdicts |-> {"none"}, aggressive |-> FALSE, private |-> {"private"},
     size |-> Sizes, preloads |-> {<<>>}, timely |-> FALSE,
     operations |-> {}]

WalkQuestions ==
    <<Q(In(ex, "www"), "A"), Q(In(In(ex, "www"), "deep"), "A"),
      Q(In(In(In(ex, "deep"), "b"), "a"), "A"), Q(In(ex, "one"), "A"),
      Q(In(ex, "round"), "A"), Q(In(In(ex, "all"), "www"), "A"), Q(In(ex, "none"), "A"),
      Q(In(ex, "one"), "CNAME"), Q(In(far, "www"), "A"), Q(In(old, "www"), "A"),
      Q(In(spin, "www"), "A"), Q(In(ex, "www"), "AAAA")>>

\* Every kind of referral and alias, with and without the SOA in negative
\* answers, minimized or not, one server or all of the delegation failing.
Bit(i, weight) == (i \div weight) % 2 = 1
Walks ==
    [i \in 1 .. 32 |->
        [Base(Bit(i, 1)) EXCEPT !.questions = WalkQuestions,
            !.env.minimize = Bit(i, 2), !.env.budget = IF Bit(i, 4) THEN 5 ELSE 9,
            !.env.parallelism = IF Bit(i, 2) = Bit(i, 4) THEN 1 ELSE 2,
            !.env.flaky["e1"] = IF Bit(i, 8) THEN {"timeout", "servfail"} ELSE {},
            !.env.flaky["e2"] = IF Bit(i, 16) THEN {"down"} ELSE {}]]

Rule(suffix, servers, mode) == [suffix |-> suffix, servers |-> servers, mode |-> mode]
Forwarded ==
    [i \in 1 .. 2 |->
        [Base(TRUE) EXCEPT !.questions = WalkQuestions, !.operations = {"close"},
            !.env.rules = {Rule(ex, <<"e1", "e2">>, IF i = 1 THEN "only" ELSE "first"),
                           Rule(far, <<"e1", "f1">>, "first")},
            !.env.flaky["e1"] = {"servfail"}, !.env.flaky["e2"] = {"timeout"}]]

\* Names answered by the root servers themselves.
Flat(data) ==
    LET zone == Zone(Nothing, data, TRUE)
    IN [Base(TRUE) EXCEPT !.world = Root :> zone,
            !.env.servers = "r1" :> (Root :> zone), !.env.flaky = "r1" :> {}]
Hosts(labels) == [k \in {<< <<l>>, "A" >> : l \in labels} |-> <<k[1][1]>>]

\* Two clients and a prefetching operator share one lookup; any of them may
\* give up, and Close may come at any moment.
Spellings == <<Q(<<"a">>, "A"), [Q(<<"a">>, "A") EXCEPT !.spelling = 1]>>
Shared ==
    LET pair == [Flat(Hosts({"a"})) EXCEPT !.callers = {"c1", "c2"}, !.questions = Spellings,
                                           !.maxAsks = 2, !.env.flaky = "r1" :> {"timeout"}]
    IN <<[pair EXCEPT !.workers = {"w1", "w2"}, !.maxAsks = 3, !.operations = {"prefetch"}],
         [pair EXCEPT !.workers = {"w1", "w2"}, !.operations = {"timeout", "close"}],
         [pair EXCEPT !.questions = <<Head(Spellings)>>, !.timely = TRUE,
                      !.operations = {"prefetch", "timeout", "close"}]>>

\* Hits near expiry refresh in the background; expired entries stay usable
\* for a while; positive and negative answers have their own bounds.
Aging ==
    [i \in 1 .. 2 |->
      [Flat(Hosts({"a"})) EXCEPT !.maxAsks = 3, !.maxTime = 5, !.ttls = {1, 3},
          !.questions = <<Q(<<"a">>, "A"), Q(<<"z">>, "A")>>, !.env.flaky = "r1" :> {"timeout"},
          !.operations = {"flush"},
          !.opts = [Options EXCEPT !.serveStale = i = 1, !.maxStale = IF i = 1 THEN 2 ELSE 0,
                       !.prefetch = 50, !.minTTL = 2, !.maxTTL = 3, !.maxNegative = 1]]]

\* Validation: secure, insecure and bogus answers, an answer that fails the
\* rebinding check, and a validator that cannot tell.
Validated ==
    [i \in 1 .. 2 |->
      [Flat(Hosts({"a", "private"})) EXCEPT !.maxAsks = 3, !.maxTime = 3,
          !.questions = <<Q(<<"a">>, "A"), Q(<<"private">>, "A")>>,
          !.verdicts = {"secure", "insecure", "bogus", "error"},
          !.opts = [Options EXCEPT !.bogusTTL = 1, !.enforced = i = 1]]]

\* A full shard of six entries in every order of expiry; one is replaced or
\* makes room for a seventh.
HeapLabels == <<"a", "b", "c", "d", "e", "f", "g">>
Heap ==
    <<[Flat(Hosts(ToSet(HeapLabels))) EXCEPT !.maxAsks = 1, !.ttls = {1, 4}, !.maxTime = 1,
          !.questions = [i \in 1 .. 7 |-> Q(<<HeapLabels[i]>>, "A")],
          !.opts.maxSize = 6, !.preloads = [1 .. 6 -> {1, 4}], !.operations = {"prefetch"}]>>
\* Entries of different size against a byte budget.
Memory ==
    <<[Flat(Hosts({"a", "b", "c"})) EXCEPT !.maxAsks = 5, !.ttls = {1, 2}, !.maxTime = 2,
          !.questions = <<Q(<<"a">>, "A"), Q(<<"b">>, "A"), Q(<<"c">>, "A")>>,
          !.operations = {"prefetch", "flush"},
          !.size = <<1, 2, 3>>, !.opts.maxMemory = 3]>>

\* A flat signed zone beside another: a, c and e exist in com.
NSEC(owner, next) == [owner |-> owner, type |-> "NSEC", data |-> next]
SignedZone(labels, denial) ==
    [Zone(Nothing, [k \in {<<In(com, l), "A">> : l \in labels} |-> <<"addr">>], TRUE)
        EXCEPT !.denial = denial]
SignedCom ==
    SignedZone({"a", "c"}, In(com, "b") :> <<NSEC(In(com, "a"), In(com, "c"))>>
                           @@ In(com, "d") :> <<NSEC(In(com, "c"), com)>>
                           @@ In(com, "e") :> <<NSEC(In(com, "c"), com)>>)
PlainNet == Zone(Nothing, <<In(net, "e"), "A">> :> <<"addr">>, TRUE)
Denials ==
    <<[Base(TRUE) EXCEPT !.world = com :> SignedCom @@ net :> PlainNet,
          !.env.servers = "r1" :> (com :> SignedCom @@ net :> PlainNet),
          !.env.flaky = "r1" :> {}, !.verdicts = {"secure", "insecure"}, !.aggressive = TRUE, !.env.minimize = FALSE,
          !.maxAsks = 3, !.maxTime = 3, !.ttls = {1}, !.operations = {"flush"},
          !.questions = <<Q(In(com, "a"), "A"), Q(In(com, "b"), "A"), Q(In(com, "c"), "A"),
                          Q(In(com, "d"), "A"), Q(In(com, "e"), "A"), Q(In(net, "e"), "A")>>]>>

\* The signed zone delegates ex; the name after it does not exist.
CutCom ==
    [SignedZone({"a"}, In(com, "f") :> <<NSEC(ex, com)>>)
        EXCEPT !.cuts = ex :> Cut(<<In(ex, "ns")>>, <<Glue(In(ex, "ns"), "e1")>>)]
ChildZone == Zone(Nothing, <<In(ex, "a"), "A">> :> <<"addr">>, TRUE)
DeniedChild ==
    <<[Base(TRUE) EXCEPT !.world = com :> CutCom @@ ex :> ChildZone,
          !.env.servers = "r1" :> (com :> CutCom) @@ "e1" :> (ex :> ChildZone),
          !.env.flaky = [s \in {"r1", "e1"} |-> {}], !.verdicts = {"secure"},
          !.aggressive = TRUE, !.env.minimize = FALSE, !.maxAsks = 2,
          !.questions = <<Q(In(com, "f"), "A"), Q(In(ex, "a"), "A")>>]>>

MCSettings ==
    Walks \o Forwarded \o Shared \o Aging \o Validated \o Heap \o Memory \o Denials
MCLabelOrder == <<"a", "all", "b", "c", "com", "d", "deep", "e", "ex", "f", "net">>
=============================================================================

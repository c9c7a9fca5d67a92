--------------------------- MODULE ResponsePolicy ---------------------------
(***************************************************************************)
(* Response policy zones, internal/engine/rpz.go, their files,             *)
(* internal/engine/rpz_loader.go, and the way the server loads them and    *)
(* applies their verdicts, internal/server/rpz.go.                         *)
(*                                                                         *)
(* An address is the sequence of its bits and a prefix an initial part of  *)
(* one (one address family).  A policy zone is a record of tables:         *)
(*   client, ip, nsip     prefix -> action                                 *)
(*   exact, nsname        name -> action                                   *)
(*   wild, nswild         name -> action, for the names below it (rules    *)
(*                        come from zone files, whose "*." owners do not   *)
(*                        match their apex)                                *)
(*   regex                sequence of [names, action], names the set of    *)
(*                        names the expression matches                     *)
(* An aggregate is the sequence of its zones, highest priority first.      *)
(*                                                                         *)
(* A configuration is [enabled, zones]; a zone of it [name, priority, file,*)
(* records, regex].  A record is a CNAME of the file: [family, wild, name, *)
(* bits, address, target], of which an address family uses bits and        *)
(* address and the others wild and name; what else the file holds is       *)
(* skipped.  A regular expression compiles when AddRegexRule and           *)
(* parseRPZAction accept it.                                               *)
(* Zones are enabled from NewRPZ on; nothing in the program disables one.  *)
(***************************************************************************)
EXTENDS Answer

\* The parts of a record that its family does not use are empty, and all addresses
\* have as many bits.
IsRecord(rec, width) ==
    IF rec.family \in {"client", "ip", "nsip"}
    THEN IsSequence(rec.address) /\ Len(rec.address) = width /\ ~rec.wild /\ rec.name = <<>>
    ELSE rec.bits = 0 /\ rec.address = <<>>
IsSource(source, width) ==
    /\ source.priority \in Int /\ IsSequence(source.records) /\ IsSequence(source.regex)
    /\ ~source.file => source.records = <<>>
    /\ \A i \in DOMAIN source.records : IsRecord(source.records[i], width)

NoHit == [trigger |-> <<>>, action |-> "NONE"]
Hit(kind, key, action) == [trigger |-> <<kind, key>>, action |-> action]
IsHit(hit) == hit.action # "NONE"

\* The first hit of a sequence of checks, in order.
FirstHit(hits) ==
    LET found == {i \in DOMAIN hits : IsHit(hits[i])}
    IN IF found = {} THEN NoHit ELSE hits[Min(found)]

-----------------------------------------------------------------------------
(* One policy zone.                                                        *)

Covering(table, address) == {p \in DOMAIN table : IsPrefix(p, address)}

\* Prefix lengths are tried longest first.
rpzIPMatch(table, address) ==
    CHOOSE p \in Covering(table, address) :
        \A other \in Covering(table, address) : Len(other) <= Len(p)

LowerBits(p, q) ==
    \E i \in DOMAIN p : p[i] < q[i] /\ \A j \in 1 .. (i - 1) : p[j] = q[j]

\* Over all addresses: the longest prefix, then the numerically lowest.
bestRPZIPRule(kind, table, addresses) ==
    LET matched == {rpzIPMatch(table, a) : a \in {a \in addresses : Covering(table, a) # {}}}
        best == CHOOSE p \in matched :
                   \A q \in matched \ {p} : Len(q) < Len(p) \/ (Len(q) = Len(p) /\ LowerBits(p, q))
    IN IF matched = {} THEN NoHit ELSE Hit(kind, best, table[best])

checkClientIP(rpz, client) ==
    bestRPZIPRule("client", rpz.client, {client})

\* The nearest owner above the name in a table of wildcards.
Above(table, name) == {n \in Suffixes(name) \cap DOMAIN table : n # name}
Nearest(table, name) ==
    CHOOSE n \in Above(table, name) : \A m \in Above(table, name) : Len(m) <= Len(n)

checkName(rpz, name) ==
    LET nearest == Nearest(rpz.wild, name)
        exact == IF name \in DOMAIN rpz.exact THEN Hit("exact", name, rpz.exact[name]) ELSE NoHit
        wild == IF Above(rpz.wild, name) # {} THEN Hit("wild", nearest, rpz.wild[nearest]) ELSE NoHit
        regex == [i \in DOMAIN rpz.regex |->
                     IF name \in rpz.regex[i].names
                     THEN Hit("regex", <<i>>, rpz.regex[i].action) ELSE NoHit]
    IN FirstHit(<<exact, wild>> \o regex)

\* [exact, labels, name, hit] of one name server, or nothing.
rpzNameMatch(rpz, name) ==
    LET nearest == Nearest(rpz.nswild, name)
    IN IF name \in DOMAIN rpz.nsname
       THEN {[exact |-> TRUE, labels |-> Len(name), name |-> name,
              hit |-> Hit("nsname", name, rpz.nsname[name])]}
       ELSE IF Above(rpz.nswild, name) # {}
       THEN {[exact |-> FALSE, labels |-> Len(nearest), name |-> name,
              hit |-> Hit("nswild", nearest, rpz.nswild[nearest])]}
       ELSE {}

\* Exact before wildcard, more labels before fewer, then last in canonical order.
Outranks(a, b) ==
    \/ a.exact /\ ~b.exact
    \/ a.exact = b.exact /\ a.labels > b.labels
    \/ a.exact = b.exact /\ a.labels = b.labels /\ canonicalDNSNameLess(b.name, a.name)

matchNSDName(rpz, names) ==
    LET matched == UNION {rpzNameMatch(rpz, n) : n \in names}
    IN IF matched = {} THEN NoHit
       ELSE (CHOOSE a \in matched : \A b \in matched \ {a} : Outranks(a, b)).hit

NeedsNameservers(rpz) ==
    DOMAIN rpz.nsname # {} \/ DOMAIN rpz.nswild # {} \/ DOMAIN rpz.nsip # {}
HasResponseDependentRules(rpz) ==
    NeedsNameservers(rpz) \/ DOMAIN rpz.ip # {}

Addresses(resp) == {rr.data : rr \in {rr \in ToSet(resp.answer) : rr.type \in {"A", "AAAA"}}}

matchResponseIP(rpz, resp) == bestRPZIPRule("ip", rpz.ip, Addresses(resp))

\* nameservers is [known, names, addresses]; known is FALSE for a nil pointer.
CheckResponseWithNameservers(rpz, name, resp, nameservers) ==
    FirstHit(<<checkName(rpz, name), matchResponseIP(rpz, resp)>> \o
             (IF nameservers.known
              THEN <<matchNSDName(rpz, nameservers.names),
                     bestRPZIPRule("nsip", rpz.nsip, nameservers.addresses)>>
              ELSE <<>>))

-----------------------------------------------------------------------------
(* The aggregate.  A verdict is [hit, decisive].                           *)

Undecided == [hit |-> NoHit, decisive |-> FALSE]

\* Mutant: a match in a later zone is taken although an earlier one still waits.
CheckRequestShortcutEager(zones, name, client) ==
    LET early == [i \in DOMAIN zones |->
                     FirstHit(<<checkClientIP(zones[i], client), checkName(zones[i], name)>>)]
    IN [hit |-> FirstHit(early),
        decisive |-> \/ IsHit(FirstHit(early))
                     \/ ~\E i \in DOMAIN zones : HasResponseDependentRules(zones[i])]

\* Client and name triggers; a match behind a zone that still waits for the
\* response is not decisive.
CheckRequestShortcut(zones, name, client) ==
    LET early == [i \in DOMAIN zones |->
                     FirstHit(<<checkClientIP(zones[i], client), checkName(zones[i], name)>>)]
        hits == {i \in DOMAIN zones : IsHit(early[i])}
        waiting == {i \in DOMAIN zones : HasResponseDependentRules(zones[i])}
    IN IF hits = {} THEN [hit |-> NoHit, decisive |-> waiting = {}]
       ELSE IF \E w \in waiting : w < Min(hits) THEN Undecided
       ELSE [hit |-> early[Min(hits)], decisive |-> TRUE]

\* With the response, without the name servers: stops undecided at the first
\* zone that needs them and has not matched otherwise.
CheckRequestResponseShortcut(zones, name, client, resp) ==
    LET step == [i \in DOMAIN zones |->
                    FirstHit(<<checkClientIP(zones[i], client), checkName(zones[i], name),
                               matchResponseIP(zones[i], resp)>>)]
        stops == {i \in DOMAIN zones : IsHit(step[i]) \/ NeedsNameservers(zones[i])}
    IN IF stops = {} THEN [hit |-> NoHit, decisive |-> TRUE]
       ELSE [hit |-> step[Min(stops)], decisive |-> IsHit(step[Min(stops)])]

CheckRequestResponseWithNameservers(zones, name, client, resp, nameservers) ==
    FirstHit([i \in DOMAIN zones |->
        FirstHit(<<checkClientIP(zones[i], client),
                   CheckResponseWithNameservers(zones[i], name, resp, nameservers)>>)])

-----------------------------------------------------------------------------
(* Loading.                                                                *)

rpzPolicyAction(target) ==
    CASE target = "." -> "NXDOMAIN"
      [] target = "*." -> "NODATA"
      [] target = "rpz-passthru." -> "PASSTHRU"
      [] target = "rpz-drop." -> "DROP"
      [] OTHER -> "REWRITE"

Addressed == {"client", "ip", "nsip"}

parseRPZIPTrigger(rec) == SubSeq(rec.address, 1, rec.bits)

\* The address bits after the prefix must be zero.
WellFormed(rec) ==
    CASE rec.family \in Addressed ->
            /\ rec.bits \in 1 .. Len(rec.address)
            /\ \A i \in (rec.bits + 1) .. Len(rec.address) : rec.address[i] = 0
      [] rec.family = "nsname" -> rec.name # <<>>
      [] OTHER -> TRUE

OwnerOf(rec) == <<rec.family, rec.wild, rec.name, rec.bits, rec.address>>
TriggerOf(rec) == IF rec.family \in Addressed THEN parseRPZIPTrigger(rec) ELSE rec.name

\* The table of the records of one kind: each trigger with its action.
addRules(records, family, wild) ==
    LET chosen == {rec \in ToSet(records) : rec.family = family /\ rec.wild = wild}
    IN [t \in {TriggerOf(rec) : rec \in chosen} |->
           rpzPolicyAction((CHOOSE rec \in chosen : TriggerOf(rec) = t).target)]

FileLoads(records) ==
    /\ records # <<>>
    /\ \A i \in DOMAIN records : WellFormed(records[i])
    /\ \A i, j \in DOMAIN records : OwnerOf(records[i]) = OwnerOf(records[j]) => i = j

LoadRPZFile(source) ==
    [client |-> addRules(source.records, "client", FALSE),
     ip |-> addRules(source.records, "ip", FALSE),
     nsip |-> addRules(source.records, "nsip", FALSE),
     exact |-> addRules(source.records, "qname", FALSE),
     wild |-> addRules(source.records, "qname", TRUE),
     nsname |-> addRules(source.records, "nsname", FALSE),
     nswild |-> addRules(source.records, "nsname", TRUE),
     regex |-> [i \in DOMAIN source.regex |->
                   [names |-> source.regex[i].names, action |-> source.regex[i].action]]]

\* A zone has a file or regular expressions, and all of them compile.
SourceLoads(source) ==
    /\ source.file \/ source.regex # <<>>
    /\ source.file => FileLoads(source.records)
    /\ \A i \in DOMAIN source.regex : source.regex[i].compiles

\* Lower priority values first, the order of the list breaks ties: a stable sort.
ByPriority(sources) ==
    LET Before(i, j) == \/ sources[i].priority < sources[j].priority
                        \/ sources[i].priority = sources[j].priority /\ i < j
        order == CHOOSE f \in [DOMAIN sources -> DOMAIN sources] :
                    \A i, j \in DOMAIN sources : i < j => Before(f[i], f[j])
    IN [i \in DOMAIN sources |-> sources[order[i]]]

ConfigLoads(config) ==
    /\ config.zones # <<>>
    /\ \A i \in DOMAIN config.zones : SourceLoads(config.zones[i])
    /\ \A i, j \in DOMAIN config.zones : config.zones[i].name = config.zones[j].name => i = j

Aggregate(sources) ==
    [i \in DOMAIN sources |-> LoadRPZFile(ByPriority(sources)[i])]

\* Mutant: the zones before a malformed one are installed.
LoadedPartly(active, config) ==
    IF ~config.enabled THEN <<>>
    ELSE Aggregate(SelectSeq(config.zones, SourceLoads))

\* The policy active after a configuration was loaded: one that does not load
\* leaves the last one active.
Loaded(active, config) ==
    IF ~config.enabled THEN <<>>
    ELSE IF ConfigLoads(config) THEN Aggregate(config.zones) ELSE active

-----------------------------------------------------------------------------
(* What the server does with a verdict.                                    *)

Rewrites(hit) == hit.action \in {"NXDOMAIN", "NODATA", "REWRITE"}

applyRPZAction(resp, qname, hit) ==
    LET cname == [owner |-> qname, type |-> "CNAME", data |-> hit.trigger]
    IN IF ~Rewrites(hit) THEN resp
       ELSE [resp EXCEPT !.rcode = IF hit.action = "NXDOMAIN" THEN "NXDOMAIN" ELSE "NOERROR",
                         !.answer = IF hit.action = "REWRITE" THEN <<cname>> ELSE <<>>,
                         !.ns = <<>>, !.extra = <<>>]
=============================================================================

------------------------------- MODULE Answer -------------------------------
(***************************************************************************)
(* The authoritative answer: handleAuthoritative and the CNAME chain of    *)
(* internal/server/server.go, signatures and NSEC denial of                *)
(* internal/server/authoritative_dnssec.go, on the zones of module Zone.   *)
(*                                                                         *)
(* A query name is absolute, leaf label first; zones is the function       *)
(* s.cfg.Zones from an absolute origin to a zone whose names are relative  *)
(* to it.  A record of a response is [owner, type, data] with names        *)
(* relative to the zone that answered.  An RRSIG's rdata is <<type covered>>,*)
(* an NSEC's the next name.                                                *)
(***************************************************************************)
EXTENDS Zone

CONSTANTS
    MaxCNAMEHops,   \* 16 in the program
    LabelOrder      \* the labels in the order of their bytes

ASSUME MaxCNAMEHopsAssumption == MaxCNAMEHops \in Nat

Rank(label) == CHOOSE i \in DOMAIN LabelOrder : LabelOrder[i] = label

Labelled(owner, type, items) ==
    [i \in DOMAIN items |-> [owner |-> owner, type |-> type, data |-> items[i].data]]

\* Mutant: no wildcard expansion.
FoundExactly(z, owner, type) == Labelled(owner, type, ExactRecords(z, owner, type))

\* What GetRecords and ExactRecords return carries the owner asked for, also
\* when a wildcard was expanded.
Found(z, owner, type) == Labelled(owner, type, GetRecords(z, owner, type))
Exact(z, owner, type) == Labelled(owner, type, ExactRecords(z, owner, type))
SOARecord(z) == <<[owner |-> Origin, type |-> "SOA", data |-> <<z.soa>>]>>

-----------------------------------------------------------------------------
(* Zone choice and zone cuts.                                              *)

Matching(zones, qname) == {o \in DOMAIN zones : IsSuffix(o, qname)}

\* The longest origin wins; the name is then taken relative to it.
MatchedOrigin(zones, qname) ==
    CHOOSE o \in Matching(zones, qname) :
        \A other \in Matching(zones, qname) : Len(other) <= Len(o)
Relative(origin, qname) == SubSeq(qname, 1, Len(qname) - Len(origin))

\* Mutant: a name server set at the name itself is no cut.
CutsAbove(z, qname) ==
    {n \in Suffixes(qname) \ {Origin, qname} : ExactRecords(z, n, "NS") # <<>>}

\* Names at or above qname, below the apex, that own an NS RRset.
Cuts(z, qname) ==
    {n \in Suffixes(qname) \ {Origin} : ExactRecords(z, n, "NS") # <<>>}
IsDelegated(z, qname) == Cuts(z, qname) # {}
\* The search starts at qname: the cut with the most labels is found.
FindDelegation(z, qname) ==
    CHOOSE n \in Cuts(z, qname) : \A m \in Cuts(z, qname) : Len(m) <= Len(n)

-----------------------------------------------------------------------------
(* DNSSEC: signatures are looked up at the exact owner of the record.      *)

appendCoveringSignatures(records, z) ==
    LET firsts == {i \in DOMAIN records :
                      /\ records[i].type # "RRSIG"
                      /\ \A j \in 1 .. (i - 1) :
                            <<records[j].owner, records[j].type>>
                                # <<records[i].owner, records[i].type>>}
        Covering(i) ==
            SelectSeq(Exact(z, records[i].owner, "RRSIG"),
                      LAMBDA s : s.data = <<records[i].type>>)
        Add(acc, i) == IF i \in firsts THEN acc \o Covering(i) ELSE acc
    IN FoldLeft(Add, records, [i \in DOMAIN records |-> i])

\* Mutant: signatures are left out.
Unsigned(do, records, z) == records
Signed(do, records, z) == IF do THEN appendCoveringSignatures(records, z) ELSE records

\* RFC 4034 6.1: compare label by label from the root; a prefix comes first.
canonicalDNSNameLess(left, right) ==
    LET l == Reverse(left)
        r == Reverse(right)
        differ == {i \in 1 .. (IF Len(l) < Len(r) THEN Len(l) ELSE Len(r)) : l[i] # r[i]}
    IN IF differ = {} THEN Len(l) < Len(r)
       ELSE Rank(l[Min(differ)]) < Rank(r[Min(differ)])

\* Mutant: the last NSEC does not wrap around.
nsecIntervalStraight(owner, next, name) ==
    canonicalDNSNameLess(owner, name) /\ canonicalDNSNameLess(name, next)

nsecIntervalContains(owner, next, name) ==
    IF canonicalDNSNameLess(owner, next)
    THEN canonicalDNSNameLess(owner, name) /\ canonicalDNSNameLess(name, next)
    ELSE canonicalDNSNameLess(owner, name) \/ canonicalDNSNameLess(name, next)

AllNSEC(z) == UNION {ToSet(Exact(z, o, "NSEC")) : o \in Owners(z)}

\* The Go code takes the first that fits while it ranges over a map; the
\* intervals of one chain are disjoint.
coveringNSEC(z, name) ==
    LET fits == {n \in AllNSEC(z) :
                    n.owner = name \/ nsecIntervalContains(n.owner, n.data, name)}
    IN IF fits = {} THEN <<>> ELSE <<CHOOSE n \in fits : TRUE>>

closestEncloser(z, qname) ==
    LET existing == {n \in Suffixes(qname) : HasName(z, n)}
    IN CHOOSE n \in existing : \A m \in existing : Len(m) <= Len(n)

appendAuthoritativeDenial(authority, z, qname, exists) ==
    LET name == coveringNSEC(z, qname)
        wildcard == coveringNSEC(z, <<"*">> \o closestEncloser(z, qname))
        proofs == IF exists THEN Exact(z, qname, "NSEC")
                  ELSE IF wildcard = name THEN name ELSE name \o wildcard
    IN authority \o appendCoveringSignatures(proofs, z)

-----------------------------------------------------------------------------
(* The CNAME chain.  One fold step is one turn of the loop: it adds the    *)
(* alias at the current owner, then its terminal RRset or the next owner.  *)

appendAuthoritativeCNAMEChain(z, first, type, do) ==
    LET Stop(acc) == [acc EXCEPT !.at = <<>>, !.done = TRUE]
        Turn(acc, hop) ==
            LET alias == Found(z, acc.at, "CNAME")
                answer == acc.answer \o Signed(do, alias, z)
                target == alias[1].data
                terminal == Found(z, target, type)
            IN IF acc.done \/ alias = <<>> \/ acc.at \in acc.visited THEN Stop(acc)
               ELSE IF ~InZone(target) \/ IsDelegated(z, target)
                    THEN Stop([acc EXCEPT !.answer = answer])
               ELSE IF terminal # <<>>
                    THEN Stop([acc EXCEPT !.answer = answer \o Signed(do, terminal, z)])
               ELSE [at |-> target, answer |-> answer, done |-> FALSE,
                     visited |-> acc.visited \cup {acc.at}]
    IN FoldLeft(Turn, [at |-> first, answer |-> <<>>, done |-> FALSE, visited |-> {}],
                [i \in 1 .. MaxCNAMEHops |-> i]).answer

-----------------------------------------------------------------------------
(* The response: [rcode, aa, answer, ns, extra].                           *)

Reply(rcode, aa, answer, ns, extra) ==
    [rcode |-> rcode, aa |-> aa, tc |-> FALSE, answer |-> answer, ns |-> ns, extra |-> extra]

Glue(z, targets) ==
    LET Add(acc, rr) ==
            IF ~InZone(rr.data) THEN acc
            ELSE acc \o Exact(z, rr.data, "A") \o Exact(z, rr.data, "AAAA")
    IN FoldLeft(Add, <<>>, targets)

Referral(z, cut, do) ==
    LET nameservers == Exact(z, cut, "NS")
        ds == Exact(z, cut, "DS")
        security == IF ~do THEN <<>>
                    ELSE IF ds # <<>> THEN appendCoveringSignatures(ds, z)
                    ELSE appendAuthoritativeDenial(<<>>, z, cut, TRUE)
    IN Reply("NOERROR", FALSE, <<>>, nameservers \o security, Glue(z, nameservers))

Negative(z, qname, do) ==
    LET exists == HasName(z, qname)
        soa == Signed(do, SOARecord(z), z)
    IN Reply(IF exists THEN "NOERROR" ELSE "NXDOMAIN", TRUE, <<>>,
             IF do THEN appendAuthoritativeDenial(soa, z, qname, exists) ELSE soa, <<>>)

\* The answer of one zone to a name relative to it.
AnswerFrom(z, qname, type, do) ==
    LET records == Found(z, qname, type)
    IN CASE type = "ANY" ->
              Reply("NOERROR", TRUE, <<[owner |-> qname, type |-> "HINFO", data |-> <<>>]>>,
                    <<>>, <<>>)
         [] /\ type # "ANY"
            /\ IsDelegated(z, qname)
            /\ ~(qname = FindDelegation(z, qname) /\ type = "DS") ->
              Referral(z, FindDelegation(z, qname), do)
         [] OTHER ->
              IF records # <<>>
              THEN Reply("NOERROR", TRUE, Signed(do, records, z), <<>>, <<>>)
              ELSE IF type # "CNAME" /\ Found(z, qname, "CNAME") # <<>>
              THEN Reply("NOERROR", TRUE,
                         appendAuthoritativeCNAMEChain(z, qname, type, do), <<>>, <<>>)
              ELSE Negative(z, qname, do)

handleAuthoritative(zones, q) ==
    LET origin == MatchedOrigin(zones, q.name)
    IN AnswerFrom(zones[origin], Relative(origin, q.name), q.type, q.do)
=============================================================================

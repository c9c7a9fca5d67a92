-------------------------------- MODULE Zone --------------------------------
(***************************************************************************)
(* The authoritative zone value of internal/zone/zone.go and the RFC 2136  *)
(* UPDATE algebra internal/server/update.go computes on it.                *)
(*                                                                         *)
(* A name is the sequence of its labels below the zone origin, leaf first: *)
(* the origin is <<>>, and a name of another zone ends in the label "ext". *)
(* Rdata is such a sequence too (an NS, CNAME or MX target, an address).   *)
(* A zone is a record                                                      *)
(*   soa     z.SOA.Serial, what transfers, NOTIFY and negative answers use *)
(*   soaRec  the serial of the SOA record held in z.Records[origin][SOA]   *)
(*   rrs     z.Records without the SOA: (owner, type) -> RRset, where an   *)
(*           RRset is the slice's sequence of [data, ttl]                  *)
(* The Go map deletes a type when its slice empties and an owner when its  *)
(* last type goes, so the domain of rrs is exactly the present RRsets.     *)
(***************************************************************************)
EXTENDS Integers, FiniteSets, SequencesExt

CONSTANTS
    SerialMod,   \* 2^32 in the program: SOA serials live in 0..SerialMod-1
    PerDay       \* 99 in the program: updates a YYYYMMDDnn serial has room for

ASSUME SerialModAssumption == SerialMod \in Nat /\ SerialMod >= 4 /\ SerialMod % 2 = 0
ASSUME PerDayAssumption == PerDay \in Nat

Serial == 0 .. (SerialMod - 1)
Half == SerialMod \div 2
MaxSerial == SerialMod - 1

\* journal.go SerialGreater: RFC 1982 half-range comparison in uint32.
SerialGreater(next, current) ==
    next # current /\ (next - current) % SerialMod < Half

Origin == <<>>
InZone(n) == n = Origin \/ Last(n) # "ext"

\* A finite sequence, of whatever elements.
IsSequence(s) == s \in Seq(ToSet(s))

\* An RRset has an owner and a type, and the SOA is held apart; its records are
\* those of a slice that is not empty.
RRsetsShaped(rrs) ==
    /\ IsFiniteSet(DOMAIN rrs)
    /\ rrs = [k \in DOMAIN rrs |-> rrs[k]]
    /\ \A k \in DOMAIN rrs :
          /\ k = <<k[1], k[2]>> /\ k[2] # "SOA"
          /\ IsSequence(rrs[k]) /\ rrs[k] # <<>>
          /\ \A i \in DOMAIN rrs[k] :
                rrs[k][i] = [data |-> rrs[k][i].data, ttl |-> rrs[k][i].ttl]

-----------------------------------------------------------------------------
(* Lookup.                                                                 *)

TypesAt(z, owner) ==
    {k[2] : k \in {k \in DOMAIN z.rrs : k[1] = owner}}
      \cup (IF owner = Origin THEN {"SOA"} ELSE {})

Owners(z) == {k[1] : k \in DOMAIN z.rrs} \cup {Origin}

\* An owner, or an empty non-terminal above one, exists in the zone tree.
nameExists(z, owner) == \E o \in Owners(z) : IsSuffix(owner, o)

HasName(z, owner) == nameExists(z, owner)

recordsAt(z, owner, type) ==
    CASE <<owner, type>> \in DOMAIN z.rrs -> z.rrs[<<owner, type>>]
      [] owner = Origin /\ type = "SOA" -> <<[data |-> <<z.soaRec>>, ttl |-> 0]>>
      [] OTHER -> <<>>

ExactRecords(z, owner, type) == recordsAt(z, owner, type)

\* RFC 4592: an existing owner answers for itself; otherwise only the wildcard
\* directly below the closest encloser may.
GetRecords(z, owner, type) ==
    IF nameExists(z, owner)
    THEN recordsAt(z, owner, type)
    ELSE LET enclosers == {n \in Suffixes(owner) : n # owner /\ nameExists(z, n)}
             closest == CHOOSE n \in enclosers : \A m \in enclosers : Len(m) <= Len(n)
         IN recordsAt(z, <<"*">> \o closest, type)

-----------------------------------------------------------------------------
(* Mutation of a private copy.                                             *)

AddRecord(z, rr) ==
    LET key == <<rr.owner, rr.type>>
        items == Append(recordsAt(z, rr.owner, rr.type), [data |-> rr.data, ttl |-> rr.ttl])
    IN [z EXCEPT !.rrs = [k \in DOMAIN @ \cup {key} |-> IF k = key THEN items ELSE @[k]]]

WithRRset(z, key, items) ==
    [z EXCEPT !.rrs = IF items = <<>>
                      THEN Restrict(@, DOMAIN @ \ {key})
                      ELSE [@ EXCEPT ![key] = items]]

\* The request is given the class and TTL of the FIRST record of the RRset and
\* then compared as text, so it matches a record only if that TTL matches too.
DeleteRecord(z, rr) ==
    LET key == <<rr.owner, rr.type>>
        existing == recordsAt(z, rr.owner, rr.type)
        Matches(e) == e.data = rr.data /\ e.ttl = existing[1].ttl
    IN IF key \in DOMAIN z.rrs
       THEN WithRRset(z, key, RemoveFirstMatch(existing, Matches))
       ELSE z

DeleteRRSet(z, owner, type) ==
    [z EXCEPT !.rrs = Restrict(@, DOMAIN @ \ {<<owner, type>>})]

DeleteName(z, owner) ==
    [z EXCEPT !.rrs = Restrict(@, {k \in DOMAIN @ : k[1] # owner})]

-----------------------------------------------------------------------------
(* Validate and IncrementSerial.  The SOA is always present at the origin. *)

\* The rdata a lookup finds.
DataAt(z, owner, type) == {e.data : e \in ToSet(GetRecords(z, owner, type))}

Nameservers(z) == DataAt(z, Origin, "NS")

GlueComplete(z) ==
    \A target \in Nameservers(z) :
        InZone(target) => \E type \in {"A", "AAAA"} : DataAt(z, target, type) # {}

CNAMEsAlone(z) ==
    \A key \in {k \in DOMAIN z.rrs : k[2] = "CNAME"} :
        /\ TypesAt(z, key[1]) = {"CNAME"}
        /\ \A i, j \in DOMAIN z.rrs[key] : i = j

MXTargetsCanonical(z) ==
    \A key \in {k \in DOMAIN z.rrs : k[2] = "MX"} :
        \A e \in ToSet(z.rrs[key]) :
            InZone(e.data) => DataAt(z, e.data, "CNAME") = {}

Validate(z) ==
    /\ Nameservers(z) # {}
    /\ GlueComplete(z)
    /\ CNAMEsAlone(z)
    /\ MXTargetsCanonical(z)

\* The largest uint32 can only be reached outside today's range.
CanIncrement(serial, today) ==
    serial < today \/ serial < today + PerDay \/ serial # MaxSerial

IncrementedSerial(serial, today) ==
    IF serial < today THEN today ELSE serial + 1

-----------------------------------------------------------------------------
(* UPDATE: the prerequisite section.  A prerequisite is                    *)
(* [class, owner, type, data]; class "BAD" stands for every malformed one  *)
(* (non-zero TTL, rdata on ANY/NONE, a foreign class).                     *)

prereqRcode(z, p) ==
    CASE p.class = "BAD" -> "FORMERR"
      [] p.class = "ANY" /\ p.type = "ANY" ->
            IF HasName(z, p.owner) THEN "NOERROR" ELSE "NXDOMAIN"
      [] p.class = "NONE" /\ p.type = "ANY" ->
            IF HasName(z, p.owner) THEN "YXDOMAIN" ELSE "NOERROR"
      [] p.class = "ANY" /\ p.type # "ANY" ->
            IF ExactRecords(z, p.owner, p.type) # <<>> THEN "NOERROR" ELSE "NXRRSET"
      [] p.class = "NONE" /\ p.type # "ANY" ->
            IF ExactRecords(z, p.owner, p.type) # <<>> THEN "YXRRSET" ELSE "NOERROR"
      [] OTHER -> "NOERROR"

\* Value prerequisites are grouped by RRset; each group must list exactly the
\* values present.
valueGroupsHold(z, prereqs) ==
    LET values == {p \in ToSet(prereqs) : p.class = "IN"}
    IN \A p \in values :
          {q.data : q \in {q \in values : q.owner = p.owner /\ q.type = p.type}}
            = {e.data : e \in ToSet(ExactRecords(z, p.owner, p.type))}

evaluatePrereqs(z, prereqs) ==
    LET failed == {i \in DOMAIN prereqs : prereqRcode(z, prereqs[i]) # "NOERROR"}
    IN IF failed # {} THEN prereqRcode(z, prereqs[Min(failed)])
       ELSE IF valueGroupsHold(z, prereqs) THEN "NOERROR" ELSE "NXRRSET"

-----------------------------------------------------------------------------
(* UPDATE: the update section, applied in order to a clone of the live     *)
(* zone.  A directive is [class, owner, type, data, ttl]; the floor guards *)
(* count the name servers of the live zone, everything else looks at the   *)
(* clone.                                                                  *)

containsRRValue(items, rr) == \E e \in ToSet(items) : e.data = rr.data

\* Adding next to a CNAME, or a CNAME next to anything else, is refused.
CNAMEConflict(clone, u) ==
    IF u.type = "CNAME"
    THEN TypesAt(clone, u.owner) \ {"CNAME"} # {}
    ELSE GetRecords(clone, u.owner, "CNAME") # <<>>

ApexNSFloor(live, u) ==
    u.type = "NS" /\ u.owner = Origin /\ Len(GetRecords(live, Origin, "NS")) <= 1

\* The rcode that aborts the transaction at this directive, or NOERROR.
directiveRcode(live, clone, u) ==
    CASE u.class = "IN" ->
            IF u.type # "SOA" /\ CNAMEConflict(clone, u) THEN "REFUSED" ELSE "NOERROR"
      [] u.class = "ANY" /\ u.type = "ANY" ->
            IF u.owner = Origin THEN "REFUSED" ELSE "NOERROR"
      [] u.class = "ANY" /\ u.type # "ANY" ->
            IF u.type = "SOA" \/ ApexNSFloor(live, u) THEN "REFUSED" ELSE "NOERROR"
      [] u.class = "NONE" ->
            IF u.type = "SOA" \/ ApexNSFloor(live, u) THEN "REFUSED" ELSE "NOERROR"
      [] OTHER -> "FORMERR"

directiveEffect(clone, u) ==
    CASE u.class = "IN" ->
            IF u.type = "SOA" \/ containsRRValue(ExactRecords(clone, u.owner, u.type), u)
            THEN clone
            ELSE AddRecord(clone, u)
      [] u.class = "ANY" /\ u.type = "ANY" -> DeleteName(clone, u.owner)
      [] u.class = "ANY" /\ u.type # "ANY" -> DeleteRRSet(clone, u.owner, u.type)
      [] u.class = "NONE" -> DeleteRecord(clone, u)

\* One directive: nothing more happens once one has been refused.
applyDirective(live, acc, u) ==
    LET rc == directiveRcode(live, acc.zone, u)
    IN IF acc.rcode # "NOERROR" THEN acc
       ELSE IF rc # "NOERROR" THEN [zone |-> acc.zone, rcode |-> rc]
       ELSE [zone |-> directiveEffect(acc.zone, u), rcode |-> "NOERROR"]

\* [zone, rcode] after the whole section; the first abort wins.
applyUpdates(live, updates) ==
    LET after[i \in 0 .. Len(updates)] ==
            IF i = 0 THEN [zone |-> live, rcode |-> "NOERROR"]
            ELSE applyDirective(live, after[i - 1], updates[i])
    IN after[Len(updates)]

\* Everything handleUpdate computes between taking persistMu and persisting:
\* the rcode, and the replacement zone that counts when the rcode is NOERROR.
\* Clone copies z.SOA and the SOA in Records apart; only z.SOA is incremented.
updateOutcome(live, msg, today) ==
    LET pre == evaluatePrereqs(live, msg.prereqs)
        applied == applyUpdates(live, msg.updates)
        rcode == CASE pre # "NOERROR" -> pre
                   [] pre = "NOERROR" /\ applied.rcode # "NOERROR" -> applied.rcode
                   [] OTHER -> IF Validate(applied.zone) /\ CanIncrement(live.soa, today)
                               THEN "NOERROR" ELSE "SERVFAIL"
    IN [rcode |-> rcode,
        zone |-> [soa |-> IncrementedSerial(live.soa, today),
                  soaRec |-> live.soaRec,
                  rrs |-> applied.zone.rrs]]

-----------------------------------------------------------------------------
(* Transfers.  recordSet is the zone's content without the SOA, keyed by   *)
(* the record's text (so by TTL as well).                                  *)

recordSet(z) ==
    UNION {{[owner |-> k[1], type |-> k[2], data |-> e.data, ttl |-> e.ttl]
              : e \in ToSet(z.rrs[k])} : k \in DOMAIN z.rrs}

Diff(previous, next) ==
    [from |-> previous.soa, to |-> next.soa,
     deleted |-> recordSet(previous) \ recordSet(next),
     added |-> recordSet(next) \ recordSet(previous)]
=============================================================================

---------------------------- MODULE ZoneTransfer ----------------------------
(***************************************************************************)
(* A primary (ZoneServer) and the secondaries that copy its zones.  The    *)
(* primary's handler (internal/server/axfr.go) reads the zone pointer,     *)
(* then asks the journal for a chain; writers may run in between.  The     *)
(* secondary (internal/secondary/ixfr.go, transfer.go) applies the answer  *)
(* to its own copy and publishes it when the serial advances.              *)
(***************************************************************************)
EXTENDS ZoneServer

CONSTANTS
    Secondaries,
    ZoneOfSecondary,    \* Config.Name: the zone each secondary copies
    AllowAXFRFallback   \* ZoneAllowAXFRFallback and the secondary's own setting

ASSUME SecondariesAssumption ==
    ZoneOfSecondary \in [Secondaries -> ZoneNames] /\ AllowAXFRFallback \in BOOLEAN

\* What zone files, images and requests are made of.
ASSUME RecordsAssumption ==
    /\ \A i \in Images : DOMAIN i.zone = {"soa", "soaRec", "rrs"} /\ RRsetsShaped(i.zone.rrs)
    /\ \A n \in ZoneNames : RRsetsShaped(InitialFiles[n].rrs)
    /\ \A m \in Messages : IsSequence(m.updates)

VARIABLES
    copy,      \* the zone each secondary serves, or NoZone
    session,   \* the transfer each secondary has under way
    published  \* history: the versions the primary published

NoSession == [open |-> FALSE, zone |-> NoZone]
xvars == <<vars, copy, session, published>>

\* No RRset lists a record twice.
Distinct(z) ==
    \A k \in DOMAIN z.rrs : \A i, j \in DOMAIN z.rrs[k] : z.rrs[k][i] = z.rrs[k][j] => i = j

Version(n, z) ==
    [name |-> n, serial |-> z.soa, content |-> recordSet(z), distinct |-> Distinct(z)]

-----------------------------------------------------------------------------
(* The secondary's side: applyTransfer.                                    *)

zoneHasRR(z, rr) == \E e \in ToSet(ExactRecords(z, rr.owner, rr.type)) : e.data = rr.data

ZoneFailed == [NoZone EXCEPT !.soa = -3]

\* Mutant: the deletions of a difference sequence are skipped.
DeleteNone(z, rrs) == z

DeletePresent(z, rr) ==
    IF z = ZoneFailed \/ ~zoneHasRR(z, rr) THEN ZoneFailed ELSE DeleteRecord(z, rr)
AddAbsent(z, rr) ==
    IF z = ZoneFailed \/ zoneHasRR(z, rr) THEN ZoneFailed ELSE AddRecord(z, rr)

\* Delete the listed records, each of which must be present.
DeleteAll(z, rrs) ==
    LET after[i \in 0 .. Len(rrs)] ==
            IF i = 0 THEN z ELSE DeletePresent(after[i - 1], rrs[i])
    IN after[Len(rrs)]

\* Add the listed records, none of which may be present.
AddAll(z, rrs) ==
    LET after[i \in 0 .. Len(rrs)] ==
            IF i = 0 THEN z ELSE AddAbsent(after[i - 1], rrs[i])
    IN after[Len(rrs)]

\* One IXFR difference sequence: old SOA, deletions, new SOA, additions.  The
\* primary sends each part in the order of its text, which abstracts to any
\* order; dels and adds are that order.
ApplyDelta(z, delta, dels, adds) ==
    IF z = ZoneFailed \/ z.soa # delta.from \/ ~SerialGreater(delta.to, delta.from)
    THEN ZoneFailed
    ELSE LET deleted == DeleteAll(z, dels)
         IN IF deleted = ZoneFailed THEN ZoneFailed
            ELSE AddAll([deleted EXCEPT !.soa = delta.to, !.soaRec = delta.to], adds)

\* Every result a delta and a chain can have, over the orders the parts may be
\* sent in.
ResultsOf(zs, delta) ==
    {ApplyDelta(z, delta, dels, adds) :
        z \in zs, dels \in SetToSeqs(delta.deleted), adds \in SetToSeqs(delta.added)}

ApplyChain(z, deltas) ==
    LET after[i \in 0 .. Len(deltas)] ==
            IF i = 0 THEN {z} ELSE ResultsOf(after[i - 1], deltas[i])
    IN after[Len(deltas)]

\* zoneFromAXFR: the SOA sent is z.SOA, and becomes both of the copy's SOAs.
FromAXFR(z) == [z EXCEPT !.soaRec = z.soa]

-----------------------------------------------------------------------------
(* The primary's side: what handleAXFR answers for its snapshot.           *)

\* Mutant: a secondary whose serial the journal has forgotten gets no answer.
answersFromJournal(n, z, mine) ==
    IF mine = NoZone THEN {FromAXFR(z)}
    ELSE IF HasChanges(journal[n], mine.soa, z.soa)
    THEN ApplyChain(mine, Changes(journal[n], mine.soa, z.soa))
    ELSE {IF z.soa = mine.soa THEN mine ELSE ZoneFailed}

\* When both forms exist the smaller one is sent; sizes are not modelled.
answers(n, z, mine) ==
    IF mine = NoZone THEN {FromAXFR(z)}
    ELSE IF ~SerialGreater(z.soa, mine.soa)
    THEN {IF z.soa = mine.soa THEN mine ELSE ZoneFailed}
    ELSE (IF HasChanges(journal[n], mine.soa, z.soa)
          THEN ApplyChain(mine, Changes(journal[n], mine.soa, z.soa)) ELSE {})
         \cup (IF AllowAXFRFallback THEN {FromAXFR(z)} ELSE {})

\* Zone lookup: an origin the primary does not serve is refused.
BeginTransfer(s) ==
    LET z == zones[ZoneOfSecondary[s]]
    IN /\ ~session[s].open
       /\ Present(z)
       /\ session' = [session EXCEPT ![s] = [open |-> TRUE, zone |-> z]]
       /\ UNCHANGED <<vars, copy, published>>

\* The journal is read now; the secondary validates the result and publishes it
\* if it has no zone yet or the serial advances.
FinishTransfer(s) ==
    LET z == session[s].zone
    IN /\ session[s].open
       /\ session' = [session EXCEPT ![s] = NoSession]
       /\ \E result \in answers(ZoneOfSecondary[s], z, copy[s]) :
            copy' = [copy EXCEPT ![s] =
                       IF /\ result # ZoneFailed /\ Validate(result)
                          /\ @ = NoZone \/ SerialGreater(result.soa, @.soa)
                       THEN result ELSE @]
       /\ UNCHANGED <<vars, published>>

\* Mutant: a stream that ends early is taken for the whole zone.
AbortPublishes(s) ==
    LET z == session[s].zone
        arrived == [FromAXFR(z) EXCEPT !.rrs = Restrict(@, {k \in DOMAIN @ : k[1] = Origin})]
    IN /\ session[s].open
       /\ session' = [session EXCEPT ![s] = NoSession]
       /\ copy' = [copy EXCEPT ![s] = arrived]
       /\ UNCHANGED <<vars, published>>

\* The connection breaks, or the primary answers NOTIMP.
AbortTransfer(s) ==
    /\ session[s].open
    /\ session' = [session EXCEPT ![s] = NoSession]
    /\ UNCHANGED <<vars, copy, published>>

-----------------------------------------------------------------------------

XInit ==
    /\ Init
    /\ copy = [s \in Secondaries |-> NoZone]
    /\ session = [s \in Secondaries |-> NoSession]
    /\ published = {Version(n, zones[n]) : n \in {m \in ZoneNames : Present(zones[m])}}

\* The operator's side of the bargain: zones are added by hand one at a time,
\* each with a serial no version of the zone published before has reached.
AdvancesSerial(image) ==
    /\ \A p \in Procs : pc[p] \notin {"add", "swap"}
    /\ \A v \in published : v.name = image.name => v.serial < image.zone.soa

PrimaryStep ==
    /\ \/ \E p \in Procs :
             \/ UpdateStep(p)
             \/ \E image \in Images : AdvancesSerial(image) /\ AddZone(p, image)
             \/ RecordZones(p) \/ PublishZones(p)
             \/ \E n \in ZoneNames : RemoveZone(p, n)
             \/ ResetJournal(p)
       \/ NewDay
    /\ published' = published \cup
          {Version(n, zones'[n]) : n \in {m \in ZoneNames : Present(zones'[m])}}
    /\ UNCHANGED <<copy, session>>

SecondaryStep(s) ==
    \/ BeginTransfer(s)
    \/ FinishTransfer(s)
    \/ AbortTransfer(s)

XNext == PrimaryStep \/ \E s \in Secondaries : SecondaryStep(s)

XSpec == XInit /\ [][XNext]_xvars

\* The versions the primary has published or is about to publish.
Known ==
    published \cup
        UNION {{Version(n, write[p].ups[n]) : n \in DOMAIN write[p].ups} :
                  p \in {q \in Procs : pc[q] \in {"publish", "swap"}}}

OneTTL(content) ==
    \A a, b \in content : a.owner = b.owner /\ a.type = b.type => a.ttl = b.ttl

\* What IXFR takes for granted: no serial stands for two contents of a zone, an
\* RRset has one TTL (RFC 2181) and lists no record twice.
Orderly ==
    /\ \A v \in Known : OneTTL(v.content) /\ v.distinct
    /\ \A v, w \in Known : v.name = w.name /\ v.serial = w.serial => v.content = w.content

-----------------------------------------------------------------------------

\* What a secondary serves is, record for record, a version the primary
\* published under that serial, however transfers, UPDATEs and zone
\* administration interleave (ixfr.go applyTransfer on axfr.go's answer).
CopyIsAPublishedVersion ==
    \A s \in Secondaries : copy[s] # NoZone =>
        \E v \in published : /\ v.name = ZoneOfSecondary[s]
                             /\ v.serial = copy[s].soa /\ v.content = recordSet(copy[s])

\* No transfer is in vain: whatever writers have done to the journal since the
\* primary took its snapshot, there is an answer where AXFR may be fallen back to,
\* and every answer it may send to a secondary that is behind applies without an
\* error and leads to exactly the snapshot (axfr.go falls back when the journal has
\* forgotten the secondary's serial; ixfr.go accepts no difference that does not fit).
EveryAnswerApplies ==
    \A s \in Secondaries :
        LET z == session[s].zone
            mine == copy[s]
        IN (session[s].open /\ (mine = NoZone \/ SerialGreater(z.soa, mine.soa)))
           => LET results == answers(ZoneOfSecondary[s], z, mine)
              IN /\ AllowAXFRFallback => results # {}
                 /\ \A r \in results : /\ r # ZoneFailed /\ Validate(r)
                                       /\ r.soa = z.soa /\ recordSet(r) = recordSet(z)
=============================================================================

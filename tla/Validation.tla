----------------------------- MODULE Validation -----------------------------
(***************************************************************************)
(* DNSSEC validation of a response, internal/dnssec/validator.go.          *)
(*                                                                         *)
(* A world w is what the validator is configured with and what its DNSKEY  *)
(* and DS lookups return:                                                  *)
(*   anchors      the trust anchors, in their order                        *)
(*   negative     names of negative trust anchors                          *)
(*   maxDepth     MaxChainDepth                                            *)
(*   failOnMissing                                                         *)
(*   disabled     keys of disabled algorithms                              *)
(*   keys         zone -> DNSKEY response: [set, sigs]                     *)
(*   ds           zone -> DS response: [set, sigs], set the keys digested  *)
(*   signing      the signatures on every signed RRset of the zone asked   *)
(* A zone missing from keys or ds is a failed lookup.  A signature is      *)
(* [key, fresh]; keys of one name have different tags, so a key is found   *)
(* by its tag alone, among those of the zone that signs: every signature   *)
(* names it (its parent for a DS) as SignerName.  Zones are absolute       *)
(* names, the root the empty one; the response and the name asked for are  *)
(* relative to the zone as in Answer.  NSEC3 is left out: no zone of the   *)
(* models uses it.                                                         *)
(***************************************************************************)
EXTENDS Answer

\* Verified by a usable signature of one of the keys.
verifyRRSetWithKeys(w, sigs, keys) ==
    \E s \in sigs : s.fresh /\ s.key \in keys \ w.disabled

extractDNSKEYs(w, zone) == w.keys[zone].set \ w.disabled

\* The signatures cover the whole key set: without its disabled keys none fits.
dnskeysVerify(w, zone, by) ==
    w.keys[zone].set \cap w.disabled = {} /\ verifyRRSetWithKeys(w, w.keys[zone].sigs, by)

\* The first anchor, in the order of the anchors, that is in the RRset.
matchingTrustAnchor(w, keys) ==
    LET present == SelectSeq(w.anchors, LAMBDA a : a \in keys)
    IN IF present = <<>> THEN {} ELSE {present[1]}

Root == <<>>
Broken == [status |-> "bogus", current |-> {}, depth |-> 0]

\* The authenticated root key set.
rootStep(w) ==
    IF \/ Root \notin DOMAIN w.keys
       \/ ~dnskeysVerify(w, Root, matchingTrustAnchor(w, extractDNSKEYs(w, Root)))
    THEN Broken
    ELSE [status |-> "secure", current |-> extractDNSKEYs(w, Root), depth |-> 1]

\* Mutant: the DS RRset is believed without a signature of the parent.
dsAuthenticatedBlindly(w, child, current) == TRUE
dsAuthenticated(w, child, current) == verifyRRSetWithKeys(w, w.ds[child].sigs, current)

matchDSKeys(w, child) == w.ds[child].set \cap extractDNSKEYs(w, child)

\* One zone further down: DS from the parent, keys of the child.
childStep(w, acc, child) ==
    IF acc.status # "secure" THEN acc
    ELSE IF acc.depth >= w.maxDepth \/ child \notin DOMAIN w.ds THEN Broken
    ELSE IF w.ds[child].set = {} THEN [Broken EXCEPT !.status = "insecure"]
    ELSE IF \/ ~dsAuthenticated(w, child, acc.current)
            \/ child \notin DOMAIN w.keys
            \/ ~dnskeysVerify(w, child, matchDSKeys(w, child))
    THEN Broken
    ELSE [status |-> "secure", current |-> extractDNSKEYs(w, child), depth |-> acc.depth + 1]

\* Every suffix of the signer's name, the shortest first, is taken for a zone.
PathTo(zone) == [i \in 1 .. Len(zone) |-> SubSeq(zone, Len(zone) + 1 - i, Len(zone))]
buildTrustChain(w, zone) ==
    FoldLeft(LAMBDA acc, child : childStep(w, acc, child), rootStep(w), PathTo(zone))

-----------------------------------------------------------------------------
(* Signatures in the response.                                             *)

hasDNSSECRecords(msg) ==
    \/ \E rr \in ToSet(msg.answer) : rr.type = "RRSIG"
    \/ \E rr \in ToSet(msg.ns) : rr.type \in {"RRSIG", "DS"}
hasAnswerData(msg) == \E rr \in ToSet(msg.answer) : rr.type # "RRSIG"
Negatively(msg) == msg.rcode = "NXDOMAIN" \/ (msg.rcode = "NOERROR" /\ ~hasAnswerData(msg))

HasRRSIG(section, owner, type) ==
    \E rr \in ToSet(section) : rr.type = "RRSIG" /\ rr.owner = owner /\ rr.data = <<type>>
extractSignaturesFor(w, msg, owner, type) ==
    IF HasRRSIG(msg.answer \o msg.ns, owner, type) THEN w.signing ELSE {}

\* Every signature on the RRset must hold.
verifySignatures(w, msg, qname, qtype, keys) ==
    /\ \E rr \in ToSet(msg.answer) : rr.type = qtype /\ rr.owner = qname
    /\ \A s \in w.signing : s.key \in keys \ w.disabled /\ s.fresh

-----------------------------------------------------------------------------
(* Denial of existence.  bitmap gives the types an NSEC lists.             *)

nsecCovers(nsec, name) ==
    name \notin {nsec.owner, nsec.data} /\ nsecIntervalContains(nsec.owner, nsec.data, name)

closestNSECEncloser(nsecs, qname) ==
    LET owners == {n.owner : n \in nsecs} \cap Suffixes(qname)
    IN {n \in owners : \A m \in owners : Len(m) <= Len(n)}

validateNSECProof(rcode, nsecs, bitmap, qname, qtype) ==
    IF rcode = "NOERROR"
    THEN \E n \in nsecs : n.owner = qname /\ {qtype, "CNAME"} \cap bitmap[qname] = {}
    ELSE /\ rcode = "NXDOMAIN"
         /\ \E n \in nsecs : nsecCovers(n, qname)
         /\ \E closest \in closestNSECEncloser(nsecs, qname) :
               \E n \in nsecs : nsecCovers(n, <<"*">> \o closest)

\* Every RRset of the authority section is signed, and the NSECs deny.
verifyNegativeResponse(w, msg, bitmap, qname, qtype, keys) ==
    LET sets == {<<rr.owner, rr.type>> : rr \in {rr \in ToSet(msg.ns) : rr.type # "RRSIG"}}
        nsecs == {rr \in ToSet(msg.ns) : rr.type = "NSEC"}
    IN /\ sets # {}
       /\ \A s \in sets : verifyRRSetWithKeys(w, extractSignaturesFor(w, msg, s[1], s[2]), keys)
       /\ nsecs # {}
       /\ validateNSECProof(msg.rcode, nsecs, bitmap, qname, qtype)

validateResponse(w, zone, msg, bitmap, qname, qtype) ==
    LET signed == IF Negatively(msg) THEN \E rr \in ToSet(msg.ns) : rr.type = "RRSIG"
                  ELSE HasRRSIG(msg.answer, qname, qtype)
        chain == buildTrustChain(w, zone)
    IN IF ~signed THEN "bogus"
       ELSE IF chain.status # "secure" THEN chain.status
       ELSE IF IF Negatively(msg) THEN verifyNegativeResponse(w, msg, bitmap, qname, qtype, chain.current)
               ELSE verifySignatures(w, msg, qname, qtype, chain.current)
       THEN "secure" ELSE "bogus"

isNegativeTrustAnchor(w, name) == \E n \in Suffixes(name) \ {Root} : n \in w.negative

ValidateMessage(w, zone, msg, bitmap, qname, qtype) ==
    IF isNegativeTrustAnchor(w, qname \o zone) THEN "insecure"
    ELSE IF w.anchors = <<>> THEN "indeterminate"
    ELSE IF ~hasDNSSECRecords(msg) THEN IF w.failOnMissing THEN "bogus" ELSE "insecure"
    ELSE validateResponse(w, zone, msg, bitmap, qname, qtype)
=============================================================================

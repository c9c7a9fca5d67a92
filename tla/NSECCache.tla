----------------------------- MODULE NSECCache ------------------------------
(***************************************************************************)
(* Validated NSEC records kept for RFC 8198 (internal/cache/nsec.go).      *)
(*                                                                         *)
(* The cache is a sequence of [owner, next, zone, expiresAt], one record   *)
(* per owner.  A name is the sequence of its labels, leaf first.  NSEC3    *)
(* records are left out: what they cover is decided by a hash.             *)
(***************************************************************************)
EXTENDS Integers, Sequences, FiniteSets, SequencesExt

CONSTANT LabelOrder     \* the labels in the order of their bytes

Rank(label) == CHOOSE i \in DOMAIN LabelOrder : LabelOrder[i] = label

\* RFC 4034 6.1: label by label from the root, a prefix first.
canonicalLess(a, b) ==
    LET x == Reverse(a)
        y == Reverse(b)
        common == IF Len(x) < Len(y) THEN Len(x) ELSE Len(y)
        differ == {i \in 1 .. common : x[i] # y[i]}
        first == CHOOSE i \in differ : \A j \in differ : i <= j
    IN IF differ = {} THEN Len(x) < Len(y) ELSE Rank(x[first]) < Rank(y[first])

\* A record of the same owner is replaced where it stands.
StoreNSEC(records, authority, zone, expiresAt) ==
    LET Add(acc, rr) ==
            LET rec == [owner |-> rr.owner, next |-> rr.data, zone |-> zone,
                        expiresAt |-> expiresAt]
                same == {i \in DOMAIN acc : acc[i].owner = rr.owner}
            IN IF same = {} THEN Append(acc, rec)
               ELSE [acc EXCEPT ![CHOOSE i \in same : TRUE] = rec]
    IN FoldLeft(Add, records, SelectSeq(authority, LAMBDA rr : rr.type = "NSEC"))

\* Mutant: the zone of the record is not compared.
CoversAnywhere(rec, name) ==
    /\ canonicalLess(rec.owner, name)
    /\ canonicalLess(name, rec.next) \/ canonicalLess(rec.next, rec.owner)

\* Strictly between owner and next, or after the last owner of the zone.
Covers(rec, name) ==
    /\ IsSuffix(rec.zone, name)
    /\ canonicalLess(rec.owner, name)
    /\ canonicalLess(name, rec.next) \/ canonicalLess(rec.next, rec.owner)

SynthesizeNXDOMAIN(records, name, now) ==
    \E i \in DOMAIN records : now <= records[i].expiresAt /\ Covers(records[i], name)
=============================================================================

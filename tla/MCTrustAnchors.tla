--------------------------- MODULE MCTrustAnchors ---------------------------
EXTENDS TrustAnchors, TLC
CONSTANTS k1, k2, k3
MCKeys == {k1, k2, k3}
MCBootstrap == {k1, k3}
MCTTLs == {0}
\* The old key is revoked, the others stay.
MCSettleable ==
    {[form |-> [k \in Keys |-> IF k = k1 THEN "revoked" ELSE "active"], sigs |-> Keys, ttl |-> 0]}
=============================================================================

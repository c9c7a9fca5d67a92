-------------------------------- MODULE Maps --------------------------------
(* Partial functions: the maps of the code, which grow entry by entry; and *)
(* the filtering of a slice.                                               *)
EXTENDS Integers, FiniteSets

\* The function with the single argument x.
At(x, v) == [y \in {x} |-> v]

\* f with the entries of g over its own.
Over(g, f) == [x \in DOMAIN g \cup DOMAIN f |-> IF x \in DOMAIN g THEN g[x] ELSE f[x]]

\* The elements of the sequence s at the given positions, in their order.
Picked(s, positions) ==
    [k \in 1 .. Cardinality(positions) |->
        s[CHOOSE i \in positions : Cardinality({j \in positions : j < i}) = k - 1]]
=============================================================================

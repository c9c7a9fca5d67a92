-------------------------- MODULE MCCatalogRuntime --------------------------
(* Two catalogs and two members, one of them wanted by both.               *)
EXTENDS CatalogRuntime

MCOrder == <<"c1", "c2">>
MCGroups == [c \in {"c1", "c2"} |-> IF c = "c1" THEN {"g"} ELSE {}]
MCAllowed == [c \in {"c1", "c2"} |-> {"m1", "m2", "op", "c1"}]
MCReserved == {"op", "c1", "c2"}

Ptr(l, z) == [label |-> l, zone |-> z]
RawOf(c, n, ptr, coo, group) ==
    [name |-> c, serial |-> n, version |-> <<"2">>, ptr |-> ptr,
     coo |-> {[label |-> p[1], target |-> p[2]] : p \in coo},
     group |-> {[label |-> p[1], name |-> p[2]] : p \in group}]

Both == {Ptr("a", "m1"), Ptr("b", "m2")}
One == {Ptr("a", "m1")}

MCRaws ==
    {RawOf("c1", 7, Both, {}, {}),
     RawOf("c1", 0, Both, {<<"a", "c2">>}, {<<"b", "g">>}),
     RawOf("c1", 0, {Ptr("n", "m1"), Ptr("b", "m2"), Ptr("o", "op")}, {}, {}),
     RawOf("c1", 1, {}, {}, {}),
     RawOf("c2", 7, One, {}, {}),
     RawOf("c2", 0, One, {<<"a", "c1">>}, {}),
     RawOf("c2", 0, {Ptr("a", "c1")}, {}, {}),
     RawOf("c2", 0, {Ptr("a", "m1"), Ptr("b", "m1")}, {}, {})}

MCLimit == [c \in {"c1", "c2"} |-> 3]
MCApprovalAbove == [c \in {"c1", "c2"} |-> IF c = "c1" THEN 1 ELSE 0]
MCApproved == [c \in {"c1", "c2"} |-> 7]
=============================================================================

---------------------------- MODULE MCZoneServer ----------------------------
(* Small instances of ZoneServer.                                          *)
EXTENDS ZoneServer

Addr(a) == <<a>>
External == <<"ns", "ext">>
Host == <<"a">>

Upd(class, owner, type, data) ==
    [class |-> class, owner |-> owner, type |-> type, data |-> data, ttl |-> 1]
Pre(class, owner, type, data) ==
    [class |-> class, owner |-> owner, type |-> type, data |-> data]
Msg(n, pre, upd) ==
    [zone |-> n, authorized |-> TRUE, contained |-> TRUE, prereqs |-> pre, updates |-> upd]

Base == (<<Origin, "NS">> :> <<[data |-> External, ttl |-> 1]>>)
WithHost(a) == Base @@ (<<Host, "A">> :> <<[data |-> Addr(a), ttl |-> 1]>>)
ZoneOf(serial, rrs) == [soa |-> serial, soaRec |-> serial, rrs |-> rrs]

AddHost(n, a) == Msg(n, <<>>, <<Upd("IN", Host, "A", Addr(a))>>)
AddHostOnce(n, a) ==
    Msg(n, <<Pre("NONE", Host, "ANY", <<>>)>>, <<Upd("IN", Host, "A", Addr(a))>>)
DropHost(n) == Msg(n, <<>>, <<Upd("ANY", Host, "ANY", <<>>)>>)
\* A new in-zone name server with its glue; the old one goes.
MoveNS(n) ==
    Msg(n, <<Pre("ANY", Host, "A", <<>>)>>,
        <<Upd("IN", Origin, "NS", Host), Upd("NONE", Origin, "NS", External)>>)
AddNS(n) == Msg(n, <<>>, <<Upd("IN", Origin, "NS", Host)>>)
DropNS(n) == Msg(n, <<>>, <<Upd("NONE", Origin, "NS", External)>>)

\* One persistent zone, two goroutines.
OneZone == {"z1"}
OneProcs == {"p1", "p2"}
OneFiles == [n \in OneZone |-> [serial |-> 2, rrs |-> Base]]
OneMessages ==
    {AddHost("z1", "1"), AddHostOnce("z1", "2"), DropHost("z1"),
     AddNS("z1"), DropNS("z1"),
     [AddHost("z1", "1") EXCEPT !.authorized = FALSE],
     [AddHost("z1", "1") EXCEPT !.contained = FALSE]}
OneImages ==
    {[name |-> "z1", zone |-> ZoneOf(1, WithHost("3"))],
     [name |-> "z1", zone |-> ZoneOf(9, WithHost("3"))],
     [name |-> "z1", zone |-> ZoneOf(9, [k \in {} |-> <<>>])]}

\* Two zones, so that a batch changes both.
TwoZones == {"z1", "z2"}
TwoFiles == [n \in TwoZones |-> IF n = "z1" THEN [serial |-> 2, rrs |-> Base] ELSE NoFile]
TwoMessages == {AddHost("z1", "1"), AddHost("z2", "1")}
TwoImages ==
    {[name |-> "z1", zone |-> ZoneOf(6, WithHost("3"))],
     [name |-> "z2", zone |-> ZoneOf(3, Base)],
     [name |-> "z2", zone |-> ZoneOf(5, WithHost("2"))]}
=============================================================================

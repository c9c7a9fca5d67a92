--------------------------- MODULE MCZoneTransfer ---------------------------
(* Small instances of ZoneTransfer: one zone, one secondary.               *)
EXTENDS ZoneTransfer

External == <<"ns", "ext">>
Host == <<"a">>
Upd(class, owner, type, data, ttl) ==
    [class |-> class, owner |-> owner, type |-> type, data |-> data, ttl |-> ttl]
Msg(upd) ==
    [zone |-> "z1", authorized |-> TRUE, contained |-> TRUE, prereqs |-> <<>>, updates |-> upd]

Base == (<<Origin, "NS">> :> <<[data |-> External, ttl |-> 1]>>)
WithHost(a) == Base @@ (<<Host, "A">> :> <<[data |-> <<a>>, ttl |-> 1]>>)
ZoneOf(serial, rrs) == [soa |-> serial, soaRec |-> serial, rrs |-> rrs]

XZones == {"z1"}
XZoneOf == [s \in {"s1"} |-> "z1"]
XFiles == [n \in XZones |-> [serial |-> 2, rrs |-> WithHost("0")]]
XImages == {[name |-> "z1", zone |-> ZoneOf(11, WithHost("3"))]}

DropAddresses == Msg(<<Upd("ANY", Host, "A", <<>>, 0)>>)
DropOne(a) == Msg(<<Upd("NONE", Host, "A", <<a>>, 0)>>)
AddAddress(a, ttl) == Msg(<<Upd("IN", Host, "A", <<a>>, ttl)>>)

SameTTL == {AddAddress("1", 1), AddAddress("2", 1), DropOne("1"), DropAddresses}
MixedTTL == {AddAddress("1", 2), DropAddresses}
=============================================================================

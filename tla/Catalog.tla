------------------------------- MODULE Catalog -------------------------------
(***************************************************************************)
(* RFC 9432 catalogs as internal/catalog reads and compares them.          *)
(*                                                                         *)
(* A raw catalog zone is what matters of its records: the version TXT RRs  *)
(* and, per member label, the PTR, coo and group records.  Parse makes a   *)
(* snapshot of it, Plan compares the accepted snapshots with the newest.   *)
(* Plan decides zone by zone: sorting its actions only fixes the order in  *)
(* which independent decisions are listed, so a plan is a set here.        *)
(***************************************************************************)
EXTENDS Integers, FiniteSets, Sequences

CONSTANTS
    SerialMod, \* serials are counted modulo this (2^32 in the code)
    Order,     \* configured catalogs by precedence, a sequence
    Groups,    \* [ToSet(Order) -> groups with transfer settings of their own]
    Allowed,   \* [ToSet(Order) -> member names the suffix lists admit]
    Reserved   \* operator-configured zones, the catalogs included

None == "none"
Sources == {Order[i] : i \in DOMAIN Order}

\* Catalogs are operator-configured zones too, and no name is empty.
ASSUME CatalogsAssumption ==
    /\ SerialMod \in Nat \ {0}
    /\ Order \in Seq(Sources)
    /\ Sources \subseteq Reserved
    /\ None \notin Sources

\* RFC 1982: a is ahead of b by less than half the range.
SerialGreater(a, b) == (a - b) % SerialMod \in 1 .. (SerialMod \div 2 - 1)

-----------------------------------------------------------------------------
(* Parse (catalog.go).                                                     *)

MemberLabels(raw) == {p.label : p \in raw.ptr}
CooOf(raw, l) == {c.target : c \in {d \in raw.coo : d.label = l}}
GroupOf(raw, l) == {g.name : g \in {h \in raw.group : h.label = l}}

\* One version TXT "2", one zone per label, one label per zone, at most one coo.
\* Properties of a label without PTR are orphans and ignored.
Parses(raw) ==
    /\ raw.version = <<"2">>
    /\ \A p, q \in raw.ptr : (p.label = q.label \/ p.zone = q.zone) => p = q
    /\ \A l \in MemberLabels(raw) : Cardinality(CooOf(raw, l)) <= 1

Parse(raw) ==
    [serial |-> raw.serial,
     members |->
       [z \in {p.zone : p \in raw.ptr} |->
          LET l == (CHOOSE p \in raw.ptr : p.zone = z).label
          IN [label |-> l,
              groups |-> GroupOf(raw, l),
              coo |-> IF CooOf(raw, l) = {} THEN None
                      ELSE CHOOSE c \in CooOf(raw, l) : TRUE]]]

-----------------------------------------------------------------------------
(* Checks of a set of snapshots (runtime.go).                              *)

Lists(cats, c, z) == c \in DOMAIN cats /\ z \in DOMAIN cats[c].members

validateMemberScope(c, snapshot, maxMembers) ==
    /\ Cardinality(DOMAIN snapshot.members) <= maxMembers
    /\ DOMAIN snapshot.members \cap Sources = {}
    /\ DOMAIN snapshot.members \subseteq Allowed[c]

\* Who hands z on to whom.
CooEdges(cats, z) ==
    {<<c, cats[c].members[z].coo>> :
       c \in {d \in DOMAIN cats : z \in DOMAIN cats[d].members
                                  /\ cats[d].members[z].coo \in Sources}}

\* No catalog hands a zone to itself and no chain of coo comes back: a walk along
\* the edges repeats a node exactly when some set of catalogs is closed under them.
validateCatalogGraph(cats) ==
    \A z \in UNION {DOMAIN cats[c].members : c \in DOMAIN cats} :
        LET edges == CooEdges(cats, z)
            starts == {e[1] : e \in edges}
        IN /\ \A c \in DOMAIN cats : z \in DOMAIN cats[c].members
                                        => cats[c].members[z].coo # c
           /\ \A S \in (SUBSET starts) \ {{}} :
                 \E e \in edges : e[1] \in S /\ e[2] \notin S

-----------------------------------------------------------------------------
(* Plan (planner.go).                                                      *)

Act(kind, z, c, l, reset) ==
    [kind |-> kind, zone |-> z, catalog |-> c, label |-> l, reset |-> reset]

\* coo is ignored on purpose: it changes who owns the member, not the member.
membersEqual(a, b) == a.label = b.label /\ a.groups = b.groups

\* Mutant: a catalog that lists an owned zone may take it.
HandsOnToAny(next, owner, z) ==
    {c \in DOMAIN next : z \in DOMAIN next[c].members /\ c # owner.catalog}

\* The catalog the owner hands z on to, while both list it.
HandsOn(next, owner, z) ==
    {c \in DOMAIN next :
       /\ Lists(next, owner.catalog, z)
       /\ next[owner.catalog].members[z].coo = c
       /\ z \in DOMAIN next[c].members
       /\ c # owner.catalog}

\* What happens to a zone some catalog owns.
PlanOwned(previous, next, owner, z) ==
    LET c == owner.catalog
        to == HandsOn(next, owner, z)
    IN IF to # {}
       THEN {Act("transfer", z, d, next[d].members[z].label,
                 owner.label # next[d].members[z].label) : d \in to}
       ELSE IF ~Lists(next, c, z) THEN {Act("remove", z, c, owner.label, FALSE)}
       ELSE LET m == next[c].members[z] IN
            IF owner.label # m.label THEN {Act("recreate", z, c, m.label, TRUE)}
            ELSE IF Lists(previous, c, z) /\ ~membersEqual(previous[c].members[z], m)
            THEN {Act("reconfigure", z, c, m.label, FALSE)}
            ELSE {}

\* Where in the precedence the catalogs that list z stand.
Claimants(next, z) == {i \in DOMAIN Order : Lists(next, Order[i], z)}

\* The first catalog gets an unowned zone, an operator's zone nobody does; the
\* other claimants are conflicts unless they hand the zone on to the winner.
PlanUnowned(next, z) ==
    LET claims == Claimants(next, z)
        first == CHOOSE i \in claims : \A j \in claims : i <= j
        winner == Order[first]
        Clash(is) == {Act("conflict", z, Order[i], None, FALSE) : i \in is}
    IN IF claims = {} THEN {}
       ELSE IF z \in Reserved THEN Clash(claims)
       ELSE {Act("add", z, winner, next[winner].members[z].label, FALSE)}
              \cup Clash({i \in claims \ {first} : next[Order[i]].members[z].coo # winner})

\* Catalogs that list a zone another catalog owns after the plan.  The owner of a
\* zone that is being removed still counts.
PlanClashes(next, owner, z) ==
    LET to == HandsOn(next, owner, z)
        holder == IF to = {} THEN owner.catalog ELSE CHOOSE c \in to : TRUE
    IN {Act("conflict", z, c, None, FALSE) :
          c \in {d \in DOMAIN next :
                   /\ Lists(next, d, z)
                   /\ d # holder
                   /\ ~(to # {} /\ d = owner.catalog)
                   /\ next[d].members[z].coo # holder}}

Plan(previous, next, ownership) ==
    LET listed == UNION {DOMAIN next[c].members : c \in DOMAIN next}
        owned == DOMAIN ownership
    IN (UNION {PlanOwned(previous, next, ownership[z], z)
                 \cup PlanClashes(next, ownership[z], z) : z \in owned})
       \cup (UNION {PlanUnowned(next, z) : z \in listed \ owned})

countDestructiveActions(plan) ==
    Cardinality({a \in plan : \/ a.kind \in {"remove", "recreate"}
                              \/ a.kind = "transfer" /\ a.reset})

\* Settings of the member's worker: those of the first group that has some.
\* Groups are sorted; with at most one configured group per member any will do.
memberConfig(c, member) ==
    LET own == member.groups \cap Groups[c]
    IN [catalog |-> c, group |-> IF own = {} THEN "default" ELSE CHOOSE g \in own : TRUE]
=============================================================================

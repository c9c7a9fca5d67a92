------------------------ MODULE CatalogRuntimeProofs ------------------------
(***************************************************************************)
(* Proofs about the catalog runtime, for any catalogs, members, limits and *)
(* budgets.                                                                *)
(*                                                                         *)
(* One reconciliation spans many steps, and between them the workers of    *)
(* the members publish.  The inductive invariant says what the steps of a  *)
(* reconciliation hand on to each other (Reconciling), relative to the     *)
(* accepted maps: those of before the commit until the store has taken     *)
(* the batch.                                                              *)
(***************************************************************************)
EXTENDS CatalogRuntime, FiniteSetTheorems, WellFoundedInduction, TLAPS

\* The maps the workers and the store follow.
Accepted == IF run.stage = "publish" THEN run.before ELSE maps

\* Settings the maps m give to the worker of z.
SettingsIn(catalogs, ownership, z) ==
    memberConfig(ownership[z].catalog, catalogs[ownership[z].catalog].members[z])

-----------------------------------------------------------------------------
(* Maps that can be accepted, written and loaded.                          *)

SnapshotsOK(catalogs) ==
    /\ DOMAIN catalogs \subseteq Sources
    /\ \A c \in DOMAIN catalogs :
          /\ catalogs[c].serial \in 0 .. SerialMod - 1
          /\ DOMAIN catalogs[c].members \subseteq Members \cup Reserved
          /\ validateMemberScope(c, catalogs[c], MaxMembers[c])
    /\ validateCatalogGraph(catalogs)

OwnersOK(catalogs, ownership) ==
    \A z \in DOMAIN ownership :
        /\ z \in Members
        /\ z \notin Reserved
        /\ Lists(catalogs, ownership[z].catalog, z)
        /\ catalogs[ownership[z].catalog].members[z].label = ownership[z].label

MapsOK(m) ==
    /\ m = [catalogs |-> m.catalogs, ownership |-> m.ownership, members |-> m.members]
    /\ m.members = [z \in DOMAIN m.members |-> m.members[z]]
    /\ DOMAIN m.members = DOMAIN m.ownership
    /\ SnapshotsOK(m.catalogs)
    /\ OwnersOK(m.catalogs, m.ownership)

-----------------------------------------------------------------------------
(* The inductive invariant.                                                *)

Types ==
    /\ opMu \in [Members -> {"free", "worker", "batch"}]
    /\ inbox \in [Sources -> Raws \cup {NoRaw}]
    /\ status \in [Sources -> [serial : Int, error : BOOLEAN, pending : Int]]
    /\ minute \in Nat /\ rollbacks \in Nat /\ boots \in Nat

\* A worker in the middle of a publication knows what it replaced.
Publishing(m) ==
    /\ m = [stage |-> m.stage, new |-> m.new, had |-> m.had]
    /\ m.stage \in {"persist", "undo"}
    /\ m.had # {}

MembersOK ==
    /\ member = [z \in Members |-> member[z]]
    /\ \A z \in Members : member[z] = Idle \/ (Publishing(member[z]) /\ z \in DOMAIN workers)

\* What the plan promises: the owners it settles are listed by the newest
\* catalogs, members it leaves alone keep owner and settings, and a member leaves
\* its owner only by coo or because the owner dropped it.
PlanKept(catalogs, ownership, next, final, changed, removed) ==
    /\ OwnersOK(next, final)
    /\ changed \subseteq Members
    /\ DOMAIN final = (DOMAIN ownership \cup changed) \ removed
    /\ \A z \in DOMAIN ownership \ changed :
          SettingsIn(next, final, z) = SettingsIn(catalogs, ownership, z)
    /\ \A z \in DOMAIN ownership :
          LET c == ownership[z].catalog
              there == IF z \in DOMAIN final THEN final[z].catalog ELSE None
          IN there # c =>
               IF Lists(next, c, z) THEN next[c].members[z].coo = there ELSE there = None

\* The newest snapshot of catalog c on top of the accepted ones.
NextKept(catalogs, next, c) ==
    /\ SnapshotsOK(next)
    /\ DOMAIN next = DOMAIN catalogs \cup {c}
    /\ \A d \in DOMAIN catalogs \ {c} : next[d] = catalogs[d]
    /\ c \in DOMAIN catalogs => SerialGreater(next[c].serial, catalogs[c].serial)

RunShape(r) ==
    r = [stage |-> r.stage, catalog |-> r.catalog, next |-> r.next,
         ownership |-> r.ownership, plan |-> r.plan, ups |-> r.ups, before |-> r.before]

\* What a reconciliation has settled when it began, ...
Reconciling ==
    run # NoRun =>
        /\ RunShape(run)
        /\ run.stage \in {"quiesce", "commit", "publish"}
        /\ run.catalog \in Sources
        /\ inbox[run.catalog] # NoRaw
        /\ IsFiniteSet(run.plan)
        /\ NextKept(Accepted.catalogs, run.next, run.catalog)
        /\ PlanKept(Accepted.catalogs, Accepted.ownership, run.next, run.ownership,
                    Changed, Removed)

\* ... when ApplyBatch has quiesced the workers and fetched the members, ...
Fetched ==
    run.stage \in {"commit", "publish"} =>
        /\ \A z \in Changed \cap DOMAIN workers : opMu[z] = "batch"
        /\ run.ups = [z \in DOMAIN run.ups |-> run.ups[z]]
        /\ DOMAIN run.ups \subseteq Changed \ Removed
        /\ Changed \ Removed \subseteq DOMAIN run.ups \cup DOMAIN served

\* ... and when the new maps are in force and in the file.
Committed ==
    run.stage = "publish" =>
        /\ MapsOK(run.before)
        /\ maps.catalogs = run.next
        /\ maps.ownership = run.ownership
        /\ file = maps

\* Workers and served zones are those of the accepted maps.
Following ==
    /\ DOMAIN workers = DOMAIN Accepted.ownership
    /\ DOMAIN served = DOMAIN Accepted.ownership
    /\ \A z \in DOMAIN workers :
          workers[z] = SettingsIn(Accepted.catalogs, Accepted.ownership, z)

\* The file is never behind the accepted catalogs nor those behind the status.
FileAhead ==
    \A c \in Sources :
        /\ c \in DOMAIN Accepted.catalogs =>
              /\ c \in DOMAIN file.catalogs
              /\ \/ file.catalogs[c].serial = Accepted.catalogs[c].serial
                 \/ SerialGreater(file.catalogs[c].serial, Accepted.catalogs[c].serial)
        /\ status[c].serial # NoSerial =>
              /\ c \in DOMAIN Accepted.catalogs
              /\ Accepted.catalogs[c].serial = status[c].serial

\* The version of z the store serves once the batch is published.
Target(z) == IF run.stage = "publish" /\ z \in DOMAIN run.ups THEN run.ups[z] ELSE served[z]

\* While no reconciliation was undone, the file is the maps, and the maps hold
\* what is served or, during a publication, what it replaced.
Recorded ==
    rollbacks = 0 =>
        /\ file = maps
        /\ \A z \in DOMAIN maps.ownership :
              IF member[z] = Idle THEN maps.members[z] = Target(z)
              ELSE served[z] = member[z].new /\ member[z].had = {maps.members[z]}

InFlight(c) == IF run # NoRun /\ run.catalog = c THEN Cardinality(run.plan) ELSE 0

Buckets == [tokens : 0 .. Burst, lastRefill : 0 .. minute]

\* The bucket b of a catalog covers s actions: with what it still holds they do not
\* exceed what was granted.
Covers(b, s) == s + b.tokens <= Burst + b.lastRefill * Rate

\* The actions committed and those under way are covered.
Ledger ==
    /\ budget \in [Sources -> Buckets]
    /\ spent \in [Sources -> Nat]
    /\ \A c \in Sources : Covers(budget[c], spent[c] + InFlight(c))

IInv ==
    /\ Types /\ MembersOK
    /\ MapsOK(maps) /\ MapsOK(file)
    /\ Reconciling /\ Fetched /\ Committed
    /\ LocksAreOwned
    /\ Following /\ FileAhead /\ Recorded /\ Ledger

-----------------------------------------------------------------------------
(* Facts about the maps and the operators on them.                         *)

\* The catalogs that claim a zone have a first one.
LEMMA LeastExists ==
  ASSUME NEW S \in SUBSET Nat, S # {}
  PROVE  \E i \in S : \A j \in S : i <= j
<1> DEFINE less == OpToRel(<, Nat)
<1>1. IsWellFoundedOn(less, Nat)
  BY NatLessThanWellFounded
<1> HIDE DEF less
<1>2. PICK i \in S : \A j \in S : <<j, i>> \notin less
  BY <1>1, WFMin
<1>3. \A m, n \in Nat : m < n => <<m, n>> \in less
  BY DEF less, OpToRel
<1>4. \A j \in S : i <= j
  <2> TAKE j \in S
  <2>1. i \in Nat /\ j \in Nat
    OBVIOUS
  <2>2. ~(j < i)
    BY <1>2, <1>3, <2>1
  <2> QED
    BY <2>1, <2>2
<1> QED
  BY <1>4

\* The file keeps every accepted map whole.
LEMMA WrittenWhole ==
  ASSUME NEW m, MapsOK(m)
  PROVE  persistLocked(m) = m /\ Loads(m)
<1>1. DOMAIN m.members \cap DOMAIN m.ownership = DOMAIN m.members
  BY DEF MapsOK
<1>2. persistLocked(m).members = m.members
  BY <1>1 DEF persistLocked, MapsOK
<1>3. persistLocked(m) = m
  BY <1>2 DEF persistLocked, MapsOK
<1>4. Loads(m)
  BY DEF Loads, MapsOK, SnapshotsOK, OwnersOK
<1> QED
  BY <1>3, <1>4

\* Of two serials at most one is ahead of the other.
LEMMA AheadOneWay ==
  ASSUME NEW a \in 0 .. SerialMod - 1, NEW b \in 0 .. SerialMod - 1,
         a = b \/ SerialGreater(b, a)
  PROVE  ~SerialGreater(a, b)
<1>1. SerialMod \in Nat \ {0}
  BY CatalogsAssumption
<1>2. CASE a = b
  <2>1. (a - b) % SerialMod = 0
    BY <1>1, <1>2, SMT
  <2> QED
    BY <2>1 DEF SerialGreater
<1>3. CASE a < b
  <2>1. (b - a) % SerialMod = b - a
    BY <1>1, <1>3, SMT
  <2>2. (a - b) % SerialMod = SerialMod - (b - a)
    BY <1>1, <1>3, SMT
  <2>3. b - a <= SerialMod \div 2 - 1
    BY <1>1, <1>3, <2>1 DEF SerialGreater
  <2>4. SerialMod \div 2 + SerialMod \div 2 <= SerialMod
    BY <1>1, SMT
  <2> QED
    BY <1>1, <1>3, <2>2, <2>3, <2>4 DEF SerialGreater
<1>4. CASE b < a
  <2>1. (a - b) % SerialMod = a - b
    BY <1>1, <1>4, SMT
  <2>2. (b - a) % SerialMod = SerialMod - (a - b)
    BY <1>1, <1>4, SMT
  <2>3. SerialMod - (a - b) <= SerialMod \div 2 - 1
    BY <1>1, <1>4, <2>2 DEF SerialGreater
  <2>4. SerialMod \div 2 + SerialMod \div 2 <= SerialMod
    BY <1>1, SMT
  <2> QED
    BY <1>1, <1>4, <2>1, <2>3, <2>4 DEF SerialGreater
<1> QED
  BY <1>1, <1>2, <1>3, <1>4

\* What is laid over a partial function wins.
LEMMA OverFacts ==
  ASSUME NEW f, NEW g
  PROVE  /\ DOMAIN Over(g, f) = DOMAIN g \cup DOMAIN f
         /\ \A x \in DOMAIN g : Over(g, f)[x] = g[x]
         /\ \A x \in DOMAIN f : x \notin DOMAIN g => Over(g, f)[x] = f[x]
  BY DEF Over

LEMMA OverIsFunction ==
  ASSUME NEW f, NEW g
  PROVE  Over(g, f) = [x \in DOMAIN Over(g, f) |-> Over(g, f)[x]]
  BY DEF Over

LEMMA ReplacedAt ==
  ASSUME NEW f, NEW g, NEW x, NEW v, g = Over(At(x, v), f), x \in DOMAIN f
  PROVE  /\ DOMAIN g = DOMAIN f
         /\ g[x] = v
         /\ \A y \in DOMAIN f : y # x => g[y] = f[y]
  BY DEF Over, At

LEMMA DropFacts ==
  ASSUME NEW f, NEW S
  PROVE  /\ DOMAIN Drop(f, S) = DOMAIN f \ S
         /\ \A x \in DOMAIN f : x \notin S => Drop(f, S)[x] = f[x]
  BY DEF Drop

-----------------------------------------------------------------------------
(* What Plan decides, zone by zone.                                        *)

Works(plan) == {a \in plan : a.kind # "conflict"}
Gone(plan) == {a.zone : a \in {b \in plan : b.kind = "remove"}}
Touched(plan) == {a.zone : a \in plan}

\* An unowned zone is added to one catalog that lists it, an operator's to none.
LEMMA UnownedIsAdded ==
  ASSUME NEW next, NEW z, NEW a \in Works(PlanUnowned(next, z))
  PROVE  /\ a.kind = "add" /\ a.zone = z /\ z \notin Reserved
         /\ a.catalog \in Sources
         /\ Lists(next, a.catalog, z)
         /\ a.label = next[a.catalog].members[z].label
         /\ Works(PlanUnowned(next, z)) = {a}
<1> DEFINE claims == Claimants(next, z)
           first == CHOOSE i \in claims : \A j \in claims : i <= j
           winner == Order[first]
           added == Act("add", z, winner, next[winner].members[z].label, FALSE)
           Clash(is) == {Act("conflict", z, Order[i], None, FALSE) : i \in is}
           others == {i \in claims \ {first} : next[Order[i]].members[z].coo # winner}
<1>1. \A is : \A b \in Clash(is) : b.kind = "conflict"
  BY DEF Act
<1>2. claims # {} /\ z \notin Reserved /\ PlanUnowned(next, z) = {added} \cup Clash(others)
  <2>1. PlanUnowned(next, z) = IF claims = {} THEN {}
                               ELSE IF z \in Reserved THEN Clash(claims)
                               ELSE {added} \cup Clash(others)
    BY DEF PlanUnowned
  <2> HIDE DEF claims, added, Clash, others
  <2> QED
    BY <1>1, <2>1 DEF Works
<1>3. first \in claims
  <2>1. claims \in SUBSET Nat
    BY CatalogsAssumption DEF Claimants
  <2>2. \E i \in claims : \A j \in claims : i <= j
    BY <1>2, <2>1, LeastExists
  <2> QED
    BY <2>2
<1>4. winner \in Sources /\ Lists(next, winner, z)
  BY <1>3 DEF Claimants, Sources
<1>5. a = added /\ Works(PlanUnowned(next, z)) = {a}
  <2>1. added.kind = "add"
    BY DEF Act
  <2> HIDE DEF added, Clash, others
  <2> QED
    BY <1>1, <1>2, <2>1 DEF Works
<1> HIDE DEF winner
<1>6. a.kind = "add" /\ a.zone = z /\ a.catalog = winner
      /\ a.label = next[winner].members[z].label
  BY <1>5 DEF Act
<1> QED
  BY <1>2, <1>4, <1>5, <1>6

\* A catalog hands a zone on to at most one other, which lists it.
LEMMA HandsOnToOne ==
  ASSUME NEW next, NEW owner, NEW z, NEW d \in HandsOn(next, owner, z)
  PROVE  /\ HandsOn(next, owner, z) = {d}
         /\ Lists(next, owner.catalog, z)
         /\ next[owner.catalog].members[z].coo = d
         /\ Lists(next, d, z)
         /\ d # owner.catalog
  BY DEF HandsOn, Lists

\* What may happen to an owned zone.
Owned(next, owner, z, a) ==
    \/ /\ a.kind = "transfer"
       /\ Lists(next, owner.catalog, z) /\ Lists(next, a.catalog, z)
       /\ next[owner.catalog].members[z].coo = a.catalog
       /\ a.label = next[a.catalog].members[z].label
    \/ a.kind = "remove" /\ ~Lists(next, owner.catalog, z)
    \/ /\ a.kind \in {"recreate", "reconfigure"}
       /\ Lists(next, owner.catalog, z)
       /\ a.catalog = owner.catalog
       /\ a.label = next[a.catalog].members[z].label

LEMMA OwnedIsDecided ==
  ASSUME NEW previous, NEW next, NEW owner, NEW z,
         NEW a \in PlanOwned(previous, next, owner, z)
  PROVE  /\ a.zone = z
         /\ Owned(next, owner, z, a)
         /\ PlanOwned(previous, next, owner, z) = {a}
<1> DEFINE c == owner.catalog
           to == HandsOn(next, owner, z)
           m == next[c].members[z]
           give(d) == Act("transfer", z, d, next[d].members[z].label,
                          owner.label # next[d].members[z].label)
           drop == Act("remove", z, c, owner.label, FALSE)
           again == Act("recreate", z, c, m.label, TRUE)
           other == Act("reconfigure", z, c, m.label, FALSE)
           plan == PlanOwned(previous, next, owner, z)
<1>1. plan = IF to # {} THEN {give(d) : d \in to}
             ELSE IF ~Lists(next, c, z) THEN {drop}
             ELSE IF owner.label # m.label THEN {again}
             ELSE IF Lists(previous, c, z) /\ ~membersEqual(previous[c].members[z], m)
             THEN {other} ELSE {}
  BY DEF PlanOwned
<1>2. CASE to # {}
  <2>1. PICK d \in to : TRUE
    BY <1>2
  <2>2. /\ to = {d} /\ Lists(next, c, z) /\ m.coo = d /\ Lists(next, d, z)
    BY <2>1, HandsOnToOne
  <2>3. plan = {give(d)} /\ a = give(d)
    <3> HIDE DEF to, give, drop, again, other
    <3> QED
      BY <1>1, <1>2, <2>2
  <2>4. a.kind = "transfer" /\ a.zone = z /\ a.catalog = d
        /\ a.label = next[d].members[z].label
    BY <2>3 DEF Act
  <2> QED
    BY <2>2, <2>3, <2>4 DEF Owned
<1>3. CASE to = {} /\ ~Lists(next, c, z)
  <2>1. plan = {drop} /\ a = drop
    <3> HIDE DEF to, give, drop, again, other
    <3> QED
      BY <1>1, <1>3
  <2>2. a.kind = "remove" /\ a.zone = z
    BY <2>1 DEF Act
  <2> QED
    BY <1>3, <2>1, <2>2 DEF Owned
<1>4. CASE to = {} /\ Lists(next, c, z)
  <2>1. plan = {a} /\ (a = again \/ a = other)
    <3> HIDE DEF to, give, drop, again, other
    <3> QED
      BY <1>1, <1>4
  <2>2. a.kind \in {"recreate", "reconfigure"} /\ a.zone = z /\ a.catalog = c
        /\ a.label = m.label
    BY <2>1 DEF Act
  <2> QED
    BY <1>4, <2>1, <2>2 DEF Owned
<1> QED
  BY <1>2, <1>3, <1>4

\* A zone the plan leaves alone is still listed as it was.
LEMMA LeftAloneIsListed ==
  ASSUME NEW previous, NEW next, NEW owner, NEW z,
         PlanOwned(previous, next, owner, z) = {}
  PROVE  /\ Lists(next, owner.catalog, z)
         /\ next[owner.catalog].members[z].label = owner.label
         /\ Lists(previous, owner.catalog, z) =>
              membersEqual(previous[owner.catalog].members[z], next[owner.catalog].members[z])
  BY DEF PlanOwned

\* A plan is made of what is decided for each zone.
LEMMA PlanMembers ==
  ASSUME NEW previous, NEW next, NEW ownership, NEW a
  PROVE  a \in Plan(previous, next, ownership) <=>
           \/ \E z \in DOMAIN ownership :
                 a \in PlanOwned(previous, next, ownership[z], z)
                         \cup PlanClashes(next, ownership[z], z)
           \/ \E z \in (UNION {DOMAIN next[c].members : c \in DOMAIN next}) \ DOMAIN ownership :
                 a \in PlanUnowned(next, z)
<1> DEFINE listed == UNION {DOMAIN next[c].members : c \in DOMAIN next}
           owned == DOMAIN ownership
           ofOwned(z) == PlanOwned(previous, next, ownership[z], z)
                           \cup PlanClashes(next, ownership[z], z)
           first == UNION {ofOwned(z) : z \in owned}
           second == UNION {PlanUnowned(next, z) : z \in listed \ owned}
<1>1. Plan(previous, next, ownership) = first \cup second
  BY DEF Plan
<1>2. a \in first <=> \E z \in owned : a \in ofOwned(z)
  <2> HIDE DEF ofOwned
  <2> QED
    OBVIOUS
<1>3. a \in second <=> \E z \in listed \ owned : a \in PlanUnowned(next, z)
  <2> HIDE DEF listed
  <2> QED
    OBVIOUS
<1> HIDE DEF first, second
<1> QED
  BY <1>1, <1>2, <1>3

\* The plan's work on a zone is what was decided for that zone.
LEMMA PlanByZone ==
  ASSUME NEW previous, NEW next, NEW ownership,
         NEW a \in Works(Plan(previous, next, ownership))
  PROVE  IF a.zone \in DOMAIN ownership
         THEN a \in PlanOwned(previous, next, ownership[a.zone], a.zone)
         ELSE /\ a \in Works(PlanUnowned(next, a.zone))
              /\ \E c \in DOMAIN next : a.zone \in DOMAIN next[c].members
<1> DEFINE listed == UNION {DOMAIN next[c].members : c \in DOMAIN next}
           owned == DOMAIN ownership
<1>1. a.kind # "conflict"
  BY DEF Works
<1>2. \A z : \A b \in PlanClashes(next, ownership[z], z) : b.kind = "conflict"
  BY DEF PlanClashes, Act
<1>3. \/ \E z \in owned : a \in PlanOwned(previous, next, ownership[z], z)
                                  \cup PlanClashes(next, ownership[z], z)
      \/ \E z \in listed \ owned : a \in PlanUnowned(next, z)
  BY PlanMembers DEF Works
<1>4. CASE \E z \in owned : a \in PlanOwned(previous, next, ownership[z], z)
                                    \cup PlanClashes(next, ownership[z], z)
  <2>1. PICK z \in owned : a \in PlanOwned(previous, next, ownership[z], z)
    BY <1>1, <1>2, <1>4
  <2>2. a.zone = z
    BY <2>1, OwnedIsDecided
  <2> QED
    BY <2>1, <2>2
<1>5. CASE \E z \in listed \ owned : a \in PlanUnowned(next, z)
  <2>1. PICK z \in listed \ owned : a \in PlanUnowned(next, z)
    BY <1>5
  <2>2. a \in Works(PlanUnowned(next, z))
    BY <1>1, <2>1 DEF Works
  <2>3. a.zone = z
    BY <2>2, UnownedIsAdded
  <2> QED
    BY <2>1, <2>2, <2>3
<1> QED
  BY <1>3, <1>4, <1>5

LEMMA OwnedInPlan ==
  ASSUME NEW previous, NEW next, NEW ownership, NEW z \in DOMAIN ownership,
         NEW a \in PlanOwned(previous, next, ownership[z], z)
  PROVE  a \in Works(Plan(previous, next, ownership)) /\ a.zone = z
<1>1. a \in Plan(previous, next, ownership)
  BY PlanMembers
<1>2. a.zone = z /\ Owned(next, ownership[z], z, a)
  BY OwnedIsDecided
<1>3. a.kind # "conflict"
  BY <1>2 DEF Owned
<1> QED
  BY <1>1, <1>2, <1>3 DEF Works

LEMMA OneWorkPerZone ==
  ASSUME NEW previous, NEW next, NEW ownership,
         NEW a \in Works(Plan(previous, next, ownership)),
         NEW b \in Works(Plan(previous, next, ownership)),
         a.zone = b.zone
  PROVE  a = b
<1>1. CASE a.zone \in DOMAIN ownership
  <2> DEFINE P == PlanOwned(previous, next, ownership[a.zone], a.zone)
  <2>1. a \in P /\ b \in P
    BY <1>1, PlanByZone
  <2>2. P = {a}
    BY <2>1, OwnedIsDecided
  <2> QED
    BY <2>1, <2>2
<1>2. CASE a.zone \notin DOMAIN ownership
  <2> DEFINE P == Works(PlanUnowned(next, a.zone))
  <2>1. a \in P /\ b \in P
    BY <1>2, PlanByZone
  <2>2. P = {a}
    BY <2>1, UnownedIsAdded
  <2> QED
    BY <2>1, <2>2
<1> QED
  BY <1>1, <1>2

\* A set of actions on members, one for each, is finite.
LEMMA PlanFinite ==
  ASSUME NEW W, Touched(W) \subseteq Members,
         \A a, b \in W : a.zone = b.zone => a = b
  PROVE  IsFiniteSet(W)
<1> DEFINE S == Touched(W)
           f == [z \in S |-> CHOOSE a \in W : a.zone = z]
<1>1. IsFiniteSet(S)
  BY RawsAssumption, FS_Subset
<1>2. \A z \in S : f[z] \in W /\ f[z].zone = z
  BY DEF Touched
<1>3. \A a \in W : a.zone \in S /\ f[a.zone] = a
  <2> TAKE a \in W
  <2>1. a.zone \in S
    BY DEF Touched
  <2> QED
    BY <1>2, <2>1
<1>4. f \in [S -> W]
  BY <1>2
<1> HIDE DEF f, S
<1>5. f \in Surjection(S, W)
  BY <1>3, <1>4 DEF Surjection
<1> QED
  BY <1>1, <1>5, FS_Surjection

\* What each zone's owner is once the plan is carried out.
LEMMA FinalByZone ==
  ASSUME NEW next, NEW plan, plan = Plan(maps.catalogs, next, maps.ownership)
  PROVE  LET final == FinalOwnership(plan)
             W == Works(plan)
         IN /\ DOMAIN final = (DOMAIN maps.ownership \cup Touched(W)) \ Gone(W)
            /\ \A z \in DOMAIN maps.ownership \ Touched(W) : final[z] = maps.ownership[z]
            /\ \A z \in DOMAIN maps.ownership \ Touched(W) :
                  PlanOwned(maps.catalogs, next, maps.ownership[z], z) = {}
            /\ \A a \in W : a.kind = "remove" => a.zone \in Gone(W)
            /\ \A a \in W : a.kind # "remove" =>
                  /\ a.zone \notin Gone(W)
                  /\ final[a.zone].catalog = a.catalog /\ final[a.zone].label = a.label
<1> DEFINE own == maps.ownership
           final == FinalOwnership(plan)
           W == Works(plan)
           changed == {a \in plan : a.kind \in {"add", "reconfigure", "recreate", "transfer"}}
<1>1. \A a \in W : a \in changed \/ a.kind = "remove"
  <2> TAKE a \in W
  <2>1. CASE a.zone \in DOMAIN own
    <3>1. Owned(next, own[a.zone], a.zone, a)
      BY <2>1, PlanByZone, OwnedIsDecided
    <3> QED
      BY <3>1 DEF Owned, Works
  <2>2. CASE a.zone \notin DOMAIN own
    <3>1. a.kind = "add"
      BY <2>2, PlanByZone, UnownedIsAdded
    <3> QED
      BY <3>1 DEF Works
  <2> QED
    BY <2>1, <2>2
<1>2. (DOMAIN own \cup Touched(W)) \ Gone(W) = (DOMAIN own \cup Touched(changed)) \ Gone(W)
  BY <1>1 DEF Touched, Gone, Works
<1>3. Gone(W) = Gone(plan)
  BY DEF Gone, Works
<1>4. /\ DOMAIN final = (DOMAIN own \cup Touched(changed)) \ Gone(plan)
      /\ \A z \in DOMAIN final :
            final[z] = IF \E a \in changed : a.zone = z
                       THEN LET a == CHOOSE b \in changed : b.zone = z
                            IN [catalog |-> a.catalog, label |-> a.label]
                       ELSE own[z]
  BY DEF FinalOwnership, Touched, Gone
<1>5. DOMAIN final = (DOMAIN own \cup Touched(W)) \ Gone(W)
  BY <1>2, <1>3, <1>4
<1>6. \A a, b \in W : a.zone = b.zone => a = b
  BY OneWorkPerZone
<1>7. changed \subseteq W
  BY DEF Works
<1>8. ASSUME NEW z \in DOMAIN own \ Touched(W)
      PROVE  final[z] = own[z] /\ PlanOwned(maps.catalogs, next, own[z], z) = {}
  <2>1. z \notin Gone(W) /\ ~\E a \in changed : a.zone = z
    BY <1>7, <1>8 DEF Touched, Gone
  <2>2. z \in DOMAIN final
    BY <1>5, <1>8, <2>1
  <2>3. final[z] = own[z]
    BY <1>4, <2>1, <2>2
  <2>4. \A a : a \notin PlanOwned(maps.catalogs, next, own[z], z)
    <3> SUFFICES ASSUME NEW a \in PlanOwned(maps.catalogs, next, own[z], z)
                 PROVE  FALSE
      OBVIOUS
    <3>1. a \in W /\ a.zone = z
      BY OwnedInPlan
    <3> QED
      BY <1>8, <3>1 DEF Touched
  <2> QED
    BY <2>3, <2>4
<1>9. ASSUME NEW a \in W
      PROVE  /\ a.kind = "remove" => a.zone \in Gone(W)
             /\ a.kind # "remove" =>
                  /\ a.zone \notin Gone(W)
                  /\ final[a.zone].catalog = a.catalog /\ final[a.zone].label = a.label
  <2>1. CASE a.kind = "remove"
    BY <2>1 DEF Gone
  <2>2. CASE a.kind # "remove"
    <3>1. a \in changed
      BY <1>1, <2>2
    <3>2. a.zone \notin Gone(W)
      BY <1>6, <2>2 DEF Gone
    <3>3. a.zone \in DOMAIN final
      BY <1>5, <3>2 DEF Touched
    <3>4. (CHOOSE b \in changed : b.zone = a.zone) = a
      BY <1>6, <1>7, <3>1
    <3>5. final[a.zone] = [catalog |-> a.catalog, label |-> a.label]
      <4> HIDE DEF changed, final
      <4> QED
        BY <1>4, <3>1, <3>3, <3>4
    <3> QED
      BY <2>2, <3>2, <3>5
  <2> QED
    BY <2>1, <2>2
<1> QED
  BY <1>5, <1>8, <1>9

\* Zones the plan works on are members, never an operator's.
LEMMA TouchedAreMembers ==
  ASSUME NEW previous, NEW next, NEW ownership,
         SnapshotsOK(next), OwnersOK(previous, ownership),
         NEW a \in Works(Plan(previous, next, ownership))
  PROVE  a.zone \in Members /\ a.zone \notin Reserved
<1>1. CASE a.zone \in DOMAIN ownership
  BY <1>1 DEF OwnersOK
<1>2. CASE a.zone \notin DOMAIN ownership
  <2>1. a \in Works(PlanUnowned(next, a.zone))
        /\ \E c \in DOMAIN next : a.zone \in DOMAIN next[c].members
    BY <1>2, PlanByZone
  <2>2. a.zone \notin Reserved
    BY <2>1, UnownedIsAdded
  <2> QED
    BY <2>1, <2>2 DEF SnapshotsOK
<1> QED
  BY <1>1, <1>2

\* The plan of a reconciliation keeps what it promises.
LEMMA PlanIsKept ==
  ASSUME NEW next, NEW plan,
         MapsOK(maps), SnapshotsOK(next),
         plan = Plan(maps.catalogs, next, maps.ownership)
  PROVE  /\ PlanKept(maps.catalogs, maps.ownership, next, FinalOwnership(plan),
                     Touched(Works(plan)), Gone(Works(plan)))
         /\ IsFiniteSet(Works(plan))
<1> DEFINE own == maps.ownership
           final == FinalOwnership(plan)
           W == Works(plan)
<1>1. OwnersOK(maps.catalogs, own)
  BY DEF MapsOK
<1>2. DOMAIN final = (DOMAIN own \cup Touched(W)) \ Gone(W)
  BY FinalByZone
<1>3. /\ \A z \in DOMAIN own \ Touched(W) : final[z] = own[z]
      /\ \A z \in DOMAIN own \ Touched(W) :
            PlanOwned(maps.catalogs, next, own[z], z) = {}
  BY FinalByZone
<1>4. /\ \A a \in W : a.kind = "remove" => a.zone \in Gone(W)
      /\ \A a \in W : a.kind # "remove" =>
            /\ a.zone \notin Gone(W)
            /\ final[a.zone].catalog = a.catalog /\ final[a.zone].label = a.label
  BY FinalByZone
<1>5. \A a \in W : a.zone \in Members /\ a.zone \notin Reserved
  BY <1>1, TouchedAreMembers
<1>6. \A a \in W : a.zone \in DOMAIN own => Owned(next, own[a.zone], a.zone, a)
  BY PlanByZone, OwnedIsDecided
<1>7. \A a \in W : a.zone \notin DOMAIN own =>
         a.kind = "add" /\ Lists(next, a.catalog, a.zone)
         /\ a.label = next[a.catalog].members[a.zone].label
  BY PlanByZone, UnownedIsAdded
<1>8. \A z \in DOMAIN own \ Touched(W) :
         /\ Lists(next, own[z].catalog, z)
         /\ next[own[z].catalog].members[z].label = own[z].label
         /\ membersEqual(maps.catalogs[own[z].catalog].members[z],
                         next[own[z].catalog].members[z])
  BY <1>1, <1>3, LeftAloneIsListed DEF OwnersOK
<1> HIDE DEF final, W
<1>9. OwnersOK(next, final)
  <2> SUFFICES ASSUME NEW z \in DOMAIN final
               PROVE  /\ z \in Members /\ z \notin Reserved
                      /\ Lists(next, final[z].catalog, z)
                      /\ next[final[z].catalog].members[z].label = final[z].label
    BY DEF OwnersOK
  <2>1. CASE z \in Touched(W)
    <3>1. PICK a \in W : a.zone = z
      BY <2>1 DEF Touched
    <3>2. a.kind # "remove"
      BY <1>2, <1>4, <3>1
    <3>3. final[z].catalog = a.catalog /\ final[z].label = a.label
      BY <1>4, <3>1, <3>2
    <3>4. Lists(next, a.catalog, z) /\ a.label = next[a.catalog].members[z].label
      BY <1>6, <1>7, <3>1, <3>2 DEF Owned
    <3> QED
      BY <1>5, <3>1, <3>3, <3>4
  <2>2. CASE z \notin Touched(W)
    <3>1. z \in DOMAIN own
      BY <1>2, <2>2
    <3>2. z \in Members /\ z \notin Reserved
      BY <1>1, <3>1 DEF OwnersOK
    <3> QED
      BY <1>3, <1>8, <2>2, <3>1, <3>2
  <2> QED
    BY <2>1, <2>2
<1>10. Touched(W) \subseteq Members
  BY <1>5 DEF Touched
<1>11. ASSUME NEW z \in DOMAIN own \ Touched(W)
       PROVE  SettingsIn(next, final, z) = SettingsIn(maps.catalogs, own, z)
  <2> DEFINE c == own[z].catalog
  <2>1. final[z].catalog = c
    BY <1>3, <1>11
  <2>2. maps.catalogs[c].members[z].groups = next[c].members[z].groups
    BY <1>8, <1>11 DEF membersEqual
  <2> QED
    BY <2>1, <2>2 DEF SettingsIn, memberConfig
<1>12. ASSUME NEW z \in DOMAIN own
       PROVE  LET c == own[z].catalog
                  there == IF z \in DOMAIN final THEN final[z].catalog ELSE None
              IN there # c =>
                   IF Lists(next, c, z) THEN next[c].members[z].coo = there
                   ELSE there = None
  <2> DEFINE c == own[z].catalog
             there == IF z \in DOMAIN final THEN final[z].catalog ELSE None
  <2>1. CASE z \notin Touched(W)
    <3>1. z \notin Gone(W)
      BY <2>1 DEF Touched, Gone
    <3>2. z \in DOMAIN final /\ final[z].catalog = c
      BY <1>2, <1>3, <2>1, <3>1
    <3> QED
      BY <3>2
  <2>2. CASE z \in Touched(W)
    <3>1. PICK a \in W : a.zone = z
      BY <2>2 DEF Touched
    <3>2. Owned(next, own[z], z, a)
      BY <1>6, <3>1
    <3>3. CASE a.kind = "remove"
      <4>1. z \notin DOMAIN final /\ ~Lists(next, c, z)
        BY <1>2, <1>4, <3>1, <3>2, <3>3 DEF Owned
      <4> QED
        BY <4>1
    <3>4. CASE a.kind # "remove"
      <4>1. z \in DOMAIN final /\ final[z].catalog = a.catalog
        BY <1>2, <1>4, <2>2, <3>1, <3>4
      <4>2. \/ Lists(next, c, z) /\ next[c].members[z].coo = a.catalog
            \/ a.catalog = c
        BY <3>2, <3>4 DEF Owned
      <4> QED
        BY <4>1, <4>2
    <3> QED
      BY <3>3, <3>4
  <2> QED
    BY <2>1, <2>2
<1>13. PlanKept(maps.catalogs, own, next, final, Touched(W), Gone(W))
  BY <1>2, <1>9, <1>10, <1>11, <1>12 DEF PlanKept
<1>14. IsFiniteSet(W)
  <2>1. \A a, b \in W : a.zone = b.zone => a = b
    BY OneWorkPerZone DEF W
  <2> QED
    BY <1>10, <2>1, PlanFinite
<1> QED
  BY <1>13, <1>14 DEF final, W

-----------------------------------------------------------------------------
(* The invariant holds initially and survives the steps that change little.*)

LEMMA EmptyMaps == MapsOK(NoMaps)
<1>1. DOMAIN <<>> = {}
  OBVIOUS
<1>2. SnapshotsOK(<<>>) /\ OwnersOK(<<>>, <<>>)
  BY <1>1 DEF SnapshotsOK, OwnersOK, validateCatalogGraph
<1>3. <<>> = [z \in DOMAIN <<>> |-> <<>>[z]]
  BY <1>1
<1> QED
  BY <1>1, <1>2, <1>3 DEF MapsOK, NoMaps

LEMMA InitOK == Init => IInv
<1> SUFFICES ASSUME Init PROVE IInv
  OBVIOUS
<1> USE DEF Init
<1>1. run = NoRun /\ Accepted = NoMaps
  BY DEF Accepted, NoRun
<1>2. DOMAIN <<>> = {}
  OBVIOUS
<1>3. Types
  BY CatalogsAssumption DEF Types, NoSerial, NoRaw
<1>4. MembersOK
  BY DEF MembersOK
<1>5. MapsOK(maps) /\ MapsOK(file)
  BY EmptyMaps
<1>6. Reconciling /\ Fetched /\ Committed
  BY <1>1 DEF Reconciling, Fetched, Committed, NoRun
<1>7. LocksAreOwned
  BY <1>1 DEF LocksAreOwned
<1>8. Following
  BY <1>1, <1>2 DEF Following, NoMaps
<1>9. FileAhead
  BY <1>1, <1>2 DEF FileAhead, NoMaps, NoSerial
<1>10. Recorded
  BY <1>2 DEF Recorded, NoMaps
<1>11. Ledger
  <2>1. budget \in [Sources -> Buckets] /\ spent \in [Sources -> Nat]
    BY BudgetAssumption DEF FreshBudget, Buckets
  <2>2. ASSUME NEW c \in Sources
        PROVE  Covers(budget[c], spent[c] + InFlight(c))
    <3>1. spent[c] = 0 /\ InFlight(c) = 0 /\ budget[c] = [tokens |-> Burst, lastRefill |-> 0]
      BY <1>1 DEF FreshBudget, InFlight
    <3>2. 0 * Rate = 0
      BY BudgetAssumption
    <3> QED
      BY <3>1, <3>2, BudgetAssumption DEF Covers
  <2> QED
    BY <2>1, <2>2 DEF Ledger
<1> QED
  BY <1>3, <1>4, <1>5, <1>6, <1>7, <1>8, <1>9, <1>10, <1>11 DEF IInv

\* Primaries advance and time passes without the runtime.
LEMMA QuietStep ==
  ASSUME IInv, UNCHANGED <<held, locks, budget, status, boots, history>>,
         minute' \in Nat, minute' >= minute
  PROVE  IInv'
<1> USE DEF IInv, held, locks, history
<1>1. Accepted' = Accepted /\ Changed' = Changed /\ Removed' = Removed
  BY DEF Accepted, Changed, Removed
<1>2. Types'
  BY DEF Types
<1>3. MembersOK'
  BY DEF MembersOK
<1>4. MapsOK(maps)' /\ MapsOK(file)'
  OBVIOUS
<1>5. Reconciling'
  BY <1>1 DEF Reconciling
<1>6. Fetched'
  BY <1>1 DEF Fetched
<1>7. Committed'
  BY DEF Committed
<1>8. LocksAreOwned'
  BY <1>1 DEF LocksAreOwned
<1>9. Following'
  BY <1>1 DEF Following
<1>10. FileAhead'
  BY <1>1 DEF FileAhead
<1>11. Recorded'
  BY DEF Recorded, Target
<1>12. Ledger'
  <2>1. Buckets \subseteq Buckets'
    BY DEF Types, Buckets
  <2>2. \A c \in Sources : InFlight(c)' = InFlight(c)
    BY DEF InFlight
  <2>3. budget \in [Sources -> Buckets']
    BY <2>1 DEF Ledger, Buckets, Covers
  <2> QED
    BY <2>2, <2>3 DEF Ledger, Covers
<1> QED
  BY <1>2, <1>3, <1>4, <1>5, <1>6, <1>7, <1>8, <1>9, <1>10, <1>11, <1>12

\* A raw catalog is never taken for the absence of one.
LEMMA RawIsNot ==
  ASSUME NEW raw \in Raws
  PROVE  raw # NoRaw
  BY RawsAssumption, CatalogsAssumption DEF NoRaw

\* A failure leaves the serial in a catalog's status alone.
LEMMA RejectedKeepsSerial ==
  ASSUME Types, NEW c \in Sources
  PROVE  /\ Rejected(c) \in [serial : Int, error : BOOLEAN, pending : Int]
         /\ Rejected(c).serial = status[c].serial
<1>1. status[c] \in [serial : Int, error : BOOLEAN, pending : Int]
  BY DEF Types
<1> QED
  BY <1>1 DEF Rejected

LEMMA NoteKeepsSerials ==
  ASSUME Types, NEW c \in Sources,
         NEW s \in [serial : Int, error : BOOLEAN, pending : Int],
         s.serial = status[c].serial, Note(c, s)
  PROVE  /\ status' \in [Sources -> [serial : Int, error : BOOLEAN, pending : Int]]
         /\ \A d \in Sources : status'[d].serial = status[d].serial
  BY DEF Types, Note

LEMMA ReceiveStep ==
  ASSUME IInv, NEW raw \in Raws, ReceiveCatalog(raw)
  PROVE  IInv'
<1> USE DEF IInv, ReceiveCatalog, held, history
<1>1. Accepted' = Accepted /\ Changed' = Changed /\ Removed' = Removed
  BY DEF Accepted, Changed, Removed
<1>2. \A c \in Sources : inbox[c] # NoRaw => inbox'[c] # NoRaw
  BY RawIsNot DEF Types
<1>3. /\ status' \in [Sources -> [serial : Int, error : BOOLEAN, pending : Int]]
      /\ \A c \in Sources : status'[c].serial = status[c].serial
  <2>1. CASE UNCHANGED status
    BY <2>1 DEF Types
  <2>2. CASE Note(raw.name, Rejected(raw.name))
    BY <2>2, RawsAssumption, RejectedKeepsSerial, NoteKeepsSerials
  <2> QED
    BY <2>1, <2>2
<1>4. Types'
  BY <1>3 DEF Types
<1>5. MembersOK'
  BY DEF MembersOK
<1>6. MapsOK(maps)' /\ MapsOK(file)'
  OBVIOUS
<1>7. Reconciling'
  BY <1>1, <1>2 DEF Reconciling
<1>8. Fetched'
  BY <1>1 DEF Fetched
<1>9. Committed'
  BY DEF Committed
<1>10. LocksAreOwned'
  BY <1>1, <1>2 DEF LocksAreOwned, Reconciling
<1>11. Following'
  BY <1>1 DEF Following
<1>12. FileAhead'
  BY <1>1, <1>3 DEF FileAhead
<1>13. Recorded'
  BY DEF Recorded, Target
<1>14. Ledger'
  <2>1. \A c \in Sources : InFlight(c)' = InFlight(c)
    BY DEF InFlight
  <2> QED
    BY <2>1 DEF Ledger, Buckets, Covers
<1> QED
  BY <1>4, <1>5, <1>6, <1>7, <1>8, <1>9, <1>10, <1>11, <1>12, <1>13, <1>14

-----------------------------------------------------------------------------
(* The workers of the members.                                             *)

LEMMA LockMemberStep ==
  ASSUME IInv, NEW z \in Members, LockMember(z)
  PROVE  IInv'
<1> USE DEF IInv, LockMember, held, history, counters
<1>1. Accepted' = Accepted /\ Changed' = Changed /\ Removed' = Removed
  BY DEF Accepted, Changed, Removed
<1>2. run # NoRun /\ run.stage = "quiesce"
  BY DEF NoRun
<1>3. Types'
  BY DEF Types
<1>4. MembersOK'
  BY DEF MembersOK
<1>5. MapsOK(maps)' /\ MapsOK(file)'
  OBVIOUS
<1>6. Reconciling'
  BY <1>1 DEF Reconciling
<1>7. Fetched' /\ Committed'
  BY <1>2 DEF Fetched, Committed
<1>8. LocksAreOwned'
  BY <1>1, <1>2 DEF LocksAreOwned, Types
<1>9. Following'
  BY <1>1 DEF Following
<1>10. FileAhead'
  BY <1>1 DEF FileAhead
<1>11. Recorded'
  BY DEF Recorded, Target
<1>12. Ledger'
  <2>1. \A c \in Sources : InFlight(c)' = InFlight(c)
    BY DEF InFlight
  <2> QED
    BY <2>1 DEF Ledger, Buckets, Covers
<1> QED
  BY <1>3, <1>4, <1>5, <1>6, <1>7, <1>8, <1>9, <1>10, <1>11, <1>12

LEMMA ChangedAreMembers ==
  ASSUME IInv, run.stage # "none"
  PROVE  Changed \subseteq Members
<1>1. run # NoRun
  BY DEF NoRun
<1> QED
  BY <1>1 DEF IInv, Reconciling, PlanKept

\* A worker that is not quiesced works on a member the batch leaves alone.
LEMMA BatchLeavesAlone ==
  ASSUME IInv, NEW z \in DOMAIN workers, opMu[z] # "batch"
  PROVE  /\ run.stage \in {"commit", "publish"} => z \notin Changed
         /\ Target(z) = served[z]
  BY DEF IInv, Fetched, Target

\* What is owned is served, or will be once the batch is published.
LEMMA OwnedHasTarget ==
  ASSUME IInv, NEW z \in DOMAIN maps.ownership
  PROVE  z \in DOMAIN served \/ (run.stage = "publish" /\ z \in DOMAIN run.ups)
<1>1. CASE run.stage # "publish"
  BY <1>1 DEF IInv, Following, Accepted
<1>2. CASE run.stage = "publish"
  <2>1. run # NoRun
    BY <1>2 DEF NoRun
  <2>2. DOMAIN maps.ownership = (DOMAIN Accepted.ownership \cup Changed) \ Removed
    BY <1>2, <2>1 DEF IInv, Reconciling, PlanKept, Committed
  <2>3. DOMAIN Accepted.ownership = DOMAIN served
    BY DEF IInv, Following
  <2>4. Changed \ Removed \subseteq DOMAIN run.ups \cup DOMAIN served
    BY <1>2 DEF IInv, Fetched
  <2> QED
    BY <1>2, <2>2, <2>3, <2>4
<1> QED
  BY <1>1, <1>2

LEMMA MemberPublishStep ==
  ASSUME IInv, NEW z \in Members, MemberPublish(z)
  PROVE  IInv'
<1> USE DEF IInv, MemberPublish, counters, history
<1>1. Accepted' = Accepted /\ Changed' = Changed /\ Removed' = Removed
  BY DEF Accepted, Changed, Removed
<1>2. z \in DOMAIN served /\ member[z] = Idle /\ Target(z) = served[z]
  BY BatchLeavesAlone DEF Following, LocksAreOwned
<1>3. /\ DOMAIN served' = DOMAIN served
      /\ served'[z] = primary[z]
      /\ \A x \in DOMAIN served : x # z => served'[x] = served[x]
  <2>1. served' = Over(At(z, primary[z]), served)
    OBVIOUS
  <2> QED
    BY <1>2, <2>1, ReplacedAt
<1>4. /\ member' = [x \in Members |-> member'[x]]
      /\ member'[z] = [stage |-> "persist", new |-> primary[z], had |-> {served[z]}]
      /\ \A x \in Members \ {z} : member'[x] = member[x]
  BY <1>2 DEF MembersOK
<1>5. member'[z] # Idle /\ Publishing(member'[z])
  BY <1>4 DEF Publishing, Idle
<1>6. Types'
  BY DEF Types
<1>7. MembersOK'
  BY <1>4, <1>5 DEF MembersOK
<1>8. MapsOK(maps)' /\ MapsOK(file)'
  OBVIOUS
<1>9. Reconciling'
  BY <1>1 DEF Reconciling
<1>10. Fetched'
  BY <1>1, <1>3 DEF Fetched, Types
<1>11. Committed'
  BY DEF Committed
<1>12. LocksAreOwned'
  BY <1>1, <1>4, <1>5 DEF LocksAreOwned, Types
<1>13. Following'
  BY <1>1, <1>3 DEF Following
<1>14. FileAhead'
  BY <1>1 DEF FileAhead
<1>15. Recorded'
  <2> SUFFICES ASSUME rollbacks = 0
               PROVE  /\ file = maps
                      /\ \A x \in DOMAIN maps.ownership :
                            IF member'[x] = Idle THEN maps.members[x] = Target(x)'
                            ELSE served'[x] = member'[x].new
                                 /\ member'[x].had = {maps.members[x]}
    BY DEF Recorded
  <2>1. file = maps
    BY DEF Recorded
  <2>2. ASSUME NEW x \in DOMAIN maps.ownership
        PROVE  IF member'[x] = Idle THEN maps.members[x] = Target(x)'
               ELSE served'[x] = member'[x].new /\ member'[x].had = {maps.members[x]}
    <3>0. x \in Members
      BY DEF MapsOK, OwnersOK
    <3>1. CASE x = z
      <4>1. maps.members[z] = served[z]
        BY <1>2, <3>1 DEF Recorded
      <4> QED
        BY <1>3, <1>4, <1>5, <3>1, <4>1
    <3>2. CASE x # z
      <4>1. member'[x] = member[x]
        BY <1>4, <3>0, <3>2
      <4>2. Target(x)' = Target(x)
        BY <1>3, <3>2, OwnedHasTarget DEF Target
      <4>3. member[x] # Idle => served'[x] = served[x]
        BY <1>3, <3>0, <3>2 DEF MembersOK, Following
      <4> QED
        BY <4>1, <4>2, <4>3 DEF Recorded
    <3> QED
      BY <3>1, <3>2
  <2> QED
    BY <2>1, <2>2
<1>16. Ledger'
  <2>1. \A c \in Sources : InFlight(c)' = InFlight(c)
    BY DEF InFlight
  <2> QED
    BY <2>1 DEF Ledger, Buckets, Covers
<1> QED
  BY <1>6, <1>7, <1>8, <1>9, <1>10, <1>11, <1>12, <1>13, <1>14, <1>15, <1>16

\* A worker that is through its publication is idle and free.
LEMMA DoneFacts ==
  ASSUME IInv, NEW z \in Members, MemberDone(z)
  PROVE  /\ member' = [x \in Members |-> member'[x]]
         /\ member'[z] = Idle /\ opMu'[z] = "free"
         /\ \A x \in Members : x # z => member'[x] = member[x] /\ opMu'[x] = opMu[x]
         /\ opMu' \in [Members -> {"free", "worker", "batch"}]
  BY DEF IInv, MemberDone, Types, MembersOK

\* What a busy worker knows.
LEMMA BusyFacts ==
  ASSUME IInv, NEW z \in Members, member[z].stage # "idle"
  PROVE  /\ member[z] # Idle /\ Publishing(member[z])
         /\ z \in DOMAIN workers /\ z \in DOMAIN served
         /\ opMu[z] = "worker"
         /\ Target(z) = served[z]
         /\ rollbacks = 0 /\ z \in DOMAIN maps.ownership =>
              served[z] = member[z].new /\ member[z].had = {maps.members[z]}
<1>1. member[z] # Idle
  BY DEF Idle
<1>2. Publishing(member[z]) /\ z \in DOMAIN workers
  BY <1>1 DEF IInv, MembersOK
<1>3. opMu[z] = "worker"
  BY <1>1 DEF IInv, LocksAreOwned
<1>4. z \in DOMAIN served
  BY <1>2 DEF IInv, Following
<1>5. Target(z) = served[z]
  BY <1>2, <1>3, BatchLeavesAlone
<1>6. rollbacks = 0 /\ z \in DOMAIN maps.ownership =>
        served[z] = member[z].new /\ member[z].had = {maps.members[z]}
  BY <1>1 DEF IInv, Recorded
<1> QED
  BY <1>1, <1>2, <1>3, <1>4, <1>5, <1>6

\* The new data of a member that is owned replaces the old in the maps.
LEMMA MemberRecorded ==
  ASSUME MapsOK(maps), NEW z, NEW v,
         NEW next,
         z \in DOMAIN maps.ownership =>
           next = [maps EXCEPT !.members = Over(At(z, v), maps.members)],
         z \notin DOMAIN maps.ownership => next = maps
  PROVE  /\ MapsOK(next)
         /\ next.catalogs = maps.catalogs /\ next.ownership = maps.ownership
         /\ z \in DOMAIN maps.ownership => next.members[z] = v
         /\ \A x \in DOMAIN maps.ownership : x # z => next.members[x] = maps.members[x]
<1>1. CASE z \in DOMAIN maps.ownership
  <2> DEFINE new == Over(At(z, v), maps.members)
  <2>1. next = [catalogs |-> maps.catalogs, ownership |-> maps.ownership, members |-> new]
    <3> HIDE DEF new
    <3>1. next = [maps EXCEPT !.members = new]
      BY <1>1 DEF new
    <3> QED
      BY <3>1 DEF MapsOK
  <2>2. /\ DOMAIN new = DOMAIN maps.members
        /\ new[z] = v
        /\ \A x \in DOMAIN maps.members : x # z => new[x] = maps.members[x]
    BY <1>1, ReplacedAt DEF MapsOK
  <2>3. new = [x \in DOMAIN new |-> new[x]]
    BY OverIsFunction
  <2> HIDE DEF new
  <2>4. next.catalogs = maps.catalogs /\ next.ownership = maps.ownership
        /\ next.members = new
    BY <2>1
  <2>5. DOMAIN maps.members = DOMAIN maps.ownership
    BY DEF MapsOK
  <2>6. MapsOK(next)
    BY <2>1, <2>2, <2>3, <2>4, <2>5 DEF MapsOK
  <2> QED
    BY <2>2, <2>4, <2>5, <2>6
<1>2. CASE z \notin DOMAIN maps.ownership
  BY <1>2
<1> QED
  BY <1>1, <1>2

LEMMA MemberPersistStep ==
  ASSUME IInv, NEW z \in Members, MemberPersist(z)
  PROVE  IInv'
<1> DEFINE v == member[z].new
           next == IF z \in DOMAIN maps.ownership
                   THEN [maps EXCEPT !.members = Over(At(z, v), @)]
                   ELSE maps
<1>1. /\ member[z].stage = "persist"
      /\ UNCHANGED <<served, workers, inbox, run, budget, status, minute, boots, spent, rollbacks>>
      /\ \/ maps' = next /\ file' = persistLocked(next) /\ MemberDone(z)
         \/ /\ member' = [member EXCEPT ![z].stage = "undo"]
            /\ UNCHANGED <<maps, file, opMu>>
  BY DEF MemberPersist, counters, history
<1>2. member[z].stage # "idle"
  BY <1>1
<1>3. Changed' = Changed /\ Removed' = Removed
  BY <1>1 DEF Changed, Removed
<1>4. Ledger'
  <2>1. \A c \in Sources : InFlight(c)' = InFlight(c)
    BY <1>1 DEF InFlight
  <2> QED
    BY <1>1, <2>1 DEF IInv, Ledger, Buckets, Covers
<1>5. CASE maps' = next /\ file' = persistLocked(next) /\ MemberDone(z)
  <2>1. MapsOK(maps)
    BY DEF IInv
  <2>2. /\ MapsOK(next)
        /\ next.catalogs = maps.catalogs /\ next.ownership = maps.ownership
        /\ z \in DOMAIN maps.ownership => next.members[z] = v
        /\ \A x \in DOMAIN maps.ownership : x # z => next.members[x] = maps.members[x]
    <3>1. /\ z \in DOMAIN maps.ownership =>
                next = [maps EXCEPT !.members = Over(At(z, v), maps.members)]
          /\ z \notin DOMAIN maps.ownership => next = maps
      OBVIOUS
    <3> HIDE DEF next, v
    <3> QED
      BY <2>1, <3>1, MemberRecorded
  <2> HIDE DEF next
  <2>3. file' = next /\ maps' = next
    BY <1>5, <2>2, WrittenWhole
  <2>4. /\ member' = [x \in Members |-> member'[x]]
        /\ member'[z] = Idle /\ opMu'[z] = "free"
        /\ \A x \in Members : x # z => member'[x] = member[x] /\ opMu'[x] = opMu[x]
        /\ opMu' \in [Members -> {"free", "worker", "batch"}]
    BY <1>5, DoneFacts
  <2>5. /\ Accepted.catalogs' = Accepted.catalogs
        /\ Accepted.ownership' = Accepted.ownership
    BY <1>1, <2>2, <2>3 DEF Accepted
  <2>6. opMu[z] = "worker"
    BY <1>2, BusyFacts
  <2>7. Types'
    BY <1>1, <2>4 DEF IInv, Types
  <2>8. MembersOK'
    BY <1>1, <2>4 DEF IInv, MembersOK
  <2>9. MapsOK(maps)' /\ MapsOK(file)'
    BY <2>2, <2>3
  <2>10. Reconciling'
    BY <1>1, <1>3, <2>5 DEF IInv, Reconciling
  <2>11. Fetched'
    BY <1>1, <1>3, <2>4, <2>6, ChangedAreMembers DEF IInv, Fetched
  <2>12. Committed'
    BY <1>1, <2>2, <2>3 DEF IInv, Committed
  <2>13. LocksAreOwned'
    BY <1>1, <1>3, <2>4 DEF IInv, LocksAreOwned
  <2>14. Following'
    BY <1>1, <2>5 DEF IInv, Following
  <2>15. FileAhead'
    <3>1. CASE run.stage = "publish"
      <4>1. file'.catalogs = file.catalogs
        BY <2>2, <2>3, <3>1 DEF IInv, Committed
      <4> QED
        BY <1>1, <2>5, <4>1 DEF IInv, FileAhead
    <3>2. CASE run.stage # "publish"
      <4>1. file'.catalogs = Accepted.catalogs
        BY <2>2, <2>3, <3>2 DEF Accepted
      <4> QED
        BY <1>1, <2>5, <4>1 DEF IInv, FileAhead
    <3> QED
      BY <3>1, <3>2
  <2>16. Recorded'
    <3> SUFFICES ASSUME rollbacks = 0, NEW x \in DOMAIN next.ownership
                 PROVE  IF member'[x] = Idle THEN next.members[x] = Target(x)'
                        ELSE served'[x] = member'[x].new
                             /\ member'[x].had = {next.members[x]}
      BY <1>1, <2>3 DEF Recorded
    <3>1. x \in Members /\ x \in DOMAIN maps.ownership
      BY <2>2 DEF MapsOK, OwnersOK
    <3>2. Target(x)' = Target(x)
      BY <1>1 DEF Target
    <3>3. CASE x = z
      BY <1>2, <2>2, <2>4, <3>1, <3>2, <3>3, BusyFacts
    <3>4. CASE x # z
      <4>1. next.members[x] = maps.members[x] /\ member'[x] = member[x]
        BY <2>2, <2>4, <3>1, <3>4
      <4> QED
        BY <1>1, <3>1, <3>2, <4>1 DEF IInv, Recorded
    <3> QED
      BY <3>3, <3>4
  <2> QED
    BY <1>4, <2>7, <2>8, <2>9, <2>10, <2>11, <2>12, <2>13, <2>14, <2>15, <2>16 DEF IInv
<1>6. CASE member' = [member EXCEPT ![z].stage = "undo"] /\ UNCHANGED <<maps, file, opMu>>
  <2>1. Publishing(member[z]) /\ z \in DOMAIN workers
    BY <1>2, BusyFacts
  <2>2. /\ member' = [x \in Members |-> member'[x]]
        /\ \A x \in Members : x # z => member'[x] = member[x]
        /\ member'[z] = [member[z] EXCEPT !.stage = "undo"]
    BY <1>6 DEF IInv, MembersOK
  <2>3. member'[z] = [stage |-> "undo", new |-> v, had |-> member[z].had]
    BY <2>1, <2>2 DEF Publishing
  <2>4. member[z] # Idle /\ member'[z] # Idle /\ Publishing(member'[z])
    BY <1>1, <2>1, <2>3 DEF Publishing, Idle
  <2>5. Accepted' = Accepted
    BY <1>1, <1>6 DEF Accepted
  <2>6. Types'
    BY <1>1, <1>6 DEF IInv, Types
  <2>7. MembersOK'
    BY <1>1, <2>1, <2>2, <2>4 DEF IInv, MembersOK
  <2>8. MapsOK(maps)' /\ MapsOK(file)'
    BY <1>6 DEF IInv
  <2>9. Reconciling'
    BY <1>1, <1>3, <2>5 DEF IInv, Reconciling
  <2>10. Fetched' /\ Committed'
    BY <1>1, <1>3, <1>6 DEF IInv, Fetched, Committed
  <2>11. LocksAreOwned'
    BY <1>1, <1>3, <1>6, <2>2, <2>4 DEF IInv, LocksAreOwned
  <2>12. Following' /\ FileAhead'
    BY <1>1, <1>6, <2>5 DEF IInv, Following, FileAhead
  <2>13. Recorded'
    <3> SUFFICES ASSUME rollbacks = 0, NEW x \in DOMAIN maps.ownership
                 PROVE  IF member'[x] = Idle THEN maps.members[x] = Target(x)'
                        ELSE served'[x] = member'[x].new
                             /\ member'[x].had = {maps.members[x]}
      BY <1>1, <1>6 DEF IInv, Recorded
    <3>1. x \in Members
      BY DEF IInv, MapsOK, OwnersOK
    <3>2. Target(x)' = Target(x)
      BY <1>1 DEF Target
    <3>3. CASE x = z
      BY <1>1, <1>2, <2>3, <2>4, <3>3, BusyFacts
    <3>4. CASE x # z
      BY <1>1, <2>2, <3>1, <3>2, <3>4 DEF IInv, Recorded
    <3> QED
      BY <3>3, <3>4
  <2> QED
    BY <1>4, <2>6, <2>7, <2>8, <2>9, <2>10, <2>11, <2>12, <2>13 DEF IInv
<1> QED
  BY <1>1, <1>5, <1>6

LEMMA MemberUndoStep ==
  ASSUME IInv, NEW z \in Members, MemberUndo(z)
  PROVE  IInv'
<1>1. /\ member[z].stage = "undo"
      /\ served' = IF member[z].had = {} THEN Drop(served, {z})
                   ELSE [served EXCEPT ![z] = CHOOSE v \in member[z].had : TRUE]
      /\ MemberDone(z)
      /\ UNCHANGED <<maps, file, workers, inbox, run, budget, status, minute, boots,
                     spent, rollbacks>>
  BY DEF MemberUndo, counters, history
<1>2. /\ Publishing(member[z]) /\ z \in DOMAIN served /\ opMu[z] = "worker"
      /\ Target(z) = served[z] /\ z \in DOMAIN workers
      /\ rollbacks = 0 /\ z \in DOMAIN maps.ownership => member[z].had = {maps.members[z]}
  BY <1>1, BusyFacts
<1>3. /\ DOMAIN served' = DOMAIN served
      /\ served'[z] \in member[z].had
      /\ \A x \in DOMAIN served : x # z => served'[x] = served[x]
  BY <1>1, <1>2 DEF Publishing
<1>4. /\ member' = [x \in Members |-> member'[x]]
      /\ member'[z] = Idle /\ opMu'[z] = "free"
      /\ \A x \in Members : x # z => member'[x] = member[x] /\ opMu'[x] = opMu[x]
      /\ opMu' \in [Members -> {"free", "worker", "batch"}]
  BY <1>1, DoneFacts
<1>5. Accepted' = Accepted /\ Changed' = Changed /\ Removed' = Removed
  BY <1>1 DEF Accepted, Changed, Removed
<1>6. Types'
  BY <1>1, <1>4 DEF IInv, Types
<1>7. MembersOK'
  BY <1>1, <1>4 DEF IInv, MembersOK
<1>8. MapsOK(maps)' /\ MapsOK(file)'
  BY <1>1 DEF IInv
<1>9. Reconciling'
  BY <1>1, <1>5 DEF IInv, Reconciling
<1>10. Fetched'
  BY <1>1, <1>2, <1>3, <1>4, <1>5, ChangedAreMembers DEF IInv, Fetched
<1>11. Committed'
  BY <1>1 DEF IInv, Committed
<1>12. LocksAreOwned'
  BY <1>1, <1>4, <1>5 DEF IInv, LocksAreOwned
<1>13. Following' /\ FileAhead'
  BY <1>1, <1>3, <1>5 DEF IInv, Following, FileAhead
<1>14. Recorded'
  <2> SUFFICES ASSUME rollbacks = 0, NEW x \in DOMAIN maps.ownership
               PROVE  IF member'[x] = Idle THEN maps.members[x] = Target(x)'
                      ELSE served'[x] = member'[x].new
                           /\ member'[x].had = {maps.members[x]}
    BY <1>1 DEF IInv, Recorded
  <2>1. x \in Members
    BY DEF IInv, MapsOK, OwnersOK
  <2>2. CASE x = z
    <3>1. served'[x] = maps.members[x]
      BY <1>2, <1>3, <2>2
    <3>2. Target(x)' = served'[x]
      <4>1. ~(run.stage = "publish" /\ z \in DOMAIN run.ups)
        BY <1>2, BatchLeavesAlone DEF IInv, Fetched
      <4> QED
        BY <1>1, <2>2, <4>1 DEF Target
    <3> QED
      BY <1>4, <2>2, <3>1, <3>2
  <2>3. CASE x # z
    <3>1. Target(x)' = Target(x)
      BY <1>1, <1>3, <2>3, OwnedHasTarget DEF Target
    <3>2. member[x] # Idle => served'[x] = served[x]
      BY <1>3, <2>1, <2>3 DEF IInv, MembersOK, Following
    <3> QED
      BY <1>1, <1>4, <2>1, <2>3, <3>1, <3>2 DEF IInv, Recorded
  <2> QED
    BY <2>2, <2>3
<1>15. Ledger'
  <2>1. \A c \in Sources : InFlight(c)' = InFlight(c)
    BY <1>1 DEF InFlight
  <2> QED
    BY <1>1, <2>1 DEF IInv, Ledger, Buckets, Covers
<1> QED
  BY <1>6, <1>7, <1>8, <1>9, <1>10, <1>11, <1>12, <1>13, <1>14, <1>15 DEF IInv

-----------------------------------------------------------------------------
(* The budget of a catalog.                                                *)

\* Refilling grants what the minutes since the last look are worth.
LEMMA RefillCovers ==
  ASSUME minute \in Nat, NEW b \in Buckets, NEW s \in Nat, Covers(b, s)
  PROVE  Refilled(b) \in Buckets /\ Covers(Refilled(b), s)
<1>1. /\ b.tokens \in 0 .. Burst /\ b.lastRefill \in 0 .. minute
      /\ Burst \in Nat /\ Rate \in Nat
  BY BudgetAssumption DEF Buckets
<1>2. CASE minute = b.lastRefill
  BY <1>2 DEF Refilled
<1>3. CASE minute # b.lastRefill
  <2> DEFINE grant == (minute - b.lastRefill) * Rate
             t == b.tokens + grant
             new == IF t > Burst THEN Burst ELSE t
  <2>1. /\ grant \in Nat
        /\ minute * Rate = b.lastRefill * Rate + grant
        /\ minute * Rate \in Nat /\ b.lastRefill * Rate \in Nat
    BY <1>1, SMT
  <2>2. Refilled(b) = [tokens |-> new, lastRefill |-> minute]
    BY <1>3 DEF Refilled
  <2> HIDE DEF grant
  <2>3. new \in 0 .. Burst /\ new <= b.tokens + grant
    BY <1>1, <2>1
  <2> HIDE DEF new, t
  <2>4. s + b.tokens <= Burst + b.lastRefill * Rate
    BY DEF Covers
  <2>5. s + new <= Burst + minute * Rate
    <3> DEFINE x == b.lastRefill * Rate
               y == minute * Rate
    <3>1. y = x + grant /\ x \in Nat /\ y \in Nat /\ s + b.tokens <= Burst + x
      BY <2>1, <2>4
    <3> HIDE DEF x, y
    <3>2. s + new <= Burst + y
      BY <1>1, <2>1, <2>3, <3>1
    <3> QED
      BY <3>2 DEF y
  <2> QED
    BY <2>2, <2>3, <2>5 DEF Buckets, Covers
<1> QED
  BY <1>2, <1>3

\* What is taken is accounted for, whether there is enough or not.
LEMMA TakeCovers ==
  ASSUME minute \in Nat, NEW b \in Buckets, NEW s \in Nat, NEW n \in Nat, Covers(b, s)
  PROVE  LET taken == takeReconcileBudget(b, n)
         IN /\ taken[2] \in Buckets
            /\ Covers(taken[2], s)
            /\ taken[1] => Covers(taken[2], s + n)
<1> DEFINE r == Refilled(b)
           taken == takeReconcileBudget(b, n)
<1>1. /\ r \in Buckets /\ Covers(r, s)
  BY RefillCovers
<1>2. CASE n = 0
  BY <1>2 DEF takeReconcileBudget
<1> HIDE DEF r
<1>3. r = [tokens |-> r.tokens, lastRefill |-> r.lastRefill]
      /\ r.tokens \in 0 .. Burst /\ r.lastRefill \in 0 .. minute
  BY <1>1 DEF Buckets
<1>4. CASE n # 0 /\ r.tokens < n
  <2>1. taken = <<FALSE, r>>
    BY <1>4 DEF takeReconcileBudget, r
  <2> QED
    BY <1>1, <2>1
<1>5. CASE n # 0 /\ ~(r.tokens < n)
  <2>1. taken = <<TRUE, [r EXCEPT !.tokens = @ - n]>>
    BY <1>5 DEF takeReconcileBudget, r
  <2>2. taken[2] = [tokens |-> r.tokens - n, lastRefill |-> r.lastRefill]
    BY <1>3, <2>1
  <2>3. r.tokens - n \in 0 .. Burst
    BY <1>3, <1>5, BudgetAssumption
  <2>4. r.lastRefill * Rate \in Nat
    BY <1>3, BudgetAssumption
  <2>5. s + r.tokens <= Burst + r.lastRefill * Rate
    BY <1>1 DEF Covers
  <2>6. /\ (s + n) + (r.tokens - n) <= Burst + r.lastRefill * Rate
        /\ s + (r.tokens - n) <= Burst + r.lastRefill * Rate
    BY <1>3, <2>3, <2>4, <2>5, BudgetAssumption
  <2> QED
    BY <1>3, <2>2, <2>3, <2>6 DEF Buckets, Covers
<1> QED
  BY <1>2, <1>4, <1>5

\* A refund gives no more than was taken.
LEMMA RefundCovers ==
  ASSUME minute \in Nat, NEW b \in Buckets, NEW s \in Nat, NEW n \in Nat, Covers(b, s + n)
  PROVE  /\ refundReconcileBudget(b, n) \in Buckets
         /\ Covers(refundReconcileBudget(b, n), s)
<1> DEFINE t == IF b.tokens + n > Burst THEN Burst ELSE b.tokens + n
<1>1. b = [tokens |-> b.tokens, lastRefill |-> b.lastRefill]
      /\ b.tokens \in 0 .. Burst /\ b.lastRefill \in 0 .. minute
  BY DEF Buckets
<1>2. refundReconcileBudget(b, n) = [tokens |-> t, lastRefill |-> b.lastRefill]
  BY <1>1 DEF refundReconcileBudget
<1>3. t \in 0 .. Burst /\ t <= b.tokens + n
  BY <1>1, BudgetAssumption
<1> HIDE DEF t
<1>4. b.lastRefill * Rate \in Nat
  BY <1>1, BudgetAssumption
<1>5. s + t <= Burst + b.lastRefill * Rate
  BY <1>1, <1>3, <1>4, BudgetAssumption DEF Covers
<1> QED
  BY <1>1, <1>2, <1>3, <1>5 DEF Buckets, Covers

-----------------------------------------------------------------------------
(* A reconciliation is given up: refused after it began, or undone.        *)

LEMMA InFlightIsNat ==
  ASSUME IInv, NEW c \in Sources
  PROVE  InFlight(c) \in Nat
  BY FS_CardinalityType DEF IInv, InFlight, Reconciling

\* The error path: the accepted maps are in force, tokens and locks given back.
LEMMA AbortStep ==
  ASSUME IInv, run # NoRun, Abort(run.catalog),
         maps' = Accepted,
         \/ run.stage # "publish" /\ rollbacks' = rollbacks /\ file' = file
         \/ rollbacks' = rollbacks + 1 /\ (file' = file \/ file' = Accepted),
         UNCHANGED <<served, workers, member, minute, boots, spent>>
  PROVE  IInv'
<1> DEFINE c == run.catalog
           n == Cardinality(run.plan)
<1>1. /\ run' = NoRun
      /\ inbox' = [inbox EXCEPT ![c] = NoRaw]
      /\ opMu' = [z \in Members |-> IF opMu[z] = "batch" THEN "free" ELSE opMu[z]]
      /\ budget' = [budget EXCEPT ![c] = refundReconcileBudget(budget[c], n)]
      /\ Note(c, Rejected(c))
  BY DEF Abort
<1>2. /\ run'.stage = "none" /\ Accepted' = Accepted
      /\ run.stage \in {"quiesce", "commit", "publish"}
      /\ c \in Sources /\ n \in Nat /\ minute \in Nat
  BY <1>1, FS_CardinalityType DEF NoRun, Accepted, IInv, Reconciling, Types
<1>3. MapsOK(Accepted)
  BY DEF IInv, Accepted, Committed
<1>4. /\ status' \in [Sources -> [serial : Int, error : BOOLEAN, pending : Int]]
      /\ \A d \in Sources : status'[d].serial = status[d].serial
  BY <1>1, <1>2, RejectedKeepsSerial, NoteKeepsSerials DEF IInv
<1>5. Types'
  <2>1. Types
    BY DEF IInv
  <2>2. opMu' \in [Members -> {"free", "worker", "batch"}]
    BY <1>1, <2>1 DEF Types
  <2>3. inbox' \in [Sources -> Raws \cup {NoRaw}]
    BY <1>1, <2>1 DEF Types
  <2>4. rollbacks' \in Nat
    BY <2>1 DEF Types
  <2> QED
    BY <1>4, <2>1, <2>2, <2>3, <2>4 DEF Types
<1>6. MembersOK'
  BY DEF IInv, MembersOK
<1>7. MapsOK(maps)' /\ MapsOK(file)'
  BY <1>3 DEF IInv
<1>8. Reconciling' /\ Fetched' /\ Committed'
  BY <1>1, <1>2 DEF Reconciling, Fetched, Committed
<1>9. LocksAreOwned'
  BY <1>1 DEF IInv, LocksAreOwned, Types
<1>10. Following'
  BY <1>2 DEF IInv, Following
<1>11. FileAhead'
  <2>1. CASE file' = file
    BY <1>2, <1>4, <2>1 DEF IInv, FileAhead
  <2>2. CASE file' = Accepted
    BY <1>2, <1>4, <2>2 DEF IInv, FileAhead
  <2> QED
    BY <2>1, <2>2
<1>12. Recorded'
  <2>1. CASE run.stage # "publish" /\ rollbacks' = rollbacks /\ file' = file
    <3>1. maps' = maps
      BY <2>1 DEF Accepted
    <3>2. \A z : Target(z) = served[z] /\ Target(z)' = served[z]
      BY <1>2, <2>1 DEF Target
    <3> QED
      BY <2>1, <3>1, <3>2 DEF IInv, Recorded
  <2>2. CASE rollbacks' = rollbacks + 1
    <3>1. rollbacks' # 0
      BY <2>2 DEF IInv, Types
    <3> QED
      BY <3>1 DEF Recorded
  <2> QED
    BY <2>1, <2>2
<1>13. Ledger'
  <2> DEFINE b == refundReconcileBudget(budget[c], n)
  <2>1. /\ budget \in [Sources -> Buckets]
        /\ spent \in [Sources -> Nat]
        /\ \A d \in Sources : Covers(budget[d], spent[d] + InFlight(d))
    BY DEF IInv, Ledger
  <2>2. InFlight(c) = n
    BY DEF InFlight
  <2>3. Covers(budget[c], spent[c] + n) /\ budget[c] \in Buckets /\ spent[c] \in Nat
    BY <1>2, <2>1, <2>2
  <2>4. b \in Buckets /\ Covers(b, spent[c])
    BY <1>2, <2>3, RefundCovers
  <2> HIDE DEF b
  <2>5. budget' \in [Sources -> Buckets] /\ budget'[c] = b
        /\ \A d \in Sources : d # c => budget'[d] = budget[d]
    BY <1>1, <1>2, <2>1, <2>4 DEF b
  <2>6. ASSUME NEW d \in Sources
        PROVE  Covers(budget'[d], spent[d] + InFlight(d)')
    <3>1. InFlight(d)' = 0 /\ spent[d] \in Nat
      BY <1>1, <2>1 DEF InFlight
    <3>2. spent[d] + 0 = spent[d]
      BY <3>1
    <3>3. CASE d = c
      BY <2>4, <2>5, <3>1, <3>2, <3>3
    <3>4. CASE d # c
      <4>1. InFlight(d) = 0
        BY <3>4 DEF InFlight
      <4> QED
        BY <2>1, <2>5, <3>1, <3>2, <3>4, <4>1
    <3> QED
      BY <3>3, <3>4
  <2>7. Buckets' = Buckets /\ \A x, k : Covers(x, k)' = Covers(x, k)
    BY DEF Buckets, Covers
  <2> QED
    BY <2>1, <2>5, <2>6, <2>7 DEF Ledger, Covers
<1> QED
  BY <1>5, <1>6, <1>7, <1>8, <1>9, <1>10, <1>11, <1>12, <1>13 DEF IInv

-----------------------------------------------------------------------------
(* The steps of a reconciliation.                                          *)

LEMMA FetchStep ==
  ASSUME IInv, NEW failed, FetchMembers(failed)
  PROVE  IInv'
<1> DEFINE wanted == Changed \ Removed
           Reset(z) == \E a \in run.plan : a.zone = z /\ a.reset
           ups == {z \in wanted \ failed :
                     z \notin DOMAIN served \/ Reset(z) \/ primary[z] > served[z]}
           got == [z \in ups |-> primary[z]]
<1>1. /\ run.stage = "quiesce"
      /\ \A z \in Changed \cap DOMAIN workers : opMu[z] = "batch"
      /\ UNCHANGED <<maps, file, served, workers, member, minute, boots, spent, rollbacks>>
      /\ \/ /\ failed \subseteq DOMAIN served
            /\ run' = [run EXCEPT !.stage = "commit", !.ups = got]
            /\ UNCHANGED <<opMu, inbox, budget, status>>
         \/ Abort(run.catalog)
  BY DEF FetchMembers, held, counters, history
<1>2. run # NoRun /\ Accepted = maps
  BY <1>1 DEF NoRun, Accepted
<1>3. CASE Abort(run.catalog)
  BY <1>1, <1>2, <1>3, AbortStep
<1>4. CASE /\ failed \subseteq DOMAIN served
           /\ run' = [run EXCEPT !.stage = "commit", !.ups = got]
           /\ UNCHANGED <<opMu, inbox, budget, status>>
  <2>1. /\ DOMAIN got = ups /\ got = [z \in DOMAIN got |-> got[z]]
        /\ ups \subseteq wanted /\ wanted \subseteq ups \cup DOMAIN served
    BY <1>4
  <2> HIDE DEF ups, got
  <2>2. RunShape(run)
    BY <1>2 DEF IInv, Reconciling
  <2>3. run' = [stage |-> "commit", catalog |-> run.catalog, next |-> run.next,
                ownership |-> run.ownership, plan |-> run.plan, ups |-> got,
                before |-> run.before]
    BY <1>4, <2>2 DEF RunShape
  <2>4. /\ run' # NoRun /\ RunShape(run')
        /\ run'.stage = "commit" /\ run'.catalog = run.catalog /\ run'.next = run.next
        /\ run'.ownership = run.ownership /\ run'.plan = run.plan /\ run'.ups = got
    BY <2>3 DEF RunShape, NoRun
  <2>5. Changed' = Changed /\ Removed' = Removed
    BY <2>4 DEF Changed, Removed
  <2>6. Accepted' = Accepted
    BY <1>1, <1>2, <2>4 DEF Accepted
  <2>7. Types' /\ MembersOK'
    BY <1>1, <1>4 DEF IInv, Types, MembersOK
  <2>8. MapsOK(maps)' /\ MapsOK(file)'
    BY <1>1 DEF IInv
  <2>9. Reconciling'
    BY <1>2, <1>4, <2>4, <2>5, <2>6 DEF IInv, Reconciling
  <2>10. Fetched' /\ Committed'
    BY <1>1, <1>4, <2>1, <2>4, <2>5 DEF Fetched, Committed
  <2>11. LocksAreOwned'
    BY <1>1, <1>2, <1>4, <2>4, <2>5 DEF IInv, LocksAreOwned
  <2>12. Following' /\ FileAhead'
    BY <1>1, <1>4, <2>6 DEF IInv, Following, FileAhead
  <2>13. Recorded'
    <3>1. \A z : Target(z)' = Target(z)
      BY <1>1, <2>4 DEF Target
    <3> QED
      BY <1>1, <3>1 DEF IInv, Recorded
  <2>14. Ledger'
    <3>1. \A d \in Sources : InFlight(d)' = InFlight(d)
      BY <1>2, <2>4 DEF InFlight
    <3> QED
      BY <1>1, <1>4, <3>1 DEF IInv, Ledger, Buckets, Covers
  <2> QED
    BY <2>7, <2>8, <2>9, <2>10, <2>11, <2>12, <2>13, <2>14 DEF IInv
<1> QED
  BY <1>1, <1>3, <1>4

\* The new maps are sound: the plan's owners under the newest catalogs.
LEMMA NextMapsOK ==
  ASSUME IInv, run.stage = "commit",
         DOMAIN run.ownership \subseteq DOMAIN NextMaps.members
  PROVE  /\ MapsOK(NextMaps)
         /\ \A z \in DOMAIN run.ups : NextMaps.members[z] = run.ups[z]
         /\ \A z \in DOMAIN run.ownership : z \notin DOMAIN run.ups =>
              z \in DOMAIN maps.ownership /\ NextMaps.members[z] = maps.members[z]
<1> DEFINE kept == Drop(maps.members, Removed)
           data == Over(run.ups, kept)
<1>1. run # NoRun /\ Accepted = maps
  BY DEF NoRun, Accepted
<1>2. /\ NextMaps = [catalogs |-> run.next, ownership |-> run.ownership, members |-> data]
      /\ NextMaps.members = data
  BY DEF NextMaps
<1>3. /\ DOMAIN kept = DOMAIN maps.members \ Removed
      /\ \A z \in DOMAIN maps.members : z \notin Removed => kept[z] = maps.members[z]
  BY DropFacts
<1> HIDE DEF kept
<1>4. /\ DOMAIN data = DOMAIN run.ups \cup DOMAIN kept
      /\ \A z \in DOMAIN run.ups : data[z] = run.ups[z]
      /\ \A z \in DOMAIN kept : z \notin DOMAIN run.ups => data[z] = kept[z]
  BY OverFacts
<1>5. data = [z \in DOMAIN data |-> data[z]]
  BY OverIsFunction
<1> HIDE DEF data
<1>6. DOMAIN run.ownership = (DOMAIN maps.ownership \cup Changed) \ Removed
  BY <1>1 DEF IInv, Reconciling, PlanKept
<1>7. DOMAIN maps.members = DOMAIN maps.ownership
  BY DEF IInv, MapsOK
<1>8. DOMAIN run.ups \subseteq Changed \ Removed
  BY DEF IInv, Fetched
<1>9. DOMAIN data = DOMAIN run.ownership
  BY <1>2, <1>3, <1>4, <1>6, <1>7, <1>8
<1>10. SnapshotsOK(run.next) /\ OwnersOK(run.next, run.ownership)
  BY <1>1 DEF IInv, Reconciling, NextKept, PlanKept
<1>11. MapsOK(NextMaps)
  BY <1>2, <1>5, <1>9, <1>10 DEF MapsOK
<1>12. \A z \in DOMAIN run.ownership : z \notin DOMAIN run.ups =>
          z \in DOMAIN maps.ownership /\ data[z] = maps.members[z]
  BY <1>3, <1>4, <1>7, <1>9
<1> QED
  BY <1>2, <1>4, <1>11, <1>12

LEMMA CommitStep ==
  ASSUME IInv, CommitMaps
  PROVE  IInv'
<1>1. /\ run.stage = "commit"
      /\ UNCHANGED <<served, workers, member, minute, boots, spent, rollbacks>>
      /\ \/ /\ DOMAIN run.ownership \subseteq DOMAIN NextMaps.members
            /\ maps' = NextMaps
            /\ file' = persistLocked(NextMaps)
            /\ run' = [run EXCEPT !.stage = "publish", !.before = maps]
            /\ UNCHANGED <<opMu, inbox, budget, status>>
         \/ Abort(run.catalog) /\ UNCHANGED <<maps, file>>
  BY DEF CommitMaps, counters, history
<1>2. run # NoRun /\ Accepted = maps
  BY <1>1 DEF NoRun, Accepted
<1>3. CASE Abort(run.catalog) /\ UNCHANGED <<maps, file>>
  BY <1>1, <1>2, <1>3, AbortStep
<1>4. CASE /\ DOMAIN run.ownership \subseteq DOMAIN NextMaps.members
           /\ maps' = NextMaps
           /\ file' = persistLocked(NextMaps)
           /\ run' = [run EXCEPT !.stage = "publish", !.before = maps]
           /\ UNCHANGED <<opMu, inbox, budget, status>>
  <2>1. /\ MapsOK(NextMaps)
        /\ \A z \in DOMAIN run.ups : NextMaps.members[z] = run.ups[z]
        /\ \A z \in DOMAIN run.ownership : z \notin DOMAIN run.ups =>
              z \in DOMAIN maps.ownership /\ NextMaps.members[z] = maps.members[z]
    BY <1>1, <1>4, NextMapsOK
  <2>2. maps' = NextMaps /\ file' = NextMaps
    BY <1>4, <2>1, WrittenWhole
  <2>3. NextMaps.catalogs = run.next /\ NextMaps.ownership = run.ownership
    BY DEF NextMaps
  <2>4. RunShape(run)
    BY <1>2 DEF IInv, Reconciling
  <2>5. run' = [stage |-> "publish", catalog |-> run.catalog, next |-> run.next,
                ownership |-> run.ownership, plan |-> run.plan, ups |-> run.ups,
                before |-> maps]
    BY <1>4, <2>4 DEF RunShape
  <2>6. /\ run' # NoRun /\ RunShape(run')
        /\ run'.stage = "publish" /\ run'.catalog = run.catalog /\ run'.next = run.next
        /\ run'.ownership = run.ownership /\ run'.plan = run.plan /\ run'.ups = run.ups
        /\ run'.before = maps
    BY <2>5 DEF RunShape, NoRun
  <2>7. Changed' = Changed /\ Removed' = Removed
    BY <2>6 DEF Changed, Removed
  <2>8. Accepted' = Accepted
    BY <1>2, <2>6 DEF Accepted
  <2>9. Types' /\ MembersOK'
    BY <1>1, <1>4 DEF IInv, Types, MembersOK
  <2>10. MapsOK(maps)' /\ MapsOK(file)'
    BY <2>1, <2>2
  <2>11. Reconciling'
    BY <1>2, <1>4, <2>6, <2>7, <2>8 DEF IInv, Reconciling
  <2>12. Fetched'
    BY <1>1, <1>4, <2>6, <2>7 DEF IInv, Fetched
  <2>13. Committed'
    BY <2>2, <2>3, <2>6 DEF IInv, Committed
  <2>14. LocksAreOwned'
    BY <1>1, <1>2, <1>4, <2>6, <2>7 DEF IInv, LocksAreOwned
  <2>15. Following'
    BY <1>1, <2>8 DEF IInv, Following
  <2>16. FileAhead'
    <3>1. NextKept(Accepted.catalogs, run.next, run.catalog)
      BY <1>2 DEF IInv, Reconciling
    <3>2. file'.catalogs = run.next
      BY <2>2, <2>3
    <3>3. \A d \in DOMAIN Accepted.catalogs :
            /\ d \in DOMAIN run.next
            /\ \/ run.next[d].serial = Accepted.catalogs[d].serial
               \/ SerialGreater(run.next[d].serial, Accepted.catalogs[d].serial)
      BY <3>1 DEF NextKept
    <3> QED
      BY <1>4, <2>8, <3>2, <3>3 DEF IInv, FileAhead
  <2>17. Recorded'
    <3> SUFFICES ASSUME rollbacks = 0, NEW x \in DOMAIN run.ownership
                 PROVE  IF member[x] = Idle THEN NextMaps.members[x] = Target(x)'
                        ELSE served[x] = member[x].new
                             /\ member[x].had = {NextMaps.members[x]}
      BY <1>1, <2>2, <2>3 DEF Recorded
    <3>1. x \in Members
      BY <1>2 DEF IInv, Reconciling, PlanKept, OwnersOK
    <3>2. CASE x \in DOMAIN run.ups
      <4>1. x \in Changed
        BY <1>1, <3>2 DEF IInv, Fetched
      <4>2. member[x] = Idle
        BY <1>1, <3>1, <4>1 DEF IInv, MembersOK, Fetched, LocksAreOwned
      <4>3. Target(x)' = run.ups[x]
        BY <2>6, <3>2 DEF Target
      <4> QED
        BY <2>1, <3>2, <4>2, <4>3
    <3>3. CASE x \notin DOMAIN run.ups
      <4>1. Target(x) = served[x] /\ Target(x)' = served[x]
        BY <1>1, <2>6, <3>3 DEF Target
      <4>2. x \in DOMAIN maps.ownership /\ NextMaps.members[x] = maps.members[x]
        BY <2>1, <3>3
      <4> QED
        BY <4>1, <4>2 DEF IInv, Recorded
    <3> QED
      BY <3>2, <3>3
  <2>18. Ledger'
    <3>1. \A d \in Sources : InFlight(d)' = InFlight(d)
      BY <1>2, <2>6 DEF InFlight
    <3> QED
      BY <1>1, <1>4, <3>1 DEF IInv, Ledger, Buckets, Covers
  <2> QED
    BY <2>9, <2>10, <2>11, <2>12, <2>13, <2>14, <2>15, <2>16, <2>17, <2>18 DEF IInv
<1> QED
  BY <1>1, <1>3, <1>4

LEMMA PublishFailsStep ==
  ASSUME IInv, PublishFails
  PROVE  IInv'
<1>1. run # NoRun /\ Accepted = run.before /\ MapsOK(run.before)
  BY DEF PublishFails, NoRun, Accepted, IInv, Committed
<1>2. /\ maps' = Accepted /\ rollbacks' = rollbacks + 1 /\ Abort(run.catalog)
      /\ file' = file \/ file' = Accepted
      /\ UNCHANGED <<served, workers, member, minute, boots, spent>>
  BY <1>1, WrittenWhole DEF PublishFails, counters
<1> QED
  BY <1>1, <1>2, AbortStep

\* A snapshot of what a primary published lists what primaries list.
LEMMA ParseFacts ==
  ASSUME NEW raw \in Raws
  PROVE  /\ Parse(raw).serial \in 0 .. SerialMod - 1
         /\ DOMAIN Parse(raw).members \subseteq Members \cup Reserved
  BY RawsAssumption DEF Parse

\* What passes the checks may become the newest state.
LEMMA NextIsKept ==
  ASSUME MapsOK(maps), NEW c \in Sources, NEW raw \in Raws, NEW plan,
         NEW next, next = Over(At(c, Parse(raw)), maps.catalogs),
         Refusal(c, Parse(raw), plan, next) = "go"
  PROVE  NextKept(maps.catalogs, next, c)
<1> DEFINE snapshot == Parse(raw)
<1>1. /\ snapshot.serial \in 0 .. SerialMod - 1
      /\ DOMAIN snapshot.members \subseteq Members \cup Reserved
  BY ParseFacts
<1>2. /\ DOMAIN next = {c} \cup DOMAIN maps.catalogs
      /\ next[c] = snapshot
      /\ \A d \in DOMAIN maps.catalogs : d # c => next[d] = maps.catalogs[d]
  <2>1. next = Over(At(c, snapshot), maps.catalogs)
    OBVIOUS
  <2> HIDE DEF snapshot
  <2> QED
    BY <2>1 DEF Over, At
<1> HIDE DEF snapshot
<1>3. /\ validateMemberScope(c, snapshot, MaxMembers[c])
      /\ c \in DOMAIN maps.catalogs => SerialGreater(snapshot.serial, maps.catalogs[c].serial)
      /\ validateCatalogGraph(next)
  BY DEF Refusal, snapshot
<1>4. SnapshotsOK(maps.catalogs)
  BY DEF MapsOK
<1>5. SnapshotsOK(next)
  <2>1. DOMAIN next \subseteq Sources
    BY <1>2, <1>4 DEF SnapshotsOK
  <2>2. ASSUME NEW d \in DOMAIN next
        PROVE  /\ next[d].serial \in 0 .. SerialMod - 1
               /\ DOMAIN next[d].members \subseteq Members \cup Reserved
               /\ validateMemberScope(d, next[d], MaxMembers[d])
    <3>1. CASE d = c
      BY <1>1, <1>2, <1>3, <3>1
    <3>2. CASE d # c
      BY <1>2, <1>4, <3>2 DEF SnapshotsOK
    <3> QED
      BY <3>1, <3>2
  <2> QED
    BY <1>3, <2>1, <2>2 DEF SnapshotsOK
<1> QED
  BY <1>2, <1>3, <1>5 DEF NextKept

LEMMA BeginStep ==
  ASSUME IInv, NEW c \in Sources, BeginReconcile(c)
  PROVE  IInv'
<1> DEFINE raw == inbox[c]
           snapshot == Parse(raw)
           next == Over(At(c, snapshot), maps.catalogs)
           plan == Plan(maps.catalogs, next, maps.ownership)
           why == Refusal(c, snapshot, plan, next)
           taken == takeReconcileBudget(budget[c], Cost(plan))
           begun == [stage |-> "quiesce", catalog |-> c, next |-> next,
                     ownership |-> FinalOwnership(plan),
                     plan |-> {a \in plan : a.kind # "conflict"},
                     ups |-> <<>>, before |-> NoMaps]
           note == IF why \in {"dry_run", "approval_required"}
                   THEN [Rejected(c) EXCEPT !.pending = snapshot.serial]
                   ELSE Rejected(c)
<1>1. /\ run = NoRun /\ raw # NoRaw
      /\ budget' = IF why = "go" THEN [budget EXCEPT ![c] = taken[2]] ELSE budget
      /\ \/ why = "go" /\ taken[1] /\ run' = begun /\ UNCHANGED <<inbox, status>>
         \/ /\ ~(why = "go" /\ taken[1])
            /\ inbox' = [inbox EXCEPT ![c] = NoRaw]
            /\ Note(c, note)
            /\ UNCHANGED run
      /\ UNCHANGED <<maps, file, served, workers, opMu, member, minute, boots, spent, rollbacks>>
  BY DEF BeginReconcile, held, counters, history
<1>2. raw \in Raws
  BY <1>1 DEF IInv, Types
<1>3. MapsOK(maps) /\ minute \in Nat
  BY DEF IInv, Types
<1>4. Accepted = maps /\ run.stage = "none" /\ \A d \in Sources : InFlight(d) = 0
  BY <1>1 DEF Accepted, NoRun, InFlight
<1>5. why = "go" =>
        /\ NextKept(maps.catalogs, next, c)
        /\ PlanKept(maps.catalogs, maps.ownership, next, FinalOwnership(plan),
                    Touched(Works(plan)), Gone(Works(plan)))
        /\ IsFiniteSet(Works(plan))
        /\ Cost(plan) \in Nat /\ Cost(plan) = Cardinality(Works(plan))
  <2> SUFFICES ASSUME why = "go"
               PROVE  /\ NextKept(maps.catalogs, next, c)
                      /\ PlanKept(maps.catalogs, maps.ownership, next, FinalOwnership(plan),
                                  Touched(Works(plan)), Gone(Works(plan)))
                      /\ IsFiniteSet(Works(plan))
                      /\ Cost(plan) \in Nat /\ Cost(plan) = Cardinality(Works(plan))
    OBVIOUS
  <2>1. NextKept(maps.catalogs, next, c)
    <3>1. next = Over(At(c, Parse(raw)), maps.catalogs)
      OBVIOUS
    <3>2. Refusal(c, Parse(raw), plan, next) = "go"
      OBVIOUS
    <3> HIDE DEF next, plan, raw
    <3> QED
      BY <1>2, <1>3, <3>1, <3>2, NextIsKept
  <2>2. SnapshotsOK(next)
    BY <2>1 DEF NextKept
  <2> HIDE DEF next
  <2>3. /\ PlanKept(maps.catalogs, maps.ownership, next, FinalOwnership(plan),
                    Touched(Works(plan)), Gone(Works(plan)))
        /\ IsFiniteSet(Works(plan))
    BY <1>3, <2>2, PlanIsKept
  <2>4. Cost(plan) = Cardinality(Works(plan))
    BY DEF Cost, Works
  <2> QED
    BY <2>1, <2>3, <2>4, FS_CardinalityType
<1>6. MapsOK(maps)' /\ MapsOK(file)' /\ Following' /\ MembersOK' /\ Accepted' = Accepted
  <2>1. Accepted' = Accepted
    BY <1>1, <1>4 DEF Accepted
  <2> QED
    BY <1>1, <2>1 DEF IInv, Following, MembersOK
<1>7. /\ budget \in [Sources -> Buckets]
      /\ spent \in [Sources -> Nat]
      /\ \A d \in Sources : spent[d] \in Nat /\ Covers(budget[d], spent[d])
  BY <1>4 DEF IInv, Ledger
<1>8. why = "go" =>
        /\ taken[2] \in Buckets
        /\ Covers(taken[2], spent[c])
        /\ taken[1] => Covers(taken[2], spent[c] + Cost(plan))
  <2> DEFINE n == Cost(plan)
             b == budget[c]
             s == spent[c]
  <2>1. b \in Buckets /\ s \in Nat /\ Covers(b, s)
    BY <1>7
  <2>2. why = "go" => n \in Nat
    BY <1>5
  <2>3. taken = takeReconcileBudget(b, n)
    OBVIOUS
  <2> HIDE DEF n, b, s, why, taken
  <2>4. why = "go" => /\ taken[2] \in Buckets
                      /\ Covers(taken[2], s)
                      /\ taken[1] => Covers(taken[2], s + n)
    BY <1>3, <2>1, <2>2, <2>3, TakeCovers
  <2> QED
    BY <2>4 DEF s, n
<1>9. Buckets' = Buckets /\ \A b, s : Covers(b, s)' = Covers(b, s)
  BY <1>1 DEF Buckets, Covers
<1>10. CASE why = "go" /\ taken[1] /\ run' = begun /\ UNCHANGED <<inbox, status>>
  <2> DEFINE final == FinalOwnership(plan)
             W == Works(plan)
  <2>1. /\ NextKept(maps.catalogs, next, c)
        /\ PlanKept(maps.catalogs, maps.ownership, next, final, Touched(W), Gone(W))
        /\ IsFiniteSet(W) /\ Cost(plan) \in Nat /\ Cost(plan) = Cardinality(W)
    BY <1>5, <1>10
  <2>2. run' = [stage |-> "quiesce", catalog |-> c, next |-> next, ownership |-> final,
                plan |-> W, ups |-> <<>>, before |-> NoMaps]
    BY <1>10 DEF Works
  <2>3. /\ taken[2] \in Buckets
        /\ Covers(taken[2], spent[c] + Cardinality(W))
        /\ budget' = [budget EXCEPT ![c] = taken[2]]
    BY <1>1, <1>8, <1>10, <2>1
  <2> HIDE DEF next, final, W, taken, why
  <2>4. /\ run' # NoRun /\ RunShape(run')
        /\ run'.stage = "quiesce" /\ run'.catalog = c /\ run'.next = next
        /\ run'.ownership = final /\ run'.plan = W
    BY <2>2 DEF RunShape, NoRun
  <2>5. Changed' = Touched(W) /\ Removed' = Gone(W)
    BY <2>4 DEF Changed, Removed, Touched, Gone
  <2>6. Types'
    BY <1>1, <1>10 DEF IInv, Types
  <2>7. Reconciling'
    BY <1>1, <1>4, <1>6, <1>10, <2>1, <2>4, <2>5 DEF Reconciling
  <2>8. Fetched' /\ Committed'
    BY <2>4 DEF Fetched, Committed
  <2>9. LocksAreOwned'
    BY <1>1, <1>10, <2>4 DEF IInv, LocksAreOwned
  <2>10. FileAhead'
    BY <1>1, <1>6, <1>10 DEF IInv, FileAhead
  <2>11. Recorded'
    <3>1. \A z : Target(z)' = Target(z)
      BY <1>1, <1>4, <2>4 DEF Target
    <3> QED
      BY <1>1, <3>1 DEF IInv, Recorded
  <2>12. Ledger'
    <3>1. budget' \in [Sources -> Buckets] /\ budget'[c] = taken[2]
          /\ \A d \in Sources : d # c => budget'[d] = budget[d]
      BY <1>7, <2>3
    <3>2. ASSUME NEW d \in Sources
          PROVE  Covers(budget'[d], spent[d] + InFlight(d)')
      <4>1. CASE d = c
        <5>1. InFlight(d)' = Cardinality(W)
          BY <2>4, <4>1 DEF InFlight
        <5> QED
          BY <2>3, <3>1, <4>1, <5>1
      <4>2. CASE d # c
        <5>1. InFlight(d)' = 0 /\ spent[d] + 0 = spent[d]
          BY <1>7, <2>4, <4>2 DEF InFlight
        <5> QED
          BY <1>7, <3>1, <4>2, <5>1
      <4> QED
        BY <4>1, <4>2
    <3> QED
      BY <1>1, <1>7, <1>9, <3>1, <3>2 DEF Ledger
  <2> QED
    BY <1>6, <2>6, <2>7, <2>8, <2>9, <2>10, <2>11, <2>12 DEF IInv
<1>11. CASE /\ ~(why = "go" /\ taken[1])
            /\ inbox' = [inbox EXCEPT ![c] = NoRaw]
            /\ Note(c, note)
            /\ UNCHANGED run
  <2>1. /\ note \in [serial : Int, error : BOOLEAN, pending : Int]
        /\ note.serial = status[c].serial
    <3>1. /\ Rejected(c) \in [serial : Int, error : BOOLEAN, pending : Int]
          /\ Rejected(c).serial = status[c].serial
      BY RejectedKeepsSerial DEF IInv
    <3>2. snapshot.serial \in Int
      BY <1>2, CatalogsAssumption, ParseFacts
    <3> HIDE DEF snapshot, why
    <3> QED
      BY <3>1, <3>2
  <2>2. /\ status' \in [Sources -> [serial : Int, error : BOOLEAN, pending : Int]]
        /\ \A d \in Sources : status'[d].serial = status[d].serial
    <3> HIDE DEF note
    <3> QED
      BY <1>11, <2>1, NoteKeepsSerials DEF IInv
  <2>3. inbox' \in [Sources -> Raws \cup {NoRaw}]
    BY <1>11 DEF IInv, Types
  <2>4. run' = NoRun /\ run'.stage = "none"
    BY <1>1, <1>4, <1>11
  <2>5. Types'
    BY <1>1, <2>2, <2>3 DEF IInv, Types
  <2>6. Reconciling' /\ Fetched' /\ Committed'
    BY <2>4 DEF Reconciling, Fetched, Committed
  <2>7. LocksAreOwned'
    BY <1>1, <2>4 DEF IInv, LocksAreOwned
  <2>8. FileAhead'
    BY <1>1, <1>6, <2>2 DEF IInv, FileAhead
  <2>9. Recorded'
    <3>1. \A z : Target(z)' = Target(z)
      BY <1>1, <1>4, <2>4 DEF Target
    <3> QED
      BY <1>1, <3>1 DEF IInv, Recorded
  <2>10. Ledger'
    <3> DEFINE b == IF why = "go" THEN taken[2] ELSE budget[c]
    <3>1. b \in Buckets /\ Covers(b, spent[c])
      <4> HIDE DEF why, taken
      <4> QED
        BY <1>7, <1>8
    <3>2. budget' \in [Sources -> Buckets] /\ budget'[c] = b
          /\ \A d \in Sources : d # c => budget'[d] = budget[d]
      <4> HIDE DEF why, taken
      <4> QED
        BY <1>1, <1>7, <3>1
    <3> HIDE DEF b
    <3>3. \A d \in Sources : Covers(budget'[d], spent[d])
      BY <1>7, <3>1, <3>2
    <3>4. \A d \in Sources : spent[d] + InFlight(d)' = spent[d]
      BY <1>7, <2>4 DEF InFlight
    <3> QED
      BY <1>1, <1>7, <1>9, <3>2, <3>3, <3>4 DEF Ledger
  <2> QED
    BY <1>6, <2>5, <2>6, <2>7, <2>8, <2>9, <2>10 DEF IInv
<1> QED
  BY <1>1, <1>10, <1>11

LEMMA PublishStep ==
  ASSUME IInv, PublishBatch
  PROVE  IInv'
<1> DEFINE c == run.catalog
           n == Cardinality(run.plan)
           kept == Drop(served, Removed)
           note == [serial |-> run.next[c].serial, error |-> FALSE, pending |-> NoSerial]
<1>1. /\ run.stage = "publish" /\ run' = NoRun
      /\ served' = Over(run.ups, kept)
      /\ workers' = Settings
      /\ opMu' = [z \in Members |-> IF opMu[z] = "batch" THEN "free" ELSE opMu[z]]
      /\ spent' = [spent EXCEPT ![c] = @ + n]
      /\ Note(c, note)
      /\ inbox' = [inbox EXCEPT ![c] = NoRaw]
      /\ UNCHANGED <<maps, file, member, budget, minute, boots, rollbacks>>
  BY DEF PublishBatch, counters
<1>2. /\ run # NoRun /\ run'.stage = "none" /\ Accepted' = maps
  BY <1>1 DEF NoRun, Accepted
<1>3. /\ c \in Sources
      /\ NextKept(Accepted.catalogs, run.next, c)
      /\ PlanKept(Accepted.catalogs, Accepted.ownership, run.next, run.ownership,
                  Changed, Removed)
      /\ IsFiniteSet(run.plan)
  BY <1>2 DEF IInv, Reconciling
<1>4. /\ maps.catalogs = run.next /\ maps.ownership = run.ownership /\ file = maps
  BY <1>1 DEF IInv, Committed
<1>5. /\ \A z \in Changed \cap DOMAIN workers : opMu[z] = "batch"
      /\ DOMAIN run.ups \subseteq Changed \ Removed
      /\ Changed \ Removed \subseteq DOMAIN run.ups \cup DOMAIN served
  BY <1>1 DEF IInv, Fetched
<1>6. /\ DOMAIN workers = DOMAIN Accepted.ownership
      /\ DOMAIN served = DOMAIN Accepted.ownership
      /\ \A z \in DOMAIN workers :
            workers[z] = SettingsIn(Accepted.catalogs, Accepted.ownership, z)
  BY DEF IInv, Following
<1>7. DOMAIN run.ownership = (DOMAIN Accepted.ownership \cup Changed) \ Removed
  BY <1>3 DEF PlanKept
<1>8. /\ DOMAIN served' = DOMAIN run.ownership
      /\ \A z \in DOMAIN run.ups : served'[z] = run.ups[z]
      /\ \A z \in DOMAIN run.ownership : z \notin DOMAIN run.ups => served'[z] = served[z]
  <2>1. /\ DOMAIN kept = DOMAIN served \ Removed
        /\ \A z \in DOMAIN served : z \notin Removed => kept[z] = served[z]
    BY DropFacts
  <2> HIDE DEF kept
  <2>2. /\ DOMAIN served' = DOMAIN run.ups \cup DOMAIN kept
        /\ \A z \in DOMAIN run.ups : served'[z] = run.ups[z]
        /\ \A z \in DOMAIN kept : z \notin DOMAIN run.ups => served'[z] = kept[z]
    BY <1>1 DEF Over
  <2>3. DOMAIN served' = DOMAIN run.ownership
    BY <1>5, <1>6, <1>7, <2>1, <2>2
  <2>4. \A z \in DOMAIN run.ownership : z \notin DOMAIN run.ups => served'[z] = served[z]
    BY <1>7, <2>1, <2>2, <2>3
  <2> QED
    BY <2>2, <2>3, <2>4
<1>9. /\ DOMAIN workers' = DOMAIN run.ownership
      /\ \A z \in DOMAIN workers' : workers'[z] = SettingsIn(run.next, run.ownership, z)
  <2>1. DOMAIN workers' = (DOMAIN workers \cup Changed) \ Removed
    BY <1>1 DEF Settings
  <2>2. ASSUME NEW z \in DOMAIN workers'
        PROVE  workers'[z] = SettingsIn(run.next, run.ownership, z)
    <3>1. CASE z \in Changed
      BY <1>1, <2>1, <3>1 DEF Settings, SettingsIn
    <3>2. CASE z \notin Changed
      <4>1. workers'[z] = workers[z] /\ z \in DOMAIN workers
        BY <1>1, <2>1, <3>2 DEF Settings
      <4> QED
        BY <1>3, <1>6, <3>2, <4>1 DEF PlanKept
    <3> QED
      BY <3>1, <3>2
  <2> QED
    BY <1>6, <1>7, <2>1, <2>2
<1>10. SnapshotsOK(run.next) /\ c \in DOMAIN run.next
  BY <1>3 DEF NextKept
<1>11. /\ status' \in [Sources -> [serial : Int, error : BOOLEAN, pending : Int]]
       /\ status'[c].serial = run.next[c].serial
       /\ \A d \in Sources : d # c => status'[d] = status[d]
  <2>1. run.next[c].serial \in 0 .. SerialMod - 1
    BY <1>10 DEF SnapshotsOK
  <2>2. note \in [serial : Int, error : BOOLEAN, pending : Int]
    BY <2>1, CatalogsAssumption DEF NoSerial
  <2>3. note.serial = run.next[c].serial
    OBVIOUS
  <2> HIDE DEF note
  <2> QED
    BY <1>1, <1>3, <2>2, <2>3 DEF IInv, Types, Note
<1>12. Types'
  <2>1. opMu' \in [Members -> {"free", "worker", "batch"}]
    BY <1>1 DEF IInv, Types
  <2>2. inbox' \in [Sources -> Raws \cup {NoRaw}]
    BY <1>1 DEF IInv, Types
  <2> QED
    BY <1>1, <1>11, <2>1, <2>2 DEF IInv, Types
<1>13. ASSUME NEW z \in Members, member[z] # Idle
       PROVE  z \notin Changed /\ z \in DOMAIN workers /\ z \in DOMAIN workers'
  <2>1. z \in DOMAIN workers /\ opMu[z] = "worker"
    BY <1>13 DEF IInv, MembersOK, LocksAreOwned
  <2>2. z \notin Changed
    BY <1>5, <2>1
  <2>3. Removed \subseteq Changed
    BY DEF Removed, Changed
  <2> QED
    BY <1>6, <1>7, <1>9, <2>1, <2>2, <2>3
<1>14. MembersOK'
  BY <1>1, <1>13 DEF IInv, MembersOK
<1>15. MapsOK(maps)' /\ MapsOK(file)'
  BY <1>1 DEF IInv
<1>16. Reconciling' /\ Fetched' /\ Committed'
  BY <1>1, <1>2 DEF Reconciling, Fetched, Committed
<1>17. LocksAreOwned'
  BY <1>1 DEF IInv, LocksAreOwned, Types
<1>18. Following'
  BY <1>2, <1>4, <1>8, <1>9 DEF Following
<1>19. FileAhead'
  <2>1. Accepted'.catalogs = run.next /\ file'.catalogs = run.next
    BY <1>1, <1>2, <1>4
  <2>2. ASSUME NEW d \in Sources, status'[d].serial # NoSerial
        PROVE  d \in DOMAIN run.next /\ run.next[d].serial = status'[d].serial
    <3>1. CASE d = c
      BY <1>10, <1>11, <3>1
    <3>2. CASE d # c
      <4>1. d \in DOMAIN Accepted.catalogs
            /\ Accepted.catalogs[d].serial = status'[d].serial
        BY <1>11, <2>2, <3>2 DEF IInv, FileAhead
      <4> QED
        BY <1>3, <3>2, <4>1 DEF NextKept
    <3> QED
      BY <3>1, <3>2
  <2> QED
    BY <2>1, <2>2 DEF FileAhead
<1>20. Recorded'
  <2> SUFFICES ASSUME rollbacks = 0, NEW x \in DOMAIN maps.ownership
               PROVE  IF member[x] = Idle THEN maps.members[x] = Target(x)'
                      ELSE served'[x] = member[x].new /\ member[x].had = {maps.members[x]}
    BY <1>1, <1>4 DEF Recorded
  <2>1. x \in Members
    BY DEF IInv, MapsOK, OwnersOK
  <2>2. Target(x)' = served'[x]
    BY <1>2 DEF Target
  <2>3. served'[x] = Target(x)
    BY <1>1, <1>4, <1>8 DEF Target
  <2>4. CASE member[x] = Idle
    BY <2>2, <2>3, <2>4 DEF IInv, Recorded
  <2>5. CASE member[x] # Idle
    <3>1. x \notin DOMAIN run.ups
      BY <1>5, <1>13, <2>1, <2>5
    <3>2. served'[x] = served[x]
      BY <1>4, <1>8, <3>1
    <3> QED
      BY <2>5, <3>2 DEF IInv, Recorded
  <2> QED
    BY <2>4, <2>5
<1>21. Ledger'
  <2>1. /\ budget \in [Sources -> Buckets] /\ spent \in [Sources -> Nat]
        /\ \A d \in Sources : Covers(budget[d], spent[d] + InFlight(d))
    BY DEF IInv, Ledger
  <2>2. n \in Nat
    BY <1>3, FS_CardinalityType
  <2>3. /\ spent' \in [Sources -> Nat] /\ spent'[c] = spent[c] + n
        /\ \A d \in Sources : d # c => spent'[d] = spent[d]
    BY <1>1, <1>3, <2>1, <2>2
  <2>4. ASSUME NEW d \in Sources
        PROVE  spent'[d] + InFlight(d)' = spent[d] + InFlight(d)
    <3>1. InFlight(d)' = 0 /\ spent'[d] \in Nat
      BY <1>1, <2>3 DEF InFlight
    <3>2. CASE d = c
      <4>1. InFlight(d) = n
        BY <1>2, <3>2 DEF InFlight
      <4> QED
        BY <2>1, <2>2, <2>3, <3>1, <3>2, <4>1
    <3>3. CASE d # c
      <4>1. InFlight(d) = 0
        BY <3>3 DEF InFlight
      <4> QED
        BY <2>3, <3>1, <3>3, <4>1
    <3> QED
      BY <3>2, <3>3
  <2>5. Buckets' = Buckets /\ \A b, s : Covers(b, s)' = Covers(b, s)
    BY <1>1 DEF Buckets, Covers
  <2> QED
    BY <1>1, <2>1, <2>3, <2>4, <2>5 DEF Ledger
<1> QED
  BY <1>12, <1>14, <1>15, <1>16, <1>17, <1>18, <1>19, <1>20, <1>21 DEF IInv

\* The process starts again from the file.
LEMMA RestartStep ==
  ASSUME IInv, Restart
  PROVE  IInv'
<1>1. /\ maps' = file /\ file' = file /\ served' = file.members
      /\ workers' = [z \in DOMAIN file.ownership |->
                       SettingsIn(file.catalogs, file.ownership, z)]
      /\ status' = [c \in Sources |->
                      [serial |-> IF c \in DOMAIN file.catalogs
                                  THEN file.catalogs[c].serial ELSE NoSerial,
                       error |-> FALSE, pending |-> NoSerial]]
      /\ budget' = [c \in Sources |-> [tokens |-> Burst, lastRefill |-> minute]]
      /\ spent' = [c \in Sources |-> 0]
      /\ opMu' = [z \in Members |-> "free"]
      /\ inbox' = [c \in Sources |-> NoRaw]
      /\ run' = NoRun
      /\ member' = [z \in Members |-> Idle]
      /\ boots' = boots + 1
      /\ UNCHANGED <<minute, rollbacks>>
  BY DEF Restart, SettingsIn, FreshBudget
<1>2. MapsOK(file) /\ run'.stage = "none" /\ Accepted' = file
  BY <1>1 DEF IInv, NoRun, Accepted
<1>3. Types'
  <2>1. status' \in [Sources -> [serial : Int, error : BOOLEAN, pending : Int]]
    <3> SUFFICES ASSUME NEW c \in Sources
                 PROVE  (IF c \in DOMAIN file.catalogs
                         THEN file.catalogs[c].serial ELSE NoSerial) \in Int
      BY <1>1 DEF NoSerial
    <3>1. c \in DOMAIN file.catalogs => file.catalogs[c].serial \in 0 .. SerialMod - 1
      BY <1>2 DEF MapsOK, SnapshotsOK
    <3> QED
      BY <3>1, CatalogsAssumption DEF NoSerial
  <2> QED
    BY <1>1, <2>1 DEF IInv, Types
<1>4. MembersOK'
  BY <1>1 DEF MembersOK
<1>5. MapsOK(maps)' /\ MapsOK(file)'
  BY <1>1, <1>2
<1>6. Reconciling' /\ Fetched' /\ Committed'
  BY <1>1, <1>2 DEF Reconciling, Fetched, Committed
<1>7. LocksAreOwned'
  BY <1>1 DEF LocksAreOwned
<1>8. Following'
  BY <1>1, <1>2 DEF Following, MapsOK
<1>9. FileAhead'
  BY <1>1, <1>2 DEF FileAhead
<1>10. Recorded'
  <2>1. \A z \in DOMAIN file.ownership : member'[z] = Idle /\ Target(z)' = file.members[z]
    BY <1>1, <1>2 DEF MapsOK, OwnersOK, Target
  <2> QED
    BY <1>1, <2>1 DEF Recorded
<1>11. Ledger'
  <2>1. minute \in Nat
    BY DEF IInv, Types
  <2>2. budget' \in [Sources -> Buckets'] /\ spent' \in [Sources -> Nat]
    BY <1>1, <2>1, BudgetAssumption DEF Buckets
  <2>3. minute * Rate \in Nat
    BY <2>1, BudgetAssumption
  <2>4. \A c \in Sources : spent'[c] = 0 /\ InFlight(c)' = 0
                           /\ budget'[c] = [tokens |-> Burst, lastRefill |-> minute]
    BY <1>1 DEF InFlight
  <2>5. 0 + 0 + Burst <= Burst + minute * Rate
    BY <2>3, BudgetAssumption
  <2> QED
    BY <2>2, <2>4, <2>5, BudgetAssumption DEF Ledger, Covers
<1> QED
  BY <1>3, <1>4, <1>5, <1>6, <1>7, <1>8, <1>9, <1>10, <1>11 DEF IInv

-----------------------------------------------------------------------------
(* The invariant, and what follows from it.                                *)

LEMMA NextOK == IInv /\ [Next]_vars => IInv'
<1> SUFFICES ASSUME IInv, [Next]_vars PROVE IInv'
  OBVIOUS
<1>1. ASSUME NEW raw \in Raws, ReceiveCatalog(raw) PROVE IInv'
  BY <1>1, ReceiveStep
<1>2. CASE ReconcileStep
  <2>1. ASSUME NEW c \in Sources, BeginReconcile(c) PROVE IInv'
    BY <2>1, BeginStep
  <2>2. ASSUME NEW z \in Members, LockMember(z) PROVE IInv'
    BY <2>2, LockMemberStep
  <2>3. ASSUME NEW failed \in SUBSET Members, FetchMembers(failed) PROVE IInv'
    BY <2>3, FetchStep
  <2>4. CASE CommitMaps
    BY <2>4, CommitStep
  <2>5. CASE PublishBatch
    BY <2>5, PublishStep
  <2>6. CASE PublishFails
    BY <2>6, PublishFailsStep
  <2> QED
    BY <1>2, <2>1, <2>2, <2>3, <2>4, <2>5, <2>6 DEF ReconcileStep
<1>3. ASSUME NEW z \in Members, MemberStep(z) PROVE IInv'
  BY <1>3, MemberPublishStep, MemberPersistStep, MemberUndoStep DEF MemberStep
<1>4. ASSUME NEW z \in Members, PrimaryAdvances(z) PROVE IInv'
  <2>1. /\ UNCHANGED <<held, locks, budget, status, boots, history>>
        /\ minute' = minute /\ minute \in Nat
    BY <1>4 DEF PrimaryAdvances, IInv, Types
  <2> QED
    BY <2>1, QuietStep
<1>5. CASE MinutePasses
  <2>1. /\ UNCHANGED <<held, locks, budget, status, boots, history>>
        /\ minute' = minute + 1 /\ minute \in Nat
    BY <1>5 DEF MinutePasses, IInv, Types
  <2> QED
    BY <2>1, QuietStep
<1>6. CASE Restart
  BY <1>6, RestartStep
<1>7. CASE UNCHANGED vars
  <2>1. /\ UNCHANGED <<held, locks, budget, status, boots, history>>
        /\ minute' = minute /\ minute \in Nat
    BY <1>7 DEF vars, held, locks, history, IInv, Types
  <2> QED
    BY <2>1, QuietStep
<1> QED
  BY <1>1, <1>2, <1>3, <1>4, <1>5, <1>6, <1>7 DEF Next

\* Every reachable state of the runtime satisfies the inductive invariant.
THEOREM Invariance == Spec => []IInv
<1> QED
  BY InitOK, NextOK, PTL DEF Spec

\* Wherever a crash falls, NewRuntime and AttachController accept the file it leaves.
THEOREM StateFileAlwaysLoads == Spec => []StateFileLoads
<1>1. IInv => StateFileLoads
  <2> SUFFICES ASSUME IInv PROVE StateFileLoads
    OBVIOUS
  <2>1. MapsOK(file)
    BY DEF IInv
  <2>2. Loads(file)
    BY <2>1, WrittenWhole
  <2> QED
    BY <2>1, <2>2 DEF StateFileLoads, MapsOK, OwnersOK
<1> QED
  BY <1>1, Invariance, PTL

\* A catalog version reported as committed is in the file, and so is every owned
\* member as served, unless a reconciliation was undone.
THEOREM CommitsAlwaysPersist == Spec => []CommitsPersist
<1>1. IInv => CommitsPersist
  <2> SUFFICES ASSUME IInv PROVE CommittedCatalogsSurvive /\ PersistedUnlessRolledBack
    BY DEF CommitsPersist
  <2>1. CommittedCatalogsSurvive
    <3> SUFFICES ASSUME NEW c \in Sources, status[c].serial # NoSerial
                 PROVE  /\ c \in DOMAIN file.catalogs
                        /\ ~SerialGreater(status[c].serial, file.catalogs[c].serial)
      BY DEF CommittedCatalogsSurvive
    <3> DEFINE s == status[c].serial
               f == file.catalogs[c].serial
    <3>1. /\ c \in DOMAIN Accepted.catalogs /\ Accepted.catalogs[c].serial = s
          /\ c \in DOMAIN file.catalogs
          /\ s = f \/ SerialGreater(f, s)
      BY DEF IInv, FileAhead
    <3>2. MapsOK(Accepted) /\ MapsOK(file)
      BY DEF IInv, Accepted, Committed
    <3>3. s \in 0 .. SerialMod - 1 /\ f \in 0 .. SerialMod - 1
      BY <3>1, <3>2 DEF MapsOK, SnapshotsOK
    <3> HIDE DEF s, f
    <3>4. ~SerialGreater(s, f)
      BY <3>1, <3>3, AheadOneWay
    <3> QED
      BY <3>1, <3>4 DEF s, f
  <2>2. PersistedUnlessRolledBack
    <3> SUFFICES ASSUME rollbacks = 0, run = NoRun,
                        NEW z \in DOMAIN maps.ownership, member[z] = Idle
                 PROVE  Persisted(z)
      BY DEF PersistedUnlessRolledBack, MemberPublicationsPersisted
    <3>1. run.stage # "publish" /\ Accepted = maps
      BY DEF NoRun, Accepted
    <3>2. file = maps /\ maps.members[z] = served[z]
      BY <3>1 DEF IInv, Recorded, Target
    <3>3. z \in DOMAIN maps.members /\ z \in DOMAIN served
      BY <3>1 DEF IInv, MapsOK, Following
    <3> QED
      BY <3>2, <3>3 DEF Persisted
  <2> QED
    BY <2>1, <2>2
<1> QED
  BY <1>1, Invariance, PTL

\* Whether a reconciliation commits, fails or is refused, the workers follow the
\* catalogs afterwards, no lock stays behind and the budget is respected.
THEOREM ReconciliationsAlwaysSettle == Spec => []ReconciliationsSettle
<1>1. IInv => ReconciliationsSettle
  <2> SUFFICES ASSUME IInv
               PROVE  TypeOK /\ WorkersFollowCatalogs /\ LocksAreOwned /\ BudgetRespected
    BY DEF ReconciliationsSettle
  <2>1. TypeOK
    <3>1. MapsOK(Accepted) /\ MapsOK(maps)
      BY DEF IInv, Accepted, Committed
    <3>2. DOMAIN maps.catalogs \subseteq Sources
      BY <3>1 DEF MapsOK, SnapshotsOK
    <3>3. DOMAIN maps.ownership \subseteq Members /\ DOMAIN Accepted.ownership \subseteq Members
      BY <3>1 DEF MapsOK, OwnersOK
    <3>4. DOMAIN maps.ownership \cup DOMAIN served \cup DOMAIN workers \subseteq Members
      BY <3>3 DEF IInv, Following
    <3>5. run.stage \in {"none", "quiesce", "commit", "publish"}
      BY DEF IInv, Reconciling, NoRun
    <3>6. \A c \in Sources : budget[c].tokens \in 0 .. Burst
      BY DEF IInv, Ledger, Buckets
    <3> QED
      BY <3>2, <3>4, <3>5, <3>6 DEF TypeOK, IInv, Types
  <2>2. WorkersFollowCatalogs
    <3> SUFFICES ASSUME run = NoRun
                 PROVE  /\ DOMAIN workers = DOMAIN maps.ownership
                        /\ \A z \in DOMAIN workers :
                              LET o == maps.ownership[z]
                              IN workers[z] = memberConfig(o.catalog,
                                                maps.catalogs[o.catalog].members[z])
                        /\ DOMAIN maps.ownership \subseteq DOMAIN served
      BY DEF WorkersFollowCatalogs
    <3>1. Accepted = maps
      BY DEF Accepted, NoRun
    <3> QED
      BY <3>1 DEF IInv, Following, SettingsIn
  <2>3. LocksAreOwned
    BY DEF IInv
  <2>4. BudgetRespected
    <3> SUFFICES ASSUME NEW c \in Sources PROVE spent[c] <= Burst + minute * Rate
      BY DEF BudgetRespected
    <3> DEFINE b == budget[c]
               x == b.lastRefill * Rate
               y == minute * Rate
               n == InFlight(c)
    <3>1. /\ b.tokens \in 0 .. Burst /\ b.lastRefill \in 0 .. minute /\ minute \in Nat
          /\ spent[c] \in Nat /\ n \in Nat
          /\ spent[c] + n + b.tokens <= Burst + x
      BY InFlightIsNat DEF IInv, Types, Ledger, Buckets, Covers
    <3>2. x <= y /\ x \in Nat /\ y \in Nat
      <4> HIDE DEF b
      <4> QED
        BY <3>1, BudgetAssumption, SMT
    <3> HIDE DEF n, x, y, b
    <3>3. spent[c] <= Burst + y
      BY <3>1, <3>2, BudgetAssumption
    <3> QED
      BY <3>3 DEF y
  <2> QED
    BY <2>1, <2>2, <2>3, <2>4
<1> QED
  BY <1>1, Invariance, PTL

\* A zone leaves its catalog only when that catalog drops it or hands it on to the
\* new owner (planner.go), rollbacks and restarts apart.
THEOREM OwnershipAlwaysMovesByOwner == Spec => OwnershipMovesByOwner
<1> DEFINE Moves(z) ==
             LET c == maps.ownership[z].catalog
                 there == IF z \in DOMAIN maps'.ownership
                          THEN maps'.ownership[z].catalog ELSE None
             IN there # c /\ boots' = boots =>
                  IF Lists(maps'.catalogs, c, z)
                  THEN maps'.catalogs[c].members[z].coo = there
                  ELSE there = None
           Step == rollbacks' = rollbacks => \A z \in DOMAIN maps.ownership : Moves(z)
<1>1. ASSUME IInv, Next PROVE Step
  <2>1. \/ maps'.ownership = maps.ownership
        \/ rollbacks' = rollbacks + 1
        \/ boots' = boots + 1
        \/ CommitMaps /\ maps' # maps
    <3>1. \A z \in Members : MemberPersist(z) => maps'.ownership = maps.ownership
      BY <1>1 DEF MemberPersist, IInv, MapsOK
    <3> QED
      BY <1>1, <3>1 DEF Next, ReconcileStep, MemberStep, ReceiveCatalog, BeginReconcile,
            LockMember, FetchMembers, CommitMaps, PublishBatch, PublishFails, MemberPublish,
            MemberUndo, PrimaryAdvances, MinutePasses, Restart, held
  <2>2. CASE maps'.ownership = maps.ownership
    BY <2>2
  <2>3. CASE rollbacks' = rollbacks + 1
    BY <1>1, <2>3 DEF IInv, Types
  <2>4. CASE boots' = boots + 1
    BY <1>1, <2>4 DEF IInv, Types
  <2>5. CASE CommitMaps /\ maps' # maps
    <3>1. run.stage = "commit" /\ maps'.catalogs = run.next /\ maps'.ownership = run.ownership
      BY <2>5 DEF CommitMaps, NextMaps
    <3>2. run # NoRun /\ Accepted = maps
      BY <3>1 DEF NoRun, Accepted
    <3>3. PlanKept(maps.catalogs, maps.ownership, run.next, run.ownership, Changed, Removed)
      BY <1>1, <3>2 DEF IInv, Reconciling
    <3>4. \A z \in DOMAIN maps.ownership : Moves(z)
      BY <3>1, <3>3 DEF PlanKept
    <3> QED
      BY <3>4
  <2> QED
    BY <2>1, <2>2, <2>3, <2>4, <2>5
<1>2. IInv /\ [Next]_vars => [Step]_vars
  BY <1>1
<1> QED
  BY <1>2, Invariance, PTL DEF Spec, OwnershipMovesByOwner
=============================================================================

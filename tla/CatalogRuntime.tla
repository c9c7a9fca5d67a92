--------------------------- MODULE CatalogRuntime ---------------------------
(***************************************************************************)
(* The catalog runtime (internal/catalog/runtime.go) between the secondary *)
(* manager, which transfers catalogs and members, and the zone store.      *)
(*                                                                         *)
(* A catalog that arrives is reconciled under reconcileMu:                 *)
(*   ReceiveCatalog    AddZone of a catalog: receipt, Parse                *)
(*   BeginReconcile    scope, serial, graph, Plan, limits, approval, budget*)
(*   LockMember        ApplyBatch quiesces the workers of changed members  *)
(*   FetchMembers      ... and transfers them                              *)
(*   CommitMaps        commitReconciliation under r.mu, state file written *)
(*   PublishBatch      store.ApplyZoneBatch, then the new workers          *)
(*   PublishFails      ... or the maps and the file go back                *)
(* Meanwhile the workers of the other members publish through the same     *)
(* runtime: MemberPublish, MemberPersist and, if the file cannot be        *)
(* written, MemberUndo.  A crash may fall between any two steps.           *)
(***************************************************************************)
EXTENDS Catalog, Maps

CONSTANTS
    Members,      \* zones catalogs may list
    Raws,         \* catalog zones their primaries publish
    MaxMembers,   \* [Sources -> Nat]
    MaxActions,   \* [Sources -> Nat], max_reconcile_actions
    DryRun,       \* catalogs in dry-run mode
    ApprovalAbove,\* [Sources -> Nat], 0 for never
    Approved,     \* [Sources -> serial approved by the operator]
    Burst, Rate,  \* action tokens: capacity, and refill per minute
    Faults,       \* "persist": the state file, "store": ApplyZoneBatch
    MaxReceipts, MaxVersion, MaxMinutes, MaxBoots  \* bounds

\* What a primary publishes: a catalog of the configuration that lists members, or
\* zones it must not list.
ASSUME RawsAssumption ==
    /\ IsFiniteSet(Members)
    /\ \A raw \in Raws :
          /\ raw.name \in Sources
          /\ raw.serial \in 0 .. SerialMod - 1
          /\ \A p \in raw.ptr : p.zone \in Members \cup Reserved
ASSUME BudgetAssumption == Burst \in Nat \ {0} /\ Rate \in Nat \ {0}
ASSUME CatalogBounds ==
    /\ MaxReceipts \in Nat /\ MaxVersion \in Nat
    /\ MaxMinutes \in Nat /\ MaxBoots \in Nat

VARIABLES
    maps,      \* [catalogs, ownership, members]: the fields r.mu guards
    file,      \* the state file, of the same shape
    served,    \* the store: zone to version, partial
    workers,   \* the manager: member to its transfer settings, partial
    opMu,      \* [Members -> holder of its worker's opMu]
    inbox,     \* [Sources -> raw catalog waiting for reconcileMu, or NoRaw]
    run,       \* the reconciliation that holds reconcileMu, or NoRun
    member,    \* [Members -> the publication its worker is in the middle of]
    budget,    \* [Sources -> [tokens, lastRefill]]
    status,    \* [Sources -> [serial, error, pending]]
    primary,   \* [Members -> version its primary serves]
    minute,    \* the clock
    spent,     \* history: [Sources -> actions committed since the start]
    rollbacks, \* history: reconciliations undone after the state file was written
    receipts, boots

NoSerial == -1
NoRaw == [name |-> None]
NoRun == [stage |-> "none"]
Idle == [stage |-> "idle"]
NoMaps == [catalogs |-> <<>>, ownership |-> <<>>, members |-> <<>>]

held == <<maps, file, served, workers>>
locks == <<opMu, inbox, run, member>>
counters == <<primary, minute, receipts, boots>>
history == <<spent, rollbacks>>
vars == <<maps, file, served, workers, opMu, inbox, run, member, budget, status,
          primary, minute, spent, rollbacks, receipts, boots>>

Drop(f, S) == [x \in DOMAIN f \ S |-> f[x]]

-----------------------------------------------------------------------------
(* The state file.  Only the data of owned members is written.             *)

persistLocked(m) ==
    [catalogs |-> m.catalogs, ownership |-> m.ownership,
     members |-> [z \in DOMAIN m.members \cap DOMAIN m.ownership |-> m.members[z]]]

\* NewRuntime and AttachController refuse to start unless this holds.
Loads(f) ==
    /\ \A c \in DOMAIN f.catalogs : validateMemberScope(c, f.catalogs[c], MaxMembers[c])
    /\ validateCatalogGraph(f.catalogs)
    /\ \A z \in DOMAIN f.ownership :
          /\ z \notin Reserved
          /\ z \in DOMAIN f.members
          /\ Lists(f.catalogs, f.ownership[z].catalog, z)

-----------------------------------------------------------------------------
(* Catalogs.                                                               *)

Note(c, s) == status' = [status EXCEPT ![c] = s]
Rejected(c) == [status[c] EXCEPT !.error = TRUE]

ReceiveCatalog(raw) ==
    LET c == raw.name IN
    /\ receipts < MaxReceipts
    /\ inbox[c] = NoRaw
    /\ receipts' = receipts + 1
    /\ \/ /\ Parses(raw)
          /\ inbox' = [inbox EXCEPT ![c] = raw]
          /\ UNCHANGED status
       \/ /\ ~Parses(raw)
          /\ Note(c, Rejected(c))
          /\ UNCHANGED inbox
    /\ UNCHANGED <<held, opMu, run, member, budget, primary, minute, history, boots>>

Cost(plan) == Cardinality({a \in plan : a.kind # "conflict"})

\* Why a parsed catalog is not reconciled, or "go".
Refusal(c, snapshot, plan, next) ==
    IF ~validateMemberScope(c, snapshot, MaxMembers[c]) THEN "scope"
    ELSE IF c \in DOMAIN maps.catalogs
            /\ ~SerialGreater(snapshot.serial, maps.catalogs[c].serial) THEN "serial"
    ELSE IF ~validateCatalogGraph(next) THEN "graph"
    ELSE IF Cardinality(plan) > MaxActions[c] THEN "actions"
    ELSE IF c \in DryRun THEN "dry_run"
    ELSE IF /\ ApprovalAbove[c] > 0
            /\ countDestructiveActions(plan) > ApprovalAbove[c]
            /\ Approved[c] # snapshot.serial
         THEN "approval_required"
    ELSE "go"

\* Mutant: the refill is not capped by the burst.
RefilledUncapped(b) ==
    [tokens |-> b.tokens + (minute - b.lastRefill) * Rate, lastRefill |-> minute]

\* Tokens grow with the minutes since the last look, up to the burst.
Refilled(b) ==
    IF minute = b.lastRefill THEN b
    ELSE [tokens |-> LET t == b.tokens + (minute - b.lastRefill) * Rate
                     IN IF t > Burst THEN Burst ELSE t,
          lastRefill |-> minute]

\* Mutant: the budget is not charged.
takeReconcileBudgetFree(b, n) == <<TRUE, Refilled(b)>>

takeReconcileBudget(b, n) ==
    IF n = 0 THEN <<TRUE, b>>
    ELSE IF Refilled(b).tokens < n THEN <<FALSE, Refilled(b)>>
    ELSE <<TRUE, [Refilled(b) EXCEPT !.tokens = @ - n]>>

refundReconcileBudget(b, n) ==
    [b EXCEPT !.tokens = IF @ + n > Burst THEN Burst ELSE @ + n]

\* Mutant: a member recreated under a new label is recorded under the old one.
FinalOwnershipOldLabel(plan) ==
    LET changed == {a \in plan : a.kind \in {"add", "transfer"}}
        removed == {a.zone : a \in {b \in plan : b.kind = "remove"}}
    IN [z \in (DOMAIN maps.ownership \cup {a.zone : a \in changed}) \ removed |->
          IF \E a \in changed : a.zone = z
          THEN LET a == CHOOSE b \in changed : b.zone = z
               IN [catalog |-> a.catalog, label |-> a.label]
          ELSE maps.ownership[z]]

\* Who owns what once the plan is carried out.
FinalOwnership(plan) ==
    LET changed == {a \in plan : a.kind \in {"add", "reconfigure", "recreate", "transfer"}}
        removed == {a.zone : a \in {b \in plan : b.kind = "remove"}}
    IN [z \in (DOMAIN maps.ownership \cup {a.zone : a \in changed}) \ removed |->
          IF \E a \in changed : a.zone = z
          THEN LET a == CHOOSE b \in changed : b.zone = z
               IN [catalog |-> a.catalog, label |-> a.label]
          ELSE maps.ownership[z]]

BeginReconcile(c) ==
    LET raw == inbox[c]
        snapshot == Parse(raw)
        next == Over(At(c, snapshot), maps.catalogs)
        plan == Plan(maps.catalogs, next, maps.ownership)
        why == Refusal(c, snapshot, plan, next)
        taken == takeReconcileBudget(budget[c], Cost(plan))
    IN /\ run = NoRun
       /\ raw # NoRaw
       /\ budget' = IF why = "go" THEN [budget EXCEPT ![c] = taken[2]] ELSE budget
       /\ \/ /\ why = "go" /\ taken[1]
             /\ run' = [stage |-> "quiesce", catalog |-> c, next |-> next,
                        ownership |-> FinalOwnership(plan),
                        plan |-> {a \in plan : a.kind # "conflict"},
                        ups |-> <<>>, before |-> NoMaps]
             /\ UNCHANGED <<inbox, status>>
          \/ /\ ~(why = "go" /\ taken[1])
             /\ inbox' = [inbox EXCEPT ![c] = NoRaw]
             /\ Note(c, IF why \in {"dry_run", "approval_required"}
                        THEN [Rejected(c) EXCEPT !.pending = snapshot.serial]
                        ELSE Rejected(c))
             /\ UNCHANGED run
       /\ UNCHANGED <<held, opMu, member, counters, history>>

Changed == {a.zone : a \in run.plan}
Removed == {a.zone : a \in {b \in run.plan : b.kind = "remove"}}

\* Mutant: the error path of ApplyBatch forgets unlockWorkers.
AbortLocked(c) ==
    /\ run' = NoRun
    /\ inbox' = [inbox EXCEPT ![c] = NoRaw]
    /\ opMu' = opMu
    /\ budget' = [budget EXCEPT ![c] = refundReconcileBudget(@, Cardinality(run.plan))]
    /\ Note(c, Rejected(c))

\* reconcile returns an error: tokens back, locks released, last valid state kept.
Abort(c) ==
    /\ run' = NoRun
    /\ inbox' = [inbox EXCEPT ![c] = NoRaw]
    /\ opMu' = [z \in Members |-> IF opMu[z] = "batch" THEN "free" ELSE opMu[z]]
    /\ budget' = [budget EXCEPT ![c] = refundReconcileBudget(@, Cardinality(run.plan))]
    /\ Note(c, Rejected(c))

\* ApplyBatch takes opMu of every worker it will replace.
LockMember(z) ==
    /\ run.stage = "quiesce"
    /\ z \in Changed \cap DOMAIN workers
    /\ opMu[z] = "free"
    /\ opMu' = [opMu EXCEPT ![z] = "batch"]
    /\ UNCHANGED <<held, inbox, run, member, budget, status, counters, history>>

\* A member that cannot be transferred keeps the data that is served, if any; one
\* whose serial did not advance is left alone unless its state is to be reset.
FetchMembers(failed) ==
    LET wanted == Changed \ Removed
        Reset(z) == \E a \in run.plan : a.zone = z /\ a.reset
        ups == {z \in wanted \ failed :
                  z \notin DOMAIN served \/ Reset(z) \/ primary[z] > served[z]}
    IN /\ run.stage = "quiesce"
       /\ \A z \in Changed \cap DOMAIN workers : opMu[z] = "batch"
       /\ failed \subseteq wanted
       /\ \/ /\ failed \subseteq DOMAIN served
             /\ run' = [run EXCEPT !.stage = "commit",
                                   !.ups = [z \in ups |-> primary[z]]]
             /\ UNCHANGED <<opMu, inbox, budget, status>>
          \/ /\ ~(failed \subseteq DOMAIN served)
             /\ Abort(run.catalog)
       /\ UNCHANGED <<held, member, counters, history>>

NextMaps ==
    [catalogs |-> run.next, ownership |-> run.ownership,
     members |-> Over(run.ups, Drop(maps.members, Removed))]

\* Mutant: the store is changed first and the file written with the next change.
CommitMapsUnwritten ==
    /\ run.stage = "commit"
    /\ DOMAIN run.ownership \subseteq DOMAIN NextMaps.members
    /\ maps' = NextMaps
    /\ run' = [run EXCEPT !.stage = "publish", !.before = maps]
    /\ UNCHANGED <<file, served, workers, opMu, inbox, member, budget, status, counters, history>>

\* Under r.mu: new maps, then the file; if it cannot be written the old maps stay.
CommitMaps ==
    /\ run.stage = "commit"
    /\ \/ /\ DOMAIN run.ownership \subseteq DOMAIN NextMaps.members
          /\ maps' = NextMaps
          /\ file' = persistLocked(NextMaps)
          /\ run' = [run EXCEPT !.stage = "publish", !.before = maps]
          /\ UNCHANGED <<opMu, inbox, budget, status>>
       \/ /\ \/ "persist" \in Faults
             \/ ~(DOMAIN run.ownership \subseteq DOMAIN NextMaps.members)
          /\ Abort(run.catalog)
          /\ UNCHANGED <<maps, file>>
    /\ UNCHANGED <<served, workers, member, counters, history>>

\* Mutant: workers of members that stay keep their settings.
SettingsKept ==
    [z \in (DOMAIN workers \cup Changed) \ Removed |->
       IF z \in DOMAIN workers THEN workers[z]
       ELSE memberConfig(run.ownership[z].catalog,
                         run.next[run.ownership[z].catalog].members[z])]

\* ApplyBatch replaces the workers of the changed members.
Settings ==
    [z \in (DOMAIN workers \cup Changed) \ Removed |->
       IF z \in Changed
       THEN memberConfig(run.ownership[z].catalog,
                         run.next[run.ownership[z].catalog].members[z])
       ELSE workers[z]]

PublishBatch ==
    LET c == run.catalog IN
    /\ run.stage = "publish"
    /\ served' = Over(run.ups, Drop(served, Removed))
    /\ workers' = Settings
    /\ opMu' = [z \in Members |-> IF opMu[z] = "batch" THEN "free" ELSE opMu[z]]
    /\ spent' = [spent EXCEPT ![c] = @ + Cardinality(run.plan)]
    /\ Note(c, [serial |-> run.next[c].serial, error |-> FALSE, pending |-> NoSerial])
    /\ inbox' = [inbox EXCEPT ![c] = NoRaw]
    /\ run' = NoRun
    /\ UNCHANGED <<maps, file, member, budget, counters, rollbacks>>

\* The store refuses the batch: the maps saved at the beginning come back, and so
\* does the file, unless writing it fails as well.
PublishFails ==
    /\ run.stage = "publish"
    /\ "store" \in Faults
    /\ maps' = run.before
    /\ \/ file' = persistLocked(run.before)
       \/ "persist" \in Faults /\ file' = file
    /\ rollbacks' = rollbacks + 1
    /\ Abort(run.catalog)
    /\ UNCHANGED <<served, workers, member, counters, spent>>

-----------------------------------------------------------------------------
(* Members: AddZone as the workers of the secondary manager call it.       *)

MemberPublish(z) ==
    /\ z \in DOMAIN workers
    /\ opMu[z] = "free"
    /\ z \in DOMAIN served => primary[z] > served[z]
    /\ opMu' = [opMu EXCEPT ![z] = "worker"]
    /\ member' = [member EXCEPT ![z] =
                    [stage |-> "persist", new |-> primary[z],
                     had |-> IF z \in DOMAIN served THEN {served[z]} ELSE {}]]
    /\ served' = Over(At(z, primary[z]), served)
    /\ UNCHANGED <<maps, file, workers, inbox, run, budget, status, counters, history>>

MemberDone(z) ==
    /\ opMu' = [opMu EXCEPT ![z] = "free"]
    /\ member' = [member EXCEPT ![z] = Idle]

\* Mutant: the member's data is not kept for the state file.
MemberPersistStoreOnly(z) ==
    /\ member[z].stage = "persist"
    /\ file' = persistLocked(maps)
    /\ MemberDone(z)
    /\ UNCHANGED <<maps, served, workers, inbox, run, budget, status, counters, history>>

\* Under r.mu; only the data of a member that is still owned is kept.
MemberPersist(z) ==
    LET next == IF z \in DOMAIN maps.ownership
                THEN [maps EXCEPT !.members = Over(At(z, member[z].new), @)]
                ELSE maps
    IN /\ member[z].stage = "persist"
       /\ \/ /\ maps' = next
             /\ file' = persistLocked(next)
             /\ MemberDone(z)
          \/ /\ "persist" \in Faults
             /\ member' = [member EXCEPT ![z].stage = "undo"]
             /\ UNCHANGED <<maps, file, opMu>>
       /\ UNCHANGED <<served, workers, inbox, run, budget, status, counters, history>>

MemberUndo(z) ==
    /\ member[z].stage = "undo"
    /\ served' = IF member[z].had = {} THEN Drop(served, {z})
                 ELSE [served EXCEPT ![z] = CHOOSE v \in member[z].had : TRUE]
    /\ MemberDone(z)
    /\ UNCHANGED <<maps, file, workers, inbox, run, budget, status, counters, history>>

-----------------------------------------------------------------------------
(* The environment.                                                        *)

PrimaryAdvances(z) ==
    /\ primary[z] < MaxVersion
    /\ primary' = [primary EXCEPT ![z] = @ + 1]
    /\ UNCHANGED <<held, locks, budget, status, minute, receipts, boots, history>>

MinutePasses ==
    /\ minute < MaxMinutes
    /\ minute' = minute + 1
    /\ UNCHANGED <<held, locks, budget, status, primary, receipts, boots, history>>

FreshBudget == [c \in Sources |-> [tokens |-> Burst, lastRefill |-> minute]]

\* The process stops and starts again from the file: NewRuntime restores the owned
\* members, AttachController seeds their workers.
Restart ==
    /\ boots < MaxBoots
    /\ boots' = boots + 1
    /\ Loads(file)
    /\ maps' = file
    /\ served' = file.members
    /\ workers' = [z \in DOMAIN file.ownership |->
                     memberConfig(file.ownership[z].catalog,
                                  file.catalogs[file.ownership[z].catalog].members[z])]
    /\ status' = [c \in Sources |->
                    [serial |-> IF c \in DOMAIN file.catalogs
                                THEN file.catalogs[c].serial ELSE NoSerial,
                     error |-> FALSE, pending |-> NoSerial]]
    /\ budget' = FreshBudget
    /\ spent' = [c \in Sources |-> 0]
    /\ opMu' = [z \in Members |-> "free"]
    /\ inbox' = [c \in Sources |-> NoRaw]
    /\ run' = NoRun
    /\ member' = [z \in Members |-> Idle]
    /\ UNCHANGED <<file, primary, minute, rollbacks, receipts>>

Init ==
    /\ maps = NoMaps /\ file = NoMaps
    /\ served = <<>> /\ workers = <<>>
    /\ opMu = [z \in Members |-> "free"]
    /\ inbox = [c \in Sources |-> NoRaw]
    /\ run = NoRun
    /\ member = [z \in Members |-> Idle]
    /\ minute = 0
    /\ budget = FreshBudget
    /\ status = [c \in Sources |-> [serial |-> NoSerial, error |-> FALSE, pending |-> NoSerial]]
    /\ primary = [z \in Members |-> 1]
    /\ spent = [c \in Sources |-> 0]
    /\ rollbacks = 0 /\ receipts = 0 /\ boots = 0

ReconcileStep ==
    \/ \E c \in Sources : BeginReconcile(c)
    \/ \E z \in Members : LockMember(z)
    \/ \E failed \in SUBSET Members : FetchMembers(failed)
    \/ CommitMaps \/ PublishBatch \/ PublishFails

MemberStep(z) == MemberPublish(z) \/ MemberPersist(z) \/ MemberUndo(z)

Next ==
    \/ \E raw \in Raws : ReceiveCatalog(raw)
    \/ ReconcileStep
    \/ \E z \in Members : MemberStep(z) \/ PrimaryAdvances(z)
    \/ MinutePasses
    \/ Restart

Spec == Init /\ [][Next]_vars

-----------------------------------------------------------------------------
(* What makes the runtime correct.                                         *)

\* Shapes of the control state.
TypeOK ==
    /\ DOMAIN maps.catalogs \subseteq Sources
    /\ DOMAIN maps.ownership \cup DOMAIN served \cup DOMAIN workers \subseteq Members
    /\ opMu \in [Members -> {"free", "worker", "batch"}]
    /\ run.stage \in {"none", "quiesce", "commit", "publish"}
    /\ \A c \in Sources : budget[c].tokens \in 0 .. Burst

\* Wherever a crash falls, the state file it leaves starts the server again: every
\* owned member has data, its owner's accepted catalog lists it under the owned
\* label, and no operator zone is claimed (NewRuntime, AttachController).
StateFileLoads ==
    /\ Loads(file)
    /\ \A z \in DOMAIN file.ownership :
          LET o == file.ownership[z]
          IN file.catalogs[o.catalog].members[z].label = o.label

\* Between reconciliations exactly the owned members have workers, each with the
\* settings of its owner's accepted catalog, and what is owned is served.
WorkersFollowCatalogs ==
    run = NoRun =>
        /\ DOMAIN workers = DOMAIN maps.ownership
        /\ \A z \in DOMAIN workers :
              LET o == maps.ownership[z]
              IN workers[z] = memberConfig(o.catalog, maps.catalogs[o.catalog].members[z])
        /\ DOMAIN maps.ownership \subseteq DOMAIN served

\* A zone leaves its catalog only when that catalog drops it or hands it on to the
\* new owner, whatever other catalogs publish (planner.go: "Existing ownership
\* always wins a clash"); a rollback gives it back.
OwnershipMovesByOwner ==
    [][rollbacks' = rollbacks =>
         \A z \in DOMAIN maps.ownership :
            LET c == maps.ownership[z].catalog
                there == IF z \in DOMAIN maps'.ownership
                         THEN maps'.ownership[z].catalog ELSE None
            IN there # c /\ boots' = boots =>
                 IF Lists(maps'.catalogs, c, z)
                 THEN maps'.catalogs[c].members[z].coo = there
                 ELSE there = None]_vars

\* A catalog version reported as committed is in the file, through crashes,
\* refused catalogs and rollbacks.
CommittedCatalogsSurvive ==
    \A c \in Sources :
        status[c].serial # NoSerial =>
            /\ c \in DOMAIN file.catalogs
            /\ ~SerialGreater(status[c].serial, file.catalogs[c].serial)

\* However reconciliations fail and are refunded, no more is committed than the
\* burst and the minutes since the start allow.
BudgetRespected ==
    \A c \in Sources : spent[c] <= Burst + minute * Rate

\* runtime.go:349: "member publications are atomically forwarded and persisted".
\* At rest the file holds the version of every owned member that is served.
Persisted(z) == z \in DOMAIN file.members /\ z \in DOMAIN served
                  /\ file.members[z] = served[z]
MemberPublicationsPersisted ==
    run = NoRun => \A z \in DOMAIN maps.ownership : member[z] = Idle => Persisted(z)

\* The same as long as no reconciliation had to be undone.
PersistedUnlessRolledBack == rollbacks = 0 => MemberPublicationsPersisted

\* No error path keeps a lock: a worker is quiesced only for the reconciliation
\* under way, which is about a catalog still undecided, and busy only with a
\* publication of its own; so everybody who waits, waits for someone who moves.
LocksAreOwned ==
    /\ run # NoRun => inbox[run.catalog] # NoRaw
    /\ \A z \in Members :
          /\ opMu[z] = "batch" => run # NoRun /\ z \in Changed
          /\ (opMu[z] = "worker") <=> (member[z] # Idle)

\* What the state file must hold: the catalogs reported as committed, and the
\* members as served unless a reconciliation was undone.
CommitsPersist == CommittedCatalogsSurvive /\ PersistedUnlessRolledBack

\* A reconciliation, whether it commits, fails or is refused, leaves workers that
\* follow the catalogs, no lock behind and no more spent than the budget allows.
ReconciliationsSettle == TypeOK /\ WorkersFollowCatalogs /\ LocksAreOwned /\ BudgetRespected
=============================================================================

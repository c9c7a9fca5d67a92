-------------------------- MODULE AtomicZoneStore ---------------------------
(***************************************************************************)
(* What the zone store promises, without locks, clones or files: the live  *)
(* zones change only in single steps, an UPDATE step computes its result   *)
(* from the very zone it replaces, and an administrative step replaces or  *)
(* removes whole zones at once (update.go step 9, ApplyZoneBatch).  What   *)
(* an UPDATE computes and which zones are valid are parameters.            *)
(***************************************************************************)
EXTENDS Integers

CONSTANTS
    ZoneNames, Messages, Images, FirstDay, MaxDays, PerDay,
    updateOutcome(_, _, _),   \* [rcode, zone] of a zone, a request and a date
    Validate(_)

VARIABLES
    zones,   \* the live zone of every origin
    boots    \* restarts so far

NoZone == [soa |-> -1, soaRec |-> -1, rrs |-> <<>>]

Days == {FirstDay + d * (PerDay + 1) : d \in 0 .. MaxDays}

Init == DOMAIN zones = ZoneNames /\ boots = 0

\* The date is read when the request is evaluated, so it may lag behind.
Update(m) ==
    /\ zones[m.zone] # NoZone
    /\ m.authorized /\ m.contained
    /\ \E day \in Days :
         LET outcome == updateOutcome(zones[m.zone], m, day) IN
         /\ outcome.rcode = "NOERROR"
         /\ zones' = [zones EXCEPT ![m.zone] = outcome.zone]
    /\ boots' = boots

Replace(chosen, removals) ==
    /\ \A i, j \in chosen : i.name = j.name => i = j
    /\ \A i \in chosen : Validate(i.zone)
    /\ zones' = [n \in ZoneNames |->
                   IF n \in removals THEN NoZone
                   ELSE IF \E i \in chosen : i.name = n
                   THEN (CHOOSE i \in chosen : i.name = n).zone
                   ELSE zones[n]]
    /\ boots' = boots

Restart == boots' # boots

Next == \/ \E m \in Messages : Update(m)
        \/ \E chosen \in SUBSET Images, removals \in SUBSET ZoneNames :
              Replace(chosen, removals)
        \/ Restart

Spec == Init /\ [][Next]_<<zones, boots>>
=============================================================================

------------------------------ MODULE Journal -------------------------------
(***************************************************************************)
(* The bounded IXFR history of internal/zone/journal.go, as operators on   *)
(* one zone's sequence of deltas (oldest first), and the answer            *)
(* internal/server/axfr.go builds from it.  Every Journal method holds the *)
(* journal's own mutex from beginning to end, so each is one step.         *)
(***************************************************************************)
EXTENDS Zone

CONSTANT MaxDeltas   \* deltas retained per zone, 100 by default

ASSUME MaxDeltasAssumption == MaxDeltas \in Nat /\ MaxDeltas >= 1

NoHistory == <<>>

Contiguous(history, delta) == history = <<>> \/ Last(history).to = delta.from

Trimmed(history) ==
    IF Len(history) > MaxDeltas
    THEN SubSeq(history, Len(history) - MaxDeltas + 1, Len(history))
    ELSE history

\* Mutant: a version that does not succeed the previous one keeps the history.
RecordKeepingHistory(history, previous, next) ==
    IF ~SerialGreater(next.soa, previous.soa) THEN history
    ELSE Trimmed(Append(history, Diff(previous, next)))

\* A version that is no RFC 1982 successor resets the history.
Record(history, previous, next) ==
    IF ~SerialGreater(next.soa, previous.soa)
    THEN NoHistory
    ELSE LET delta == Diff(previous, next)
             kept == IF Contiguous(history, delta) THEN history ELSE <<>>
         IN Trimmed(Append(kept, delta))

\* The indices Changes walks from the first delta that leaves fromSerial to the
\* first one that reaches toSerial; empty when there is no contiguous chain.
ChainEnds(history, fromSerial, toSerial) ==
    LET starts == {i \in DOMAIN history : history[i].from = fromSerial}
        start == Min(starts)
    IN IF starts = {} THEN {}
       ELSE {e \in start .. Len(history) :
               /\ history[e].to = toSerial
               /\ \A i \in start .. (e - 1) :
                     history[i].to # toSerial /\ history[i + 1].from = history[i].to}

HasChanges(history, fromSerial, toSerial) ==
    ChainEnds(history, fromSerial, toSerial) # {}

\* Mutant: the chain runs on to the newest delta.
ChangesToNewest(history, fromSerial, toSerial) ==
    SubSeq(history, Min({i \in DOMAIN history : history[i].from = fromSerial}), Len(history))

Changes(history, fromSerial, toSerial) ==
    LET start == Min({i \in DOMAIN history : history[i].from = fromSerial})
    IN SubSeq(history, start, Min(ChainEnds(history, fromSerial, toSerial)))

\* What a record set becomes when a delta is applied to it.
Patch(content, delta) == (content \ delta.deleted) \cup delta.added
=============================================================================

----------------------------- MODULE TCPLimiter -----------------------------
(***************************************************************************)
(* Admission of established TCP connections,                               *)
(* internal/transport/tcp_limiter.go.  A limiter is a record of            *)
(*   active, perClient       connections counted, in all and by client     *)
(*   tokens, lastRefill      the budget for completed handshakes           *)
(*   conns                   every connection admitted: [client, released],*)
(*                           released being the state of its sync.Once     *)
(* under settings t = [max, perClient, rate, burst].  A client is a bit    *)
(* sequence, <<>> when the remote address has no IP (haveClient is FALSE). *)
(***************************************************************************)
EXTENDS Integers, Sequences, FiniteSetsExt, Functions, Maps

NewLimitedListener(t) ==
    [active |-> 0, perClient |-> <<>>, tokens |-> t.burst, lastRefill |-> 0, conns |-> <<>>]

Counted(l, client) == IF client \in DOMAIN l.perClient THEN l.perClient[client] ELSE 0

RefilledBudget(l, t, now) == Min({t.burst, l.tokens + (now - l.lastRefill) * t.rate})

admitted(l, t, client, now) ==
    /\ RefilledBudget(l, t, now) >= 1
    /\ l.active < t.max
    /\ client # <<>> => Counted(l, client) < t.perClient

\* Every completed handshake pays, a rejected one too.
admit(l, t, client, now) ==
    LET refilled == RefilledBudget(l, t, now)
        paid == [l EXCEPT !.tokens = IF refilled < 1 THEN refilled ELSE refilled - 1,
                          !.lastRefill = now]
    IN IF ~admitted(l, t, client, now) THEN paid
       ELSE [paid EXCEPT !.active = @ + 1,
                         !.perClient = IF client = <<>> THEN @
                                       ELSE Over(At(client, Counted(l, client) + 1), @),
                         !.conns = Append(@, [client |-> client, released |-> FALSE])]

release(l, client) ==
    LET remaining == Counted(l, client) - 1
    IN [l EXCEPT !.active = Max({0, @ - 1}),
                 !.perClient = IF client = <<>> THEN @
                               ELSE IF remaining > 0 THEN [@ EXCEPT ![client] = remaining]
                               ELSE Restrict(@, DOMAIN @ \ {client})]

\* Mutant: every Close gives the place back.
CloseAlways(l, i) ==
    [release(l, l.conns[i].client) EXCEPT !.conns[i].released = TRUE]

\* The handler and the shutdown may both close a connection.
Close(l, i) ==
    IF l.conns[i].released THEN l
    ELSE [release(l, l.conns[i].client) EXCEPT !.conns[i].released = TRUE]
=============================================================================

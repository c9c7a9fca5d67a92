--------------------------- MODULE MCUpdateReplay ---------------------------
(* Small instances of UpdateReplay: windows that close at different times, *)
(* so that a full ring holds expired and open reservations side by side.   *)
EXTENDS UpdateReplay

MCRequests == {"r1", "r2", "r3"}
MCSigned == [r \in MCRequests |-> CASE r = "r1" -> 0 [] r = "r2" -> 1 [] r = "r3" -> 2]
=============================================================================

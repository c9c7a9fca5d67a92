------------------------- MODULE MCSecondaryManager -------------------------
(* Small deployments of SecondaryManager.                                  *)
EXTENDS SecondaryManager

\* One configured zone that is already served, two changes of its configuration.
\* The runs take two of its three ingredients at a time: a second change, a second
\* version at the primary, and time for the data to expire.
Configured ==
    [names |-> {"a"}, initial |-> <<"a">>, restored |-> [n \in {"a"} |-> 1],
     retain |-> {"a"}, expire |-> 1, catalogs |-> {},
     maxMutations |-> 2, maxSerial |-> 2, maxTime |-> 1]

\* A catalog "a" whose publication changes the member "m" it restored before
\* Start, while Start refreshes both.
Cataloged ==
    [names |-> {"a", "m"}, initial |-> <<"a", "m">>,
     restored |-> [n \in {"a", "m"} |-> IF n = "m" THEN 1 ELSE 0],
     retain |-> {"m"}, expire |-> 2, catalogs |-> {"a"},
     maxMutations |-> 1, maxSerial |-> 1, maxTime |-> 0]

Mutations ==
    <<[Configured EXCEPT !.maxTime = 0], [Configured EXCEPT !.maxSerial = 1],
      [Configured EXCEPT !.maxMutations = 1], Cataloged>>
Liveness == <<[Configured EXCEPT !.maxMutations = 1]>>
=============================================================================

-------------------------- MODULE MCPrimaryNotify ---------------------------
(* Two zones that share a worker, one of them with two targets, and a      *)
(* second worker that has nothing to do.                                   *)
EXTENDS PrimaryNotify

MCZones == {"a", "b"}
MCWorkers == {"w1", "w2"}
MCRoute == [z \in MCZones |-> "w1"]
MCTargets == [z \in MCZones |-> IF z = "a" THEN <<"t1", "t2">> ELSE <<"t1">>]
=============================================================================

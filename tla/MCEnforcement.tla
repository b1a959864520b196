----------------------------- MODULE MCEnforcement -----------------------------
(* Enforcement on a spoke with a short name and on the hub itself, whose   *)
(* name is so long that no digit of the clock is left, and reads like that *)
(* of an upgrade of the spoke.                                             *)
EXTENDS Enforcement, TLC

CONSTANTS h1, c1

Common == [prefix |-> "ztp-vdu.", short |-> "common"]
Group  == [prefix |-> "other.", short |-> "group"]

MCPages == {[hub |-> h1, cluster |-> c1, policies |-> {Common, Group}],
            [hub |-> None, cluster |-> h1, policies |-> {Common}]}

MCStem == c1 :> "c1" @@ h1 :> [stem |-> "c1", digits |-> 1]
MCRoom == c1 :> 2 @@ h1 :> -1
===============================================================================

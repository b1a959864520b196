----------------------------- MODULE MCFleetCache -----------------------------
(***************************************************************************)
(* FleetCache for TLC: goroutines that serve requests are alike.           *)
(***************************************************************************)
EXTENDS FleetCache, TLC

Alike == Permutations(Requests)
===============================================================================

------------------------------ MODULE MCDashboard ------------------------------
(* Dashboard with two hubs, one of which may list its spokes in two ways.  *)
EXTENDS Dashboard

CONSTANTS h1, h2, s1, s2, s3

MCHubs == {h1, h2}
MCListings == [h \in MCHubs |-> IF h = h1 THEN {<<s1, s2>>, <<s2>>} ELSE {<<s3>>}]
===============================================================================

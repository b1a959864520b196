------------------------------ MODULE MCDiscovery ------------------------------
(* Discovery with two clusters that may be hubs, in each way that isHub     *)
(* knows, and one whose labels may name either or both of them.            *)
EXTENDS Discovery, TLC

CONSTANTS h1, h2, s1

MCNames == <<h1, h2, s1>>

Plain == [clusterset |-> None, managedBy |-> None,
          addon |-> FALSE, openshift |-> FALSE, hub |-> FALSE]

MCLabelsOf ==
  h1 :> {Absent, [Plain EXCEPT !.addon = TRUE], [Plain EXCEPT !.openshift = TRUE]}
  @@ h2 :> {[Plain EXCEPT !.clusterset = "global-hub"], [Plain EXCEPT !.hub = TRUE],
            [Plain EXCEPT !.openshift = TRUE, !.hub = TRUE, !.managedBy = h1]}
  @@ s1 :> {Absent, [Plain EXCEPT !.managedBy = h1],
            [Plain EXCEPT !.managedBy = h2, !.clusterset = h1]}

MCSecretsOf ==
  h1 :> {Absent, "created-by-acm-fleet", "foreign"}
  @@ h2 :> {Absent, "created-by-acm-fleet"}
  @@ s1 :> {Absent}

Far == [name |-> "spoke", labels |-> Plain]

MCFleet ==
  h1 :> {Far, [name |-> "local-cluster", labels |-> Plain]}
  @@ h2 :> {Far, [name |-> "hub", labels |-> [Plain EXCEPT !.addon = TRUE]]}
  @@ s1 :> {}
===============================================================================

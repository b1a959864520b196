----------------------------- MODULE Conversions -----------------------------
(***************************************************************************)
(* What the backend makes of the objects it reads: a policy                *)
(* (pkg/client/policies.go) and a BareMetalHost (pkg/client/nodes.go).     *)
(* A field that an object need not have is None where it is missing.       *)
(***************************************************************************)
EXTENDS Integers, Sequences, FiniteSets

CONSTANT None

\* No status message: its annotations are not set.
NoMessage == [time |-> 0, message |-> None]

Entries(history) == {history[i] : i \in 1 .. Len(history)}

\* The loop over a detail's history.  Time 0 is one that cannot be parsed.
LatestIsLast(history) ==
  LET best[i \in 0 .. Len(history)] ==
        IF i = 0 THEN NoMessage
        ELSE IF history[i].time > 0 THEN history[i] ELSE best[i - 1]
  IN  best[Len(history)]

\* The newer one of the best entry so far and the next one; where that has no
\* message, the message of the one before stays.
Newer(best, e) ==
  IF e.time > best.time
  THEN [time |-> e.time, message |-> IF e.message = None THEN best.message ELSE e.message]
  ELSE best

Latest(history) ==
  LET best[i \in 0 .. Len(history)] ==
        IF i = 0 THEN NoMessage ELSE Newer(best[i - 1], history[i])
  IN  IF best[Len(history)].message = None THEN NoMessage ELSE best[Len(history)]

\* convertUnstructuredToPolicy: the message is that of the first detail, and
\* every detail with a state other than Compliant is a violation.
PolicyInfo(policy) ==
  [state |-> policy.state,
   violations |-> Cardinality({i \in 1 .. Len(policy.details) :
                                 policy.details[i].compliant \notin {None, "Compliant"}}),
   latest |-> IF policy.details = <<>> THEN NoMessage ELSE Latest(policy.details[1].history)]

\* convertBMHToNodeInfo: a provisioned host is called Ready, with a note if it
\* is known to be off.
NodeStatus(host) ==
  IF host.state # "provisioned" THEN host.state
  ELSE IF host.powered = FALSE THEN "Ready (PoweredOff)" ELSE "Ready"

\* A disk without a size (0) is counted and has no detail, and without any size
\* there is no storage; the primary NIC is the first that has an address.  What
\* else the inventory says is copied.
Inventory(hardware) ==
  LET HasSize(disk) == disk > 0
      sized == SelectSeq(hardware.disks, HasSize)
      total[i \in 0 .. Len(hardware.disks)] ==
        IF i = 0 THEN 0 ELSE total[i - 1] + hardware.disks[i]
      addressed == {i \in 1 .. Len(hardware.nics) : hardware.nics[i].ip # None}
  IN  [storage |-> IF sized = <<>> THEN None
                   ELSE [size |-> total[Len(hardware.disks)], disks |-> Len(hardware.disks)],
       details |-> sized,
       primary |-> IF addressed = {} THEN None
                   ELSE hardware.nics[CHOOSE i \in addressed : \A j \in addressed : i <= j],
       macs |-> {hardware.nics[i].mac : i \in 1 .. Len(hardware.nics)} \ {None}]

\* Without an inventory a host has no condition.
NodeInfo(host) ==
  [status |-> NodeStatus(host),
   hardware |-> IF host.hardware = None THEN None ELSE Inventory(host.hardware),
   ready |-> host.hardware # None /\ NodeStatus(host) = "Ready"]
===============================================================================

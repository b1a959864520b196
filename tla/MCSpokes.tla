------------------------------- MODULE MCSpokes -------------------------------
(* Spokes of three clusters, one of them the hub itself; the policies' histories *)
(* come newest first, newest last, with a time that cannot be parsed, and  *)
(* without a message.                                                      *)
EXTENDS Spokes

Entry(t, m) == [time |-> t, message |-> m]
Detail(s, h) == [compliant |-> s, history |-> h]
Record(a, s, d, h, o) == [available |-> a, policy |-> [state |-> s, details |-> d],
                          host |-> h, operator |-> o]

Nic(i, a) == [ip |-> i, mac |-> a]
On == [state |-> "provisioned", powered |-> TRUE,
       hardware |-> [disks |-> <<2, 0, 3>>, nics |-> <<Nic(None, "m1"), Nic("i2", None), Nic("i3", "m3")>>]]

MCContents ==
  {Record("True", "Compliant", <<>>, On, "Succeeded"),
   Record("False", "NonCompliant",
          <<Detail("NonCompliant", <<Entry(2, "new"), Entry(1, "old")>>), Detail("Compliant", <<>>)>>,
          [On EXCEPT !.powered = FALSE], "Failed"),
   Record(Absent, "NonCompliant",
          <<Detail("NonCompliant", <<Entry(1, "old"), Entry(3, "new"), Entry(0, "lost")>>)>>,
          [On EXCEPT !.hardware = None], "Failed"),
   Record("Unknown", None,
          <<Detail(None, <<Entry(1, "old"), Entry(2, None)>>)>>,
          [state |-> "inspecting", powered |-> None, hardware |-> None], "Succeeded")}
===============================================================================

------------------------------- MODULE HubGather -------------------------------
(***************************************************************************)
(* What GetManagedHubs (pkg/client/rhacm.go) promises: one answer, made of *)
(* every hub that RHACM manages, each described for itself before the      *)
(* answer is made, and of every hub added by hand that RHACM does not      *)
(* manage as well.  Where RHACM is missing, and only there, the answer is  *)
(* made of the hubs added by hand alone; and only if their Secrets could   *)
(* not be read are these left out.  How the work is spread over goroutines *)
(* is HubFanout's business.                                                *)
(***************************************************************************)
CONSTANTS
  Clusters,   \* hubs among RHACM's managed clusters
  Secrets,    \* hubs with a Secret in acm-fleet
  Empty,      \* the zero value of a hub
  NoAnswer    \* GetManagedHubs has not returned, or failed

\* A hub in the answer.
Hub(name, source) == [name |-> name, source |-> source]
ByHand(names) == {Hub(s, "manual") : s \in names}

VARIABLES
  rhacm,      \* what asking for the managed clusters has shown of RHACM
  unread,     \* the Secrets could not be listed
  hubs,       \* the descriptions made so far
  answer      \* the hubs returned

vars == <<rhacm, unread, hubs, answer>>

Init == /\ rhacm = "unasked"
        /\ unread = FALSE
        /\ hubs = [c \in Clusters |-> Empty]
        /\ answer = NoAnswer

Learn == /\ rhacm = "unasked"
         /\ rhacm' \in {"installed", "missing", "failed"}
         /\ UNCHANGED <<unread, hubs, answer>>

Describe(c) == /\ rhacm = "installed" /\ answer = NoAnswer
               /\ hubs[c] = Empty
               /\ hubs' = [hubs EXCEPT ![c] = Hub(c, "rhacm")]
               /\ UNCHANGED <<rhacm, unread, answer>>

\* What RHACM knows has been gathered: every hub, or there is no RHACM.
Gathered == \/ rhacm = "installed" /\ \A c \in Clusters : hubs[c] = Hub(c, "rhacm")
            \/ rhacm = "missing"

LoseSecrets == /\ Gathered /\ answer = NoAnswer
               /\ unread' = TRUE
               /\ UNCHANGED <<rhacm, hubs, answer>>

Managed == IF rhacm = "installed" THEN Clusters ELSE {}

Return == /\ Gathered /\ answer = NoAnswer
          /\ answer' = {hubs[c] : c \in Managed}
                       \cup (IF unread THEN {} ELSE ByHand(Secrets \ Managed))
          /\ UNCHANGED <<rhacm, unread, hubs>>

Next == Learn \/ (\E c \in Clusters : Describe(c)) \/ LoseSecrets \/ Return

Spec == Init /\ [][Next]_vars
===============================================================================

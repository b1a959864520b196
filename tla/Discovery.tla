------------------------------- MODULE Discovery -------------------------------
(***************************************************************************)
(* Which hubs there are and which spokes are theirs, as pkg/client/rhacm.go *)
(* finds out for the list of hubs (GetManagedHubs) and for the page of one *)
(* (GetManagedHub): by the labels of RHACM's managed clusters and by the   *)
(* Secrets in acm-fleet.  A call reads them one after the other, and while *)
(* it runs, clusters are imported and labelled, hubs are added and removed. *)
(* The calls only read, so one at a time is enough; what each hub itself   *)
(* answers is fixed, or is an error.                                       *)
(*                                                                         *)
(* How the list is spread over goroutines is HubFanout's business.  Nodes, *)
(* policies and versions are left out.                                     *)
(***************************************************************************)
EXTENDS Integers, Sequences, FiniteSets, Functions

CONSTANTS
  Names,       \* names of clusters, in the order in which they are listed
  LabelsOf,    \* for each name, the labels its managed cluster may have
  SecretsOf,   \* for each name, what its Secret in acm-fleet may be
  Fleet,       \* for each name, the managed clusters that it lists as a hub
  Absent,      \* no such managed cluster, or Secret
  None,        \* no value of a label; no name; no list of spokes
  MaxChanges   \* bound: changes of labels and Secrets

Clusters == Range(Names)

\* addon: the multicluster-hub add-on is available; openshift: the vendor;
\* hub: there is a label "hub".
Labels == [clusterset : Clusters \cup {"global-hub", None}, managedBy : Clusters \cup {None},
           addon : BOOLEAN, openshift : BOOLEAN, hub : BOOLEAN]

ASSUME NamesAssumption == Names \in Seq(Clusters) /\ None \notin Clusters
ASSUME LabelsAreLabels == \A n \in Clusters : LabelsOf[n] \subseteq Labels \cup {Absent}
ASSUME SecretsHaveALabelOrNot ==
  \A n \in Clusters : SecretsOf[n] \subseteq {"created-by-acm-fleet", "foreign", Absent}
ASSUME FleetIsLabelled ==
  \A n \in Clusters : \A c \in Fleet[n] : DOMAIN c = {"name", "labels"} /\ c.labels \in Labels
ASSUME MaxChangesAssumption == MaxChanges \in Nat

VARIABLES
  labels,      \* the managed clusters of RHACM
  secrets,     \* the Secrets in acm-fleet
  changes,     \* changes so far
  pc,          \* where the call is
  asked,       \* the hub whose page was asked for, None for the list
  spokesMap,   \* the hubs found by their labels, with their spokes
  hubs,        \* the hubs described so far
  degraded,    \* an error of the API server was passed over
  worlds       \* history: labels and Secrets since the call began

environment == <<labels, secrets, changes>>
vars == <<environment, pc, asked, spokesMap, hubs, degraded, worlds>>

IsHub(l) == l.clusterset = "global-hub" \/ l.addon \/ (l.openshift /\ l.hub)

BelongsToHub(l, hub) == l.managedBy = hub \/ l.clusterset = hub

HubsIn(ls) == {n \in Clusters : ls[n] # Absent /\ IsHub(ls[n])}

\* The hubs that a cluster's labels name, by their places in the list.
HubsNamed(ls, n) == {i \in DOMAIN Names : Names[i] \in HubsIn(ls) /\ BelongsToHub(ls[n], Names[i])}

SpokesOfAll(ls, hub) ==
  {n \in Clusters : ls[n] # Absent /\ n \notin HubsIn(ls)
                      /\ \E i \in HubsNamed(ls, n) : Names[i] = hub}

SpokesAndHubsOf(ls, hub) ==
  {n \in Clusters : ls[n] # Absent
                      /\ \E i \in HubsNamed(ls, n) :
                           Names[i] = hub /\ \A j \in HubsNamed(ls, n) : i <= j}

\* Every other cluster goes to the first hub that its labels name.
SpokesOf(ls, hub) ==
  {n \in Clusters : ls[n] # Absent /\ n \notin HubsIn(ls)
                      /\ \E i \in HubsNamed(ls, n) :
                           Names[i] = hub /\ \A j \in HubsNamed(ls, n) : i <= j}

\* getSpokesClustersFromHub, when the hub answers: not itself, and no hubs.
Spokes(hub) == {c.name : c \in {d \in Fleet[hub] : ~IsHub(d.labels) /\ d.name # "local-cluster"}}

\* The hub is asked for its spokes if there is no list of them yet.
EnrichHubWithRemoteData(hub, spokes) == IF spokes = None THEN {Spokes(hub), None} ELSE {spokes}

Hub(name, source, spokes) == [name |-> name, source |-> source, spokes |-> spokes]

\* The hub answers, or has the spokes that the caller falls back on.
Managed(hub, otherwise) == {Hub(hub, "rhacm", s) : s \in {Spokes(hub), otherwise}}
ByHand(hub) == {Hub(hub, "manual", s) : s \in EnrichHubWithRemoteData(hub, None)}

World == [labels |-> labels, secrets |-> secrets]

Init == /\ labels \in {f \in [Clusters -> UNION {LabelsOf[n] : n \in Clusters}] :
                         \A n \in Clusters : f[n] \in LabelsOf[n]}
        /\ secrets \in {f \in [Clusters -> UNION {SecretsOf[n] : n \in Clusters}] :
                          \A n \in Clusters : f[n] \in SecretsOf[n]}
        /\ changes = 0
        /\ pc = "idle"
        /\ asked = None
        /\ spokesMap = <<>>
        /\ hubs = {}
        /\ degraded = FALSE
        /\ worlds = {}

-------------------------------------------------------------------------------
\* The fleet.

Change == /\ changes < MaxChanges
          /\ changes' = changes + 1
          /\ \E n \in Clusters :
               \/ /\ \E l \in LabelsOf[n] \ {labels[n]} : labels' = [labels EXCEPT ![n] = l]
                  /\ UNCHANGED secrets
               \/ /\ \E s \in SecretsOf[n] \ {secrets[n]} : secrets' = [secrets EXCEPT ![n] = s]
                  /\ UNCHANGED labels
          /\ worlds' = IF pc \in {"idle", "answered"} THEN worlds ELSE worlds \cup {World'}
          /\ UNCHANGED <<pc, asked, spokesMap, hubs, degraded>>

-------------------------------------------------------------------------------
\* The list.

Begin(name) == /\ pc \in {"idle", "answered"}
               /\ asked' = name
               /\ worlds' = {World}
               /\ UNCHANGED environment

\* The clusters are listed once and passed through twice; without RHACM
\* there are none.  On any other error there is no list.
GetManagedClusters ==
  /\ Begin(None)
  /\ pc' = "describe"
  /\ spokesMap' = [h \in HubsIn(labels) |-> SpokesOf(labels, h)]
  /\ hubs' = {}
  /\ degraded' = FALSE

Described == {d.name : d \in hubs}

DescribeHub(h) ==
  /\ pc = "describe" /\ h \in DOMAIN spokesMap \ Described
  /\ \E d \in Managed(h, spokesMap[h]) : hubs' = hubs \cup {d}
  /\ UNCHANGED <<environment, pc, asked, spokesMap, degraded, worlds>>

DiscoverAllSecrets ==
  /\ pc = "describe" /\ DOMAIN spokesMap = Described
  /\ pc' = "answered"
  /\ LET found == {n \in Clusters : secrets[n] = "created-by-acm-fleet"} IN
       \E f \in [found -> UNION {ByHand(n) : n \in found}] :
         (\A n \in found : f[n].name = n) /\ hubs' = hubs \cup Range(f)
  /\ UNCHANGED <<environment, asked, spokesMap, degraded, worlds>>

\* The Secrets with the label are listed, and those of hubs found by their
\* labels skipped; an error leaves all of them out.
DiscoverUnmanagedHubs ==
  /\ pc = "describe" /\ DOMAIN spokesMap = Described
  /\ pc' = "answered"
  /\ \/ /\ LET found == {n \in Clusters \ Described : secrets[n] = "created-by-acm-fleet"} IN
             \E f \in [found -> UNION {ByHand(n) : n \in found}] :
               (\A n \in found : f[n].name = n) /\ hubs' = hubs \cup Range(f)
        /\ UNCHANGED degraded
     \/ degraded' = TRUE /\ UNCHANGED hubs
  /\ UNCHANGED <<environment, asked, spokesMap, worlds>>

-------------------------------------------------------------------------------
\* The page of one hub.

\* A managed cluster that is no hub, none, and an error of the call are all
\* the same to the code.
GetManagedCluster(n) ==
  /\ Begin(n)
  /\ spokesMap' = <<>>
  /\ \/ /\ n \in HubsIn(labels)
        /\ pc' = "answered"
        /\ \E d \in Managed(n, {}) : hubs' = {d}
        /\ degraded' = FALSE
     \/ /\ pc' = "secret"
        /\ hubs' = {}
        /\ degraded' = (n \in HubsIn(labels))

GetSecretOfAnyKind ==
  /\ pc = "secret"
  /\ pc' = "answered"
  /\ IF secrets[asked] # Absent
       THEN \E d \in ByHand(asked) : hubs' = {d} /\ UNCHANGED degraded
       ELSE UNCHANGED <<hubs, degraded>>
  /\ UNCHANGED <<environment, asked, spokesMap, worlds>>

\* Without a Secret that carries the label, or on an error, the page is not found.
GetSecret ==
  /\ pc = "secret"
  /\ pc' = "answered"
  /\ LET usable == secrets[asked] = "created-by-acm-fleet" IN
       \/ usable /\ (\E d \in ByHand(asked) : hubs' = {d}) /\ UNCHANGED degraded
       \/ UNCHANGED hubs /\ degraded' = (degraded \/ usable)
  /\ UNCHANGED <<environment, asked, spokesMap, worlds>>

-------------------------------------------------------------------------------
Next == \/ Change
        \/ GetManagedClusters \/ DiscoverUnmanagedHubs \/ GetSecret
        \/ \E n \in Clusters : DescribeHub(n) \/ GetManagedCluster(n)

Spec == Init /\ [][Next]_vars

-------------------------------------------------------------------------------
(* Type correctness.                                                       *)
TypeOK ==
  /\ labels \in [Clusters -> Labels \cup {Absent}]
  /\ secrets \in [Clusters -> {"created-by-acm-fleet", "foreign", Absent}]
  /\ changes \in 0 .. MaxChanges
  /\ pc \in {"idle", "describe", "secret", "answered"}
  /\ asked \in Clusters \cup {None}
  /\ DOMAIN spokesMap \subseteq Clusters
  /\ \A h \in DOMAIN spokesMap : spokesMap[h] \subseteq Clusters \ DOMAIN spokesMap
  /\ \A d \in hubs : d.name \in Clusters /\ d.source \in {"rhacm", "manual"}
  /\ degraded \in BOOLEAN
  /\ \A w \in worlds : DOMAIN w = {"labels", "secrets"}

\* While the call ran, the hub was one of RHACM's; was added by hand.
AlwaysManaged(n) == \A w \in worlds : n \in HubsIn(w.labels)
EverManaged(n) == \E w \in worlds : n \in HubsIn(w.labels)
AlwaysByHand(n) == \A w \in worlds : w.secrets[n] = "created-by-acm-fleet"
EverByHand(n) == \E w \in worlds : w.secrets[n] = "created-by-acm-fleet"

Found(n) == {d \in hubs : d.name = n}

\* What is said of a name is not contradicted by the whole time of the call.
Truthful(n) ==
  /\ Cardinality(Found(n)) <= 1
  /\ \A d \in Found(n) :
       IF d.source = "rhacm" THEN EverManaged(n)
                             ELSE EverByHand(n) /\ (AlwaysManaged(n) => degraded)
  /\ (AlwaysManaged(n) \/ AlwaysByHand(n)) /\ Found(n) = {} => degraded

(* However the fleet changes while the list is made, a hub that RHACM      *)
(* manages or an administrator added all the time is in it, once, and by   *)
(* the right name of its origin, on which it depends whether the dashboard *)
(* offers to remove it; and nothing is in it that was never a hub.         *)
ListIsTruthful == pc = "answered" /\ asked = None => \A n \in Clusters : Truthful(n)

(* The same of the page of a hub: it agrees with the list, by a different  *)
(* path through the API, also for clusters that are no hubs and Secrets    *)
(* that others put into acm-fleet.                                         *)
PageIsTruthful == pc = "answered" /\ asked # None => Truthful(asked)

(* For hubs that do not answer, spokes are counted by RHACM's labels: as   *)
(* of one moment of the call, every cluster that names a hub counts once,  *)
(* even if its labels name two, and no hub counts as a spoke.              *)
SpokesCountOnce ==
  pc = "describe" =>
    \E w \in worlds : \A n \in Clusters :
      LET named == n \notin HubsIn(w.labels) /\ w.labels[n] # Absent
                     /\ \E h \in HubsIn(w.labels) : BelongsToHub(w.labels[n], h)
      IN Cardinality({h \in DOMAIN spokesMap : n \in spokesMap[h]}) = IF named THEN 1 ELSE 0
===============================================================================

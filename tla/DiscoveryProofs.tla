---------------------------- MODULE DiscoveryProofs ----------------------------
(***************************************************************************)
(* For every set of clusters and every sequence of changes of the fleet:   *)
(* Discovery is well typed, what it answers is true of the time of the     *)
(* call, and RHACM's labels count every spoke once.                        *)
(***************************************************************************)
EXTENDS Discovery, FiniteSetTheorems, WellFoundedInduction, TLAPS

\* A call reads the fleet as it is.
NowInv == pc \in {"describe", "secret"} => World \in worlds

\* The list is made from one look at the labels.
Seen(w) == /\ DOMAIN spokesMap = HubsIn(w.labels)
           /\ \A h \in DOMAIN spokesMap : spokesMap[h] = SpokesOf(w.labels, h)

DescribeInv ==
  pc = "describe" =>
    /\ asked = None /\ degraded = FALSE
    /\ \A d \in hubs : d.source = "rhacm" /\ d.name \in DOMAIN spokesMap
    /\ \A d, e \in hubs : d.name = e.name => d = e
    /\ \E w \in worlds : Seen(w)

\* The Secret is looked for when the hub was not found among the clusters.
SecretInv ==
  pc = "secret" => /\ asked # None
                   /\ hubs = {}
                   /\ ~degraded => \E w \in worlds : asked \notin HubsIn(w.labels)

\* What was answered stays true of the time of its call.
AnswerInv == ListIsTruthful /\ PageIsTruthful

Inv == TypeOK /\ NowInv /\ DescribeInv /\ SecretInv /\ AnswerInv

-------------------------------------------------------------------------------
(* A set without two different elements has at most one.                   *)
LEMMA NotTwo ==
  ASSUME NEW S, \A d, e \in S : d = e
  PROVE  Cardinality(S) <= 1
<1>1. CASE S = {}
  BY <1>1, FS_EmptySet
<1>2. CASE S # {}
  <2>1. PICK d \in S : TRUE
    BY <1>2
  <2>2. S = {d}
    BY <2>1
  <2>3. Cardinality({d}) = 1
    BY FS_Singleton
  <2> QED
    BY <2>2, <2>3
<1> QED
  BY <1>1, <1>2

(* A set of naturals that is not empty has a smallest element.             *)
LEMMA Smallest ==
  ASSUME NEW S \in SUBSET Nat, S # {}
  PROVE  \E i \in S : \A j \in S : i <= j
<1>1. \E i \in S : \A j \in S : ~(<<j, i>> \in OpToRel(<, Nat))
  BY NatLessThanWellFounded, WFMin
<1>2. PICK i \in S : \A j \in S : ~(<<j, i>> \in OpToRel(<, Nat))
  BY <1>1
<1>3. \A j \in S : ~(j < i)
  BY <1>2 DEF OpToRel
<1> QED
  BY <1>3

(* Every cluster that names a hub and is none goes to one of the hubs.     *)
LEMMA OneHubEach ==
  ASSUME NEW ls, NEW n \in Clusters,
         NEW named, named = (n \notin HubsIn(ls) /\ ls[n] # Absent
                               /\ \E h \in HubsIn(ls) : BelongsToHub(ls[n], h))
  PROVE  Cardinality({h \in HubsIn(ls) : n \in SpokesOf(ls, h)}) = IF named THEN 1 ELSE 0
<1> DEFINE S == {h \in HubsIn(ls) : n \in SpokesOf(ls, h)}
<1>d. DOMAIN Names \subseteq Nat /\ \A h \in Clusters : \E i \in DOMAIN Names : Names[i] = h
  BY NamesAssumption DEF Clusters, Range
<1>1. CASE named
  <2>1. HubsNamed(ls, n) \in SUBSET Nat /\ HubsNamed(ls, n) # {}
    BY <1>1, <1>d DEF HubsNamed, HubsIn
  <2>2. PICK i \in HubsNamed(ls, n) : \A j \in HubsNamed(ls, n) : i <= j
    BY <2>1, Smallest
  <2>3. \A h : n \in SpokesOf(ls, h) <=> h = Names[i]
    <3>1. \A k \in HubsNamed(ls, n) : (\A j \in HubsNamed(ls, n) : k <= j) => k = i
      BY <2>1, <2>2
    <3> QED
      BY <1>1, <2>2, <3>1 DEF SpokesOf
  <2>4. Names[i] \in HubsIn(ls)
    BY <2>2 DEF HubsNamed
  <2>5. S = {Names[i]}
    BY <2>3, <2>4
  <2> QED
    BY <1>1, <2>5, FS_Singleton
<1>2. CASE ~named
  <2>1. S = {}
    BY <1>2 DEF SpokesOf, HubsNamed
  <2> QED
    BY <1>2, <2>1, FS_EmptySet
<1> QED
  BY <1>1, <1>2

-------------------------------------------------------------------------------
(* Every cluster is a hub, or a spoke of a hub that is one, never both.    *)
LEMMA NoHubIsASpoke ==
  ASSUME NEW ls, NEW h
  PROVE  HubsIn(ls) \subseteq Clusters /\ SpokesOf(ls, h) \subseteq Clusters \ HubsIn(ls)
BY DEF HubsIn, SpokesOf

(* The hubs added by hand, in the answer.                                  *)
LEMMA AddedByHand ==
  ASSUME NEW found, found \subseteq Clusters,
         NEW f \in [found -> UNION {ByHand(n) : n \in found}], \A n \in found : f[n].name = n
  PROVE  /\ \A d \in Range(f) : d.source = "manual" /\ d.name \in found
         /\ \A n \in found : \E d \in Range(f) : d.name = n
         /\ \A d, e \in Range(f) : d.name = e.name => d = e
<1>1. \A n \in found : f[n] \in UNION {ByHand(m) : m \in found}
  OBVIOUS
<1>2. \A n \in found : f[n].source = "manual"
  BY <1>1 DEF ByHand, Hub
<1> QED
  BY <1>2 DEF Range

(* The initial states satisfy the invariant.                               *)
LEMMA InitInv == Init => Inv
<1> SUFFICES ASSUME Init PROVE Inv
  OBVIOUS
<1>1. labels \in [Clusters -> Labels \cup {Absent}]
  BY LabelsAreLabels DEF Init
<1>2. secrets \in [Clusters -> {"created-by-acm-fleet", "foreign", Absent}]
  BY SecretsHaveALabelOrNot DEF Init
<1>3. TypeOK
  <2>1. DOMAIN spokesMap = {}
    BY DEF Init
  <2>2. changes \in 0 .. MaxChanges
    BY MaxChangesAssumption DEF Init
  <2> QED
    BY <1>1, <1>2, <2>1, <2>2 DEF Init, TypeOK
<1> QED
  BY <1>3 DEF Init, Inv, NowInv, DescribeInv, SecretInv, AnswerInv, ListIsTruthful, PageIsTruthful

(* A change of the fleet adds to the time of a call that runs, and what    *)
(* was answered before stays as it is.                                     *)
LEMMA ChangeStep == Inv /\ Change => Inv'
<1> SUFFICES ASSUME Inv, Change PROVE Inv'
  OBVIOUS
<1>1. /\ worlds' = worlds \/ worlds' = worlds \cup {World'}
      /\ pc \in {"describe", "secret"} => World' \in worlds'
      /\ pc = "answered" => worlds' = worlds
      /\ worlds \subseteq worlds'
      /\ UNCHANGED <<pc, asked, spokesMap, hubs, degraded>>
  BY DEF Change, Inv, TypeOK
<1>2. TypeOK'
  <2>1. labels' \in [Clusters -> Labels \cup {Absent}]
    BY LabelsAreLabels DEF Change, Inv, TypeOK
  <2>2. secrets' \in [Clusters -> {"created-by-acm-fleet", "foreign", Absent}]
    BY SecretsHaveALabelOrNot DEF Change, Inv, TypeOK
  <2>3. changes' \in 0 .. MaxChanges
    BY MaxChangesAssumption DEF Change, Inv, TypeOK
  <2>4. \A w \in worlds' : DOMAIN w = {"labels", "secrets"}
    BY <1>1 DEF Inv, TypeOK, World
  <2> QED
    BY <1>1, <2>1, <2>2, <2>3, <2>4 DEF Inv, TypeOK
<1>3. NowInv'
  BY <1>1 DEF NowInv
<1>4. DescribeInv'
  BY <1>1 DEF Inv, DescribeInv, Seen
<1>5. SecretInv'
  BY <1>1 DEF Inv, SecretInv
<1>6. AnswerInv'
  BY <1>1 DEF Inv, AnswerInv, ListIsTruthful, PageIsTruthful, Truthful, Found, EverManaged,
              AlwaysManaged, EverByHand, AlwaysByHand
<1> QED
  BY <1>2, <1>3, <1>4, <1>5, <1>6 DEF Inv

(* The list begins with one look at the labels.                            *)
LEMMA ClustersStep == Inv /\ GetManagedClusters => Inv'
<1> SUFFICES ASSUME Inv, GetManagedClusters PROVE Inv'
  OBVIOUS
<1>1. /\ pc' = "describe" /\ asked' = None /\ worlds' = {World} /\ hubs' = {}
      /\ degraded' = FALSE /\ spokesMap' = [h \in HubsIn(labels) |-> SpokesOf(labels, h)]
      /\ UNCHANGED <<labels, secrets, changes>>
  BY DEF GetManagedClusters, Begin, environment
<1>2. World' = World /\ World.labels = labels
  BY <1>1 DEF World
<1>3. DescribeInv'
  BY <1>1, <1>2 DEF DescribeInv, Seen
<1>4. TypeOK'
  <2>1. \A h \in HubsIn(labels) : SpokesOf(labels, h) \subseteq Clusters \ HubsIn(labels)
    BY NoHubIsASpoke
  <2>2. HubsIn(labels) \subseteq Clusters
    BY NoHubIsASpoke
  <2>3. \A w \in worlds' : DOMAIN w = {"labels", "secrets"}
    BY <1>1 DEF World
  <2>4. DOMAIN spokesMap' = HubsIn(labels)
          /\ \A h \in HubsIn(labels) : spokesMap'[h] = SpokesOf(labels, h)
    BY <1>1
  <2> QED
    BY <1>1, <2>1, <2>2, <2>3, <2>4 DEF Inv, TypeOK
<1> QED
  BY <1>1, <1>2, <1>3, <1>4
     DEF Inv, NowInv, SecretInv, AnswerInv, ListIsTruthful, PageIsTruthful

(* A hub of the list is described.                                         *)
LEMMA DescribeStep == Inv /\ (\E h \in Clusters : DescribeHub(h)) => Inv'
<1> SUFFICES ASSUME Inv, NEW h \in Clusters, DescribeHub(h) PROVE Inv'
  OBVIOUS
<1>1. PICK d \in Managed(h, spokesMap[h]) : hubs' = hubs \cup {d}
  BY DEF DescribeHub
<1>2. /\ pc = "describe" /\ pc' = "describe" /\ h \in DOMAIN spokesMap /\ h \notin Described
      /\ UNCHANGED <<labels, secrets, changes, asked, spokesMap, degraded, worlds>>
  BY DEF DescribeHub, environment
<1>3. d.name = h /\ d.source = "rhacm"
  BY <1>1 DEF Managed, Hub
<1>4. \A e \in hubs : e.name # h
  BY <1>2 DEF Described
<1>5. DescribeInv'
  BY <1>1, <1>2, <1>3, <1>4 DEF Inv, DescribeInv, Seen
<1>6. TypeOK'
  BY <1>1, <1>2, <1>3 DEF Inv, TypeOK
<1> QED
  BY <1>2, <1>5, <1>6
     DEF Inv, NowInv, World, SecretInv, AnswerInv, ListIsTruthful, PageIsTruthful

(* The hubs added by hand complete the list.                               *)
LEMMA SecretsStep == Inv /\ DiscoverUnmanagedHubs => Inv'
<1> SUFFICES ASSUME Inv, DiscoverUnmanagedHubs PROVE Inv'
  OBVIOUS
<1> DEFINE found == {n \in Clusters \ Described : secrets[n] = "created-by-acm-fleet"}
<1>1. /\ pc = "describe" /\ pc' = "answered" /\ DOMAIN spokesMap = Described
      /\ UNCHANGED <<labels, secrets, changes, asked, spokesMap, worlds>>
  BY DEF DiscoverUnmanagedHubs, environment
<1>2. PICK w \in worlds : Seen(w)
  BY <1>1 DEF Inv, DescribeInv
<1>3. World \in worlds /\ World.secrets = secrets
  BY <1>1 DEF Inv, NowInv, World
<1>4. asked = None /\ degraded = FALSE
  BY <1>1 DEF Inv, DescribeInv
<1>5. \A n \in Clusters : n \in Described <=> n \in HubsIn(w.labels)
  BY <1>1, <1>2 DEF Seen
<1>6. \A n \in Clusters : AlwaysManaged(n) => n \in Described
  BY <1>2, <1>5 DEF AlwaysManaged
<1>7. \A n \in Described : EverManaged(n)
  BY <1>1, <1>2 DEF EverManaged, Seen
<1>8. \A d \in hubs : d.source = "rhacm" /\ d.name \in Described /\ d.name \in Clusters
  BY <1>1 DEF Inv, DescribeInv, TypeOK
<1>9. \A n \in Described : \E d \in hubs : d.name = n
  BY DEF Described
<1>10. CASE degraded' = TRUE /\ hubs' = hubs
  <2>1. TypeOK'
    BY <1>1, <1>10 DEF Inv, TypeOK
  <2>2. \A n \in Clusters : Truthful(n)'
    <3> SUFFICES ASSUME NEW n \in Clusters PROVE Truthful(n)'
      OBVIOUS
    <3>1. Cardinality(Found(n)') <= 1
      <4>1. \A d, e \in Found(n)' : d = e
        BY <1>1, <1>10 DEF Inv, DescribeInv, Found
      <4> QED
        BY <4>1, NotTwo
    <3>2. \A d \in Found(n)' : d.source = "rhacm" /\ EverManaged(n)'
      BY <1>1, <1>7, <1>8, <1>10 DEF Found, EverManaged
    <3> QED
      BY <1>10, <3>1, <3>2 DEF Truthful
  <2> QED
    BY <1>1, <1>4, <2>1, <2>2
       DEF Inv, NowInv, DescribeInv, SecretInv, AnswerInv, ListIsTruthful, PageIsTruthful
<1>11. CASE degraded' = degraded
  <2>1. PICK f \in [found -> UNION {ByHand(n) : n \in found}] :
               (\A n \in found : f[n].name = n) /\ hubs' = hubs \cup Range(f)
    BY <1>4, <1>11 DEF DiscoverUnmanagedHubs
  <2>2. found \subseteq Clusters
    OBVIOUS
  <2>3. /\ \A d \in Range(f) : d.source = "manual" /\ d.name \in found
        /\ \A n \in found : \E d \in Range(f) : d.name = n
        /\ \A d, e \in Range(f) : d.name = e.name => d = e
    BY <2>1, <2>2, AddedByHand
  <2>4. TypeOK'
    <3>1. \A d \in hubs' : d.name \in Clusters /\ d.source \in {"rhacm", "manual"}
      BY <1>8, <2>1, <2>3
    <3> QED
      BY <1>1, <1>11, <3>1 DEF Inv, TypeOK
  <2>5. \A n \in Clusters : Truthful(n)'
    <3> SUFFICES ASSUME NEW n \in Clusters PROVE Truthful(n)'
      OBVIOUS
    <3>1. Cardinality(Found(n)') <= 1
      <4>1. \A d, e \in hubs' : d.name = e.name => d = e
        BY <1>1, <1>8, <2>1, <2>3 DEF Inv, DescribeInv
      <4>2. \A d, e \in Found(n)' : d = e
        BY <4>1 DEF Found
      <4> QED
        BY <4>2, NotTwo
    <3>2. \A d \in hubs' : IF d.source = "rhacm" THEN d.name \in Described
                                                 ELSE d.name \in found
      BY <1>8, <2>1, <2>3
    <3>3. \A d \in Found(n)' : IF d.source = "rhacm"
                                  THEN EverManaged(n)' ELSE EverByHand(n)' /\ ~AlwaysManaged(n)'
      BY <1>1, <1>3, <1>6, <1>7, <3>2 DEF Found, EverManaged, EverByHand, AlwaysManaged
    <3>4. AlwaysManaged(n)' \/ AlwaysByHand(n)' => Found(n)' # {}
      <4>1. AlwaysManaged(n)' \/ AlwaysByHand(n)' => n \in Described \cup found
        BY <1>1, <1>3, <1>6 DEF AlwaysManaged, AlwaysByHand
      <4>2. n \in Described \cup found => \E d \in hubs' : d.name = n
        BY <1>9, <2>1, <2>3
      <4> QED
        BY <4>1, <4>2 DEF Found
    <3> QED
      BY <3>1, <3>3, <3>4 DEF Truthful
  <2> QED
    BY <1>1, <1>4, <2>4, <2>5
       DEF Inv, NowInv, DescribeInv, SecretInv, AnswerInv, ListIsTruthful, PageIsTruthful
<1> QED
  BY <1>10, <1>11 DEF DiscoverUnmanagedHubs

(* The page of a hub begins with its managed cluster.                      *)
LEMMA ClusterStep == Inv /\ (\E n \in Clusters : GetManagedCluster(n)) => Inv'
<1> SUFFICES ASSUME Inv, NEW n \in Clusters, GetManagedCluster(n) PROVE Inv'
  OBVIOUS
<1>1. /\ asked' = n /\ asked' # None /\ worlds' = {World} /\ spokesMap' = <<>>
      /\ UNCHANGED <<labels, secrets, changes>>
  BY NamesAssumption DEF GetManagedCluster, Begin, environment
<1>2. World' = World /\ World.labels = labels
  BY <1>1 DEF World
<1>3. DOMAIN spokesMap' = {} /\ \A w \in worlds' : DOMAIN w = {"labels", "secrets"}
  <2>1. DOMAIN spokesMap' = {}
    BY <1>1
  <2> QED
    BY <1>1, <2>1 DEF World
<1>4. CASE n \in HubsIn(labels) /\ pc' = "answered" /\ degraded' = FALSE
             /\ \E d \in Managed(n, {}) : hubs' = {d}
  <2>1. PICK d \in Managed(n, {}) : hubs' = {d}
    BY <1>4
  <2>2. d.name = n /\ d.source = "rhacm"
    BY <2>1 DEF Managed, Hub
  <2>3. Found(n)' = {d}
    BY <2>1, <2>2 DEF Found
  <2>4. EverManaged(n)'
    BY <1>1, <1>2, <1>4 DEF EverManaged
  <2>5. Cardinality(Found(n)') <= 1
    BY <2>3, NotTwo
  <2>6. Truthful(n)'
    BY <2>2, <2>3, <2>4, <2>5 DEF Truthful
  <2>7. TypeOK'
    BY <1>1, <1>3, <1>4, <2>1, <2>2 DEF Inv, TypeOK
  <2> QED
    BY <1>1, <1>4, <2>6, <2>7
       DEF Inv, NowInv, DescribeInv, SecretInv, AnswerInv, ListIsTruthful, PageIsTruthful
<1>5. CASE pc' = "secret" /\ hubs' = {} /\ degraded' = (n \in HubsIn(labels))
  <2>1. ~degraded' => \E w \in worlds' : asked' \notin HubsIn(w.labels)
    BY <1>1, <1>2, <1>5
  <2>2. degraded' \in BOOLEAN
    BY <1>5
  <2>3. TypeOK'
    BY <1>1, <1>3, <1>5, <2>2 DEF Inv, TypeOK
  <2> QED
    BY <1>1, <1>2, <1>5, <2>1, <2>3
       DEF Inv, NowInv, DescribeInv, SecretInv, AnswerInv, ListIsTruthful, PageIsTruthful
<1> QED
  BY <1>4, <1>5 DEF GetManagedCluster

(* It ends with its Secret.                                                *)
LEMMA SecretStep == Inv /\ GetSecret => Inv'
<1> SUFFICES ASSUME Inv, GetSecret PROVE Inv'
  OBVIOUS
<1>1. /\ pc = "secret" /\ pc' = "answered"
      /\ UNCHANGED <<labels, secrets, changes, asked, spokesMap, worlds>>
  BY DEF GetSecret, environment
<1>2. asked \in Clusters /\ asked # None /\ hubs = {}
  BY <1>1 DEF Inv, TypeOK, SecretInv
<1>3. World \in worlds /\ World.secrets = secrets
  BY <1>1 DEF Inv, NowInv, World
<1>4. AlwaysManaged(asked) => degraded
  BY <1>1 DEF Inv, SecretInv, AlwaysManaged
<1>5. AlwaysByHand(asked) => secrets[asked] = "created-by-acm-fleet"
  BY <1>3 DEF AlwaysByHand
<1>6. CASE secrets[asked] = "created-by-acm-fleet" /\ degraded' = degraded
             /\ \E d \in ByHand(asked) : hubs' = {d}
  <2>1. PICK d \in ByHand(asked) : hubs' = {d}
    BY <1>6
  <2>2. d.name = asked /\ d.source = "manual"
    BY <2>1 DEF ByHand, Hub
  <2>3. Found(asked)' = {d}
    BY <1>1, <2>1, <2>2 DEF Found
  <2>4. Cardinality(Found(asked)') <= 1
    BY <2>3, NotTwo
  <2>5. EverByHand(asked)' /\ (AlwaysManaged(asked)' => degraded')
    BY <1>1, <1>3, <1>4, <1>6 DEF EverByHand, AlwaysManaged
  <2>6. Truthful(asked)'
    BY <2>2, <2>3, <2>4, <2>5 DEF Truthful
  <2>7. TypeOK'
    BY <1>1, <1>2, <1>6, <2>1, <2>2 DEF Inv, TypeOK
  <2> QED
    BY <1>1, <1>2, <2>6, <2>7
       DEF Inv, NowInv, DescribeInv, SecretInv, AnswerInv, ListIsTruthful, PageIsTruthful
<1>7. CASE hubs' = hubs /\ degraded' = (degraded \/ secrets[asked] = "created-by-acm-fleet")
  <2>1. Found(asked)' = {}
    BY <1>2, <1>7 DEF Found
  <2>2. Cardinality(Found(asked)') <= 1
    BY <2>1, NotTwo
  <2>3. AlwaysManaged(asked)' \/ AlwaysByHand(asked)' => degraded'
    BY <1>1, <1>4, <1>5, <1>7 DEF AlwaysManaged, AlwaysByHand
  <2>4. Truthful(asked)'
    BY <2>1, <2>2, <2>3 DEF Truthful
  <2>5. degraded' \in BOOLEAN
    BY <1>7 DEF Inv, TypeOK
  <2>6. TypeOK'
    BY <1>1, <1>2, <1>7, <2>5 DEF Inv, TypeOK
  <2> QED
    BY <1>1, <1>2, <2>4, <2>6
       DEF Inv, NowInv, DescribeInv, SecretInv, AnswerInv, ListIsTruthful, PageIsTruthful
<1> QED
  BY <1>6, <1>7 DEF GetSecret

(* Every step keeps the invariant.                                         *)
LEMMA InvStep == Inv /\ [Next]_vars => Inv'
<1>1. Inv /\ UNCHANGED vars => Inv'
  <2> SUFFICES ASSUME Inv, UNCHANGED vars PROVE Inv'
    OBVIOUS
  <2>1. UNCHANGED <<labels, secrets, changes, pc, asked, spokesMap, hubs, degraded, worlds>>
    BY DEF vars, environment
  <2>2. TypeOK'
    BY <2>1 DEF Inv, TypeOK
  <2>3. NowInv' /\ DescribeInv' /\ SecretInv'
    BY <2>1 DEF Inv, NowInv, World, DescribeInv, Seen, SecretInv
  <2>4. AnswerInv'
    BY <2>1 DEF Inv, AnswerInv, ListIsTruthful, PageIsTruthful, Truthful, Found, EverManaged,
                AlwaysManaged, EverByHand, AlwaysByHand
  <2> QED
    BY <2>2, <2>3, <2>4 DEF Inv
<1> QED
  BY <1>1, ChangeStep, ClustersStep, DescribeStep, SecretsStep, ClusterStep, SecretStep DEF Next

(* The state is well typed.                                                *)
THEOREM TypeCorrect == Spec => []TypeOK
<1>1. Inv => TypeOK
  BY DEF Inv
<1> QED
  BY <1>1, InitInv, InvStep, PTL DEF Spec

(* The list holds every hub that was one all the time, once and by the     *)
(* origin it had, and nothing that was never a hub, whatever changes while *)
(* it is made.                                                             *)
THEOREM ListIsTruthfulHolds == Spec => []ListIsTruthful
<1>1. Inv => ListIsTruthful
  BY DEF Inv, AnswerInv
<1> QED
  BY <1>1, InitInv, InvStep, PTL DEF Spec

(* The page of a hub is as true as the list, by its own path.              *)
THEOREM PageIsTruthfulHolds == Spec => []PageIsTruthful
<1>1. Inv => PageIsTruthful
  BY DEF Inv, AnswerInv
<1> QED
  BY <1>1, InitInv, InvStep, PTL DEF Spec

(* RHACM's labels count a cluster once, at the first hub that they name.   *)
THEOREM SpokesCountOnceHolds == Spec => []SpokesCountOnce
<1>1. Inv => SpokesCountOnce
  <2> SUFFICES ASSUME Inv, pc = "describe" PROVE SpokesCountOnce
    BY DEF SpokesCountOnce
  <2>1. PICK w \in worlds : Seen(w)
    BY DEF Inv, DescribeInv
  <2>2. ASSUME NEW n \in Clusters, NEW named,
               named = (n \notin HubsIn(w.labels) /\ w.labels[n] # Absent
                          /\ \E h \in HubsIn(w.labels) : BelongsToHub(w.labels[n], h))
        PROVE  Cardinality({h \in DOMAIN spokesMap : n \in spokesMap[h]}) = IF named THEN 1 ELSE 0
    <3>1. {h \in DOMAIN spokesMap : n \in spokesMap[h]}
            = {h \in HubsIn(w.labels) : n \in SpokesOf(w.labels, h)}
      BY <2>1 DEF Seen
    <3> QED
      BY <2>2, <3>1, OneHubEach
  <2> QED
    BY <2>1, <2>2 DEF SpokesCountOnce
<1> QED
  BY <1>1, InitInv, InvStep, PTL DEF Spec
===============================================================================

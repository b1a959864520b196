--------------------------- MODULE EnforcementProofs ---------------------------
(***************************************************************************)
(* For any users, hubs, clusters and pages, whatever the length of the     *)
(* names and of the clock: a request makes at most one upgrade, the one    *)
(* that was asked for, and its toast is true.                              *)
(***************************************************************************)
EXTENDS Enforcement, TLAPS

Places == Hubs \cup {Global}

\* A request keeps the number it was sent with, and its name is the one of
\* its cluster and of the second it was named at.
Faithful(r) ==
  /\ r.number \in 1 .. clicks /\ asked[r.number] = r.target
  /\ r.at = "named" => r.name = CguName(r.target.cluster, r.time)

\* Whose request was answered has it no longer: nobody else has that number,
\* and as long as a request is under way it has made nothing.
CallInv ==
  \A u \in Users : call[u] # None =>
    /\ Faithful(call[u])
    /\ \A v \in Users : call[v] # None /\ call[v].number = call[u].number => v = u
    /\ \A h \in Places : \A g \in upgrades[h] : g.number # call[u].number

\* What UpgradesWereAskedFor says, and what an upgrade's name stands for.
UpgradeInv ==
  /\ UpgradesWereAskedFor
  /\ \A h \in Places : \A g \in upgrades[h] :
       g.number \in 1 .. clicks /\ g.name = CguName(g.cluster, g.time)

\* What a toast says: of the request that was answered, and of the hub.
ToldInv ==
  /\ CreatedIsTrue
  /\ \A u \in Users : told[u] # None =>
       /\ told[u].request.at = "named"
       /\ told[u].request.name = CguName(told[u].request.target.cluster, told[u].request.time)
       /\ told[u].result = "exists" => Exists(told[u].request.target.hub, told[u].request.name)

EnforceInv == CallInv /\ UpgradeInv /\ ToldInv

-------------------------------------------------------------------------------
(* A row of a page is a policy of a cluster on a hub.                      *)
LEMMA TargetFields ==
  ASSUME NEW t \in Targets
  PROVE  t.hub \in Hubs /\ t.cluster \in Clusters
  BY PagesAssumption DEF Targets, Rows, Target, HubName

(* A page offers targets only.                                             *)
LEMMA PageRows ==
  ASSUME NEW page \in Pages
  PROVE  Rows(page) \subseteq Targets
  BY DEF Targets

(* What a request knows, before and after it is named.                     *)
LEMMA RequestFields ==
  ASSUME NEW r \in Requests
  PROVE  /\ r.at \in {"sent", "named"} /\ r.target \in Targets /\ r.number \in 1 .. MaxClicks
         /\ r.target.hub \in Hubs /\ r.target.cluster \in Clusters
         /\ r.at = "named" => r.name \in Names /\ r.time \in 0 .. Modulus - 1
  BY TargetFields DEF Requests

(* What CguName makes is a name.                                           *)
LEMMA NameFields ==
  ASSUME NEW c \in Clusters, NEW t \in 0 .. Modulus - 1
  PROVE  CguName(c, t) \in Names
  BY DEF Names

(* The request that is named (cgu.go: CreateCGU's first lines).            *)
LEMMA NamedRequest ==
  ASSUME NEW r \in Requests, r.at = "sent", NEW t \in 0 .. Modulus - 1
  PROVE  LET n == [r EXCEPT !.at = "named", !.time = t, !.name = CguName(r.target.cluster, t)]
         IN  /\ n \in Requests /\ n.at = "named" /\ n.target = r.target /\ n.number = r.number
             /\ n.time = t /\ n.name = CguName(r.target.cluster, t)
<1>1. CguName(r.target.cluster, t) \in Names
  BY RequestFields, NameFields
<1> QED
  BY <1>1 DEF Requests

(* The upgrade that a named request makes.                                 *)
LEMMA UpgradeFields ==
  ASSUME TypeOK, NEW u \in Users, call[u] # None, call[u].at = "named"
  PROVE  /\ Upgrade(u) \in Upgrades
         /\ Upgrade(u).number = call[u].number /\ Upgrade(u).time = call[u].time
         /\ Upgrade(u).name = call[u].name /\ Upgrade(u).cluster = call[u].target.cluster
         /\ Upgrade(u).policy = ManagedPolicyName(call[u].target.policy)
<1>1. call[u] \in Requests
  BY DEF TypeOK
<1> QED
  BY <1>1, RequestFields DEF Upgrade, Upgrades

\* Every step keeps every variable within its type.
LEMMA TypeStep == TypeOK /\ [Next]_vars => TypeOK'
<1> SUFFICES ASSUME TypeOK, [Next]_vars PROVE TypeOK'
  OBVIOUS
<1> USE BoundsAssumption, ModulusAssumption
<1>a. \A u \in Users : call[u] # None => call[u] \in Requests
  BY DEF TypeOK
<1>1. ASSUME NEW u \in Users, NEW page \in Pages, Open(u, page) PROVE TypeOK'
  BY <1>1, PageRows DEF TypeOK, Open, world
<1>2. ASSUME NEW u \in Users, NEW t \in Targets, EnforcePolicyWithCGU(u, t) PROVE TypeOK'
  <2> DEFINE r == [at |-> "sent", target |-> t, number |-> clicks + 1, name |-> None, time |-> None]
  <2>1. r \in Requests
    BY <1>2 DEF TypeOK, EnforcePolicyWithCGU, Requests
  <2>2. call' = [call EXCEPT ![u] = r]
    BY <1>2 DEF EnforcePolicyWithCGU
  <2> HIDE DEF r
  <2>3. call' \in [Users -> Requests \cup {None}]
    BY <2>1, <2>2 DEF TypeOK
  <2>4. clicks' = clicks + 1 /\ clicks' \in 0 .. MaxClicks
    BY <1>2 DEF EnforcePolicyWithCGU, TypeOK
  <2>5. asked' \in [1 .. clicks' -> Targets]
    BY <1>2, <2>4 DEF EnforcePolicyWithCGU, TypeOK
  <2> QED
    BY <1>2, <2>3, <2>4, <2>5 DEF EnforcePolicyWithCGU, TypeOK, world
<1>3. ASSUME NEW u \in Users, MakeName(u) PROVE TypeOK'
  <2>1. call' \in [Users -> Requests \cup {None}]
    BY <1>3, <1>a, NamedRequest DEF TypeOK, MakeName
  <2> QED
    BY <1>3, <2>1 DEF TypeOK, MakeName, world
<1>4. ASSUME NEW u \in Users, NEW result \in {"created", "exists", "failed"},
             call[u] # None, Toast(u, result)
      PROVE  /\ call' \in [Users -> Requests \cup {None}]
             /\ told' \in [Users -> [result : {"created", "exists", "failed"}, request : Requests]
                                      \cup {None}]
  BY <1>4, <1>a DEF TypeOK, Toast
<1>5. ASSUME NEW u \in Users, Create(u) PROVE TypeOK'
  <2>1. Upgrade(u) \in Upgrades
    BY <1>5, UpgradeFields DEF Create
  <2>2. upgrades' \in [Hubs \cup {Global} -> SUBSET Upgrades]
    BY <1>5, <2>1 DEF TypeOK, Create
  <2>3. PICK result \in {"created", "failed"} : Toast(u, result)
    BY <1>5 DEF Create
  <2>4. call[u] # None
    BY <1>5 DEF Create
  <2> QED
    BY <1>5, <1>4, <2>2, <2>3, <2>4 DEF TypeOK, Create
<1>6. ASSUME NEW u \in Users, CreateExists(u) PROVE TypeOK'
  BY <1>6, <1>4 DEF TypeOK, CreateExists, world
<1>7. ASSUME NEW u \in Users, CreateFails(u) PROVE TypeOK'
  BY <1>7, <1>4 DEF TypeOK, CreateFails, world
<1>8. ASSUME NEW h \in Hubs \cup {Global}, NEW g \in upgrades[h], Remediate(h, g) PROVE TypeOK'
  BY <1>8 DEF TypeOK, Remediate
<1>9. CASE Tick
  BY <1>9 DEF TypeOK, Tick, world
<1>10. ASSUME NEW t \in Targets, Drift(t) PROVE TypeOK'
  BY <1>10 DEF TypeOK, Drift
<1>11. CASE UNCHANGED vars
  BY <1>11 DEF TypeOK, vars, world
<1> QED
  BY <1>1, <1>2, <1>3, <1>5, <1>6, <1>7, <1>8, <1>9, <1>10, <1>11 DEF Next, CreateCGU, Talm

(* Type correctness of pages, requests, upgrades and toasts (app.js and    *)
(* cgu.go: CreateCGU).                                                     *)
THEOREM TypeCorrect == Spec => []TypeOK
<1>1. Init => TypeOK
  BY BoundsAssumption, ModulusAssumption DEF Init, TypeOK
<1> QED
  BY <1>1, TypeStep, PTL DEF Spec

-------------------------------------------------------------------------------
(* One step of the page, of CreateCGU or of TALM keeps what a request, an  *)
(* upgrade and a toast stand for.                                          *)
LEMMA InvStep == TypeOK /\ TypeOK' /\ EnforceInv /\ [Next]_vars => EnforceInv'
<1> SUFFICES ASSUME TypeOK, TypeOK', EnforceInv, [Next]_vars PROVE EnforceInv'
  OBVIOUS
<1> USE DEF EnforceInv
<1>a. \A u \in Users : call[u] # None => call[u] \in Requests
  BY DEF TypeOK
\* What neither a request nor an upgrade nor a toast takes part in.
<1>b. ASSUME UNCHANGED <<upgrades, call, told, clicks, asked>> PROVE EnforceInv'
  <2>1. CallInv'
    BY <1>b DEF CallInv, Faithful
  <2>2. UpgradeInv'
    BY <1>b DEF UpgradeInv, UpgradesWereAskedFor
  <2>3. ToldInv'
    BY <1>b DEF ToldInv, CreatedIsTrue, Exists
  <2> QED
    BY <2>1, <2>2, <2>3
<1>1. ASSUME NEW u \in Users, NEW t \in Targets, EnforcePolicyWithCGU(u, t) PROVE EnforceInv'
  <2> DEFINE r == [at |-> "sent", target |-> t, number |-> clicks + 1, name |-> None, time |-> None]
  <2>1. /\ call[u] = None /\ call' = [call EXCEPT ![u] = r]
        /\ clicks' = clicks + 1 /\ UNCHANGED <<upgrades, told>>
        /\ \A n \in 1 .. clicks : asked'[n] = asked[n]
        /\ asked'[clicks + 1] = t
    BY <1>1 DEF EnforcePolicyWithCGU, world, TypeOK
  <2>2. r.number = clicks + 1 /\ r.target = t /\ r.at = "sent"
    OBVIOUS
  <2> HIDE DEF r
  <2>3. \A n \in 1 .. clicks : n \in 1 .. clicks' /\ n # clicks + 1
    BY <2>1 DEF TypeOK
  <2>4. clicks + 1 \in 1 .. clicks'
    BY <2>1 DEF TypeOK
  <2>5. call'[u] = r /\ \A v \in Users : v # u => call'[v] = call[v]
    BY <2>1 DEF TypeOK
  <2>6. CallInv'
    BY <2>1, <2>2, <2>3, <2>4, <2>5 DEF CallInv, Faithful, UpgradeInv, Places
  <2>7. UpgradeInv'
    BY <2>1, <2>3 DEF UpgradeInv, UpgradesWereAskedFor, Places
  <2>8. ToldInv'
    BY <2>1 DEF ToldInv, CreatedIsTrue, Exists
  <2> QED
    BY <2>6, <2>7, <2>8
<1>2. ASSUME NEW u \in Users, MakeName(u) PROVE EnforceInv'
  <2> DEFINE n == [call[u] EXCEPT !.at = "named", !.time = now,
                                  !.name = CguName(call[u].target.cluster, now)]
  <2>1. /\ call[u] # None /\ call[u].at = "sent" /\ call' = [call EXCEPT ![u] = n]
        /\ UNCHANGED <<upgrades, told, clicks, asked>>
    BY <1>2 DEF MakeName, world
  <2>2. /\ n.target = call[u].target /\ n.number = call[u].number
        /\ n.name = CguName(n.target.cluster, n.time)
    BY <2>1, <1>a DEF Requests
  <2> HIDE DEF n
  <2>3. call'[u] = n /\ \A v \in Users : v # u => call'[v] = call[v]
    BY <2>1 DEF TypeOK
  <2>4. CallInv'
    BY <2>1, <2>2, <2>3 DEF CallInv, Faithful
  <2>5. UpgradeInv'
    BY <2>1 DEF UpgradeInv, UpgradesWereAskedFor
  <2>6. ToldInv'
    BY <2>1 DEF ToldInv, CreatedIsTrue, Exists
  <2> QED
    BY <2>4, <2>5, <2>6
<1>3. ASSUME NEW u \in Users, NEW result \in {"created", "exists", "failed"},
             call[u] # None, call[u].at = "named", Toast(u, result)
      PROVE  /\ call'[u] = None /\ \A v \in Users : v # u => call'[v] = call[v]
             /\ told'[u].result = result /\ told'[u].request = call[u]
             /\ \A v \in Users : v # u => told'[v] = told[v]
  BY <1>3 DEF TypeOK, Toast
<1>4. ASSUME NEW u \in Users, Create(u) PROVE EnforceInv'
  <2> DEFINE h0 == call[u].target.hub
             up == Upgrade(u)
  <2>1. PICK result \in {"created", "failed"} : Toast(u, result)
    BY <1>4 DEF Create
  <2>2. /\ call[u] # None /\ call[u].at = "named" /\ UNCHANGED <<clicks, asked>>
        /\ upgrades' = [upgrades EXCEPT ![h0] = @ \cup {up}]
    BY <1>4 DEF Create
  <2>3. /\ call[u] \in Requests /\ call[u].target \in Targets /\ h0 \in Places
        /\ call[u].name = CguName(call[u].target.cluster, call[u].time)
        /\ call[u].number \in 1 .. clicks /\ asked[call[u].number] = call[u].target
    BY <2>2, <1>a, RequestFields DEF CallInv, Faithful, Places
  <2>4. /\ up.number = call[u].number /\ up.time = call[u].time /\ up.name = call[u].name
        /\ up.cluster = call[u].target.cluster
        /\ up.policy = ManagedPolicyName(call[u].target.policy)
    BY <2>2, UpgradeFields
  <2> HIDE DEF up
  <2>5. /\ call'[u] = None /\ \A v \in Users : v # u => call'[v] = call[v]
        /\ told'[u].result = result /\ told'[u].request = call[u]
        /\ \A v \in Users : v # u => told'[v] = told[v]
    BY <2>1, <2>2, <1>3
  <2>6. /\ upgrades'[h0] = upgrades[h0] \cup {up}
        /\ \A h \in Places : h # h0 => upgrades'[h] = upgrades[h]
    BY <2>2, <2>3 DEF TypeOK, Places
  <2>7. \A h \in Places : \A g \in upgrades[h] : g.number # up.number
    BY <2>2, <2>4 DEF CallInv
  <2>8. CallInv'
    <3> SUFFICES ASSUME NEW v \in Users, call'[v] # None
                 PROVE  /\ Faithful(call[v])
                        /\ \A w \in Users : call'[w] # None /\ call'[w].number = call[v].number => w = v
                        /\ \A h \in Places : \A g \in upgrades'[h] : g.number # call[v].number
      BY <2>2, <2>5 DEF CallInv, Faithful
    <3>1. v # u /\ call[v] # None
      BY <2>5
    <3>2. call[v].number # up.number
      BY <3>1, <2>2, <2>4 DEF CallInv
    <3> QED
      BY <3>1, <3>2, <2>5, <2>6 DEF CallInv
  <2>9. UpgradeInv'
    <3>1. ASSUME NEW h \in Places, NEW g \in upgrades'[h]
          PROVE  /\ asked[g.number].hub = h /\ asked[g.number].cluster = g.cluster
                 /\ ManagedPolicyName(asked[g.number].policy) = g.policy
                 /\ g.number \in 1 .. clicks /\ g.name = CguName(g.cluster, g.time)
      <4>1. CASE h = h0 /\ g = up
        BY <4>1, <2>3, <2>4
      <4>2. CASE g \in upgrades[h]
        BY <4>2 DEF UpgradeInv, UpgradesWereAskedFor, Places
      <4> QED
        BY <4>1, <4>2, <2>6
    <3>2. ASSUME NEW h \in Places, NEW g \in upgrades'[h], NEW f \in upgrades'[h],
                 f.number = g.number
          PROVE  f = g
      <4>1. CASE f \in upgrades[h] /\ g \in upgrades[h]
        BY <4>1, <3>2 DEF UpgradeInv, UpgradesWereAskedFor, Places
      <4> QED
        BY <4>1, <3>2, <2>6, <2>7
    <3> QED
      BY <3>1, <3>2, <2>2 DEF UpgradeInv, UpgradesWereAskedFor, Places
  <2>10. \A h \in Places : upgrades[h] \subseteq upgrades'[h]
    BY <2>6
  <2>11. ToldInv'
    <3> SUFFICES ASSUME NEW v \in Users, told'[v] # None
                 PROVE  /\ told'[v].result = "created" =>
                             \E g \in upgrades'[told'[v].request.target.hub] :
                               /\ g.number = told'[v].request.number
                               /\ g.cluster = told'[v].request.target.cluster
                               /\ g.policy = ManagedPolicyName(told'[v].request.target.policy)
                        /\ told'[v].request.at = "named"
                        /\ told'[v].request.name
                             = CguName(told'[v].request.target.cluster, told'[v].request.time)
                        /\ told'[v].result = "exists" =>
                             \E g \in upgrades'[told'[v].request.target.hub] :
                               g.name = told'[v].request.name
      BY DEF ToldInv, CreatedIsTrue, Exists
    <3>1. CASE v = u
      BY <3>1, <2>1, <2>2, <2>3, <2>4, <2>5, <2>6
    <3>2. CASE v # u
      <4>1. told[v] # None /\ told'[v] = told[v] /\ told[v].request.target.hub \in Places
        BY <3>2, <2>5, RequestFields DEF TypeOK, Places
      <4> QED
        BY <4>1, <2>10 DEF ToldInv, CreatedIsTrue, Exists
    <3> QED
      BY <3>1, <3>2
  <2> QED
    BY <2>8, <2>9, <2>11
<1>5. ASSUME NEW u \in Users, CreateExists(u) \/ CreateFails(u) PROVE EnforceInv'
  <2>1. PICK result \in {"exists", "failed"} :
          /\ Toast(u, result)
          /\ result = "exists" => Exists(call[u].target.hub, call[u].name)
    BY <1>5 DEF CreateExists, CreateFails
  <2>2. call[u] # None /\ call[u].at = "named" /\ UNCHANGED <<upgrades, clicks, asked>>
    BY <1>5 DEF CreateExists, CreateFails, world
  <2>3. /\ call'[u] = None /\ \A v \in Users : v # u => call'[v] = call[v]
        /\ told'[u].result = result /\ told'[u].request = call[u]
        /\ \A v \in Users : v # u => told'[v] = told[v]
    BY <2>1, <2>2, <1>3
  <2>4. CallInv'
    BY <2>2, <2>3 DEF CallInv, Faithful
  <2>5. UpgradeInv'
    BY <2>2 DEF UpgradeInv, UpgradesWereAskedFor
  <2>6. ToldInv'
    BY <2>1, <2>2, <2>3 DEF ToldInv, CreatedIsTrue, Exists, CallInv, Faithful
  <2> QED
    BY <2>4, <2>5, <2>6
<1>6. ASSUME NEW u \in Users, NEW page \in Pages, Open(u, page) PROVE EnforceInv'
  BY <1>6, <1>b DEF Open, world
<1>7. ASSUME NEW h \in Hubs \cup {Global}, NEW g \in upgrades[h], Remediate(h, g) PROVE EnforceInv'
  BY <1>7, <1>b DEF Remediate
<1>8. CASE Tick
  BY <1>8, <1>b DEF Tick, world
<1>9. ASSUME NEW t \in Targets, Drift(t) PROVE EnforceInv'
  BY <1>9, <1>b DEF Drift
<1>10. CASE UNCHANGED vars
  BY <1>10, <1>b DEF vars, world
<1> QED
  BY <1>1, <1>2, <1>4, <1>5, <1>6, <1>7, <1>8, <1>9, <1>10 DEF Next, CreateCGU, Talm

\* The inductive invariant holds throughout, which the four theorems below draw on.
LEMMA EnforceInvHolds == Spec => []EnforceInv
<1>1. Init => EnforceInv
  BY DEF Init, EnforceInv, CallInv, UpgradeInv, ToldInv, CreatedIsTrue, UpgradesWereAskedFor, Places
<1> QED
  BY <1>1, TypeCorrect, InvStep, PTL DEF Spec

(* A toast that says created speaks of an upgrade this very request made   *)
(* (cgu.go: the 201 of CreateCGU).                                         *)
THEOREM CreatedIsTrueHolds == Spec => []CreatedIsTrue
<1>1. EnforceInv => CreatedIsTrue
  BY DEF EnforceInv, ToldInv
<1> QED
  BY <1>1, EnforceInvHolds, PTL

(* Every upgrade was asked for, where it is, and once (cgu.go: what        *)
(* CreateCGU makes of the page's request).                                 *)
THEOREM UpgradesWereAskedForHolds == Spec => []UpgradesWereAskedFor
<1>1. EnforceInv => UpgradesWereAskedFor
  BY DEF EnforceInv, UpgradeInv
<1> QED
  BY <1>1, EnforceInvHolds, PTL

(* Where all digits fit, a name tells the cluster and the second.          *)
LEMMA NamesAreTold ==
  ASSUME NEW c \in Clusters, NEW d \in Clusters, NEW t, NEW s,
         Room[c] >= Digits, Room[d] >= 0, CguName(c, t) = CguName(d, s)
  PROVE  c = d /\ t = s
<1>1. Room[c] \in Int /\ Digits \in Nat \ {0}
  BY RoomAssumption, BaseAssumption
<1>2. /\ CguName(c, t).stem = Stem[c] /\ CguName(c, t).digits = t
      /\ CguName(d, s).stem = Stem[d]
      /\ Room[d] >= Digits => CguName(d, s).digits = s
  BY <1>1, RoomAssumption DEF CguName, Leading
<1>3. c = d
  BY <1>1, <1>2, StemAssumption
<1> QED
  BY <1>2, <1>3

(* A full name is refused only in its own second (cgu.go: AlreadyExists).  *)
THEOREM RefusedInItsSecondOnlyHolds == Spec => []RefusedInItsSecondOnly
<1>1. TypeOK /\ EnforceInv => RefusedInItsSecondOnly
  <2> SUFFICES ASSUME TypeOK, EnforceInv, NEW u \in Users,
                      told[u] # None, told[u].result = "exists",
                      Room[told[u].request.target.cluster] >= Digits
               PROVE  \E g \in upgrades[told[u].request.target.hub] :
                        \/ /\ g.cluster = told[u].request.target.cluster
                           /\ g.time = told[u].request.time
                        \/ Room[g.cluster] < 0 /\ g.name = told[u].request.name
    BY DEF RefusedInItsSecondOnly
  <2> DEFINE r == told[u].request
  <2>1. r \in Requests /\ r.target.cluster \in Clusters /\ r.target.hub \in Places
    BY RequestFields DEF TypeOK, Places
  <2>2. r.name = CguName(r.target.cluster, r.time)
    BY DEF EnforceInv, ToldInv
  <2>3. PICK g \in upgrades[r.target.hub] : g.name = r.name
    BY DEF EnforceInv, ToldInv, Exists
  <2>4. g.name = CguName(g.cluster, g.time) /\ g.cluster \in Clusters
    BY <2>1, <2>3 DEF EnforceInv, UpgradeInv, TypeOK, Upgrades, Places
  <2>5. CguName(r.target.cluster, r.time) = CguName(g.cluster, g.time) /\ Room[r.target.cluster] >= Digits
    BY <2>2, <2>3, <2>4
  <2> HIDE DEF r
  <2>6. Room[g.cluster] >= 0 => r.target.cluster = g.cluster /\ r.time = g.time
    BY ONLY <2>1, <2>4, <2>5, NamesAreTold
  <2>7. Room[g.cluster] < 0 \/ Room[g.cluster] >= 0
    BY <2>4, RoomAssumption
  <2> QED
    BY <2>3, <2>6, <2>7 DEF r
<1> QED
  BY <1>1, TypeCorrect, EnforceInvHolds, PTL
===============================================================================

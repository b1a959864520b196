----------------------------- MODULE Enforcement -----------------------------
(***************************************************************************)
(* From the Enforce button to the policy that is enforced: the rows of a   *)
(* page (renderSpokePolicyList, renderPolicies), the request they make     *)
(* (enforcePolicyWithCGU, all in frontend-static/app.js), CreateCGU        *)
(* (pkg/handlers/cgu.go), and TALM, which works on the                     *)
(* ClusterGroupUpgrades of a hub.  Several users click at any time, on     *)
(* pages that may be outdated, and answers get lost.                       *)
(*                                                                         *)
(* The name of an upgrade is the cluster's name, a dash and the decimal    *)
(* digits of the clock modulo a million, cut at 50 characters.  Here a     *)
(* name is the cluster's name and what is left of the digits, as a number; *)
(* of a cluster with 50 characters or more nothing else is left, and what  *)
(* is left may read like the name of another cluster's upgrade.            *)
(***************************************************************************)
EXTENDS Integers, FiniteSets

CONSTANTS
  Users,
  Hubs,
  Clusters,    \* names of clusters; a hub is a cluster too
  Pages,       \* pages: a hub (None: the page of a hub), a cluster and its policies,
               \* whose names are a prefix and what follows it
  Room,        \* how many digits fit behind a cluster's name and a dash (-1: not
               \* even the dash)
  Stem,        \* the cluster's name; if not even the dash fits, its first 50
               \* characters, as the name of an upgrade
  None,        \* nothing
  Global,      \* the global hub
  Base,        \* of the digits (10)
  Digits,      \* how many of them the clock has: timestamp%1000000 (6)
  MaxClicks,   \* bound: requests
  MaxDrifts    \* bound: policies that are violated again

Modulus == Base ^ Digits

ASSUME BaseAssumption == Base \in Nat \ {0, 1} /\ Digits \in Nat \ {0}
ASSUME ModulusAssumption == Modulus \in Nat \ {0}
ASSUME RoomAssumption == Room \in [Clusters -> Int]
ASSUME StemAssumption ==
  /\ DOMAIN Stem = Clusters
  /\ \A c, d \in Clusters : Room[c] >= 0 /\ Room[d] >= 0 /\ Stem[c] = Stem[d] => c = d
ASSUME GlobalAssumption == Global \notin Hubs
ASSUME PagesAssumption ==
  \A page \in Pages : /\ page.cluster \in Clusters
                      /\ IF page.hub = None THEN page.cluster \in Hubs ELSE page.hub \in Hubs
ASSUME BoundsAssumption == MaxClicks \in Nat /\ MaxDrifts \in Nat

\* hubName || clusterName: a policy of a hub is enforced on that hub.
HubName(page) == IF page.hub = None THEN page.cluster ELSE page.hub

Target(page, p) == [hub |-> HubName(page), cluster |-> page.cluster, policy |-> p]
Rows(page) == {Target(page, p) : p \in page.policies}
Targets == UNION {Rows(page) : page \in Pages}

\* The first r digits of t, or all if it has no more.
Leading(t, r) ==
  IF r >= Digits THEN t
  ELSE LET cuts == {t \div Base ^ k : k \in 0 .. Digits}
       IN  CHOOSE n \in cuts : n < Base ^ r /\ \A m \in cuts : m < Base ^ r => m <= n

NameByTheMinute(c, t) ==
  IF Room[c] < 0 THEN Stem[c]
  ELSE [stem |-> Stem[c], digits |-> IF Room[c] > 0 THEN Leading(t \div Base, Room[c]) ELSE None]

CguName(c, t) ==
  IF Room[c] < 0 THEN Stem[c]
  ELSE [stem |-> Stem[c], digits |-> IF Room[c] > 0 THEN Leading(t, Room[c]) ELSE None]

\* A name that ends with the dash is refused by the API server.
Valid(c) == Room[c] # 0

Names == {CguName(c, t) : c \in Clusters, t \in 0 .. Modulus - 1}

PrefixKept(p) == p

\* managedPolicyName: the prefix goes if it is the one of ztp-vdu.
ManagedPolicyName(p) == IF p.prefix = "ztp-vdu." THEN [p EXCEPT !.prefix = ""] ELSE p

VARIABLES
  compliant,   \* targets whose policy is not violated
  now,         \* the clock of the backend, modulo Modulus
  upgrades,    \* the ClusterGroupUpgrades of each hub
  finished,    \* those that TALM is done with
  view,        \* each user's page: its policies that have a button
  call,        \* each user's request in flight
  told,        \* each user's last toast
  clicks,      \* requests so far
  drifts,      \* policies violated again so far
  asked        \* history: the target of every request, by its number

world == <<compliant, upgrades, finished, drifts>>
vars == <<world, now, view, call, told, clicks, asked>>

\* To begin with every policy is violated: there is nothing to enforce else.
Init == /\ compliant = {}
        /\ now = 0
        /\ upgrades = [h \in Hubs \cup {Global} |-> {}]
        /\ finished = {}
        /\ view = [u \in Users |-> {}]
        /\ call = [u \in Users |-> None]
        /\ told = [u \in Users |-> None]
        /\ clicks = 0
        /\ drifts = 0
        /\ asked = [n \in {} |-> None]

Toast(u, result) ==
  /\ told' = [told EXCEPT ![u] = [result |-> result, request |-> call[u]]]
  /\ call' = [call EXCEPT ![u] = None]

-------------------------------------------------------------------------------
\* The page.

\* A page is opened: policies that are not compliant have the button; a page
\* whose policies could not be read has none.  (With MaxClicks used up, the
\* pages no longer matter.)
Open(u, page) ==
  /\ clicks < MaxClicks
  /\ \E offers \in {{}, Rows(page) \ compliant} :
       view' = [view EXCEPT ![u] = offers]
  /\ UNCHANGED <<world, now, call, told, clicks, asked>>

\* The user confirms; the request is on its way.
EnforcePolicyWithCGU(u, t) ==
  /\ t \in view[u] /\ call[u] = None /\ clicks < MaxClicks
  /\ call' = [call EXCEPT ![u] = [at |-> "sent", target |-> t, number |-> clicks + 1,
                                  name |-> None, time |-> None]]
  /\ clicks' = clicks + 1
  /\ asked' = [n \in 1 .. clicks + 1 |-> IF n = clicks + 1 THEN t ELSE asked[n]]
  /\ UNCHANGED <<world, now, view, told>>

-------------------------------------------------------------------------------
\* CreateCGU.

\* The name is made before the hub is connected to.
MakeName(u) ==
  /\ call[u] # None /\ call[u].at = "sent"
  /\ call' = [call EXCEPT ![u] = [@ EXCEPT !.at = "named", !.time = now,
                                           !.name = CguName(call[u].target.cluster, now)]]
  /\ UNCHANGED <<world, now, view, told, clicks, asked>>

Exists(h, name) == \E g \in upgrades[h] : g.name = name

\* number and time are history: which request it was, and when it was named.
Upgrade(u) == [name |-> call[u].name, cluster |-> call[u].target.cluster,
               policy |-> ManagedPolicyName(call[u].target.policy),
               number |-> call[u].number, time |-> call[u].time]

CreateOnGlobalHub(u) ==
  /\ call[u] # None /\ call[u].at = "named"
  /\ ~Exists(Global, call[u].name)
  /\ upgrades' = [upgrades EXCEPT ![Global] = @ \cup {Upgrade(u)}]
  /\ Toast(u, "created")
  /\ UNCHANGED <<compliant, finished, drifts, now, view, clicks, asked>>

\* The API server creates the upgrade; the answer may be lost on its way to
\* the page.
Create(u) ==
  /\ call[u] # None /\ call[u].at = "named"
  /\ Valid(call[u].target.cluster) /\ ~Exists(call[u].target.hub, call[u].name)
  /\ upgrades' = [upgrades EXCEPT ![call[u].target.hub] = @ \cup {Upgrade(u)}]
  /\ \E result \in {"created", "failed"} : Toast(u, result)
  /\ UNCHANGED <<compliant, finished, drifts, now, view, clicks, asked>>

ExistsIsFine(u) ==
  /\ call[u] # None /\ call[u].at = "named"
  /\ Exists(call[u].target.hub, call[u].name)
  /\ Toast(u, "created")
  /\ UNCHANGED <<world, now, view, clicks, asked>>

\* AlreadyExists, whoever made it.
CreateExists(u) ==
  /\ call[u] # None /\ call[u].at = "named"
  /\ Exists(call[u].target.hub, call[u].name)
  /\ Toast(u, "exists")
  /\ UNCHANGED <<world, now, view, clicks, asked>>

\* An invalid name, or no use of the hub: no client from its secret
\* (NewHubClientFromSecret), no access, no answer.
CreateFails(u) ==
  /\ call[u] # None /\ call[u].at = "named"
  /\ Toast(u, "failed")
  /\ UNCHANGED <<world, now, view, clicks, asked>>

-------------------------------------------------------------------------------
\* Around it.

\* TALM finds the policies of an upgrade by their names without prefix, and
\* enforces them.
Remediate(h, g) ==
  /\ g \in upgrades[h] /\ g \notin finished
  /\ LET found == {t \in Targets : t.hub = h /\ t.cluster = g.cluster
                                   /\ g.policy = [t.policy EXCEPT !.prefix = ""]}
     IN  found # {} /\ compliant' = compliant \cup found
  /\ finished' = finished \cup {g}
  /\ UNCHANGED <<upgrades, drifts, now, view, call, told, clicks, asked>>

Drift(t) ==
  /\ t \in compliant /\ drifts < MaxDrifts
  /\ compliant' = compliant \ {t}
  /\ drifts' = drifts + 1
  /\ UNCHANGED <<upgrades, finished, now, view, call, told, clicks, asked>>

TickForEver ==
  /\ now' = now + 1
  /\ UNCHANGED <<world, view, call, told, clicks, asked>>

Tick ==
  /\ now' = (now + 1) % Modulus
  /\ UNCHANGED <<world, view, call, told, clicks, asked>>

CreateCGU(u) == MakeName(u) \/ Create(u) \/ CreateExists(u) \/ CreateFails(u)

Talm == \E h \in Hubs \cup {Global} : \E g \in upgrades[h] : Remediate(h, g)

Next == \/ \E u \in Users : \/ CreateCGU(u)
                            \/ \E page \in Pages : Open(u, page)
                            \/ \E t \in Targets : EnforcePolicyWithCGU(u, t)
        \/ Talm \/ Tick
        \/ \E t \in Targets : Drift(t)

Spec == Init /\ [][Next]_vars

\* TALM goes on working on the upgrades that there are.
FairSpec == Spec /\ WF_vars(Talm)

-------------------------------------------------------------------------------
Requests == [at : {"sent"}, target : Targets, number : 1 .. MaxClicks, name : {None}, time : {None}]
              \cup [at : {"named"}, target : Targets, number : 1 .. MaxClicks,
                    name : Names, time : 0 .. Modulus - 1]

Upgrades == [name : Names, cluster : Clusters, number : 1 .. MaxClicks, time : 0 .. Modulus - 1,
             policy : {ManagedPolicyName(t.policy) : t \in Targets}]

(* Type correctness.                                                       *)
TypeOK ==
  /\ compliant \subseteq Targets
  /\ now \in 0 .. Modulus - 1
  /\ upgrades \in [Hubs \cup {Global} -> SUBSET Upgrades]
  /\ finished \subseteq Upgrades
  /\ view \in [Users -> SUBSET Targets]
  /\ call \in [Users -> Requests \cup {None}]
  /\ told \in [Users -> [result : {"created", "exists", "failed"}, request : Requests] \cup {None}]
  /\ clicks \in 0 .. MaxClicks
  /\ drifts \in 0 .. MaxDrifts
  /\ asked \in [1 .. clicks -> Targets]

(* What the toast says was created is there: an upgrade made by this very  *)
(* request, on the hub, for the cluster and the policy of the row that was *)
(* clicked - never one that another request had made under the same name.  *)
CreatedIsTrue ==
  \A u \in Users : told[u] # None /\ told[u].result = "created" =>
    \E g \in upgrades[told[u].request.target.hub] :
      /\ g.number = told[u].request.number
      /\ g.cluster = told[u].request.target.cluster
      /\ g.policy = ManagedPolicyName(told[u].request.target.policy)

(* Every upgrade on a hub was asked for on a page of that hub, for that    *)
(* cluster and policy, and no request made two - also where the names of   *)
(* two clusters are cut to the same 50 characters, and answers were lost.  *)
UpgradesWereAskedFor ==
  \A h \in Hubs \cup {Global} : \A g \in upgrades[h] :
    /\ asked[g.number].hub = h /\ asked[g.number].cluster = g.cluster
    /\ ManagedPolicyName(asked[g.number].policy) = g.policy
    /\ \A f \in upgrades[h] : f.number = g.number => f = g

(* Where all digits fit, a request is refused for its name only if another *)
(* one for the same cluster was named at the same second of the clock's    *)
(* period, or if the name is that of a cluster with 50 characters or more: *)
(* one second later the name is another.                                   *)
RefusedInItsSecondOnly ==
  \A u \in Users :
    told[u] # None /\ told[u].result = "exists" /\ Room[told[u].request.target.cluster] >= Digits =>
      \E g \in upgrades[told[u].request.target.hub] :
        \/ g.cluster = told[u].request.target.cluster /\ g.time = told[u].request.time
        \/ Room[g.cluster] < 0 /\ g.name = told[u].request.name

(* "Policy ... will be enforced via TALM" (app.js:786): for the policies   *)
(* whose prefix CreateCGU knows, it will - by this request's upgrade, if   *)
(* TALM is not done with it when the page is told.                         *)
WillBeEnforced ==
  \A u \in Users, t \in Targets :
    /\ told[u] # None /\ told[u].result = "created" /\ told[u].request.target = t
    /\ t.policy.prefix = "ztp-vdu."
    /\ \A g \in finished : g.number # told[u].request.number
    ~> t \in compliant
===============================================================================

------------------------------- MODULE HubFanout -------------------------------
(***************************************************************************)
(* One call of GetManagedHubs (pkg/client/rhacm.go): a goroutine for every *)
(* hub that RHACM manages, of which a semaphore lets Limit work at a time, *)
(* a WaitGroup that joins them, and then, one after the other, the hubs    *)
(* whose Secret an administrator put into acm-fleet.                       *)
(*                                                                         *)
(* Calls of a hub's API server end after 30 seconds at most, with an       *)
(* answer or an error, and either way the goroutine goes on.  Two kinds of *)
(* calls have no time limit: the exchange of credentials for a token       *)
(* (RefreshOAuthToken), which has no context either, and those of the      *)
(* global hub (buildConfig sets no timeout).  A hub is silent if it        *)
(* refuses the stored token and its OAuth server takes the connection and  *)
(* never replies; the global hub is silent if its API server does so.      *)
(***************************************************************************)
EXTENDS Integers, FiniteSets

CONSTANTS
  Clusters,   \* hubs among RHACM's managed clusters
  Secrets,    \* hubs with a Secret in acm-fleet
  Global,     \* the global hub, where RHACM, the policies and the Secrets are
  Limit,      \* capacity of hubSem (3)
  Empty,      \* the zero value of a hub
  NoAnswer    \* GetManagedHubs has not returned, or failed

ASSUME GlobalIsNoHub == Global \notin Clusters \cup Secrets
ASSUME FiniteClusters == IsFiniteSet(Clusters)
ASSUME LimitAssumption == Limit \in Nat \ {0}

Hub(name, source) == [name |-> name, source |-> source]
ByHand(names) == {Hub(s, "manual") : s \in names}
Descriptions == {Hub(c, "rhacm") : c \in Clusters}

ASSUME EmptyIsNoHub == Empty \notin Descriptions

VARIABLES
  main,      \* where GetManagedHubs is
  rhacm,     \* what the list of managed clusters has shown of RHACM
  pc,        \* where the goroutine of each cluster is
  hubWg,     \* the WaitGroup's counter
  hubSem,    \* how many tokens the channel holds
  hubs,      \* the slice the goroutines fill
  existing,  \* existingHubNames
  unread,    \* the Secrets could not be listed
  todo,      \* Secrets that the loop of discoverUnmanagedHubs has yet to visit
  found,     \* unmanagedHubs so far
  answer,    \* the hubs returned
  silent     \* hubs, the global one among them, that never reply

loop == <<existing, unread, todo, found>>
vars == <<main, rhacm, pc, hubWg, hubSem, hubs, loop, answer, silent>>

Init == /\ main = "begin"
        /\ rhacm = "unasked"
        /\ pc = [c \in Clusters |-> "none"]
        /\ hubWg = 0
        /\ hubSem = 0
        /\ hubs = [c \in Clusters |-> Empty]
        /\ existing = {}
        /\ unread = FALSE
        /\ todo = {}
        /\ found = {}
        /\ answer = NoAnswer
        /\ silent \in SUBSET (Clusters \cup Secrets \cup {Global})

\* A call of the global hub ends, and one that connects to a hub, which reads
\* the hub's Secret from the global one, does.
GlobalReplies == Global \notin silent
Replies(hub) == GlobalReplies /\ hub \notin silent

-------------------------------------------------------------------------------
\* GetManagedHubs, before and after the goroutines.

\* The managed clusters are listed.  Without RHACM no hub is managed, and any
\* other error fails the call.
GetManagedClusters ==
  /\ main = "begin" /\ GlobalReplies
  /\ \/ rhacm' = "installed" /\ main' = "spawn"
     \/ rhacm' = "missing" /\ main' = "discover"
     \/ rhacm' = "failed" /\ main' = "failed"
  /\ UNCHANGED <<pc, hubWg, hubSem, hubs, loop, answer, silent>>

SpawnWithoutAdd(c) ==
  /\ main = "spawn" /\ pc[c] = "none"
  /\ pc' = [pc EXCEPT ![c] = "acquire"]
  /\ UNCHANGED <<main, rhacm, hubWg, hubSem, hubs, loop, answer, silent>>

\* hubWg.Add(1) and go.
Spawn(c) ==
  /\ main = "spawn" /\ pc[c] = "none"
  /\ hubWg' = hubWg + 1
  /\ pc' = [pc EXCEPT ![c] = "acquire"]
  /\ UNCHANGED <<main, rhacm, hubSem, hubs, loop, answer, silent>>

\* hubWg.Wait returns; the names of the hubs in the slice are known.
Wait ==
  /\ main = "spawn" /\ \A c \in Clusters : pc[c] # "none"
  /\ hubWg = 0
  /\ main' = "discover"
  /\ existing' = {hubs[c].name : c \in {d \in Clusters : hubs[d] # Empty}}
  /\ UNCHANGED <<rhacm, pc, hubWg, hubSem, hubs, unread, todo, found, answer, silent>>

\* discoverUnmanagedHubs lists the Secrets; its error is passed over.
ListSecrets ==
  /\ main = "discover" /\ GlobalReplies
  /\ main' = "visit"
  /\ unread' \in BOOLEAN
  /\ todo' = IF unread' THEN {} ELSE Secrets
  /\ UNCHANGED <<rhacm, pc, hubWg, hubSem, hubs, existing, found, answer, silent>>

\* One Secret: its hub is skipped if it is managed, else connected to with
\* the Secret that was listed.
VisitSecret(s) ==
  /\ main = "visit" /\ s \in todo
  /\ todo' = todo \ {s}
  /\ \/ s \in existing /\ UNCHANGED found
     \/ s \notin existing \cup silent /\ found' = found \cup {Hub(s, "manual")}
  /\ UNCHANGED <<main, rhacm, pc, hubWg, hubSem, hubs, existing, unread, answer, silent>>

Return ==
  /\ main = "visit" /\ todo = {}
  /\ main' = "returned"
  /\ answer' = (IF rhacm = "installed" THEN {hubs[c] : c \in Clusters} ELSE {}) \cup found
  /\ UNCHANGED <<rhacm, pc, hubWg, hubSem, hubs, loop, silent>>

-------------------------------------------------------------------------------
\* The goroutine of a cluster.

AcquireOrGoOn(c) ==
  /\ pc[c] = "acquire"
  /\ hubSem' = IF hubSem < Limit THEN hubSem + 1 ELSE hubSem
  /\ pc' = [pc EXCEPT ![c] = "spokes"]
  /\ UNCHANGED <<main, rhacm, hubWg, hubs, loop, answer, silent>>

Acquire(c) ==
  /\ pc[c] = "acquire" /\ hubSem < Limit
  /\ hubSem' = hubSem + 1
  /\ pc' = [pc EXCEPT ![c] = "spokes"]
  /\ UNCHANGED <<main, rhacm, hubWg, hubs, loop, answer, silent>>

\* getSpokesClustersFromHub connects to the hub; its failure leaves the
\* spokes that RHACM's labels name.
GetSpokes(c) ==
  /\ pc[c] = "spokes" /\ Replies(c)
  /\ pc' = [pc EXCEPT ![c] = "policies"]
  /\ UNCHANGED <<main, rhacm, hubWg, hubSem, hubs, loop, answer, silent>>

\* Policies and BareMetalHosts, from the global hub.
GetPolicies(c) ==
  /\ pc[c] = "policies" /\ GlobalReplies
  /\ pc' = [pc EXCEPT ![c] = "enrich"]
  /\ UNCHANGED <<main, rhacm, hubWg, hubSem, hubs, loop, answer, silent>>

\* The hub is connected to once more, and the slot is filled.
Enrich(c) ==
  /\ pc[c] = "enrich" /\ Replies(c)
  /\ hubs' = [hubs EXCEPT ![c] = Hub(c, "rhacm")]
  /\ pc' = [pc EXCEPT ![c] = "release"]
  /\ UNCHANGED <<main, rhacm, hubWg, hubSem, loop, answer, silent>>

ReleaseForgotten(c) ==
  /\ pc[c] = "release"
  /\ pc' = [pc EXCEPT ![c] = "finish"]
  /\ UNCHANGED <<main, rhacm, hubWg, hubSem, hubs, loop, answer, silent>>

\* The deferred calls, last one first: the semaphore, then the WaitGroup.
Release(c) ==
  /\ pc[c] = "release"
  /\ hubSem' = hubSem - 1
  /\ pc' = [pc EXCEPT ![c] = "finish"]
  /\ UNCHANGED <<main, rhacm, hubWg, hubs, loop, answer, silent>>

DoneTwice(c) ==
  /\ pc[c] = "finish"
  /\ hubWg' = hubWg - 2
  /\ pc' = [pc EXCEPT ![c] = "gone"]
  /\ UNCHANGED <<main, rhacm, hubSem, hubs, loop, answer, silent>>

Done(c) ==
  /\ pc[c] = "finish"
  /\ hubWg' = hubWg - 1
  /\ pc' = [pc EXCEPT ![c] = "gone"]
  /\ UNCHANGED <<main, rhacm, hubSem, hubs, loop, answer, silent>>

-------------------------------------------------------------------------------
Call == \/ GetManagedClusters \/ Wait \/ ListSecrets \/ Return
        \/ \E c \in Clusters : Spawn(c)
        \/ \E s \in Secrets : VisitSecret(s)

Go(c) == \/ Acquire(c) \/ GetSpokes(c) \/ GetPolicies(c) \/ Enrich(c)
         \/ Release(c) \/ Done(c)

Next == Call \/ \E c \in Clusters : Go(c)

Spec == Init /\ [][Next]_vars

\* Goroutines run, and calls that have a time limit, or whose hub replies, end.
FairSpec == Spec /\ WF_vars(Call) /\ \A c \in Clusters : WF_vars(Go(c))

-------------------------------------------------------------------------------
(* Type correctness.                                                       *)
TypeOK ==
  /\ main \in {"begin", "spawn", "discover", "visit", "returned", "failed"}
  /\ pc \in [Clusters -> {"none", "acquire", "spokes", "policies", "enrich",
                          "release", "finish", "gone"}]
  /\ hubWg \in Nat /\ hubSem \in Nat
  /\ hubs \in [Clusters -> Descriptions \cup {Empty}]
  /\ rhacm \in {"unasked", "installed", "missing", "failed"}
  /\ unread \in BOOLEAN
  /\ existing \subseteq Clusters
  /\ todo \subseteq Secrets
  /\ found \subseteq ByHand(Secrets)
  /\ silent \subseteq Clusters \cup Secrets \cup {Global}

Working == {c \in Clusters : pc[c] \in {"spokes", "policies", "enrich", "release"}}

(* No more hubs are worked on at a time than the memory of the pod was     *)
(* sized for, however long a hub takes and whatever it answers.            *)
AtMostLimit == Cardinality(Working) <= Limit

(* Nobody waits in vain: whoever is at the semaphore finds room in it, or  *)
(* others whose hub replies, as long as the global hub does and fewer hubs *)
(* are silent than it admits; and the caller at the WaitGroup waits for    *)
(* goroutines that are still there.                                        *)
NobodyWaitsInVain ==
  /\ /\ \E c \in Clusters : pc[c] = "acquire"
     /\ GlobalReplies /\ Cardinality(silent \cap Clusters) < Limit
     => hubSem < Limit \/ Working \ silent # {}
  /\ hubWg > 0 => \E c \in Clusters : pc[c] \notin {"none", "gone"}

(* The semaphore does what it is there for: it holds back who is too many, *)
(* and nobody else.                                                        *)
SemaphoreWorks == AtMostLimit /\ NobodyWaitsInVain

Gather == INSTANCE HubGather

(* The answer says every hub once and leaves none out: where RHACM is      *)
(* installed it is not made before every goroutine has filled its slot,    *)
(* the hubs added by hand are in it unless their Secrets could not be read *)
(* (rhacm.go:248 passes that over), one that is managed as well is not     *)
(* shown twice, and no slot is written after the answer.                   *)
GathersAll == Gather!Spec

(* If neither a hub nor the global one is silent, the call returns.        *)
ReturnsUnlessSilent == (silent = {}) ~> (main \in {"returned", "failed"})

(* As long as the global hub replies, and fewer hubs are silent than may   *)
(* be worked on at a time, every other hub is described.                   *)
SilentHubsSpareOthers ==
  \A c \in Clusters :
    pc[c] = "acquire" /\ Replies(c) /\ Cardinality(silent) < Limit ~> hubs[c] # Empty
===============================================================================

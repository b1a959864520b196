-------------------------------- MODULE Spokes --------------------------------
(***************************************************************************)
(* What the backend tells about the spokes of one hub: one call of         *)
(* ListHubClusters (pkg/handlers/hubs.go), GetSpokeDetail or               *)
(* GetSpokeOperators (pkg/handlers/spokes.go), while the hub changes.  The *)
(* list asks for the policies and the hosts of every spoke on a goroutine  *)
(* of its own, and every goroutine takes a token of one semaphore for each *)
(* of its two requests (getSpokesClustersFromHub, pkg/client/rhacm.go).    *)
(* Nothing is kept from one call to the next, so a behaviour is one call.  *)
(*                                                                         *)
(* A spoke has one policy and one host in its namespace on the hub; the    *)
(* code treats the members of a namespace one by one.                      *)
(***************************************************************************)
EXTENDS Conversions

CONSTANTS
  Clusters,    \* names of spokes, and so of their namespaces on the hub
  Skipped,     \* those that are the hub itself, or hubs
  Contents,    \* what the hub may know of a cluster
  Absent,      \* no such ManagedCluster
  Limit,       \* capacity of sem (10)
  MaxChanges   \* bound: changes on the hub during the call

ASSUME FiniteClusters == IsFiniteSet(Clusters)
ASSUME SkippedAssumption == Skipped \subseteq Clusters
ASSUME LimitAssumption == Limit \in Nat \ {0}
ASSUME BoundAssumption == MaxChanges \in Nat

\* What a detail's history is: entries with a time (0: it cannot be parsed) and
\* a message or None.
IsHistory(history) ==
  /\ history \in Seq(Entries(history))
  /\ \A e \in Entries(history) : e.time \in Nat /\ e = [time |-> e.time, message |-> e.message]

ASSUME ContentsAssumption ==
  \A r \in Contents : r.policy.details # <<>> => IsHistory(r.policy.details[1].history)

Parts == {"status", "policies", "nodes", "operators"}

\* getClusterStatus: the condition ManagedClusterConditionAvailable.
ClusterStatus(available) ==
  CASE available = "True" -> "Ready"
    [] available = "False" -> "NotReady"
    [] OTHER -> "Unknown"

\* What is told of a cluster that is as r says; a list is a set here.
Told(r) == [status |-> {ClusterStatus(r.available)},
            policies |-> {PolicyInfo(r.policy)},
            nodes |-> {NodeInfo(r.host)},
            operators |-> {r.operator}]

Blank == [p \in Parts |-> {}]
Rows == [status : {{}} \cup {Told(r).status : r \in Contents},
         policies : {{}} \cup {Told(r).policies : r \in Contents},
         nodes : {{}} \cup {Told(r).nodes : r \in Contents},
         operators : {{}} \cup {Told(r).operators : r \in Contents}]

Calls == [kind : {"list"}, spoke : {None}]
           \cup [kind : {"detail", "operators"}, spoke : Clusters]

VARIABLES
  hub,      \* the hub, and the spokes behind it
  changes,  \* changes so far
  call,     \* the call, and the spoke it names
  main,     \* where the handler is, or the status it answered with
  work,     \* the spokes found
  pc,       \* where the goroutine of each spoke is
  sem,      \* how many tokens the channel holds
  wg,       \* the WaitGroup's counter
  info,     \* what was read of each spoke
  answer,   \* what was answered, by spoke
  failed,   \* history: the parts of each spoke that could not be read
  past      \* history: what each cluster was during the call

goroutines == <<pc, sem, wg>>
vars == <<hub, changes, call, main, work, goroutines, info, answer, failed, past>>

Init == /\ hub \in [Clusters -> Contents]
        /\ changes = 0
        /\ call \in Calls
        /\ main = "connect"
        /\ work = {}
        /\ pc = [c \in Clusters |-> "none"]
        /\ sem = 0
        /\ wg = 0
        /\ info = [c \in Clusters |-> Blank]
        /\ answer = [c \in {} |-> Blank]
        /\ failed = [c \in Clusters |-> {}]
        /\ past = [c \in Clusters |-> {hub[c]}]

Ended == {"ok", "notFound", "failed"}

\* A part of what the hub knows of c is read, or an error passed over.
Read(c, part) ==
  \/ /\ info' = [info EXCEPT ![c][part] = Told(hub[c])[part]]
     /\ UNCHANGED failed
  \/ /\ failed' = [failed EXCEPT ![c] = @ \cup {part}]
     /\ UNCHANGED info

\* 200, with what is known of some clusters by now.
Answer(clusters) ==
  /\ main' = "ok"
  /\ answer' = [c \in clusters |-> info'[c]]

-------------------------------------------------------------------------------
\* The handlers, and getSpokesClustersFromHub outside its goroutines.

\* NewHubClientFromSecret.
Connect ==
  /\ main = "connect"
  /\ main' = CASE call.kind = "list" -> "clusters"
               [] call.kind = "detail" -> "policies"
               [] call.kind = "operators" -> "kubeconfig"
  /\ UNCHANGED <<hub, changes, call, work, goroutines, info, answer, failed, past>>

\* Without a client, the list is an error, the operators are not found, and
\* the details are empty.
ConnectFails ==
  /\ main = "connect"
  /\ \/ call.kind = "list" /\ main' = "failed" /\ UNCHANGED <<info, answer, failed>>
     \/ call.kind = "operators" /\ main' = "notFound" /\ UNCHANGED <<info, answer, failed>>
     \/ /\ call.kind = "detail"
        /\ failed' = [failed EXCEPT ![call.spoke] = {"policies", "nodes"}]
        /\ UNCHANGED info
        /\ Answer({call.spoke})
  /\ UNCHANGED <<hub, changes, call, work, goroutines, past>>

ListEverything ==
  /\ main = "clusters"
  /\ main' = "spawn"
  /\ work' = {c \in Clusters : hub[c].available # Absent}
  /\ info' = [c \in Clusters |-> [Blank EXCEPT !.status = Told(hub[c]).status]]
  /\ UNCHANGED <<hub, changes, call, goroutines, answer, failed, past>>

\* The ManagedClusters of the hub, but for itself and other hubs.
ListClusters ==
  /\ main = "clusters"
  /\ \/ /\ main' = "spawn"
        /\ work' = {c \in Clusters \ Skipped : hub[c].available # Absent}
        /\ info' = [c \in Clusters |-> IF c \in work'
                                       THEN [Blank EXCEPT !.status = Told(hub[c]).status]
                                       ELSE Blank]
     \/ main' = "failed" /\ UNCHANGED <<work, info>>
  /\ UNCHANGED <<hub, changes, call, goroutines, answer, failed, past>>

SpawnWithoutAdd(c) ==
  /\ main = "spawn" /\ c \in work /\ pc[c] = "none"
  /\ pc' = [pc EXCEPT ![c] = "wantPolicies"]
  /\ UNCHANGED <<hub, changes, call, main, work, sem, wg, info, answer, failed, past>>

\* wg.Add(1) and go.
Spawn(c) ==
  /\ main = "spawn" /\ c \in work /\ pc[c] = "none"
  /\ pc' = [pc EXCEPT ![c] = "wantPolicies"]
  /\ wg' = wg + 1
  /\ UNCHANGED <<hub, changes, call, main, work, sem, info, answer, failed, past>>

\* wg.Wait returns, and the spokes are copied into the answer.
Wait ==
  /\ main = "spawn" /\ wg = 0 /\ \A c \in work : pc[c] # "none"
  /\ UNCHANGED info
  /\ Answer(work)
  /\ UNCHANGED <<hub, changes, call, work, goroutines, failed, past>>

\* GetSpokeDetail: the policies of the spoke, then its hosts.
GetSpokePolicies ==
  /\ main = "policies"
  /\ Read(call.spoke, "policies")
  /\ main' = "nodes"
  /\ UNCHANGED <<hub, changes, call, work, goroutines, answer, past>>

GetSpokeNodes ==
  /\ main = "nodes"
  /\ Read(call.spoke, "nodes")
  /\ Answer({call.spoke})
  /\ UNCHANGED <<hub, changes, call, work, goroutines, past>>

\* GetSpokeOperators: the Secret with the spoke's kubeconfig; without one, or
\* if it is of no use, there are no operators.
GetKubeconfig ==
  /\ main = "kubeconfig"
  /\ UNCHANGED info
  /\ \/ main' = "operators" /\ UNCHANGED <<answer, failed>>
     \/ /\ failed' = [failed EXCEPT ![call.spoke] = {"operators"}]
        /\ Answer({call.spoke})
  /\ UNCHANGED <<hub, changes, call, work, goroutines, past>>

\* The spoke itself is asked.
GetOperators ==
  /\ main = "operators"
  /\ Read(call.spoke, "operators")
  /\ Answer({call.spoke})
  /\ UNCHANGED <<hub, changes, call, work, goroutines, past>>

-------------------------------------------------------------------------------
\* The goroutine of a spoke.

AcquireOrGoOn(c) ==
  /\ pc[c] \in {"wantPolicies", "wantNodes"}
  /\ sem' = IF sem < Limit THEN sem + 1 ELSE sem
  /\ pc' = [pc EXCEPT ![c] = IF pc[c] = "wantPolicies" THEN "policies" ELSE "nodes"]
  /\ UNCHANGED <<hub, changes, call, main, work, wg, info, answer, failed, past>>

\* sem <- struct{}{}
Acquire(c) ==
  /\ pc[c] \in {"wantPolicies", "wantNodes"} /\ sem < Limit
  /\ sem' = sem + 1
  /\ pc' = [pc EXCEPT ![c] = IF pc[c] = "wantPolicies" THEN "policies" ELSE "nodes"]
  /\ UNCHANGED <<hub, changes, call, main, work, wg, info, answer, failed, past>>

GetPoliciesKeepingToken(c) ==
  /\ pc[c] = "policies"
  /\ Read(c, "policies")
  /\ pc' = [pc EXCEPT ![c] = "wantNodes"]
  /\ UNCHANGED <<hub, changes, call, main, work, sem, wg, answer, past>>

GetPoliciesOfSharedVariable(c) ==
  /\ pc[c] = "policies"
  /\ \E d \in work : info' = [info EXCEPT ![c].policies = Told(hub[d]).policies]
  /\ pc' = [pc EXCEPT ![c] = "wantNodes"]
  /\ sem' = sem - 1
  /\ UNCHANGED <<hub, changes, call, main, work, wg, answer, failed, past>>

\* The API server answers, and <-sem gives the token back.
GetPolicies(c) ==
  /\ pc[c] = "policies"
  /\ Read(c, "policies")
  /\ sem' = sem - 1
  /\ pc' = [pc EXCEPT ![c] = "wantNodes"]
  /\ UNCHANGED <<hub, changes, call, main, work, wg, answer, past>>

GetNodes(c) ==
  /\ pc[c] = "nodes"
  /\ Read(c, "nodes")
  /\ sem' = sem - 1
  /\ pc' = [pc EXCEPT ![c] = "finish"]
  /\ UNCHANGED <<hub, changes, call, main, work, wg, answer, past>>

DoneTwice(c) ==
  /\ pc[c] = "finish"
  /\ wg' = wg - 2
  /\ pc' = [pc EXCEPT ![c] = "gone"]
  /\ UNCHANGED <<hub, changes, call, main, work, sem, info, answer, failed, past>>

Done(c) ==
  /\ pc[c] = "finish"
  /\ wg' = wg - 1
  /\ pc' = [pc EXCEPT ![c] = "gone"]
  /\ UNCHANGED <<hub, changes, call, main, work, sem, info, answer, failed, past>>

-------------------------------------------------------------------------------
\* Something changes on the hub, or on a spoke, during the call.
Change(c) ==
  /\ main \notin Ended /\ changes < MaxChanges
  /\ \E r \in Contents \ {hub[c]} :
       /\ hub' = [hub EXCEPT ![c] = r]
       /\ past' = [past EXCEPT ![c] = @ \cup {r}]
  /\ changes' = changes + 1
  /\ UNCHANGED <<call, main, work, goroutines, info, answer, failed>>

\* Once the hub client is there, every request ends within its 30 seconds.
Handler == \/ ListClusters \/ Wait \/ GetSpokePolicies \/ GetSpokeNodes
           \/ GetKubeconfig \/ GetOperators
           \/ \E c \in Clusters : Spawn(c)

Go(c) == Acquire(c) \/ GetPolicies(c) \/ GetNodes(c) \/ Done(c)

Next == \/ Connect \/ ConnectFails \/ Handler
        \/ \E c \in Clusters : Go(c) \/ Change(c)

Spec == Init /\ [][Next]_vars

FairSpec == Spec /\ WF_vars(Handler) /\ \A c \in Clusters : WF_vars(Go(c))

-------------------------------------------------------------------------------
(* Type correctness.                                                       *)
TypeOK ==
  /\ hub \in [Clusters -> Contents]
  /\ changes \in 0 .. MaxChanges
  /\ call \in Calls
  /\ main \in {"connect", "clusters", "spawn", "policies", "nodes", "kubeconfig", "operators"}
                \cup Ended
  /\ work \subseteq Clusters
  /\ pc \in [Clusters -> {"none", "wantPolicies", "policies", "wantNodes", "nodes",
                          "finish", "gone"}]
  /\ sem \in 0 .. Limit /\ wg \in Nat
  /\ info \in [Clusters -> Rows]
  /\ failed \in [Clusters -> SUBSET Parts]
  /\ past \in [Clusters -> SUBSET Contents]

(* The hub never sees more than Limit requests of one list at a time,      *)
(* although each goroutine asks twice.                                     *)
AtMostLimit == Cardinality({c \in Clusters : pc[c] \in {"policies", "nodes"}}) <= Limit

(* Nobody waits in vain: whoever is at the semaphore finds room in it, or  *)
(* a goroutine that holds a token and waits for the API server only - not  *)
(* for a second token - and the caller at the WaitGroup waits for          *)
(* goroutines that are still there.                                        *)
NobodyWaitsInVain ==
  /\ (\E c \in Clusters : pc[c] \in {"wantPolicies", "wantNodes"})
       => sem < Limit \/ \E c \in Clusters : pc[c] \in {"policies", "nodes"}
  /\ wg > 0 => \E c \in Clusters : pc[c] \notin {"none", "gone"}

(* The semaphore does what it is there for: it holds back who is too many, *)
(* and nobody else.                                                        *)
SemaphoreWorks == AtMostLimit /\ NobodyWaitsInVain

\* What a call asks of each spoke it tells about.
Asked == CASE call.kind = "list" -> {"status", "policies", "nodes"}
           [] call.kind = "detail" -> {"policies", "nodes"}
           [] call.kind = "operators" -> {"operators"}

(* Whatever is told of a spoke is its own, and was so at some moment of    *)
(* the call; only what could not be read is told as nothing.  No goroutine *)
(* is still filling in what was already answered, and none fills in for    *)
(* another spoke.                                                          *)
RowsAreTheirs ==
  \A c \in DOMAIN answer, part \in Parts :
    IF part \in Asked \ failed[c]
    THEN \E r \in past[c] : answer[c][part] = Told(r)[part]
    ELSE answer[c][part] = {}

(* The list holds every spoke that was there for the whole call, and       *)
(* nothing that never was, nor the hub itself.                             *)
ListIsComplete ==
  main = "ok" /\ call.kind = "list" =>
    \A c \in Clusters :
      /\ c \notin Skipped /\ (\A r \in past[c] : r.available # Absent) => c \in DOMAIN answer
      /\ c \in DOMAIN answer => c \notin Skipped /\ \E r \in past[c] : r.available # Absent

(* The message shown for a policy is its newest, and stands next to its    *)
(* own time, in whatever order the hub keeps the history - as long as the  *)
(* newest entries have messages.                                           *)
NewestMessageShown ==
  \A c \in DOMAIN answer : \A told \in answer[c].policies :
      \E r \in past[c] :
        LET history == IF r.policy.details = <<>> THEN <<>> ELSE r.policy.details[1].history
            newest == {e \in Entries(history) :
                         e.time > 0 /\ \A d \in Entries(history) : d.time <= e.time}
        IN  /\ told = PolicyInfo(r.policy)
            /\ newest # {} /\ (\A e \in newest : e.message # None) => told.latest \in newest

(* Once the hub is connected to, the call is answered: the goroutines of   *)
(* the list do not wait for each other's tokens for ever, and Wait is not  *)
(* forgotten.                                                              *)
AnswersOnceConnected == main # "connect" ~> main \in Ended
===============================================================================

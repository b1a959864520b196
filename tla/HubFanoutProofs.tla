---------------------------- MODULE HubFanoutProofs ----------------------------
(***************************************************************************)
(* For any number of hubs, any capacity of the semaphore and whichever     *)
(* hubs are silent: GetManagedHubs never works on more hubs at a time than *)
(* the semaphore admits, and answers as HubGather says.                    *)
(***************************************************************************)
EXTENDS HubFanout, FiniteSetTheorems, TLAPS

\* The clusters whose goroutine is at one of some places.
In(places) == {c \in Clusters : pc[c] \in places}

Holding == {"spokes", "policies", "enrich", "release"}
Running == {"acquire", "spokes", "policies", "enrich", "release", "finish"}
Places == {"none", "acquire", "spokes", "policies", "enrich", "release", "finish", "gone"}

\* The semaphore and the WaitGroup count the goroutines that they should.
CountInv == /\ hubSem = Cardinality(In(Holding)) /\ hubSem <= Limit
            /\ hubWg = Cardinality(In(Running))

\* A slot is filled before its goroutine lets go of anything.
SlotInv == \A c \in Clusters :
  hubs[c] = IF pc[c] \in {"release", "finish", "gone"} THEN Hub(c, "rhacm") ELSE Empty

\* Where RHACM is installed all goroutines are gone past the join; elsewhere
\* none was ever started.  What has been found so far, with what is still to be
\* visited, are all hubs that only have a Secret.
JoinInv ==
  /\ rhacm = "unasked" <=> main = "begin"
  /\ rhacm = "failed" <=> main = "failed"
  /\ main = "spawn" => rhacm = "installed"
  /\ main # "spawn" /\ rhacm = "installed" =>
       existing = Clusters /\ \A c \in Clusters : pc[c] = "gone"
  /\ rhacm # "installed" => existing = {} /\ \A c \in Clusters : pc[c] = "none"
  /\ main = "spawn" => existing = {}
  /\ main # "returned" => answer = NoAnswer
  /\ main \notin {"visit", "returned"} => found = {} /\ ~unread
  /\ main = "visit" =>
       IF unread THEN found = {} /\ todo = {}
                 ELSE found \cup ByHand(todo \ existing) = ByHand(Secrets \ existing)

Inv == TypeOK /\ CountInv /\ SlotInv /\ JoinInv

-------------------------------------------------------------------------------
(* How the number of goroutines at some places changes when one of them    *)
(* gets to another place.                                                  *)
LEMMA CountStep ==
  ASSUME TypeOK, NEW CONSTANT S, NEW c \in Clusters, NEW place,
         pc' = [pc EXCEPT ![c] = place]
  PROVE  /\ Cardinality(In(S)) \in Nat /\ Cardinality(In(S)') \in Nat
         /\ pc[c] \in S /\ place \notin S => Cardinality(In(S)') = Cardinality(In(S)) - 1
         /\ pc[c] \notin S /\ place \in S => Cardinality(In(S)') = Cardinality(In(S)) + 1
         /\ (pc[c] \in S <=> place \in S) => Cardinality(In(S)') = Cardinality(In(S))
<1>1. In(S) \in SUBSET Clusters /\ IsFiniteSet(In(S))
  BY FiniteClusters, FS_Subset DEF In
<1>2. In(S)' = IF place \in S THEN In(S) \cup {c} ELSE In(S) \ {c}
  BY DEF In, TypeOK
<1>3. c \in In(S) <=> pc[c] \in S
  BY DEF In
<1>4. /\ IsFiniteSet(In(S) \cup {c}) /\ IsFiniteSet(In(S) \ {c})
      /\ Cardinality(In(S) \cup {c}) = IF c \in In(S) THEN Cardinality(In(S)) ELSE Cardinality(In(S)) + 1
      /\ Cardinality(In(S) \ {c}) = IF c \in In(S) THEN Cardinality(In(S)) - 1 ELSE Cardinality(In(S))
  BY <1>1, FS_AddElement, FS_RemoveElement
<1>5. Cardinality(In(S)) \in Nat /\ Cardinality(In(S) \cup {c}) \in Nat /\ Cardinality(In(S) \ {c}) \in Nat
  BY <1>1, <1>4, FS_CardinalityType
<1> QED
  BY <1>2, <1>3, <1>4, <1>5

(* A step of one goroutine keeps the counts right.                         *)
LEMMA GoCounts ==
  ASSUME TypeOK, CountInv, NEW c \in Clusters, Go(c) \/ Spawn(c)
  PROVE  /\ CountInv' /\ hubWg' \in Nat /\ hubSem' \in Nat
<1> DEFINE Step(from, to) == pc[c] = from /\ pc' = [pc EXCEPT ![c] = to]
<1>1. \/ Step("none", "acquire") /\ hubWg' = hubWg + 1 /\ hubSem' = hubSem
      \/ Step("acquire", "spokes") /\ hubWg' = hubWg /\ hubSem' = hubSem + 1 /\ hubSem < Limit
      \/ Step("spokes", "policies") /\ hubWg' = hubWg /\ hubSem' = hubSem
      \/ Step("policies", "enrich") /\ hubWg' = hubWg /\ hubSem' = hubSem
      \/ Step("enrich", "release") /\ hubWg' = hubWg /\ hubSem' = hubSem
      \/ Step("release", "finish") /\ hubWg' = hubWg /\ hubSem' = hubSem - 1
      \/ Step("finish", "gone") /\ hubWg' = hubWg - 1 /\ hubSem' = hubSem
  BY DEF Go, Spawn, Acquire, GetSpokes, GetPolicies, Enrich, Release, Done
<1>2. PICK place : pc' = [pc EXCEPT ![c] = place]
  BY <1>1
<1>3. /\ Cardinality(In(Holding)) \in Nat /\ Cardinality(In(Holding)') \in Nat
      /\ pc[c] \in Holding /\ place \notin Holding => Cardinality(In(Holding)') = Cardinality(In(Holding)) - 1
      /\ pc[c] \notin Holding /\ place \in Holding => Cardinality(In(Holding)') = Cardinality(In(Holding)) + 1
      /\ (pc[c] \in Holding <=> place \in Holding) => Cardinality(In(Holding)') = Cardinality(In(Holding))
  BY <1>2, CountStep
<1>4. /\ Cardinality(In(Running)) \in Nat /\ Cardinality(In(Running)') \in Nat
      /\ pc[c] \in Running /\ place \notin Running => Cardinality(In(Running)') = Cardinality(In(Running)) - 1
      /\ pc[c] \notin Running /\ place \in Running => Cardinality(In(Running)') = Cardinality(In(Running)) + 1
      /\ (pc[c] \in Running <=> place \in Running) => Cardinality(In(Running)') = Cardinality(In(Running))
  BY <1>2, CountStep
<1>5. pc'[c] = place
  BY <1>2 DEF TypeOK
<1>6. /\ hubSem' = Cardinality(In(Holding)') /\ hubSem' <= Limit
      /\ hubWg' = Cardinality(In(Running)')
  <2>1. pc' = [pc EXCEPT ![c] = place] /\ pc'[c] = place /\ pc \in [Clusters -> Places]
    BY <1>2, <1>5 DEF TypeOK, Places
  <2> QED
    BY <1>1, <1>3, <1>4, <2>1, LimitAssumption DEF CountInv, Holding, Running, TypeOK
<1> QED
  BY <1>3, <1>4, <1>6 DEF CountInv

(* A step of one goroutine preserves the invariant.                        *)
LEMMA GoStep ==
  ASSUME Inv, NEW c \in Clusters, Go(c) \/ Spawn(c)
  PROVE  Inv'
<1>0. TypeOK /\ CountInv
  BY DEF Inv
<1>1. CountInv' /\ hubWg' \in Nat /\ hubSem' \in Nat
  BY <1>0, GoCounts
<1>2. /\ pc[c] # "gone" /\ (pc[c] = "none" => main = "spawn")
      /\ \E place \in Places \ {"none"} : pc' = [pc EXCEPT ![c] = place]
      /\ UNCHANGED <<main, rhacm, loop, answer, silent>>
  BY DEF Go, Spawn, Acquire, GetSpokes, GetPolicies, Enrich, Release, Done, Places
<1>3. \/ UNCHANGED hubs /\ (pc'[c] \in {"release", "finish", "gone"} <=>
                            pc[c] \in {"release", "finish", "gone"})
      \/ hubs' = [hubs EXCEPT ![c] = Hub(c, "rhacm")] /\ pc'[c] = "release"
  BY DEF Go, Spawn, Acquire, GetSpokes, GetPolicies, Enrich, Release, Done, Inv, TypeOK
<1>4. /\ pc' \in [Clusters -> Places] /\ hubs' \in [Clusters -> Descriptions \cup {Empty}]
      /\ \A d \in Clusters \ {c} : pc'[d] = pc[d] /\ hubs'[d] = hubs[d]
  BY <1>2, <1>3 DEF Inv, TypeOK, Places, Descriptions
<1>5. TypeOK'
  BY <1>1, <1>2, <1>4 DEF Inv, TypeOK, loop, Places
<1>6. SlotInv'
  BY <1>3, <1>4 DEF Inv, SlotInv, TypeOK
<1>7. JoinInv'
  <2>1. main = "spawn"
    BY <1>2 DEF Inv, JoinInv, TypeOK
  <2>2. rhacm = "installed" /\ UNCHANGED <<rhacm, main, existing, found, unread, todo, answer>>
    BY <1>2, <2>1 DEF Inv, JoinInv, loop
  <2> QED
    BY <2>1, <2>2 DEF Inv, JoinInv
<1> QED
  BY <1>1, <1>5, <1>6, <1>7 DEF Inv

(* A step of GetManagedHubs itself preserves the invariant.                *)
LEMMA CallStep ==
  ASSUME Inv, UNCHANGED <<pc, hubWg, hubSem, hubs, silent>>, TypeOK', JoinInv'
  PROVE  Inv'
BY DEF Inv, CountInv, SlotInv, In

(* When the WaitGroup's counter is zero, every goroutine is gone.          *)
LEMMA Joined == Inv /\ Wait => \A c \in Clusters : pc[c] = "gone"
<1> SUFFICES ASSUME Inv, Wait PROVE \A c \in Clusters : pc[c] = "gone"
  OBVIOUS
<1>1. In(Running) \in SUBSET Clusters /\ IsFiniteSet(In(Running))
  BY FiniteClusters, FS_Subset DEF In
<1>2. In(Running) = {}
  BY <1>1, FS_EmptySet DEF Inv, CountInv, Wait
<1>3. \A c \in Clusters : pc[c] \notin Running /\ pc[c] # "none"
  BY <1>2 DEF In, Wait
<1> QED
  BY <1>3 DEF Inv, TypeOK, Running

(* Every step preserves the invariant.                                     *)
LEMMA InvStep == Inv /\ [Next]_vars => Inv'
<1> SUFFICES ASSUME Inv, [Next]_vars PROVE Inv'
  OBVIOUS
<1>1. CASE GetManagedClusters
  <2>1. TypeOK' /\ JoinInv'
    BY <1>1 DEF GetManagedClusters, Inv, TypeOK, JoinInv, loop
  <2> QED
    BY <1>1, <2>1, CallStep DEF GetManagedClusters
<1>2. CASE Wait
  <2>1. \A c \in Clusters : pc[c] = "gone"
    BY <1>2, Joined
  <2>2. \A c \in Clusters : hubs[c] = Hub(c, "rhacm") /\ hubs[c] # Empty /\ hubs[c].name = c
    <3>1. \A c \in Clusters : Hub(c, "rhacm") # Empty /\ Hub(c, "rhacm").name = c
      <4>1. \A c \in Clusters : Hub(c, "rhacm") \in Descriptions
        BY DEF Descriptions
      <4> QED
        BY <4>1, EmptyIsNoHub DEF Hub
    <3> QED
      BY <2>1, <3>1 DEF Inv, SlotInv
  <2>3. existing' = Clusters
    BY <1>2, <2>2 DEF Wait
  <2>4. TypeOK' /\ JoinInv'
    BY <1>2, <2>1, <2>3 DEF Wait, Inv, TypeOK, JoinInv
  <2> QED
    BY <1>2, <2>4, CallStep DEF Wait
<1>3. CASE ListSecrets
  <2>1. TypeOK'
    BY <1>3 DEF ListSecrets, Inv, TypeOK
  <2>2. JoinInv'
    BY <1>3 DEF ListSecrets, Inv, JoinInv, ByHand
  <2> QED
    BY <1>3, <2>1, <2>2, CallStep DEF ListSecrets
<1>4. ASSUME NEW s \in Secrets, VisitSecret(s) PROVE Inv'
  <2>1. TypeOK'
    BY <1>4 DEF VisitSecret, Inv, TypeOK, ByHand
  <2>2. /\ main' = "visit" /\ main = "visit" /\ s \in todo /\ todo' = todo \ {s}
        /\ UNCHANGED <<rhacm, existing, unread, pc, answer>>
        /\ \/ s \in existing /\ found' = found
           \/ s \notin existing /\ found' = found \cup {Hub(s, "manual")}
    BY <1>4 DEF VisitSecret
  <2>3. ~unread /\ found \cup ByHand(todo \ existing) = ByHand(Secrets \ existing)
    BY <2>2 DEF Inv, JoinInv, TypeOK
  <2>4. found' \cup ByHand(todo' \ existing) = found \cup ByHand(todo \ existing)
    BY <2>2 DEF ByHand
  <2>5. JoinInv'
    BY <2>2, <2>3, <2>4 DEF Inv, JoinInv
  <2> QED
    BY <1>4, <2>1, <2>5, CallStep DEF VisitSecret
<1>5. CASE Return
  <2>1. TypeOK' /\ JoinInv'
    BY <1>5 DEF Return, Inv, TypeOK, JoinInv, loop
  <2> QED
    BY <1>5, <2>1, CallStep DEF Return
<1>6. CASE UNCHANGED vars
  BY <1>6 DEF vars, loop, Inv, TypeOK, CountInv, SlotInv, JoinInv, In
<1> QED
  BY <1>1, <1>2, <1>3, <1>4, <1>5, <1>6, GoStep DEF Next, Call

(* The invariant holds initially: there are no goroutines yet.             *)
LEMMA Start == Init => Inv
<1> SUFFICES ASSUME Init PROVE Inv
  OBVIOUS
<1>1. In(Holding) = {} /\ In(Running) = {}
  BY DEF Init, In, Holding, Running
<1>2. CountInv
  BY <1>1, FS_EmptySet, LimitAssumption DEF Init, CountInv
<1> QED
  BY <1>2 DEF Init, Inv, TypeOK, SlotInv, JoinInv

(* The invariant holds in every state.                                     *)
LEMMA Invariant == Spec => []Inv
BY Start, InvStep, PTL DEF Spec

-------------------------------------------------------------------------------
(* The state is always well typed: neither counter ever goes below zero.   *)
THEOREM TypeCorrect == Spec => []TypeOK
<1>1. Inv => TypeOK
  BY DEF Inv
<1> QED
  BY <1>1, Invariant, PTL

(* The semaphore holds: no more hubs are worked on at a time than it       *)
(* admits.                                                                 *)
THEOREM AtMostLimitHolds == Spec => []AtMostLimit
<1>1. Inv => AtMostLimit
  BY DEF Inv, CountInv, AtMostLimit, Working, In, Holding
<1> QED
  BY <1>1, Invariant, PTL

(* Waiting goroutines are never all there is: if the semaphore is full and *)
(* fewer hubs are silent than it admits, one of those that hold it goes on *)
(* (rhacm.go: hubSem, hubWg).                                              *)
THEOREM NobodyWaitsInVainHolds == Spec => []NobodyWaitsInVain
<1>1. Inv => NobodyWaitsInVain
  <2> SUFFICES ASSUME Inv PROVE NobodyWaitsInVain
    OBVIOUS
  <2>1. In(Running) = {} => hubWg = 0
    BY FS_EmptySet DEF Inv, CountInv
  <2>2. ASSUME Cardinality(silent \cap Clusters) < Limit, Working \subseteq silent
        PROVE  hubSem < Limit
    <3>1. Working = In(Holding) /\ Working \subseteq silent \cap Clusters
      BY <2>2 DEF Working, In, Holding
    <3>2. IsFiniteSet(silent \cap Clusters)
      BY FiniteClusters, FS_Subset
    <3>3. /\ Cardinality(Working) \in Nat /\ Cardinality(silent \cap Clusters) \in Nat
          /\ Cardinality(Working) <= Cardinality(silent \cap Clusters)
      BY <3>1, <3>2, FS_Subset, FS_CardinalityType
    <3> QED
      BY <2>2, <3>1, <3>3, LimitAssumption DEF Inv, CountInv
  <2> QED
    BY <2>1, <2>2 DEF NobodyWaitsInVain, In, Running, Inv, TypeOK
<1> QED
  BY <1>1, Invariant, PTL

(* For any capacity, the semaphore holds back who is too many, and nobody  *)
(* waits at it who could not be let in one day.                            *)
THEOREM SemaphoreWorksHolds == Spec => []SemaphoreWorks
<1>1. AtMostLimit /\ NobodyWaitsInVain => SemaphoreWorks
  BY DEF SemaphoreWorks
<1> QED
  BY <1>1, AtMostLimitHolds, NobodyWaitsInVainHolds, PTL

(* The goroutines, the WaitGroup and the loop over the Secrets implement   *)
(* HubGather.                                                              *)
THEOREM ImplementsHubGather == Spec => GathersAll
<1>1. Init => Gather!Init
  BY DEF Init, Gather!Init
<1>2. Inv /\ [Next]_vars => [Gather!Next]_(Gather!vars)
  <2> SUFFICES ASSUME Inv, [Next]_vars PROVE [Gather!Next]_(Gather!vars)
    OBVIOUS
  <2>1. ASSUME NEW c \in Clusters, Enrich(c) PROVE Gather!Describe(c)
    <3>1. rhacm = "installed" /\ answer = NoAnswer
      BY <2>1 DEF Enrich, Inv, JoinInv, TypeOK
    <3> QED
      BY <2>1, <3>1 DEF Enrich, Gather!Describe, Gather!Hub, Hub, Inv, SlotInv, loop
  <2>2. CASE Return
    <3>1. /\ main = "visit" /\ todo = {} /\ answer = NoAnswer /\ UNCHANGED hubs
          /\ UNCHANGED <<rhacm, unread>>
          /\ answer' = (IF rhacm = "installed" THEN {hubs[c] : c \in Clusters} ELSE {}) \cup found
      BY <2>2 DEF Return, Inv, JoinInv, loop
    <3>2. found = IF unread THEN {} ELSE Gather!ByHand(Secrets \ existing)
      <4>1. ByHand({} \ existing) = {}
        BY DEF ByHand
      <4>2. Gather!ByHand(Secrets \ existing) = ByHand(Secrets \ existing)
        BY DEF Gather!ByHand, ByHand, Gather!Hub, Hub
      <4> QED
        BY <3>1, <4>1, <4>2 DEF Inv, JoinInv
    <3>3. existing = Gather!Managed /\ Gather!Gathered
      BY <3>1 DEF Inv, JoinInv, SlotInv, TypeOK, Gather!Managed, Gather!Gathered, Gather!Hub, Hub
    <3>4. Gather!Return
      BY <3>1, <3>2, <3>3 DEF Gather!Return, Gather!Managed
    <3> QED
      BY <3>4 DEF Gather!Next
  <2>3. CASE GetManagedClusters
    BY <2>3 DEF GetManagedClusters, Inv, JoinInv, loop, Gather!Learn, Gather!Next
  <2>4. CASE ListSecrets
    <3>1. main = "discover" /\ ~unread /\ UNCHANGED <<rhacm, hubs, answer>> /\ answer = NoAnswer
      BY <2>4 DEF ListSecrets, Inv, JoinInv
    <3>2. Gather!Gathered
      BY <3>1 DEF Inv, JoinInv, SlotInv, TypeOK, Gather!Gathered, Gather!Hub, Hub
    <3>3. CASE unread'
      BY <3>1, <3>2, <3>3 DEF ListSecrets, Gather!LoseSecrets, Gather!Next, TypeOK
    <3>4. CASE ~unread'
      BY <2>4, <3>1, <3>4 DEF ListSecrets, Gather!vars, Inv, TypeOK
    <3> QED
      BY <3>3, <3>4
  <2>5. CASE UNCHANGED <<rhacm, unread, hubs, answer>>
    BY <2>5 DEF Gather!vars
  <2> QED
    BY <2>1, <2>2, <2>3, <2>4, <2>5 DEF Next, Call, Go, Spawn, Wait, VisitSecret, loop,
       Acquire, GetSpokes, GetPolicies, Release, Done, vars, Gather!Next
<1> QED
  BY <1>1, <1>2, Invariant, PTL DEF Spec, GathersAll, Gather!Spec
===============================================================================

----------------------------- MODULE SpokesProofs -----------------------------
(***************************************************************************)
(* For any number of spokes, whatever the hub knows of them, and however   *)
(* it changes during the call: the semaphore holds, every row of an answer *)
(* is its spoke's and shows its newest message, and the list is complete.  *)
(***************************************************************************)
EXTENDS Spokes, FiniteSetTheorems, WellFoundedInduction, TLAPS

\* The clusters whose goroutine is at one of some places.
In(places) == {c \in Clusters : pc[c] \in places}

Asking == {"policies", "nodes"}
Running == {"wantPolicies", "policies", "wantNodes", "nodes", "finish"}
Places == {"none", "wantPolicies", "policies", "wantNodes", "nodes", "finish", "gone"}

\* The semaphore and the WaitGroup count the goroutines that they should.
CountInv == /\ sem = Cardinality(In(Asking)) /\ sem <= Limit
            /\ wg = Cardinality(In(Running))

\* Goroutines belong to a list, and to a spoke of it; they are gone before
\* the answer.
GoInv == /\ \A c \in Clusters : pc[c] # "none" => c \in work
         /\ work # {} => call.kind = "list" /\ main \in {"spawn", "ok"}
         /\ main = "ok" => \A c \in work : pc[c] = "gone"

\* The parts of a spoke that were asked for by now.
Seen(c) ==
  CASE call.kind = "list" ->
         (IF c \in work THEN {"status"} ELSE {})
           \cup (IF pc[c] \in {"wantNodes", "nodes", "finish", "gone"} THEN {"policies"} ELSE {})
           \cup (IF pc[c] \in {"finish", "gone"} THEN {"nodes"} ELSE {})
    [] call.kind = "detail" ->
         IF c # call.spoke THEN {}
         ELSE IF main = "ok" THEN {"policies", "nodes"}
         ELSE IF main = "nodes" THEN {"policies"} ELSE {}
    [] call.kind = "operators" ->
         IF c = call.spoke /\ main = "ok" THEN {"operators"} ELSE {}

\* A part that was asked for was read or failed; nothing else is known.
PartInv(c, part) ==
  IF part \in Seen(c) \ failed[c]
  THEN \E r \in past[c] : info[c][part] = Told(r)[part]
  ELSE info[c][part] = {}

InfoInv == \A c \in Clusters : /\ hub[c] \in past[c] /\ failed[c] \subseteq Seen(c)
                               /\ \A part \in Parts : PartInv(c, part)

Subjects == IF call.kind = "list" THEN work ELSE {call.spoke}

\* Where a handler can be, for each kind of call.
MainInv ==
  /\ main = "clusters" \/ main = "spawn" \/ main = "failed" => call.kind = "list"
  /\ main \in {"policies", "nodes"} => call.kind = "detail"
  /\ main \in {"kubeconfig", "operators", "notFound"} => call.kind = "operators"

\* What was answered is what was read.
AnswerInv == answer = [c \in (IF main = "ok" THEN Subjects ELSE {}) |-> info[c]]

\* The spokes found were there when the hub was asked.
WorkInv == main \in {"spawn", "ok"} /\ call.kind = "list" =>
  \A c \in Clusters :
    \E r \in past[c] : c \in work <=> c \notin Skipped /\ r.available # Absent

Inv == TypeOK /\ CountInv /\ GoInv /\ InfoInv /\ MainInv /\ AnswerInv /\ WorkInv

-------------------------------------------------------------------------------
(* How the number of goroutines at some places changes when one of them    *)
(* gets to another place.                                                  *)
LEMMA CountStep ==
  ASSUME TypeOK, NEW CONSTANT S, NEW c \in Clusters, NEW place,
         pc' = [pc EXCEPT ![c] = place]
  PROVE  /\ Cardinality(In(S)) \in Nat /\ Cardinality(In(S)') \in Nat
         /\ pc[c] \in S /\ place \notin S => Cardinality(In(S)') = Cardinality(In(S)) - 1
         /\ pc[c] \notin S /\ place \in S => Cardinality(In(S)') = Cardinality(In(S)) + 1
         /\ (pc[c] \in S <=> place \in S) => Cardinality(In(S)') = Cardinality(In(S))
<1>1. In(S) \in SUBSET Clusters /\ IsFiniteSet(In(S))
  BY FiniteClusters, FS_Subset DEF In
<1>2. In(S)' = IF place \in S THEN In(S) \cup {c} ELSE In(S) \ {c}
  BY DEF In, TypeOK
<1>3. c \in In(S) <=> pc[c] \in S
  BY DEF In
<1>4. /\ IsFiniteSet(In(S) \cup {c}) /\ IsFiniteSet(In(S) \ {c})
      /\ Cardinality(In(S) \cup {c}) = IF c \in In(S) THEN Cardinality(In(S)) ELSE Cardinality(In(S)) + 1
      /\ Cardinality(In(S) \ {c}) = IF c \in In(S) THEN Cardinality(In(S)) - 1 ELSE Cardinality(In(S))
  BY <1>1, FS_AddElement, FS_RemoveElement
<1>5. Cardinality(In(S)) \in Nat /\ Cardinality(In(S) \cup {c}) \in Nat /\ Cardinality(In(S) \ {c}) \in Nat
  BY <1>1, <1>4, FS_CardinalityType
<1> QED
  BY <1>2, <1>3, <1>4, <1>5

(* Where a goroutine's step takes it, and what becomes of the counters.    *)
LEMMA Moves ==
  ASSUME NEW c \in Clusters, Go(c) \/ Spawn(c)
  PROVE  \E from, to \in Places :
           /\ pc[c] = from /\ pc' = [pc EXCEPT ![c] = to]
           /\ \/ from = "none" /\ to = "wantPolicies" /\ wg' = wg + 1 /\ sem' = sem
              \/ from = "wantPolicies" /\ to = "policies" /\ wg' = wg /\ sem' = sem + 1 /\ sem < Limit
              \/ from = "policies" /\ to = "wantNodes" /\ wg' = wg /\ sem' = sem - 1
              \/ from = "wantNodes" /\ to = "nodes" /\ wg' = wg /\ sem' = sem + 1 /\ sem < Limit
              \/ from = "nodes" /\ to = "finish" /\ wg' = wg /\ sem' = sem - 1
              \/ from = "finish" /\ to = "gone" /\ wg' = wg - 1 /\ sem' = sem
BY DEF Go, Spawn, Acquire, GetPolicies, GetNodes, Done, Places

(* A step of one goroutine keeps the counts right.                         *)
LEMMA GoCounts ==
  ASSUME TypeOK, CountInv, NEW c \in Clusters, Go(c) \/ Spawn(c)
  PROVE  CountInv' /\ wg' \in Nat /\ sem' \in 0 .. Limit /\ pc' \in [Clusters -> Places]
<1>1. PICK from \in Places, to \in Places :
        /\ pc[c] = from /\ pc' = [pc EXCEPT ![c] = to]
        /\ \/ from = "none" /\ to = "wantPolicies" /\ wg' = wg + 1 /\ sem' = sem
           \/ from = "wantPolicies" /\ to = "policies" /\ wg' = wg /\ sem' = sem + 1 /\ sem < Limit
           \/ from = "policies" /\ to = "wantNodes" /\ wg' = wg /\ sem' = sem - 1
           \/ from = "wantNodes" /\ to = "nodes" /\ wg' = wg /\ sem' = sem + 1 /\ sem < Limit
           \/ from = "nodes" /\ to = "finish" /\ wg' = wg /\ sem' = sem - 1
           \/ from = "finish" /\ to = "gone" /\ wg' = wg - 1 /\ sem' = sem
  BY Moves
<1>2. /\ Cardinality(In(Asking)) \in Nat /\ Cardinality(In(Asking)') \in Nat
      /\ pc[c] \in Asking /\ to \notin Asking => Cardinality(In(Asking)') = Cardinality(In(Asking)) - 1
      /\ pc[c] \notin Asking /\ to \in Asking => Cardinality(In(Asking)') = Cardinality(In(Asking)) + 1
      /\ (pc[c] \in Asking <=> to \in Asking) => Cardinality(In(Asking)') = Cardinality(In(Asking))
  BY <1>1, CountStep
<1>3. /\ Cardinality(In(Running)) \in Nat /\ Cardinality(In(Running)') \in Nat
      /\ pc[c] \in Running /\ to \notin Running => Cardinality(In(Running)') = Cardinality(In(Running)) - 1
      /\ pc[c] \notin Running /\ to \in Running => Cardinality(In(Running)') = Cardinality(In(Running)) + 1
      /\ (pc[c] \in Running <=> to \in Running) => Cardinality(In(Running)') = Cardinality(In(Running))
  BY <1>1, CountStep
<1>4. pc' \in [Clusters -> Places]
  BY <1>1 DEF TypeOK, Places
<1>5. /\ sem' = Cardinality(In(Asking)') /\ sem' <= Limit
      /\ wg' = Cardinality(In(Running)')
  BY <1>1, <1>2, <1>3, LimitAssumption DEF CountInv, Asking, Running, TypeOK
<1> QED
  BY <1>2, <1>3, <1>4, <1>5, LimitAssumption DEF CountInv

-------------------------------------------------------------------------------
(* Nothing is read and nothing changes: what is known stays known.         *)
LEMMA SameInfo ==
  ASSUME InfoInv, UNCHANGED <<hub, past, info, failed>>,
         \A d \in Clusters : Seen(d)' = Seen(d)
  PROVE  InfoInv'
BY DEF InfoInv, PartInv

(* One part of one spoke is read.                                          *)
LEMMA ReadKeeps ==
  ASSUME TypeOK, InfoInv, NEW c \in Clusters, NEW part \in Parts, Read(c, part),
         UNCHANGED <<hub, past>>, part \notin Seen(c), Seen(c)' = Seen(c) \cup {part},
         \A d \in Clusters \ {c} : Seen(d)' = Seen(d)
  PROVE  InfoInv' /\ info' \in [Clusters -> Rows] /\ failed' \in [Clusters -> SUBSET Parts]
<1>0. hub[c] \in Contents /\ info[c] \in Rows /\ info \in [Clusters -> Rows] /\ failed \in [Clusters -> SUBSET Parts]
  BY DEF TypeOK
<1>1. info' \in [Clusters -> Rows] /\ failed' \in [Clusters -> SUBSET Parts]
  <2>1. [info[c] EXCEPT ![part] = Told(hub[c])[part]] \in Rows
    BY <1>0 DEF Rows, Parts
  <2>2. info' = [info EXCEPT ![c] = [info[c] EXCEPT ![part] = Told(hub[c])[part]]] \/ info' = info
    BY <1>0 DEF Read
  <2> QED
    BY <1>0, <2>1, <2>2 DEF Read
<1>2. \A d \in Clusters, p \in Parts : d # c \/ p # part =>
         info'[d][p] = info[d][p] /\ (p \in failed'[d] <=> p \in failed[d])
  BY <1>0 DEF Read, Rows, Parts
<1>3. \/ info'[c][part] = Told(hub[c])[part] /\ failed' = failed
      \/ info' = info /\ part \in failed'[c]
  BY <1>0 DEF Read, Rows, Parts
<1>4. part \notin failed[c] /\ info[c][part] = {}
  BY DEF InfoInv, PartInv
<1>5. PartInv(c, part)'
  BY <1>3, <1>4 DEF InfoInv, PartInv
<1>6. ASSUME NEW d \in Clusters, NEW p \in Parts, d # c \/ p # part PROVE PartInv(d, p)'
  <2>1. p \in Seen(d)' <=> p \in Seen(d)
    BY <1>6
  <2> QED
    BY <1>2, <1>6, <2>1 DEF InfoInv, PartInv
<1>7. \A d \in Clusters : (hub[d] \in past[d])' /\ (failed[d] \subseteq Seen(d))'
  BY <1>0, <1>1, <1>2 DEF InfoInv
<1> QED
  BY <1>1, <1>5, <1>6, <1>7 DEF InfoInv

-------------------------------------------------------------------------------
\* What was asked for of a spoke of a list, by where its goroutine is.
SeenInList(c) ==
  (IF c \in work THEN {"status"} ELSE {})
    \cup (IF pc[c] \in {"wantNodes", "nodes", "finish", "gone"} THEN {"policies"} ELSE {})
    \cup (IF pc[c] \in {"finish", "gone"} THEN {"nodes"} ELSE {})

(* A goroutine runs while its list waits, and only then.                   *)
LEMMA GoRuns ==
  ASSUME Inv, NEW c \in Clusters, Go(c) \/ Spawn(c)
  PROVE  /\ main = "spawn" /\ c \in work /\ call.kind = "list" /\ pc[c] # "gone"
         /\ UNCHANGED <<hub, changes, call, main, work, answer, past>>
         /\ \A d \in Clusters : Seen(d) = SeenInList(d) /\ Seen(d)' = SeenInList(d)'
<1>1. pc[c] # "gone" /\ (pc[c] = "none" => c \in work /\ main = "spawn")
  BY DEF Go, Spawn, Acquire, GetPolicies, GetNodes, Done
<1>2. UNCHANGED <<hub, changes, call, main, work, answer, past>>
  BY DEF Go, Spawn, Acquire, GetPolicies, GetNodes, Done
<1>3. main = "spawn" /\ c \in work /\ call.kind = "list"
  BY <1>1 DEF Inv, GoInv
<1> QED
  BY <1>1, <1>2, <1>3 DEF Seen, SeenInList

(* What is known of the spokes stays true while their goroutines run.      *)
LEMMA GoInfo ==
  ASSUME Inv, NEW c \in Clusters, Go(c) \/ Spawn(c)
  PROVE  InfoInv' /\ info' \in [Clusters -> Rows] /\ failed' \in [Clusters -> SUBSET Parts]
<1>1. /\ UNCHANGED <<hub, past, work>>
      /\ \A d \in Clusters : Seen(d) = SeenInList(d) /\ Seen(d)' = SeenInList(d)'
  BY GoRuns
<1>2. TypeOK /\ InfoInv /\ pc \in [Clusters -> Places]
  BY DEF Inv, TypeOK, Places
<1>3. CASE Spawn(c) \/ Acquire(c) \/ Done(c)
  <2>1. UNCHANGED <<info, failed>>
    BY <1>3 DEF Spawn, Acquire, Done
  <2>2. \A d \in Clusters : SeenInList(d)' = SeenInList(d)
    BY <1>1, <1>2, <1>3 DEF Spawn, Acquire, Done, SeenInList
  <2> QED
    BY <1>1, <1>2, <2>1, <2>2, SameInfo DEF TypeOK
<1>4. CASE GetPolicies(c)
  <2>1. /\ Read(c, "policies") /\ pc[c] = "policies" /\ pc' = [pc EXCEPT ![c] = "wantNodes"]
    BY <1>4 DEF GetPolicies
  <2>2. /\ "policies" \notin SeenInList(c) /\ SeenInList(c)' = SeenInList(c) \cup {"policies"}
        /\ \A d \in Clusters \ {c} : SeenInList(d)' = SeenInList(d)
    BY <1>1, <1>2, <2>1 DEF SeenInList
  <2> QED
    BY <1>1, <1>2, <2>1, <2>2, ReadKeeps DEF Parts
<1>5. CASE GetNodes(c)
  <2>1. /\ Read(c, "nodes") /\ pc[c] = "nodes" /\ pc' = [pc EXCEPT ![c] = "finish"]
    BY <1>5 DEF GetNodes
  <2>2. /\ "nodes" \notin SeenInList(c) /\ SeenInList(c)' = SeenInList(c) \cup {"nodes"}
        /\ \A d \in Clusters \ {c} : SeenInList(d)' = SeenInList(d)
    BY <1>1, <1>2, <2>1 DEF SeenInList
  <2> QED
    BY <1>1, <1>2, <2>1, <2>2, ReadKeeps DEF Parts
<1> QED
  BY <1>3, <1>4, <1>5 DEF Go

(* A step of one goroutine preserves the invariant.                        *)
LEMMA GoStep ==
  ASSUME Inv, NEW c \in Clusters, Go(c) \/ Spawn(c)
  PROVE  Inv'
<1>1. /\ main = "spawn" /\ c \in work /\ call.kind = "list"
      /\ UNCHANGED <<hub, changes, call, main, work, answer, past>>
  BY GoRuns
<1>2. CountInv' /\ wg' \in Nat /\ sem' \in 0 .. Limit /\ pc' \in [Clusters -> Places]
  BY GoCounts DEF Inv
<1>3. InfoInv' /\ info' \in [Clusters -> Rows] /\ failed' \in [Clusters -> SUBSET Parts]
  BY GoInfo
<1>4. TypeOK'
  BY <1>1, <1>2, <1>3 DEF Inv, TypeOK, Places
<1>5. GoInv'
  <2>1. PICK to \in Places : pc' = [pc EXCEPT ![c] = to]
    BY Moves
  <2> QED
    BY <1>1, <2>1 DEF Inv, GoInv, TypeOK
<1>6. MainInv' /\ WorkInv'
  BY <1>1 DEF Inv, MainInv, WorkInv
<1>7. AnswerInv'
  BY <1>1 DEF Inv, AnswerInv
<1> QED
  BY <1>2, <1>3, <1>4, <1>5, <1>6, <1>7 DEF Inv

-------------------------------------------------------------------------------
(* The goroutines stay where they are.                                     *)
LEMMA SameCounts ==
  ASSUME CountInv, UNCHANGED goroutines
  PROVE  CountInv'
BY DEF CountInv, In, goroutines

(* Before a list has found its spokes there is nothing of it.              *)
LEMMA NotYet ==
  ASSUME Inv, main \notin {"spawn", "ok"}
  PROVE  /\ work = {} /\ \A c \in Clusters : pc[c] = "none"
         /\ answer = [c \in {} |-> info[c]]
BY DEF Inv, GoInv, AnswerInv

(* The steps of the handlers before anything is read.                      *)
LEMMA ConnectStep ==
  ASSUME Inv, Connect \/ ConnectFails
  PROVE  Inv'
<1>1. /\ main = "connect" /\ UNCHANGED <<hub, changes, call, work, goroutines, past>>
      /\ work = {} /\ \A c \in Clusters : pc[c] = "none"
      /\ answer = [c \in {} |-> info[c]] /\ call \in Calls
  BY NotYet DEF Connect, ConnectFails, Inv, TypeOK
<1>2. \A c \in Clusters : Seen(c) = {}
  BY <1>1 DEF Seen, Calls
<1>3. CASE UNCHANGED <<info, answer, failed>> /\ main' # "ok"
  <2>1. main' \in {"clusters", "policies", "kubeconfig", "failed", "notFound"}
    BY <1>1, <1>3 DEF Connect, ConnectFails, Calls, Answer
  <2>2. \A c \in Clusters : Seen(c)' = Seen(c)
    BY <1>1, <1>2, <2>1 DEF Seen, Calls, goroutines
  <2>3. MainInv'
    BY <1>1, <1>3 DEF Connect, ConnectFails, Calls, Answer, MainInv
  <2>4. TypeOK' /\ GoInv' /\ AnswerInv' /\ WorkInv'
    BY <1>1, <1>3, <2>1 DEF Inv, TypeOK, GoInv, AnswerInv, WorkInv, goroutines, Ended
  <2> QED
    BY <1>1, <1>3, <2>2, <2>3, <2>4, SameCounts, SameInfo DEF Inv
<1>4. CASE call.kind = "detail" /\ failed' = [failed EXCEPT ![call.spoke] = {"policies", "nodes"}]
           /\ UNCHANGED info /\ Answer({call.spoke})
  <2>1. call.spoke \in Clusters /\ failed \in [Clusters -> SUBSET Parts] /\ main' = "ok"
    BY <1>1, <1>4 DEF Calls, Inv, TypeOK, Answer
  <2>2. \A c \in Clusters : Seen(c)' = IF c = call.spoke THEN {"policies", "nodes"} ELSE {}
    BY <1>1, <1>4, <2>1 DEF Seen
  <2>3. \A c \in Clusters : failed[c] = {} /\ \A part \in Parts : info[c][part] = {}
    BY <1>2 DEF Inv, InfoInv, PartInv
  <2>4. InfoInv'
    BY <1>1, <1>4, <2>1, <2>2, <2>3 DEF Inv, InfoInv, PartInv
  <2>5. TypeOK' /\ GoInv' /\ MainInv' /\ WorkInv'
    BY <1>1, <1>4, <2>1 DEF Inv, TypeOK, GoInv, MainInv, WorkInv, goroutines, Ended, Parts
  <2>6. AnswerInv'
    BY <1>1, <1>4, <2>1 DEF AnswerInv, Answer, Subjects
  <2> QED
    BY <1>1, <2>4, <2>5, <2>6, SameCounts DEF Inv
<1> QED
  BY <1>1, <1>3, <1>4 DEF Connect, ConnectFails, Calls

(* The spokes of a list are found.                                         *)
LEMMA ListClustersStep ==
  ASSUME Inv, ListClusters
  PROVE  Inv'
<1>1. /\ main = "clusters" /\ call.kind = "list"
      /\ UNCHANGED <<hub, changes, call, goroutines, answer, failed, past>>
      /\ work = {} /\ \A c \in Clusters : pc[c] = "none"
      /\ answer = [c \in {} |-> info[c]]
  BY NotYet DEF ListClusters, Inv, MainInv
<1>2. \A c \in Clusters : Seen(c) = {} /\ Seen(c)' = IF c \in work' THEN {"status"} ELSE {}
  BY <1>1 DEF Seen, goroutines
 <1>3. \A c \in Clusters : /\ failed[c] = {} /\ hub[c] \in past[c] /\ hub[c] \in Contents
                         /\ \A part \in Parts : info[c][part] = {}
  BY <1>2 DEF Inv, InfoInv, PartInv, TypeOK
<1>4. CASE main' = "failed" /\ UNCHANGED <<work, info>>
  <2>1. \A c \in Clusters : Seen(c)' = Seen(c)
    BY <1>1, <1>2, <1>4
  <2>2. TypeOK' /\ GoInv' /\ MainInv' /\ AnswerInv' /\ WorkInv'
    BY <1>1, <1>4 DEF Inv, TypeOK, GoInv, MainInv, AnswerInv, WorkInv, goroutines, Ended
  <2> QED
    BY <1>1, <1>4, <2>1, <2>2, SameCounts, SameInfo DEF Inv
<1>5. CASE /\ main' = "spawn" /\ work' = {c \in Clusters \ Skipped : hub[c].available # Absent}
           /\ info' = [c \in Clusters |-> IF c \in work'
                                         THEN [Blank EXCEPT !.status = Told(hub[c]).status]
                                         ELSE Blank]
  <2>1. /\ Blank \in Rows /\ \A part \in Parts : Blank[part] = {}
        /\ \A r \in Contents : LET row == [Blank EXCEPT !.status = Told(r).status]
                               IN  /\ row \in Rows /\ row["status"] = Told(r)["status"]
                                   /\ \A part \in Parts \ {"status"} : row[part] = {}
    BY DEF Blank, Rows, Parts
  <2>2. InfoInv'
    BY <1>1, <1>2, <1>3, <1>5, <2>1 DEF InfoInv, PartInv, Parts
  <2>3. info' \in [Clusters -> Rows]
    BY <1>3, <1>5, <2>1
  <2>4. TypeOK' /\ GoInv' /\ MainInv' /\ AnswerInv'
    BY <1>1, <1>5, <2>3 DEF Inv, TypeOK, GoInv, MainInv, AnswerInv, goroutines
  <2>5. WorkInv'
    BY <1>1, <1>3, <1>5 DEF WorkInv
  <2> QED
    BY <1>1, <2>2, <2>4, <2>5, SameCounts DEF Inv
<1> QED
  BY <1>4, <1>5 DEF ListClusters

(* When the WaitGroup's counter is zero, every goroutine of the list is    *)
(* gone, and the list is answered as it was read.                          *)
LEMMA WaitStep ==
  ASSUME Inv, Wait
  PROVE  Inv'
<1>1. /\ main = "spawn" /\ wg = 0 /\ call.kind = "list" /\ main' = "ok"
      /\ UNCHANGED <<hub, changes, call, work, goroutines, info, failed, past>>
      /\ answer' = [c \in work |-> info'[c]]
  BY DEF Wait, Answer, Inv, MainInv
<1>2. In(Running) = {}
  <2>1. In(Running) \in SUBSET Clusters /\ IsFiniteSet(In(Running))
    BY FiniteClusters, FS_Subset DEF In
  <2> QED
    BY <1>1, <2>1, FS_EmptySet DEF Inv, CountInv
<1>3. \A c \in work : pc[c] = "gone"
  BY <1>1, <1>2 DEF Wait, In, Running, Inv, TypeOK
<1>4. \A c \in Clusters : Seen(c)' = Seen(c)
  BY <1>1 DEF Seen, goroutines
<1>5. TypeOK' /\ GoInv' /\ MainInv' /\ WorkInv'
  BY <1>1, <1>3 DEF Inv, TypeOK, GoInv, MainInv, WorkInv, goroutines, Ended
<1>6. AnswerInv'
  BY <1>1 DEF AnswerInv, Subjects
<1> QED
  BY <1>1, <1>4, <1>5, <1>6, SameCounts, SameInfo DEF Inv

(* One part of the spoke that the call names is read, and the handler goes *)
(* on or answers.                                                          *)
LEMMA ReadStep ==
  ASSUME Inv, NEW part \in Parts, Read(call.spoke, part),
         call.kind \in {"detail", "operators"}, main \notin {"spawn", "ok"},
         UNCHANGED <<hub, changes, call, work, goroutines, past>>,
         part \notin Seen(call.spoke), Seen(call.spoke)' = Seen(call.spoke) \cup {part},
         \/ main' = "nodes" /\ call.kind = "detail" /\ UNCHANGED answer
         \/ Answer({call.spoke})
  PROVE  Inv'
<1>1. /\ work = {} /\ \A c \in Clusters : pc[c] = "none"
      /\ answer = [c \in {} |-> info[c]]
  BY NotYet
<1>2. call.spoke \in Clusters
  BY DEF Inv, TypeOK, Calls
<1>3. \A d \in Clusters \ {call.spoke} : Seen(d) = {} /\ Seen(d)' = {}
  BY DEF Seen
<1>4. InfoInv' /\ info' \in [Clusters -> Rows] /\ failed' \in [Clusters -> SUBSET Parts]
  BY <1>2, <1>3, ReadKeeps DEF Inv
<1>5. main' \in {"nodes", "ok"} /\ (main' = "nodes" => call.kind = "detail" /\ UNCHANGED answer)
  BY DEF Answer
<1>6. TypeOK' /\ GoInv' /\ MainInv' /\ WorkInv'
  BY <1>1, <1>4, <1>5 DEF Inv, TypeOK, GoInv, MainInv, WorkInv, goroutines, Ended
<1>7. AnswerInv'
  BY <1>1, <1>5 DEF AnswerInv, Answer, Subjects
<1> QED
  BY <1>4, <1>6, <1>7, SameCounts DEF Inv

(* The steps of GetSpokeDetail and GetSpokeOperators.                      *)
LEMMA DetailStep ==
  ASSUME Inv, GetSpokePolicies \/ GetSpokeNodes \/ GetKubeconfig \/ GetOperators
  PROVE  Inv'
<1>0. call.spoke \in Clusters
  BY DEF Inv, MainInv, TypeOK, Calls, GetSpokePolicies, GetSpokeNodes, GetKubeconfig, GetOperators
<1>1. CASE GetSpokePolicies
  <2>1. call.kind = "detail" /\ Seen(call.spoke) = {} /\ Seen(call.spoke)' = {"policies"}
    BY <1>1 DEF GetSpokePolicies, Inv, MainInv, Seen
  <2> QED
    BY <1>1, <2>1, ReadStep DEF GetSpokePolicies, Parts
<1>2. CASE GetSpokeNodes
  <2>1. /\ call.kind = "detail" /\ Seen(call.spoke) = {"policies"}
        /\ Seen(call.spoke)' = {"policies", "nodes"}
    BY <1>2 DEF GetSpokeNodes, Answer, Inv, MainInv, Seen
  <2> QED
    BY <1>2, <2>1, ReadStep DEF GetSpokeNodes, Parts
<1>3. CASE GetOperators
  <2>1. call.kind = "operators" /\ Seen(call.spoke) = {} /\ Seen(call.spoke)' = {"operators"}
    BY <1>3 DEF GetOperators, Answer, Inv, MainInv, Seen
  <2> QED
    BY <1>3, <2>1, ReadStep DEF GetOperators, Parts
<1>4. CASE GetKubeconfig /\ main' = "operators" /\ UNCHANGED <<answer, failed>>
  <2>1. /\ call.kind = "operators" /\ main = "kubeconfig" /\ work = {}
        /\ answer = [c \in {} |-> info[c]]
        /\ UNCHANGED <<hub, changes, call, work, goroutines, past, info>>
    BY <1>4, NotYet DEF GetKubeconfig, Inv, MainInv
  <2>2. \A c \in Clusters : Seen(c)' = Seen(c)
    BY <1>4, <2>1 DEF Seen
  <2>3. TypeOK' /\ GoInv' /\ MainInv' /\ WorkInv' /\ AnswerInv'
    BY <1>4, <2>1 DEF Inv, TypeOK, GoInv, MainInv, WorkInv, AnswerInv, goroutines
  <2> QED
    BY <1>4, <2>1, <2>2, <2>3, SameCounts, SameInfo DEF Inv
<1>5. CASE GetKubeconfig /\ failed' = [failed EXCEPT ![call.spoke] = {"operators"}]
           /\ Answer({call.spoke})
  <2>1. /\ call.kind = "operators" /\ main = "kubeconfig" /\ main' = "ok"
        /\ answer' = [c \in {call.spoke} |-> info'[c]]
        /\ UNCHANGED <<hub, changes, call, work, goroutines, past, info>>
        /\ Seen(call.spoke) = {} /\ Seen(call.spoke)' = {"operators"}
    BY <1>5 DEF GetKubeconfig, Answer, Inv, MainInv, Seen
  <2>2. \A d \in Clusters \ {call.spoke} : Seen(d) = {} /\ Seen(d)' = {}
    BY <2>1 DEF Seen
  <2>3. \A c \in Clusters : failed[c] = {} /\ \A part \in Parts : info[c][part] = {}
    BY <1>0, <2>1, <2>2 DEF Inv, InfoInv, PartInv
  <2>4. failed' \in [Clusters -> SUBSET Parts]
    BY <1>5 DEF Inv, TypeOK, Parts
  <2>5. InfoInv'
    BY <1>0, <1>5, <2>1, <2>2, <2>3 DEF Inv, InfoInv, PartInv, TypeOK
  <2>6. work = {} /\ \A c \in Clusters : pc[c] = "none"
    BY <2>1, NotYet
  <2>7. TypeOK' /\ GoInv' /\ MainInv' /\ WorkInv'
    BY <2>1, <2>4, <2>6 DEF Inv, TypeOK, GoInv, MainInv, WorkInv, goroutines, Ended
  <2>8. AnswerInv'
    BY <2>1 DEF AnswerInv, Subjects
  <2> QED
    BY <2>1, <2>5, <2>7, <2>8, SameCounts DEF Inv
<1> QED
  BY <1>1, <1>2, <1>3, <1>4, <1>5 DEF GetKubeconfig

(* A change on the hub adds to what a spoke was, and takes nothing away.   *)
LEMMA ChangeStep ==
  ASSUME Inv, NEW c \in Clusters, Change(c)
  PROVE  Inv'
<1>1. PICK r \in Contents : /\ hub' = [hub EXCEPT ![c] = r]
                            /\ past' = [past EXCEPT ![c] = @ \cup {r}]
  BY DEF Change
<1>2. /\ changes' \in 0 .. MaxChanges /\ main \notin Ended
      /\ UNCHANGED <<call, main, work, goroutines, info, answer, failed>>
  BY BoundAssumption DEF Change, Inv, TypeOK
<1>3. hub' \in [Clusters -> Contents] /\ past' \in [Clusters -> SUBSET Contents]
  BY <1>1 DEF Inv, TypeOK
<1>4. \A d \in Clusters : past[d] \subseteq past'[d] /\ (hub[d] \in past[d] => hub'[d] \in past'[d])
  BY <1>1 DEF Inv, TypeOK
<1>5. \A d \in Clusters : Seen(d)' = Seen(d)
  BY <1>2 DEF Seen, goroutines
<1>6. InfoInv'
  BY <1>2, <1>4, <1>5 DEF Inv, InfoInv, PartInv
<1>7. TypeOK' /\ GoInv' /\ MainInv' /\ AnswerInv'
  BY <1>2, <1>3 DEF Inv, TypeOK, GoInv, MainInv, AnswerInv, Subjects, goroutines
<1>8. WorkInv'
  BY <1>2, <1>4 DEF Inv, WorkInv
<1> QED
  BY <1>2, <1>6, <1>7, <1>8, SameCounts DEF Inv

(* Every step preserves the invariant.                                     *)
LEMMA InvStep == Inv /\ [Next]_vars => Inv'
<1> SUFFICES ASSUME Inv, [Next]_vars PROVE Inv'
  OBVIOUS
<1>1. CASE Connect \/ ConnectFails
  BY <1>1, ConnectStep
<1>2. CASE ListClusters \/ Wait
  BY <1>2, ListClustersStep, WaitStep
<1>3. CASE GetSpokePolicies \/ GetSpokeNodes \/ GetKubeconfig \/ GetOperators
  BY <1>3, DetailStep
<1>4. ASSUME NEW c \in Clusters, Spawn(c) \/ Go(c) PROVE Inv'
  BY <1>4, GoStep
<1>5. ASSUME NEW c \in Clusters, Change(c) PROVE Inv'
  BY <1>5, ChangeStep
<1>6. CASE UNCHANGED vars
  <2>1. UNCHANGED <<hub, changes, call, main, work, goroutines, info, answer, failed, past>>
    BY <1>6 DEF vars
  <2>2. \A c \in Clusters : Seen(c)' = Seen(c)
    BY <2>1 DEF Seen, goroutines
  <2>3. TypeOK' /\ GoInv' /\ MainInv' /\ AnswerInv' /\ WorkInv'
    BY <2>1 DEF Inv, TypeOK, GoInv, MainInv, AnswerInv, WorkInv, Subjects, goroutines
  <2> QED
    BY <2>1, <2>2, <2>3, SameCounts, SameInfo DEF Inv
<1> QED
  BY <1>1, <1>2, <1>3, <1>4, <1>5, <1>6 DEF Next, Handler

(* The invariant holds when the call arrives.                              *)
LEMMA Start == Init => Inv
<1> SUFFICES ASSUME Init PROVE Inv
  OBVIOUS
<1>1. In(Asking) = {} /\ In(Running) = {}
  BY DEF Init, In, Asking, Running
<1>2. CountInv
  BY <1>1, FS_EmptySet, LimitAssumption DEF Init, CountInv
<1>3. \A c \in Clusters : Seen(c) = {}
  BY DEF Init, Calls, Seen
<1>4. Blank \in Rows /\ \A part \in Parts : Blank[part] = {}
  BY DEF Blank, Rows, Parts
<1>5. InfoInv
  BY <1>3, <1>4 DEF Init, InfoInv, PartInv
<1>6. TypeOK
  BY <1>4, BoundAssumption, LimitAssumption DEF Init, TypeOK, Parts
<1>7. AnswerInv
  BY DEF Init, AnswerInv
<1> QED
  BY <1>2, <1>5, <1>6, <1>7 DEF Init, Inv, GoInv, MainInv, WorkInv

(* The invariant holds in every state.                                     *)
LEMMA Invariant == Spec => []Inv
BY Start, InvStep, PTL DEF Spec

-------------------------------------------------------------------------------
(* The state is always well typed: neither counter ever goes below zero.   *)
THEOREM TypeCorrect == Spec => []TypeOK
<1>1. Inv => TypeOK
  BY DEF Inv
<1> QED
  BY <1>1, Invariant, PTL

(* The semaphore holds, for any number of spokes and any capacity.         *)
THEOREM AtMostLimitHolds == Spec => []AtMostLimit
<1>1. Inv => AtMostLimit
  BY DEF Inv, CountInv, AtMostLimit, In, Asking
<1> QED
  BY <1>1, Invariant, PTL

(* The goroutines of a list never wait only for each other's tokens: who   *)
(* holds one asks the API server and gives it back (rhacm.go: sem, wg).    *)
THEOREM NobodyWaitsInVainHolds == Spec => []NobodyWaitsInVain
<1>1. Inv => NobodyWaitsInVain
  <2> SUFFICES ASSUME Inv PROVE NobodyWaitsInVain
    OBVIOUS
  <2>1. In(Asking) = {} => sem = 0
    BY FS_EmptySet DEF Inv, CountInv
  <2>2. In(Running) = {} => wg = 0
    BY FS_EmptySet DEF Inv, CountInv
  <2> QED
    BY <2>1, <2>2, LimitAssumption DEF NobodyWaitsInVain, In, Asking, Running, Inv, TypeOK
<1> QED
  BY <1>1, Invariant, PTL

(* For any capacity, the semaphore holds back who is too many, and nobody  *)
(* waits at it who could not be let in one day.                            *)
THEOREM SemaphoreWorksHolds == Spec => []SemaphoreWorks
<1>1. AtMostLimit /\ NobodyWaitsInVain => SemaphoreWorks
  BY DEF SemaphoreWorks
<1> QED
  BY <1>1, AtMostLimitHolds, NobodyWaitsInVainHolds, PTL

(* Every row of an answer is its spoke's, as of the call.                  *)
THEOREM RowsAreTheirsHolds == Spec => []RowsAreTheirs
<1>1. Inv => RowsAreTheirs
  <2> SUFFICES ASSUME Inv, NEW c \in DOMAIN answer, NEW part \in Parts
               PROVE  IF part \in Asked \ failed[c]
                      THEN \E r \in past[c] : answer[c][part] = Told(r)[part]
                      ELSE answer[c][part] = {}
    BY DEF RowsAreTheirs
  <2>1. main = "ok" /\ c \in Subjects /\ answer[c] = info[c] /\ c \in Clusters
    BY DEF Inv, AnswerInv, TypeOK, Calls, Subjects
  <2>2. Seen(c) = Asked
    BY <2>1 DEF Inv, TypeOK, Calls, GoInv, Subjects, Seen, Asked
  <2> QED
    BY <2>1, <2>2 DEF Inv, InfoInv, PartInv
<1> QED
  BY <1>1, Invariant, PTL

(* The list holds the spokes of the call and no others.                    *)
THEOREM ListIsCompleteHolds == Spec => []ListIsComplete
<1>1. Inv => ListIsComplete
  BY DEF Inv, ListIsComplete, AnswerInv, Subjects, WorkInv
<1> QED
  BY <1>1, Invariant, PTL

-------------------------------------------------------------------------------
(* A nonempty set of numbers has a smallest one.                           *)
LEMMA Smallest ==
  ASSUME NEW S \in SUBSET Nat, S # {}
  PROVE  \E i \in S : \A j \in S : i <= j
<1>1. \E i \in S : \A j \in S : ~(<<j, i>> \in OpToRel(<, Nat))
  BY NatLessThanWellFounded, WFMin
<1>2. PICK i \in S : \A j \in S : ~(<<j, i>> \in OpToRel(<, Nat))
  BY <1>1
<1>3. \A j \in S : ~(j < i)
  BY <1>2 DEF OpToRel
<1> QED
  BY <1>3

(* The loop over a history has a result: if there were none for some       *)
(* length, there would be a shortest such length, and the result for one   *)
(* entry less could be extended.                                           *)
LEMMA BestExists ==
  ASSUME NEW history, NEW n \in Nat
  PROVE  \E best : best = [i \in 0 .. n |-> IF i = 0 THEN NoMessage
                                           ELSE Newer(best[i - 1], history[i])]
<1> DEFINE Good(m) == \E b : b = [i \in 0 .. m |-> IF i = 0 THEN NoMessage
                                                 ELSE Newer(b[i - 1], history[i])]
           bad == {m \in Nat : ~Good(m)}
<1>1. CASE bad = {}
  BY <1>1
<1>2. CASE bad # {}
  <2>1. PICK m \in bad : \A k \in bad : m <= k
    BY <1>2, Smallest
  <2>2. Good(0)
    <3>1. LET b == [i \in 0 .. 0 |-> NoMessage]
          IN  b = [i \in 0 .. 0 |-> IF i = 0 THEN NoMessage ELSE Newer(b[i - 1], history[i])]
      OBVIOUS
    <3> QED
      BY <3>1
  <2>3. m \in Nat /\ m # 0
    BY <2>2
  <2>4. m - 1 \in Nat /\ ~(m <= m - 1)
    BY <2>3
  <2>5. PICK b : b = [i \in 0 .. m - 1 |-> IF i = 0 THEN NoMessage
                                           ELSE Newer(b[i - 1], history[i])]
    BY <2>1, <2>4
  <2> DEFINE c == [i \in 0 .. m |-> IF i = m THEN Newer(b[m - 1], history[m]) ELSE b[i]]
             d == [i \in 0 .. m |-> IF i = 0 THEN NoMessage ELSE Newer(c[i - 1], history[i])]
  <2>6. \A i \in 0 .. m : i # m => i \in 0 .. m - 1
    BY <2>3
  <2>7. \A i \in 0 .. m - 1 : b[i] = IF i = 0 THEN NoMessage ELSE Newer(b[i - 1], history[i])
    BY <2>5
  <2>8. \A i \in 0 .. m : i # 0 => i - 1 \in 0 .. m /\ i - 1 # m /\ c[i - 1] = b[i - 1]
    BY <2>3
  <2>9. ASSUME NEW i \in 0 .. m PROVE c[i] = d[i]
    <3>1. CASE i = m
      <4>1. c[m] = Newer(b[m - 1], history[m]) /\ c[m - 1] = b[m - 1]
        BY <2>3, <2>8
      <4> QED
        BY <3>1, <4>1, <2>3
    <3>2. CASE i # m
      <4>1. c[i] = b[i] /\ b[i] = IF i = 0 THEN NoMessage ELSE Newer(b[i - 1], history[i])
        BY <3>2, <2>6, <2>7
      <4> QED
        BY <4>1, <2>8
    <3> QED
      BY <3>1, <3>2
  <2>10. c = d
    BY <2>9
  <2>11. Good(m)
    BY <2>10
  <2> QED
    BY <2>1, <2>11
<1> QED
  BY <1>1, <1>2

(* Latest gives what the loop has found after the last entry.              *)
LEMMA BestUnfolds ==
  ASSUME NEW history, Len(history) \in Nat
  PROVE  \E best :
           /\ best = [i \in 0 .. Len(history) |->
                        IF i = 0 THEN NoMessage ELSE Newer(best[i - 1], history[i])]
           /\ Latest(history) = IF best[Len(history)].message = None THEN NoMessage
                                ELSE best[Len(history)]
<1> DEFINE IsBest(b) == b = [i \in 0 .. Len(history) |->
                               IF i = 0 THEN NoMessage ELSE Newer(b[i - 1], history[i])]
           best == CHOOSE b : IsBest(b)
<1>1. \E b : IsBest(b)
  BY BestExists
<1>2. IsBest(best)
  <2> HIDE DEF IsBest
  <2> QED
    BY <1>1, Zenon
<1>3. Latest(history) = IF best[Len(history)].message = None THEN NoMessage
                                ELSE best[Len(history)]
  BY Zenon DEF Latest
<1> QED
  BY <1>2, <1>3

(* The loop keeps the newest entry so far, and its message if it has one:  *)
(* so what it ends with is one of the newest, if those have messages.      *)
LEMMA LatestIsNewest ==
  ASSUME NEW history, IsHistory(history),
         NEW newest, newest = {e \in Entries(history) :
                         e.time > 0 /\ \A d \in Entries(history) : d.time <= e.time},
         newest # {}, \A e \in newest : e.message # None
  PROVE  Latest(history) \in newest
<1> DEFINE n == Len(history)
<1>1. /\ n \in Nat /\ \A i \in 1 .. n : history[i] \in Entries(history)
      /\ \A i \in 1 .. n : /\ history[i].time \in Nat
                           /\ history[i] = [time |-> history[i].time, message |-> history[i].message]
  BY DEF IsHistory, Entries
<1>2. PICK best : /\ best = [i \in 0 .. n |-> IF i = 0 THEN NoMessage ELSE Newer(best[i - 1], history[i])]
                  /\ Latest(history) = IF best[n].message = None THEN NoMessage ELSE best[n]
  BY <1>1, BestUnfolds
<1> DEFINE Newest(i) ==
      /\ best[i] = [time |-> best[i].time, message |-> best[i].message] /\ best[i].time \in Nat
      /\ \A j \in 1 .. i : history[j].time <= best[i].time
      /\ best[i].time = 0 \/ \E j \in 1 .. i : /\ history[j].time = best[i].time
                                               /\ history[j].message # None =>
                                                    history[j].message = best[i].message
           bad == {i \in 0 .. n : ~Newest(i)}
<1>3. \A i \in 0 .. n : Newest(i)
  <2> SUFFICES ASSUME bad # {} PROVE FALSE
    OBVIOUS
  <2>0. bad \in SUBSET Nat
    BY <1>1
  <2>1. PICK m \in bad : \A k \in bad : m <= k
    BY <2>0, Smallest
  <2>2. best[0] = NoMessage /\ 0 \in 0 .. n
    BY <1>1, <1>2
  <2>3. Newest(0)
    BY <2>2 DEF NoMessage
  <2>4. m \in 1 .. n /\ m - 1 \in 0 .. n /\ ~(m <= m - 1)
    BY <1>1, <2>1, <2>3
  <2>5. Newest(m - 1)
    BY <2>1, <2>4
  <2>6. best[m] = Newer(best[m - 1], history[m])
    BY <1>2, <2>4
  <2>7. \A j \in 1 .. m : j = m \/ j \in 1 .. m - 1
    BY <2>4
  <2>8. /\ history[m].time \in Nat
        /\ history[m] = [time |-> history[m].time, message |-> history[m].message]
    BY <1>1, <2>4
  <2> HIDE <1>1, <1>2
  <2>9. CASE history[m].time > best[m - 1].time
    <3>1. /\ best[m].time = history[m].time
          /\ history[m].message # None => best[m].message = history[m].message
          /\ best[m] = [time |-> best[m].time, message |-> best[m].message]
      BY <2>6, <2>9 DEF Newer
    <3>2. ASSUME NEW j \in 1 .. m - 1 PROVE history[j].time <= best[m].time
      <4>1. j \in 1 .. n
        BY <1>1, <2>4
      <4>2. history[j].time \in Nat /\ history[j].time <= best[m - 1].time /\ best[m - 1].time \in Nat
        BY <1>1, <2>5, <4>1
      <4> QED
        BY <2>8, <2>9, <3>1, <4>2
    <3> QED
      BY <2>1, <2>4, <2>7, <2>8, <3>1, <3>2
  <2>10. CASE ~(history[m].time > best[m - 1].time)
    <3>1. best[m] = best[m - 1]
      BY <2>6, <2>10 DEF Newer
    <3>2. 1 .. m - 1 \subseteq 1 .. m
      BY <2>4
    <3> QED
      BY <2>1, <2>5, <2>7, <2>8, <2>10, <3>1, <3>2
  <2> QED
    BY <2>9, <2>10
<1>4. Newest(n) /\ n \in Nat
  BY <1>1, <1>3
<1>5. PICK e \in newest : TRUE
  OBVIOUS
<1>6. best[n].time > 0
  <2>1. PICK i \in 1 .. n : e = history[i]
    BY <1>5 DEF Entries
  <2>2. e.time > 0 /\ e.time \in Nat /\ e.time <= best[n].time /\ best[n].time \in Nat
    BY <1>1, <1>4, <1>5, <2>1
  <2> QED
    BY <2>2
<1>7. PICK j \in 1 .. n : /\ history[j].time = best[n].time
                          /\ history[j].message # None => history[j].message = best[n].message
  BY <1>4, <1>6
<1>8. history[j] \in newest
  BY <1>1, <1>4, <1>6, <1>7 DEF Entries
<1>9. best[n] = history[j] /\ best[n].message # None
  BY <1>1, <1>4, <1>7, <1>8
<1> QED
  BY <1>2, <1>8, <1>9

(* The message shown for a policy is one of its newest, with its own time  *)
(* (policies.go: the loop over the details of convertUnstructuredToPolicy).*)
THEOREM NewestMessageShownHolds == Spec => []NewestMessageShown
<1>1. TypeOK /\ RowsAreTheirs /\ DOMAIN answer \subseteq Clusters => NewestMessageShown
  <2> SUFFICES ASSUME TypeOK, RowsAreTheirs, DOMAIN answer \subseteq Clusters,
                      NEW c \in DOMAIN answer, NEW told \in answer[c].policies
               PROVE  \E r \in past[c] :
        LET history == IF r.policy.details = <<>> THEN <<>> ELSE r.policy.details[1].history
            newest == {e \in Entries(history) :
                         e.time > 0 /\ \A d \in Entries(history) : d.time <= e.time}
        IN  /\ told = PolicyInfo(r.policy)
            /\ newest # {} /\ (\A e \in newest : e.message # None) => told.latest \in newest
    BY DEF NewestMessageShown
  <2>1. PICK r \in past[c] : answer[c]["policies"] = Told(r)["policies"]
    BY DEF RowsAreTheirs, Parts
  <2>2. told = PolicyInfo(r.policy) /\ r \in Contents
    BY <2>1 DEF Told, TypeOK
  <2> DEFINE history == IF r.policy.details = <<>> THEN <<>> ELSE r.policy.details[1].history
             newest == {e \in Entries(history) :
                          e.time > 0 /\ \A d \in Entries(history) : d.time <= e.time}
  <2>3. ASSUME newest # {}, \A e \in newest : e.message # None
        PROVE  told.latest \in newest
    <3>1. r.policy.details # <<>>
      BY <2>3 DEF Entries
    <3>2. IsHistory(history) /\ told.latest = Latest(history)
      BY <2>2, <3>1, ContentsAssumption DEF PolicyInfo
    <3> HIDE DEF history
    <3> QED
      BY <2>3, <3>2, LatestIsNewest
  <2> QED
    BY <2>2, <2>3
<1>2. Inv => TypeOK /\ DOMAIN answer \subseteq Clusters
  BY DEF Inv, AnswerInv, TypeOK, Calls, Subjects
<1> QED
  BY <1>1, <1>2, Invariant, RowsAreTheirsHolds, PTL
===============================================================================

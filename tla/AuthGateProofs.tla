---------------------------- MODULE AuthGateProofs ----------------------------
(***************************************************************************)
(* For any number of tokens and requests and any lifetimes: a token that   *)
(* the API server refuses is refused by the dashboard after one cache      *)
(* lifetime and one call at the latest.                                    *)
(***************************************************************************)
EXTENDS AuthGate, TLAPS

\* A yes on its way is as old as its call at most, and a cached one is older
\* by no more than the time it has been cached.
BudgetInv ==
  /\ \A q \in Requests : pc[q] = "yes" =>
       age[token[q]] = Valid \/ age[token[q]] + left[q] <= HttpTimeout
  /\ \A t \in Tokens : cache[t] \notin {NoEntry, 0} =>
       age[t] = Valid \/ age[t] + cache[t] <= CacheTTL + HttpTimeout

Steps(q) == \/ Load(q) \/ DeleteExpired(q) \/ Store(q) \/ Rejected(q)
            \/ ArriveOpen(q) \/ Serve(q) \/ Judge(q) \/ Fails(q) \/ Timeout(q)

-------------------------------------------------------------------------------
(* A request that gets to a place keeps the state well typed, if it has a  *)
(* token there exactly when that place needs one.                          *)
LEMMA AtStep ==
  ASSUME TypeOK, NEW q \in Requests, NEW t \in Tokens \cup {NoToken}, NEW n \in 0 .. HttpTimeout,
         NEW place \in {"idle", "open", "load", "delete", "wait", "yes", "no", "admitted"},
         place \in {"idle", "open"} <=> t = NoToken,
         At(q, place, t, n), UNCHANGED age,
         \/ UNCHANGED cache
         \/ cache' = [cache EXCEPT ![token[q]] = NoEntry]
         \/ cache' = [cache EXCEPT ![token[q]] = CacheTTL]
  PROVE  /\ TypeOK'
         /\ pc'[q] = place /\ token'[q] = t /\ left'[q] = n
         /\ \A p \in Requests \ {q} : pc'[p] = pc[p] /\ token'[p] = token[p] /\ left'[p] = left[p]
<1>1. cache' \in [Tokens -> (0 .. CacheTTL) \cup {NoEntry}]
  BY TTLAssumption DEF TypeOK
<1>2. /\ pc' \in [Requests -> {"idle", "open", "load", "delete", "wait", "yes", "no", "admitted"}]
      /\ left' \in [Requests -> 0 .. HttpTimeout]
      /\ token' \in [Requests -> Tokens \cup {NoToken}]
      /\ pc'[q] = place /\ token'[q] = t /\ left'[q] = n
      /\ \A p \in Requests \ {q} : pc'[p] = pc[p] /\ token'[p] = token[p] /\ left'[p] = left[p]
  BY DEF TypeOK, At
<1>3. \A p \in Requests : pc'[p] \in {"idle", "open"} <=> token'[p] = NoToken
  BY <1>2 DEF TypeOK
<1> QED
  BY <1>1, <1>2, <1>3 DEF TypeOK

(* What a step of one request does: where it gets to, with which token and *)
(* how much time, and what it caches.                                      *)
LEMMA StepsOf ==
  ASSUME TypeOK, NEW q \in Requests, Steps(q) \/ \E t \in Tokens \cup {NoToken} : Arrive(q, t)
  PROVE  \E place \in {"idle", "open", "load", "delete", "wait", "yes", "no", "admitted"},
            t \in Tokens \cup {NoToken}, n \in 0 .. HttpTimeout :
           /\ place \in {"idle", "open"} <=> t = NoToken
           /\ At(q, place, t, n) /\ UNCHANGED age
           /\ place = "yes" => /\ UNCHANGED cache /\ t = token[q]
                               /\ pc[q] = "wait" /\ age[t] = Valid /\ n = left[q]
           /\ place = "admitted" =>
                /\ t = token[q]
                /\ \/ pc[q] = "yes"
                   \/ pc[q] = "load" /\ cache[t] \notin {NoEntry, 0}
           /\ \/ UNCHANGED cache
              \/ cache' = [cache EXCEPT ![token[q]] = NoEntry]
              \/ pc[q] = "yes" /\ cache' = [cache EXCEPT ![token[q]] = CacheTTL]
<1> USE DEF At
<1>h. 0 \in 0 .. HttpTimeout /\ HttpTimeout \in 0 .. HttpTimeout /\ left[q] \in 0 .. HttpTimeout
  BY TimeoutAssumption DEF TypeOK
<1>t. pc[q] \notin {"idle", "open"} => token[q] \in Tokens /\ token[q] # NoToken
  BY ModelValues DEF TypeOK
<1>1. CASE Load(q)
  BY <1>1, <1>h, <1>t DEF Load, Ask
<1>2. CASE DeleteExpired(q)
  BY <1>2, <1>h, <1>t DEF DeleteExpired, Ask
<1>3. CASE Store(q)
  BY <1>3, <1>h, <1>t DEF Store
<1>4. CASE Rejected(q) \/ Serve(q) \/ Fails(q) \/ Timeout(q)
  BY <1>4, <1>h DEF Rejected, Serve, Fails, Timeout, Done
<1>5. CASE ArriveOpen(q)
  BY <1>5, <1>h DEF ArriveOpen
<1>6. CASE Judge(q)
  BY <1>6, <1>h, <1>t DEF Judge
<1>7. ASSUME NEW t \in Tokens \cup {NoToken}, Arrive(q, t)
      PROVE  /\ UNCHANGED <<age, cache>>
             /\ At(q, "idle", NoToken, 0) \/ (At(q, "load", t, 0) /\ t # NoToken)
  BY <1>7 DEF Arrive, Done
<1> HIDE DEF At
<1>8. CASE \E t \in Tokens \cup {NoToken} : Arrive(q, t)
  BY <1>7, <1>8, <1>h
<1> QED
  BY <1>1, <1>2, <1>3, <1>4, <1>5, <1>6, <1>8 DEF Steps

-------------------------------------------------------------------------------
(* Time passing keeps the state well typed, and no yes outlives its budget.*)
LEMMA TickStep == TypeOK /\ BudgetInv /\ Tick => TypeOK' /\ BudgetInv'
<1> SUFFICES ASSUME TypeOK, BudgetInv, Tick PROVE TypeOK' /\ BudgetInv'
  OBVIOUS
<1> USE TTLAssumption, TimeoutAssumption, ModelValues
<1>1. \A t \in Tokens :
        /\ age'[t] = IF age[t] \in {Valid, Old} THEN age[t] ELSE age[t] + 1
        /\ cache'[t] = IF cache[t] \in {NoEntry, 0} THEN cache[t] ELSE cache[t] - 1
        /\ age[t] \in (0 .. Old) \cup {Valid} /\ cache[t] \in (0 .. CacheTTL) \cup {NoEntry}
  BY DEF Tick, TypeOK
<1>2. \A q \in Requests :
        /\ pc'[q] = pc[q] /\ token'[q] = token[q] /\ left[q] \in 0 .. HttpTimeout
        /\ pc[q] = "yes" => left'[q] = left[q] - 1 /\ left[q] > 0 /\ token[q] \in Tokens
  BY DEF Tick, TypeOK, Calling
<1>3. age' \in [Tokens -> (0 .. Old) \cup {Valid}]
  <2>1. \A t \in Tokens : age'[t] \in (0 .. Old) \cup {Valid}
    BY <1>1 DEF Old
  <2> QED
    BY <2>1 DEF Tick
<1>4. cache' \in [Tokens -> (0 .. CacheTTL) \cup {NoEntry}]
  <2>1. \A t \in Tokens : cache'[t] \in (0 .. CacheTTL) \cup {NoEntry}
    BY <1>1
  <2> QED
    BY <2>1 DEF Tick
<1>5. left' \in [Requests -> 0 .. HttpTimeout]
  BY DEF Tick, TypeOK
<1>6. TypeOK'
  BY <1>3, <1>4, <1>5 DEF Tick, TypeOK
<1>7. ASSUME NEW q \in Requests, pc'[q] = "yes"
      PROVE  age'[token'[q]] = Valid \/ age'[token'[q]] + left'[q] <= HttpTimeout
  BY <1>1, <1>2, <1>7 DEF BudgetInv, Old
<1>8. ASSUME NEW t \in Tokens, cache'[t] \notin {NoEntry, 0}
      PROVE  age'[t] = Valid \/ age'[t] + cache'[t] <= CacheTTL + HttpTimeout
  BY <1>1, <1>8 DEF BudgetInv, Old
<1> QED
  BY <1>6, <1>7, <1>8 DEF BudgetInv

(* Every step keeps the state well typed and every yes within its budget.  *)
LEMMA InvStep == TypeOK /\ BudgetInv /\ [Next]_vars => TypeOK' /\ BudgetInv'
<1> SUFFICES ASSUME TypeOK, BudgetInv, [Next]_vars PROVE TypeOK' /\ BudgetInv'
  OBVIOUS
<1>1. ASSUME NEW q \in Requests, Steps(q) \/ \E t \in Tokens \cup {NoToken} : Arrive(q, t)
      PROVE  TypeOK' /\ BudgetInv'
  <2>1. PICK place \in {"idle", "open", "load", "delete", "wait", "yes", "no", "admitted"},
             t \in Tokens \cup {NoToken}, n \in 0 .. HttpTimeout :
           /\ place \in {"idle", "open"} <=> t = NoToken
           /\ At(q, place, t, n) /\ UNCHANGED age
           /\ place = "yes" => /\ UNCHANGED cache /\ t = token[q]
                               /\ pc[q] = "wait" /\ age[t] = Valid /\ n = left[q]
           /\ \/ UNCHANGED cache
              \/ cache' = [cache EXCEPT ![token[q]] = NoEntry]
              \/ pc[q] = "yes" /\ cache' = [cache EXCEPT ![token[q]] = CacheTTL]
    BY <1>1, StepsOf
  <2>2. /\ TypeOK'
        /\ pc'[q] = place /\ token'[q] = t /\ left'[q] = n
        /\ \A p \in Requests \ {q} : pc'[p] = pc[p] /\ token'[p] = token[p] /\ left'[p] = left[p]
    BY <2>1, AtStep
  <2>3. \A p \in Requests : pc'[p] = "yes" =>
          age'[token'[p]] = Valid \/ age'[token'[p]] + left'[p] <= HttpTimeout
    BY <2>1, <2>2 DEF BudgetInv
  <2>4. ASSUME NEW u \in Tokens, cache'[u] \notin {NoEntry, 0}
        PROVE  age'[u] = Valid \/ age'[u] + cache'[u] <= CacheTTL + HttpTimeout
    <3>1. CASE cache'[u] = cache[u]
      BY <2>1, <2>4, <3>1 DEF BudgetInv
    <3>2. CASE cache'[u] # cache[u]
      <4>1. u = token[q] /\ pc[q] = "yes" /\ cache'[u] = CacheTTL
        BY <2>1, <2>4, <3>2 DEF TypeOK
      <4>2. left[q] \in Nat /\ age[u] \in Nat \cup {Valid}
        BY <4>1, TTLAssumption, TimeoutAssumption DEF TypeOK, Old
      <4> QED
        BY <2>1, <4>1, <4>2, TTLAssumption, TimeoutAssumption DEF BudgetInv
    <3> QED
      BY <3>1, <3>2
  <2> QED
    BY <2>2, <2>3, <2>4 DEF BudgetInv
<1>2. ASSUME NEW t \in Tokens, Revoke(t) PROVE TypeOK' /\ BudgetInv'
  <2>1. TypeOK'
    BY <1>2, TTLAssumption, TimeoutAssumption DEF Revoke, TypeOK, request, Old
  <2>2. \A u \in Tokens : age'[u] = age[u] \/ age'[u] = 0
    BY <1>2 DEF Revoke, TypeOK
  <2>3. ASSUME NEW q \in Requests, pc[q] = "yes"
        PROVE  token[q] \in Tokens /\ left[q] \in 0 .. HttpTimeout
    BY <2>3 DEF TypeOK
  <2>4. \A u \in Tokens : cache[u] \in (0 .. CacheTTL) \cup {NoEntry}
    BY DEF TypeOK
  <2> QED
    BY <1>2, <2>1, <2>2, <2>3, <2>4, TTLAssumption, TimeoutAssumption DEF Revoke, request, BudgetInv
<1>3. CASE Tick
  BY <1>3, TickStep
<1>4. CASE UNCHANGED vars
  BY <1>4 DEF vars, request, TypeOK, BudgetInv
<1> QED
  BY <1>1, <1>2, <1>3, <1>4 DEF Next, Validate, Steps

(* Nothing is cached and no call is under way at first.                    *)
LEMMA Start == Init => TypeOK /\ BudgetInv
BY TTLAssumption, TimeoutAssumption DEF Init, TypeOK, BudgetInv, Old

-------------------------------------------------------------------------------
(* The state is always well typed: a countdown never goes below zero, and  *)
(* a request has a token exactly while one is validated or accepted.       *)
THEOREM TypeCorrect == Spec => []TypeOK
BY Start, InvStep, PTL DEF Spec

(* A guarded request is let through only if its token is good, or was so   *)
(* less than one cache lifetime and one call ago.                          *)
THEOREM RevocationTakesEffectHolds == Spec => RevocationTakesEffect
<1>1. ASSUME TypeOK, BudgetInv, [Next]_vars, NEW q \in Requests,
             pc[q] # "admitted", pc'[q] = "admitted"
      PROVE  age[token[q]] = Valid \/ age[token[q]] < CacheTTL + HttpTimeout
  <2>1. Steps(q) \/ \E t \in Tokens \cup {NoToken} : Arrive(q, t)
    <3>1. ASSUME NEW p \in Requests, Steps(p) \/ \E t \in Tokens \cup {NoToken} : Arrive(p, t)
          PROVE  p = q
      BY <1>1, <3>1, StepsOf DEF At, TypeOK
    <3>2. ~(\E t \in Tokens : Revoke(t)) /\ ~Tick /\ ~UNCHANGED vars
      BY <1>1 DEF Revoke, Tick, vars, request
    <3> QED
      BY <1>1, <3>1, <3>2 DEF Next, Validate, Steps
  <2>2. \/ pc[q] = "yes"
        \/ pc[q] = "load" /\ cache[token[q]] \notin {NoEntry, 0}
    BY <1>1, <2>1, StepsOf DEF At, TypeOK
  <2>3. token[q] \in Tokens /\ left[q] \in Nat
    BY <1>1, <2>2, TimeoutAssumption DEF TypeOK
  <2>4. /\ age[token[q]] \in Nat \cup {Valid}
        /\ cache[token[q]] \in Nat \cup {NoEntry}
    BY <1>1, <2>3, TTLAssumption, TimeoutAssumption DEF TypeOK, Old
  <2> QED
    BY <1>1, <2>2, <2>3, <2>4, TTLAssumption, TimeoutAssumption DEF BudgetInv
<1>2. TypeOK /\ BudgetInv /\ [Next]_vars =>
        [\A q \in Requests : pc[q] # "admitted" /\ pc'[q] = "admitted" =>
           age[token[q]] = Valid \/ age[token[q]] < CacheTTL + HttpTimeout]_vars
  BY <1>1
<1> QED
  BY <1>2, Start, InvStep, PTL DEF Spec, RevocationTakesEffect
===============================================================================

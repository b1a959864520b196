------------------------------- MODULE AuthGate -------------------------------
(***************************************************************************)
(* Requests before they reach a handler: AuthMiddleware                    *)
(* (internal/middleware/auth.go) and TokenValidator (pkg/auth/jwt.go) of   *)
(* one replica.  The validator asks the user API of OpenShift about a      *)
(* token and remembers a yes for CacheTTL; its sync.Map makes each Load,   *)
(* Delete and Store atomic, and nothing more, so the goroutines of         *)
(* requests with the same token interleave between them.                   *)
(*                                                                         *)
(* Time passes in ticks.  What the code keeps as a deadline is kept here   *)
(* as the number of ticks that are left: of a cached yes, and of a call    *)
(* that http.Client ends with an error at its Timeout.                     *)
(***************************************************************************)
EXTENDS Integers

CONSTANTS
  Tokens,        \* bearer tokens
  Requests,      \* requests that may be in flight at once
  NoToken,       \* a missing or malformed Authorization header
  NoEntry,       \* a token the cache does not know
  Valid,         \* the age of a token that the API server accepts
  CacheTTL,      \* ticks a yes is remembered (5 minutes)
  HttpTimeout    \* ticks a call to the user API may take (10 seconds)

ASSUME TTLAssumption == CacheTTL \in Nat \ {0}
ASSUME TimeoutAssumption == HttpTimeout \in Nat \ {0}
ASSUME ModelValues == NoToken \notin Tokens /\ NoEntry \notin Int /\ Valid \notin Int

\* From this age on nothing depends on how old a refusal is.
Old == CacheTTL + HttpTimeout + 1

VARIABLES
  age,      \* API server: ticks since it accepts the token no more, or Valid
  cache,    \* TokenValidator.cache: ticks each yes is still good for, or NoEntry
  pc,       \* requests: where each is
  token,    \* requests: the bearer token
  left      \* requests: ticks until the call to the user API times out

request == <<pc, token, left>>
vars == <<age, cache, request>>

\* A token that was never issued is one that was refused all along.
Init == /\ age \in [Tokens -> {Valid, Old}]
        /\ cache = [t \in Tokens |-> NoEntry]
        /\ pc = [q \in Requests |-> "idle"]
        /\ token = [q \in Requests |-> NoToken]
        /\ left = [q \in Requests |-> 0]

\* A request gets to a place of the code with a token and time left.
At(q, place, t, n) == /\ pc' = [pc EXCEPT ![q] = place]
                      /\ token' = [token EXCEPT ![q] = t]
                      /\ left' = [left EXCEPT ![q] = n]

\* The request is over; a 401 if it did not get to its handler.
Done(q) == At(q, "idle", NoToken, 0)

-------------------------------------------------------------------------------
\* AuthMiddleware.  Health checks and the auth configuration are open (and so
\* is everything when authentication is off); any other path is served only
\* after ValidateToken said yes.
ArriveOpen(q) ==
  /\ pc[q] = "idle"
  /\ At(q, "open", NoToken, 0)
  /\ UNCHANGED <<age, cache>>

Arrive(q, t) ==
  /\ pc[q] = "idle"
  /\ IF t = NoToken THEN Done(q) ELSE At(q, "load", t, 0)
  /\ UNCHANGED <<age, cache>>

\* The handler is done.
Serve(q) ==
  /\ pc[q] \in {"admitted", "open"}
  /\ Done(q)
  /\ UNCHANGED <<age, cache>>

-------------------------------------------------------------------------------
\* ValidateToken.

Calling(q) == pc[q] \in {"wait", "yes", "no"}

\* The call to the user API starts.
Ask(q) == At(q, "wait", token[q], HttpTimeout)

LoadIgnoresDeadline(q) ==
  /\ pc[q] = "load"
  /\ IF cache[token[q]] # NoEntry THEN At(q, "admitted", token[q], 0) ELSE Ask(q)
  /\ UNCHANGED <<age, cache>>

\* cache.Load, and time.Now().Before(expiresAt).
Load(q) ==
  /\ pc[q] = "load"
  /\ \/ cache[token[q]] = NoEntry /\ Ask(q)
     \/ cache[token[q]] = 0 /\ At(q, "delete", token[q], 0)
     \/ cache[token[q]] \notin {NoEntry, 0} /\ At(q, "admitted", token[q], 0)
  /\ UNCHANGED <<age, cache>>

\* cache.Delete, of whatever is cached by now.
DeleteExpired(q) ==
  /\ pc[q] = "delete"
  /\ cache' = [cache EXCEPT ![token[q]] = NoEntry]
  /\ Ask(q)
  /\ UNCHANGED age

\* The API server answers 200, or 401 or 403; the answer is on its way.
Judge(q) ==
  /\ pc[q] = "wait"
  /\ At(q, IF age[token[q]] = Valid THEN "yes" ELSE "no", token[q], left[q])
  /\ UNCHANGED <<age, cache>>

StoreForTwiceAsLong(q) ==
  /\ pc[q] = "yes"
  /\ cache' = [cache EXCEPT ![token[q]] = 2 * CacheTTL]
  /\ At(q, "admitted", token[q], 0)
  /\ UNCHANGED age

\* A yes is remembered, counted from when it arrived.
Store(q) ==
  /\ pc[q] = "yes"
  /\ cache' = [cache EXCEPT ![token[q]] = CacheTTL]
  /\ At(q, "admitted", token[q], 0)
  /\ UNCHANGED age

\* A no is not remembered.
Rejected(q) ==
  /\ pc[q] = "no"
  /\ Done(q)
  /\ UNCHANGED <<age, cache>>

\* No connection, another status, or a body that cannot be decoded: 401 too.
Fails(q) ==
  /\ Calling(q)
  /\ Done(q)
  /\ UNCHANGED <<age, cache>>

TimeoutOfTheBodyOnly(q) ==
  /\ pc[q] \in {"yes", "no"} /\ left[q] = 0
  /\ Done(q)
  /\ UNCHANGED <<age, cache>>

\* http.Client's Timeout, which includes reading the body.
Timeout(q) ==
  /\ Calling(q) /\ left[q] = 0
  /\ Done(q)
  /\ UNCHANGED <<age, cache>>

-------------------------------------------------------------------------------
\* The API server accepts a token no more: it expired, or its owner logged out.
Revoke(t) ==
  /\ age[t] = Valid
  /\ age' = [age EXCEPT ![t] = 0]
  /\ UNCHANGED <<cache, request>>

\* No call outlives its timeout.
Tick ==
  /\ \A q \in Requests : Calling(q) => left[q] > 0
  /\ age' = [t \in Tokens |-> IF age[t] \in {Valid, Old} THEN age[t] ELSE age[t] + 1]
  /\ cache' = [t \in Tokens |-> IF cache[t] \in {NoEntry, 0} THEN cache[t] ELSE cache[t] - 1]
  /\ left' = [q \in Requests |-> IF Calling(q) THEN left[q] - 1 ELSE left[q]]
  /\ UNCHANGED <<pc, token>>

Validate(q) == Load(q) \/ DeleteExpired(q) \/ Store(q) \/ Rejected(q)

Next == \/ \E q \in Requests, t \in Tokens \cup {NoToken} : Arrive(q, t)
        \/ \E q \in Requests : \/ ArriveOpen(q) \/ Validate(q) \/ Serve(q)
                               \/ Judge(q) \/ Fails(q) \/ Timeout(q)
        \/ \E t \in Tokens : Revoke(t)
        \/ Tick

Spec == Init /\ [][Next]_vars

\* Goroutines run, timers fire and time passes; the API server may be silent.
FairSpec == /\ Spec
            /\ \A q \in Requests : WF_vars(Validate(q)) /\ WF_vars(Timeout(q))
            /\ WF_vars(Tick)

-------------------------------------------------------------------------------
(* Type correctness.                                                       *)
TypeOK ==
  /\ age \in [Tokens -> (0 .. Old) \cup {Valid}]
  /\ cache \in [Tokens -> (0 .. CacheTTL) \cup {NoEntry}]
  /\ pc \in [Requests -> {"idle", "open", "load", "delete", "wait", "yes", "no", "admitted"}]
  /\ left \in [Requests -> 0 .. HttpTimeout]
  /\ token \in [Requests -> Tokens \cup {NoToken}]
  /\ \A q \in Requests : pc[q] \in {"idle", "open"} <=> token[q] = NoToken

(* A refusal takes effect everywhere: a guarded request is let through     *)
(* only if its token is good or was so less than one cache lifetime and    *)
(* one call ago, however the validations of one token overlap; a token     *)
(* that was never issued is never let through.                             *)
RevocationTakesEffect ==
  [][\A q \in Requests : pc[q] # "admitted" /\ pc'[q] = "admitted" =>
       age[token[q]] = Valid \/ age[token[q]] < CacheTTL + HttpTimeout]_vars

(* Every request gets its answer or reaches its handler, even when the     *)
(* user API never replies.                                                 *)
ValidationEnds ==
  \A q \in Requests : pc[q] \in {"load", "delete", "wait", "yes", "no"}
                        ~> pc[q] \in {"idle", "admitted"}
===============================================================================

------------------------------- MODULE TTLCache -------------------------------
(***************************************************************************)
(* The in-memory cache of pkg/cache/cache.go.  Every method runs under the *)
(* cache's RWMutex from its first to its last line, so a method is one     *)
(* atomic action; time.Now() is read inside the critical section.  An      *)
(* entry past its deadline stays in the map until the sweeper, or a Set or *)
(* a Delete of its key, removes it: Get must hide it meanwhile.            *)
(***************************************************************************)
EXTENDS Integers

CONSTANTS
  CacheKeys, \* cache keys ("hubs:list", "hub:<name>")
  Values,    \* payloads
  TTL,       \* Cache.ttl (30 minutes in cmd/server/main.go)
  MaxTime,   \* bound: the clock stops here
  Absent     \* an absent key, or Get's (nil, false)

CacheEntry == [data : Values, expiresAt : Int]

ASSUME TTLAssumption == TTL \in Nat
ASSUME MaxTimeAssumption == MaxTime \in Nat
ASSUME AbsentAssumption == Absent \notin CacheEntry

VARIABLES
  now,       \* time.Now()
  items,     \* Cache.items; an absent key maps to Absent
  got        \* what the last Get returned

cacheVars == <<now, items, got>>

\* now.After(entry.ExpiresAt), the test of both Get and the sweeper.
ExpiredIsInclusive(e) == now >= e.expiresAt
Expired(e) == now > e.expiresAt

NewCache == /\ now = 0
            /\ items = [k \in CacheKeys |-> Absent]
            /\ got = Absent

Get(k) ==
  /\ got' = IF items[k] # Absent /\ ~Expired(items[k]) THEN items[k] ELSE Absent
  /\ UNCHANGED <<now, items>>

SetTwiceTheTTL(k, v) ==
  /\ items' = [items EXCEPT ![k] = [data |-> v, expiresAt |-> now + 2 * TTL]]
  /\ UNCHANGED <<now, got>>

Set(k, v) ==
  /\ items' = [items EXCEPT ![k] = [data |-> v, expiresAt |-> now + TTL]]
  /\ UNCHANGED <<now, got>>

Delete(k) ==
  /\ items' = [items EXCEPT ![k] = Absent]
  /\ UNCHANGED <<now, got>>

Clear ==
  /\ items' = [k \in CacheKeys |-> Absent]
  /\ UNCHANGED <<now, got>>

Dead(k) == items[k] # Absent /\ Expired(items[k])

CleanupOfOneKey ==
  LET victim == CHOOSE k \in CacheKeys : TRUE
  IN /\ Dead(victim)
     /\ items' = [items EXCEPT ![victim] = Absent]
     /\ UNCHANGED <<now, got>>

\* One tick of the sweeper goroutine: one pass over the whole map.
Cleanup ==
  /\ \E k \in CacheKeys : Dead(k)
  /\ items' = [k \in CacheKeys |-> IF Dead(k) THEN Absent ELSE items[k]]
  /\ UNCHANGED <<now, got>>

Tick == /\ now < MaxTime
        /\ now' = now + 1
        /\ UNCHANGED <<items, got>>

CacheNext == \/ \E k \in CacheKeys : Get(k) \/ Delete(k)
             \/ \E k \in CacheKeys, v \in Values : Set(k, v)
             \/ Clear
             \/ Cleanup
             \/ Tick

CacheSpec == NewCache /\ [][CacheNext]_cacheVars

\* The sweeper runs on a ticker for as long as the process lives.
FairCacheSpec == CacheSpec /\ WF_cacheVars(Cleanup)

-------------------------------------------------------------------------------
(* Type correctness: the clock stays within its bound, the map holds well- *)
(* formed entries, none with a deadline further away than one lifetime     *)
(* (what Set writes), and Get answers with an entry or a miss.             *)
CacheTypeOK ==
  /\ now \in 0 .. MaxTime
  /\ items \in [CacheKeys -> CacheEntry \cup {Absent}]
  /\ \A k \in CacheKeys : items[k] # Absent => items[k].expiresAt \in 0 .. now + TTL
  /\ got \in CacheEntry \cup {Absent}

\* The entries a caller can see.
Live == [k \in CacheKeys |-> IF items[k] # Absent /\ ~Expired(items[k])
                          THEN items[k] ELSE Absent]

Map == INSTANCE TTLMap WITH live <- Live, Keys <- CacheKeys, NoEntry <- Absent

(* The cache, with its lazy expiry and its sweeper, is a map whose entries *)
(* vanish exactly at their deadline: no interleaving of the sweeper with   *)
(* Set, Get, Delete and Clear can serve a dead entry, take a live one away *)
(* or shorten the lifetime of one that was set again.                      *)
IsTTLMap == Map!Spec

(* No dead entry stays in memory: keys that nobody asks for any more (the  *)
(* hub:<name> of a hub that was removed) do not pile up.                   *)
DeadAreSwept == \A k \in CacheKeys : Dead(k) ~> ~Dead(k)
===============================================================================

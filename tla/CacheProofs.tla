------------------------------ MODULE CacheProofs ------------------------------
(***************************************************************************)
(* The response cache, for every set of keys and payloads, every lifetime  *)
(* and every bound on the clock: it is well typed, and it implements       *)
(* TTLMap.  The handlers over it, for every number of replicas, hubs,      *)
(* concurrent requests and writes: FleetCache is well typed, flushes what  *)
(* it answers for, its successes are true, and what it shows is true but   *)
(* for the reasons that StaleHasACause names.                              *)
(***************************************************************************)
EXTENDS FleetCache, TTLCache, TLAPS

(* An entry's fields, and Absent's not being one: what every proof below  *)
(* needs to know of the map's values.                                      *)
LEMMA EntryFields ==
  ASSUME NEW e \in CacheEntry
  PROVE  e.data \in Values /\ e.expiresAt \in Int /\ e # Absent
  BY AbsentAssumption DEF CacheEntry

(* Set writes an entry.                                                    *)
LEMMA NewEntry ==
  ASSUME NEW v \in Values, NEW n \in Int
  PROVE  [data |-> v, expiresAt |-> n] \in CacheEntry
  BY DEF CacheEntry

(* The cache is well typed, and no deadline is further away than one       *)
(* lifetime (cache.go: Set, Get and the sweeper).                          *)
THEOREM CacheTypeCorrect == CacheSpec => []CacheTypeOK
<1>1. NewCache => CacheTypeOK
  BY MaxTimeAssumption DEF NewCache, CacheTypeOK
<1>2. CacheTypeOK /\ [CacheNext]_cacheVars => CacheTypeOK'
  <2> SUFFICES ASSUME CacheTypeOK, [CacheNext]_cacheVars PROVE CacheTypeOK'
    OBVIOUS
  <2> USE TTLAssumption, MaxTimeAssumption, EntryFields
  <2>1. ASSUME NEW k \in CacheKeys, Get(k) PROVE CacheTypeOK'
    BY <2>1 DEF CacheTypeOK, Get
  <2>2. ASSUME NEW k \in CacheKeys, Delete(k) PROVE CacheTypeOK'
    BY <2>2 DEF CacheTypeOK, Delete
  <2>3. ASSUME NEW k \in CacheKeys, NEW v \in Values, Set(k, v) PROVE CacheTypeOK'
    <3>1. now + TTL \in 0 .. now' + TTL /\ now + TTL \in Int
      BY <2>3 DEF CacheTypeOK, Set
    <3>2. [data |-> v, expiresAt |-> now + TTL] \in CacheEntry
      BY <3>1, NewEntry
    <3> QED
      BY <2>3, <3>1, <3>2 DEF CacheTypeOK, Set
  <2>4. CASE Clear
    BY <2>4 DEF CacheTypeOK, Clear
  <2>5. CASE Cleanup
    BY <2>5 DEF CacheTypeOK, Cleanup
  <2>6. CASE Tick
    BY <2>6 DEF CacheTypeOK, Tick
  <2>7. CASE UNCHANGED cacheVars
    BY <2>7 DEF CacheTypeOK, cacheVars
  <2> QED
    BY <2>1, <2>2, <2>3, <2>4, <2>5, <2>6, <2>7 DEF CacheNext
<1> QED
  BY <1>1, <1>2, PTL DEF CacheSpec

(* What a caller can see of one key.                                       *)
LEMMA LiveAt ==
  ASSUME NEW k \in CacheKeys
  PROVE  Live[k] = IF items[k] # Absent /\ ~Expired(items[k])
                     THEN items[k] ELSE Absent
  BY DEF Live

(* Every behaviour of the cache is a behaviour of TTLMap: expiry is        *)
(* exact, and the sweeper is invisible.                                    *)
THEOREM ImplementsTTLMap == CacheSpec => IsTTLMap
<1>1. NewCache => Map!Init
  BY DEF NewCache, Map!Init, Live
<1>2. CacheTypeOK /\ [CacheNext]_cacheVars => [Map!Next]_(Map!vars)
  <2> SUFFICES ASSUME CacheTypeOK, [CacheNext]_cacheVars PROVE [Map!Next]_(Map!vars)
    OBVIOUS
  <2> USE TTLAssumption, EntryFields
  <2>1. ASSUME NEW k \in CacheKeys, Get(k) PROVE Map!Read(k)
    BY <2>1 DEF CacheTypeOK, Get, Live, Expired, Map!Read
  <2>2. ASSUME NEW k \in CacheKeys, Delete(k) PROVE Map!Drop(k)
    BY <2>2 DEF CacheTypeOK, Delete, Live, Expired, Map!Drop
  <2>3. ASSUME NEW k \in CacheKeys, NEW v \in Values, Set(k, v) PROVE Map!Put(k, v)
    <3> DEFINE e == [data |-> v, expiresAt |-> now + TTL]
    <3>1. e \in CacheEntry /\ ~Expired(e)
      BY NewEntry DEF CacheTypeOK, Expired
    <3>2. e # Absent
      BY <3>1
    <3>3. items' = [items EXCEPT ![k] = e] /\ now' = now /\ got' = got
      BY <2>3 DEF Set
    <3> HIDE DEF e
    <3>4. Live' = [Live EXCEPT ![k] = e]
      BY <3>1, <3>2, <3>3 DEF CacheTypeOK, Live, Expired
    <3> QED
      BY <3>3, <3>4 DEF Map!Put, e
  <2>4. ASSUME Clear PROVE Map!DropAll
    BY <2>4 DEF Clear, Live, Map!DropAll
  <2>5. ASSUME Cleanup PROVE UNCHANGED Map!vars
    BY <2>5 DEF CacheTypeOK, Cleanup, Live, Dead, Expired, Map!vars
  <2>6. ASSUME Tick PROVE Map!Pass
    BY <2>6 DEF CacheTypeOK, Tick, Live, Expired, Map!Pass
  <2>7. ASSUME UNCHANGED cacheVars PROVE UNCHANGED Map!vars
    BY <2>7 DEF cacheVars, Live, Expired, Map!vars
  <2> QED
    BY <2>1, <2>2, <2>3, <2>4, <2>5, <2>6, <2>7 DEF CacheNext, Map!Next
<1> QED
  BY <1>1, <1>2, CacheTypeCorrect, PTL DEF CacheSpec, IsTTLMap, Map!Spec

-------------------------------------------------------------------------------
\* Which kinds of request pass through which points of the code, and where the
\* API server is waited for.
KindOK(i) ==
  /\ i.pc \in {"create", "update"} => i.kind = "add"
  /\ i.pc = "delete" => i.kind = "remove"
  /\ i.pc = "flushHub" => i.kind \in {"remove", "refresh"}
  /\ i.pc \in {"flushList", "answer"} => i.kind \in {"add", "remove", "refresh"}
  /\ i.pc \in {"connect", "spokes"} => i.kind = "get"
  /\ i.gone => i.pc \in {"create", "update", "delete"}

\* Past the write.
Flushing(i) == i.pc \in {"flushList", "flushHub", "answer"}

\* The key k was flushed by the request already.
HasFlushed(i, k) == Flushing(i) /\ k \in Flushes(i) /\ k \notin ToFlush(i)

\* What keeps FlushedBeforeAck true: a request that flushed a key has removed
\* whatever was stored before its own write.
FlushInv ==
  /\ \A q \in Requests, k \in Keys :
       HasFlushed(req[q], k) /\ cache[req[q].at][k] # NoEntry
         => cache[req[q].at][k].storedAt >= req[q].wrote
  /\ FlushedBeforeAck

Writer(i) == i.kind \in {"add", "remove"}

\* What keeps SettledIsTrue true: until another write of the hub's Secret, a
\* writer finds it as it left it.
WriterInv ==
  /\ \A q \in Requests :
       /\ Writer(req[q]) /\ Flushing(req[q]) /\ touched[req[q].hub] <= req[q].wrote
       => (secret[req[q].hub] # 0 <=> req[q].kind = "add")
  /\ SettledIsTrue

\* What keeps StaleHasACause true: a request that has read what nobody has
\* written since holds the truth.
CauseInv ==
  /\ \A q \in Requests :
       /\ req[q].pc \in {"connect", "spokes", "store"}
       /\ ~req[q].degraded /\ req[q].readAt = writes
       => req[q].seen = Truth(KeyOf(req[q]))
  /\ StaleHasACause

Kinded == \A q \in Requests : KindOK(req[q])

-------------------------------------------------------------------------------
(* A free goroutine is a request that does nothing.                        *)
LEMMA FreeRequest ==
  /\ Free \in Request
  /\ Free.pc = "idle" /\ Free.kind = "list" /\ ~Free.gone /\ ~Free.degraded
  /\ Free.wrote = 0 /\ Free.readAt = 0 /\ Free.seen = Nothing
  /\ Free.hub \in Hubs /\ Free.at \in Replicas /\ KindOK(Free)
<1>1. (CHOOSE h \in Hubs : TRUE) \in Hubs
  BY SomeHub
<1>2. (CHOOSE r \in Replicas : TRUE) \in Replicas
  BY SomeReplica
<1>3. Nothing \in Snapshot
  BY DEF Nothing, Snapshot
<1> QED
  BY <1>1, <1>2, <1>3 DEF Free, Request, PCs, Kinds, KindOK

(* What a request shows of a single hub is a snapshot.                     *)
LEMMA OnlySnapshot ==
  ASSUME NEW h \in Hubs, NEW n \in Nat
  PROVE  Only(h, n) \in Snapshot /\ \A g \in Hubs : Only(h, n)[g] \in {0, n}
BY DEF Only, Nothing, Snapshot

(* The fields of a request.                                                *)
LEMMA RequestFields ==
  ASSUME NEW i \in Request
  PROVE  /\ i.pc \in PCs /\ i.kind \in Kinds /\ i.at \in Replicas /\ i.hub \in Hubs
         /\ i.gone \in BOOLEAN /\ i.seen \in Snapshot /\ i.readAt \in Nat
         /\ i.degraded \in BOOLEAN /\ i.wrote \in Nat
         /\ i.hub \in Keys /\ KeyOf(i) \in Keys
BY DEF Request, KeyOf, Keys

(* A request that begins: its fields, and that it is one.                  *)
LEMMA NewRequest ==
  ASSUME NEW pc \in PCs, NEW kind \in Kinds, NEW r \in Replicas, NEW h \in Hubs,
         NEW n \in Nat, NEW i, i \in {New(pc, kind, r, h), [New(pc, kind, r, h) EXCEPT !.wrote = n]}
  PROVE  /\ i \in Request
         /\ i.pc = pc /\ i.kind = kind /\ i.at = r /\ i.hub = h
         /\ ~i.gone /\ ~i.degraded /\ i.readAt = 0 /\ i.seen = Nothing
         /\ i.wrote \in {0, n}
         /\ i = [New(pc, kind, r, h) EXCEPT !.wrote = n] => i.wrote = n
BY FreeRequest DEF New, Request

(* The ways a request's record changes keep it a request.                  *)
LEMMA RequestUpdates ==
  ASSUME NEW i \in Request, NEW pc \in PCs, NEW s \in Snapshot, NEW n \in Nat
  PROVE  /\ [i EXCEPT !.pc = pc] \in Request
         /\ [i EXCEPT !.gone = TRUE] \in Request
         /\ [i EXCEPT !.pc = pc, !.degraded = TRUE] \in Request
         /\ [i EXCEPT !.pc = pc, !.seen = s] \in Request
         /\ [i EXCEPT !.pc = pc, !.seen = s, !.readAt = n] \in Request
         /\ [i EXCEPT !.pc = pc, !.readAt = n, !.seen = s] \in Request
         /\ [i EXCEPT !.pc = pc, !.wrote = n] \in Request
BY DEF Request

(* A snapshot stored at a moment is a cache entry.                         *)
LEMMA StoredEntry ==
  ASSUME NEW d \in Snapshot, NEW m \in Nat, NEW n \in Nat, NEW b \in BOOLEAN
  PROVE  /\ [data |-> d, readAt |-> m, storedAt |-> n, degraded |-> b] \in Entry
         /\ [data |-> d, readAt |-> m, storedAt |-> n, degraded |-> b] # NoEntry
BY NoEntryIsNoEntry DEF Entry

\* The replica of i takes care of the key k when i writes.
Heeds(i, r, k) == r = i.at /\ k \in Flushes(i) /\ ~i.gone

(* What a write of the API server does to the state, point by point.       *)
LEMMA WriteEffect ==
  ASSUME Typed, NEW q \in Requests, NEW n \in {0, writes + 1}, Write(q, n)
  PROVE  /\ secret' \in Snapshot /\ writes' \in Nat /\ writes' = writes + 1
         /\ touched' \in [Hubs -> Nat] /\ unheeded' \in [Replicas -> [Keys -> Nat]]
         /\ settled' \in [Hubs -> {"open", "present", "absent"}]
         /\ secret'[req[q].hub] = n /\ touched'[req[q].hub] = writes + 1
         /\ settled'[req[q].hub] = "open"
         /\ \A h \in Hubs \ {req[q].hub} :
              secret'[h] = secret[h] /\ touched'[h] = touched[h] /\ settled'[h] = settled[h]
         /\ \A r \in Replicas, k \in Keys :
              unheeded'[r][k] = IF k \in {List, req[q].hub} /\ ~Heeds(req[q], r, k)
                                  THEN writes + 1 ELSE unheeded[r][k]
<1>1. req[q].hub \in Hubs /\ writes + 1 \in Nat /\ n \in Nat
  BY RequestFields DEF Typed
<1>2. /\ secret' = [secret EXCEPT ![req[q].hub] = n]
      /\ writes' = writes + 1
      /\ touched' = [touched EXCEPT ![req[q].hub] = writes + 1]
      /\ settled' = [settled EXCEPT ![req[q].hub] = "open"]
      /\ unheeded' = [r \in Replicas |-> [k \in Keys |->
                       IF k \in {List, req[q].hub} /\ ~Heeds(req[q], r, k)
                         THEN writes + 1 ELSE unheeded[r][k]]]
  BY DEF Write, Heeds
<1>3. unheeded' \in [Replicas -> [Keys -> Nat]]
  BY <1>1, <1>2 DEF Typed
<1> QED
  BY <1>1, <1>2, <1>3 DEF Typed, Snapshot

\* The steps of a request that calls the API server to write.
WriteStep(q) == CreateSecret(q) \/ UpdateSecret(q) \/ DeleteSecret(q) \/ LateWrite(q)

(* Such a step writes, and is then past the write or was gone; or writes   *)
(* nothing, and ends, or goes on to the Update, or has deleted what was    *)
(* not there.                                                              *)
LEMMA WriteSteps ==
  ASSUME Typed, Kinded, NEW q \in Requests, WriteStep(q)
  PROVE  /\ UNCHANGED <<cache, calls, acked>> /\ req[q].pc \in {"create", "update", "delete"}
         /\ \/ /\ \E n \in {0, writes + 1} :
                     Write(q, n) /\ (n # 0 <=> req[q].kind = "add")
               /\ \/ req' = [req EXCEPT ![q] = Free] /\ req[q].gone
                  \/ /\ req' = [req EXCEPT ![q].pc = "flushList", ![q].wrote = writes + 1]
                     /\ ~req[q].gone
            \/ /\ UNCHANGED <<api, settled>>
               /\ \/ req' = [req EXCEPT ![q] = Free]
                  \/ /\ req' = [req EXCEPT ![q].pc = "update"]
                     /\ req[q].pc = "create" /\ ~req[q].gone
                  \/ /\ req' = [req EXCEPT ![q].pc = "flushList", ![q].wrote = writes]
                     /\ req[q].kind = "remove" /\ secret[req[q].hub] = 0 /\ ~req[q].gone
<1>1. KindOK(req[q]) /\ writes + 1 # 0
  BY DEF Kinded, Typed
<1>2. CASE CreateSecret(q)
  BY <1>1, <1>2 DEF CreateSecret, At, Goto, Wrote, KindOK
<1>3. CASE UpdateSecret(q)
  BY <1>1, <1>3 DEF UpdateSecret, At, End, Wrote, KindOK
<1>4. CASE DeleteSecret(q)
  BY <1>1, <1>4 DEF DeleteSecret, At, Wrote, KindOK
<1>5. CASE LateWrite(q)
  BY <1>1, <1>5 DEF LateWrite, End, KindOK
<1> QED
  BY <1>2, <1>3, <1>4, <1>5 DEF WriteStep

\* What a request is about does not change.
Same(i, j) == /\ i.at = j.at /\ i.hub = j.hub /\ i.kind = j.kind
              /\ i.seen = j.seen /\ i.readAt = j.readAt /\ i.gone = j.gone

(* The same of the request itself: it ends, goes on to the Update, or is   *)
(* past the write, its own or the last there has been.                     *)
LEMMA WriteMoves ==
  ASSUME Typed, Kinded, NEW q \in Requests, WriteStep(q)
  PROVE  \E i \in Request :
           /\ req' = [req EXCEPT ![q] = i] /\ KindOK(i)
           /\ \/ i = Free
              \/ /\ Same(i, req[q]) /\ ~i.gone /\ i.pc = "update" /\ i.wrote = req[q].wrote
                 /\ UNCHANGED <<api, settled>>
              \/ /\ Same(i, req[q]) /\ ~i.gone /\ i.pc = "flushList" /\ i.wrote = writes'
           /\ \/ /\ UNCHANGED <<api, settled>>
                 /\ i.pc = "flushList" => req[q].kind = "remove" /\ secret[req[q].hub] = 0
              \/ /\ (i = Free /\ req[q].gone) \/ i.pc = "flushList"
                 /\ \E n \in {0, writes + 1} : Write(q, n) /\ (n # 0 <=> req[q].kind = "add")
<1> DEFINE j == req[q]
           u == [j EXCEPT !.pc = "update"]
           f(n) == [j EXCEPT !.pc = "flushList", !.wrote = n]
<1>1. j \in Request /\ KindOK(j) /\ writes \in Nat /\ writes + 1 \in Nat
  BY DEF Typed, Kinded
<1>2. u \in Request /\ u.pc = "update" /\ u.wrote = j.wrote /\ Same(u, j)
  BY <1>1 DEF Request, PCs, Same
<1>3. ASSUME NEW n \in Nat
      PROVE  f(n) \in Request /\ f(n).pc = "flushList" /\ f(n).wrote = n /\ Same(f(n), j)
  BY <1>1 DEF Request, PCs, Same
<1>4. j.pc \in {"create", "update", "delete"} /\ j.kind \in {"add", "remove"}
  BY <1>1, WriteSteps DEF KindOK
<1>5. j.pc = "create" /\ ~j.gone => KindOK(u) /\ ~u.gone
  BY <1>1, <1>2 DEF KindOK, Same
<1>6. ASSUME NEW n \in Nat, ~j.gone PROVE KindOK(f(n)) /\ ~f(n).gone
  BY <1>1, <1>3, <1>4, <1>6 DEF KindOK, Same
<1>7. CASE \E n \in {0, writes + 1} : Write(q, n)
  <2>1. writes' = writes + 1
    BY <1>7, WriteEffect
  <2>2. /\ \E n \in {0, writes + 1} : Write(q, n) /\ (n # 0 <=> j.kind = "add")
        /\ \/ req' = [req EXCEPT ![q] = Free] /\ j.gone
           \/ req' = [req EXCEPT ![q] = f(writes + 1)] /\ ~j.gone
    <3>1. ~ UNCHANGED <<api, settled>>
      BY <1>1, <2>1 DEF api
    <3> QED
      BY <3>1, WriteSteps
  <2>3. CASE req' = [req EXCEPT ![q] = Free] /\ j.gone
    BY <2>2, <2>3, FreeRequest
  <2>4. CASE req' = [req EXCEPT ![q] = f(writes + 1)] /\ ~j.gone
    <3>1. f(writes + 1) \in Request /\ KindOK(f(writes + 1)) /\ ~f(writes + 1).gone
          /\ f(writes + 1).pc = "flushList" /\ f(writes + 1).wrote = writes' /\ Same(f(writes + 1), j)
      BY <1>1, <1>3, <1>6, <2>1, <2>4
    <3> HIDE DEF f
    <3> QED
      BY <2>2, <2>4, <3>1
  <2> QED
    BY <2>2, <2>3, <2>4
<1>8. CASE UNCHANGED <<api, settled>>
  <2>1. writes' = writes
    BY <1>8 DEF api
  <2>2. \/ req' = [req EXCEPT ![q] = Free]
        \/ req' = [req EXCEPT ![q] = u] /\ j.pc = "create" /\ ~j.gone
        \/ /\ req' = [req EXCEPT ![q] = f(writes)]
           /\ j.kind = "remove" /\ secret[j.hub] = 0 /\ ~j.gone
    <3>1. ~ \E n \in {0, writes + 1} : Write(q, n)
      BY <1>1, <2>1, WriteEffect
    <3> QED
      BY <3>1, WriteSteps
  <2>3. CASE req' = [req EXCEPT ![q] = Free]
    BY <1>8, <2>3, FreeRequest
  <2>4. CASE req' = [req EXCEPT ![q] = u] /\ j.pc = "create" /\ ~j.gone
    BY <1>2, <1>5, <1>8, <2>4
  <2>5. CASE /\ req' = [req EXCEPT ![q] = f(writes)]
             /\ j.kind = "remove" /\ secret[j.hub] = 0 /\ ~j.gone
    <3>1. f(writes) \in Request /\ KindOK(f(writes)) /\ ~f(writes).gone
          /\ f(writes).pc = "flushList" /\ f(writes).wrote = writes' /\ Same(f(writes), j)
      BY <1>1, <1>3, <1>6, <2>1, <2>5
    <3> HIDE DEF f
    <3> QED
      BY <1>8, <2>5, <3>1
  <2> QED
    BY <2>2, <2>3, <2>4, <2>5
<1> QED
  BY <1>7, <1>8, WriteSteps

\* A request begins.
Begins(q, r, h) == \/ ListHubs(q, r) \/ GetHub(q, r, h) \/ AddHub(q, r, h)
                   \/ RemoveHub(q, r, h) \/ RefreshHubCache(q, r, h)

\* It has read nothing, and stands at the first step of its kind.
Fresh(i) == /\ i \in Request /\ KindOK(i)
            /\ i.pc \in {"fetch", "create", "delete", "flushHub"}
            /\ i.pc = "flushHub" <=> i.kind = "refresh"
            /\ ~i.gone /\ ~i.degraded /\ i.readAt = 0 /\ i.seen = Nothing
            /\ i.wrote \in {0, writes}

(* How requests begin.                                                     *)
LEMMA BeginSteps ==
  ASSUME Typed, NEW q \in Requests, NEW r \in Replicas, NEW h \in Hubs, Begins(q, r, h)
  PROVE  \E i : Begin(q, i) /\ Fresh(i)
<1> DEFINE ways == {<<"fetch", "list">>, <<"fetch", "get">>, <<"create", "add">>,
                    <<"delete", "remove">>, <<"flushHub", "refresh">>}
<1>1. ASSUME NEW way \in ways, NEW g \in Hubs, NEW i,
             i \in {New(way[1], way[2], r, g), [New(way[1], way[2], r, g) EXCEPT !.wrote = writes]}
      PROVE  Fresh(i)
  <2>1. way[1] \in PCs /\ way[2] \in Kinds /\ writes \in Nat
    BY DEF PCs, Kinds, Typed
  <2>2. /\ i \in Request /\ i.pc = way[1] /\ i.kind = way[2]
        /\ ~i.gone /\ ~i.degraded /\ i.readAt = 0 /\ i.seen = Nothing
        /\ i.wrote \in {0, writes}
    BY <1>1, <2>1, NewRequest
  <2> QED
    BY <2>2 DEF Fresh, KindOK
<1>2. Free.hub \in Hubs
  BY FreeRequest
<1>3. CASE ListHubs(q, r)
  <2>1. Begin(q, New("fetch", "list", r, Free.hub))
    BY <1>3 DEF ListHubs
  <2>2. <<"fetch", "list">> \in ways /\ <<"fetch", "list">>[1] = "fetch" /\ <<"fetch", "list">>[2] = "list"
    OBVIOUS
  <2>3. Fresh(New("fetch", "list", r, Free.hub))
    BY <1>1, <1>2, <2>2
  <2> QED
    BY <2>1, <2>3
<1>4. CASE GetHub(q, r, h)
  <2>1. Begin(q, New("fetch", "get", r, h))
    BY <1>4 DEF GetHub
  <2>2. <<"fetch", "get">> \in ways /\ <<"fetch", "get">>[1] = "fetch" /\ <<"fetch", "get">>[2] = "get"
    OBVIOUS
  <2>3. Fresh(New("fetch", "get", r, h))
    BY <1>1, <2>2
  <2> QED
    BY <2>1, <2>3
<1>5. CASE AddHub(q, r, h)
  <2>1. Begin(q, New("create", "add", r, h))
    BY <1>5 DEF AddHub
  <2>2. <<"create", "add">> \in ways /\ <<"create", "add">>[1] = "create" /\ <<"create", "add">>[2] = "add"
    OBVIOUS
  <2>3. Fresh(New("create", "add", r, h))
    BY <1>1, <2>2
  <2> QED
    BY <2>1, <2>3
<1>6. CASE RemoveHub(q, r, h)
  <2>1. Begin(q, New("delete", "remove", r, h))
    BY <1>6 DEF RemoveHub
  <2>2. <<"delete", "remove">> \in ways /\ <<"delete", "remove">>[1] = "delete" /\ <<"delete", "remove">>[2] = "remove"
    OBVIOUS
  <2>3. Fresh(New("delete", "remove", r, h))
    BY <1>1, <2>2
  <2> QED
    BY <2>1, <2>3
<1>7. CASE RefreshHubCache(q, r, h)
  <2>1. Begin(q, [New("flushHub", "refresh", r, h) EXCEPT !.wrote = writes])
    BY <1>7 DEF RefreshHubCache
  <2>2. <<"flushHub", "refresh">> \in ways /\ <<"flushHub", "refresh">>[1] = "flushHub" /\ <<"flushHub", "refresh">>[2] = "refresh"
    OBVIOUS
  <2>3. Fresh([New("flushHub", "refresh", r, h) EXCEPT !.wrote = writes])
    BY <1>1, <2>2
  <2> QED
    BY <2>1, <2>3
<1> QED
  BY <1>3, <1>4, <1>5, <1>6, <1>7 DEF Begins

\* The steps of a request that reads.
ReadStep(q) == \/ GetManagedHubs(q) \/ GetManagedHubsDegraded(q)
               \/ GetManagedHub(q) \/ ConnectHub(q) \/ GetSpokes(q)

\* What i shows after a read, j before it: i passed an error over, or reads for
\* the first time, or again, or keeps what it has.
Reads(i, j) ==
  \/ i.degraded /\ i.readAt = j.readAt /\ i.seen = j.seen
  \/ i.readAt = writes /\ i.seen = Truth(KeyOf(i))
  \/ /\ i.readAt = j.readAt /\ i.degraded = j.degraded
     /\ i.seen = Truth(KeyOf(i)) \/ i.seen = j.seen
     /\ j.pc \in {"connect", "spokes"} /\ KeyOf(i) = KeyOf(j)

(* What a read does: the request has it afterwards, and nothing else       *)
(* changes.                                                                *)
LEMMA ReadSteps ==
  ASSUME Typed, Kinded, NEW q \in Requests, ReadStep(q)
  PROVE  /\ UNCHANGED <<api, cache, calls, acked, settled>>
         /\ \E i \in Request :
              /\ req' = [req EXCEPT ![q] = i] /\ KindOK(i)
              /\ i.pc \in {"connect", "spokes", "store"} /\ ~Writer(i)
              /\ i.wrote = req[q].wrote /\ Reads(i, req[q])
<1> DEFINE j == req[q]
<1>f. /\ j \in Request /\ KindOK(j) /\ secret \in Snapshot /\ writes \in Nat /\ j.hub \in Hubs
      /\ secret[j.hub] \in Nat /\ Only(j.hub, secret[j.hub]) \in Snapshot
  <2>1. j \in Request /\ KindOK(j) /\ secret \in Snapshot /\ writes \in Nat
    BY DEF Typed, Kinded
  <2>2. j.hub \in Hubs /\ secret[j.hub] \in Nat
    BY <2>1, RequestFields DEF Snapshot
  <2> QED
    BY <2>1, <2>2, OnlySnapshot
<1>k. j.kind = "get" => KeyOf(j) = j.hub /\ Truth(j.hub) = Only(j.hub, secret[j.hub])
  BY <1>f, ListIsNoHub DEF KeyOf, Truth
<1>1. UNCHANGED <<api, cache, calls, acked, settled>>
  BY DEF ReadStep, GetManagedHubs, GetManagedHubsDegraded, GetManagedHub, ConnectHub, GetSpokes
<1> DEFINE Done(i) == /\ i \in Request /\ req' = [req EXCEPT ![q] = i] /\ KindOK(i)
                      /\ i.pc \in {"connect", "spokes", "store"} /\ ~Writer(i)
                      /\ i.wrote = j.wrote /\ Reads(i, j)
<1>2. CASE GetManagedHubs(q)
  <2> DEFINE i == [j EXCEPT !.pc = "store", !.seen = secret, !.readAt = writes]
  <2>1. i \in Request
    BY <1>f, RequestUpdates DEF PCs
  <2>2. req' = [req EXCEPT ![q] = i] /\ j.kind = "list" /\ j.pc = "fetch"
    BY <1>2 DEF GetManagedHubs
  <2>3. /\ i.pc = "store" /\ i.kind = "list" /\ i.seen = secret /\ i.readAt = writes
        /\ i.wrote = j.wrote /\ i.gone = j.gone
    BY <1>f, <2>2 DEF Request
  <2>4. Done(i)
    BY <1>f, <2>1, <2>2, <2>3 DEF KindOK, Writer, Reads, Truth, KeyOf
  <2> QED
    BY <1>1, <2>4
<1>3. CASE GetManagedHubsDegraded(q)
  <2> DEFINE i == [j EXCEPT !.pc = "store", !.degraded = TRUE]
  <2>1. i \in Request
    BY <1>f, RequestUpdates DEF PCs
  <2>2. req' = [req EXCEPT ![q] = i] /\ j.kind = "list" /\ j.pc = "fetch"
    BY <1>3 DEF GetManagedHubsDegraded
  <2>3. /\ i.pc = "store" /\ i.kind = "list" /\ i.seen = j.seen /\ i.readAt = j.readAt
        /\ i.degraded /\ i.wrote = j.wrote /\ i.gone = j.gone
    BY <1>f, <2>2 DEF Request
  <2>4. Done(i)
    BY <1>f, <2>1, <2>2, <2>3 DEF KindOK, Writer, Reads
  <2> QED
    BY <1>1, <2>4
<1>4. CASE GetManagedHub(q)
  <2> DEFINE i == [j EXCEPT !.pc = "connect", !.readAt = writes, !.seen = Only(j.hub, secret[j.hub])]
  <2>1. i \in Request
    BY <1>f, RequestUpdates DEF PCs
  <2>2. req' = [req EXCEPT ![q] = i] /\ j.kind = "get" /\ j.pc = "fetch"
    BY <1>4 DEF GetManagedHub
  <2>3. /\ i.pc = "connect" /\ i.kind = "get" /\ i.seen = Only(j.hub, secret[j.hub])
        /\ i.readAt = writes /\ i.wrote = j.wrote /\ i.gone = j.gone /\ i.hub = j.hub
    BY <1>f, <2>2 DEF Request
  <2>4. KeyOf(i) = KeyOf(j)
    BY <2>2, <2>3 DEF KeyOf
  <2>5. Done(i)
    BY <1>f, <1>k, <2>1, <2>2, <2>3, <2>4 DEF KindOK, Writer, Reads
  <2> QED
    BY <1>1, <2>5
<1>5. ASSUME NEW pc \in {"spokes", "store"}, j.pc \in {"connect", "spokes"},
             ReadAgain(q, pc) \/ Goto(q, pc)
      PROVE  \E i : Done(i)
  <2> DEFINE i == [j EXCEPT !.pc = pc, !.seen = Only(j.hub, secret[j.hub])]
             l == [j EXCEPT !.pc = pc]
  <2>1. i \in Request /\ l \in Request
    BY <1>f, RequestUpdates DEF PCs
  <2>2. j.kind = "get" /\ j.gone = FALSE
    BY <1>f, <1>5 DEF KindOK, Request
  <2>3. /\ i.pc = pc /\ i.kind = "get" /\ i.seen = Only(j.hub, secret[j.hub])
        /\ i.readAt = j.readAt /\ i.degraded = j.degraded
        /\ i.wrote = j.wrote /\ i.gone = j.gone /\ i.hub = j.hub
        /\ l.pc = pc /\ l.kind = "get" /\ l.seen = j.seen
        /\ l.readAt = j.readAt /\ l.degraded = j.degraded
        /\ l.wrote = j.wrote /\ l.gone = j.gone /\ l.hub = j.hub
    BY <1>f, <2>2 DEF Request
  <2>4. KeyOf(i) = KeyOf(j) /\ KeyOf(l) = KeyOf(j)
    BY <2>2, <2>3 DEF KeyOf
  <2>5. req' = [req EXCEPT ![q] = i] => Done(i)
    BY <1>f, <1>k, <1>5, <2>1, <2>2, <2>3, <2>4 DEF KindOK, Writer, Reads
  <2>6. req' = [req EXCEPT ![q] = l] => Done(l)
    BY <1>f, <1>5, <2>1, <2>2, <2>3, <2>4 DEF KindOK, Writer, Reads
  <2>7. req' = [req EXCEPT ![q] = i] \/ req' = [req EXCEPT ![q] = l]
    BY <1>5 DEF ReadAgain, Goto
  <2> QED
    BY <2>5, <2>6, <2>7
<1>6. CASE ConnectHub(q)
  BY <1>1, <1>5, <1>6 DEF ConnectHub
<1>7. CASE GetSpokes(q)
  BY <1>1, <1>5, <1>7 DEF GetSpokes
<1> QED
  BY <1>2, <1>3, <1>4, <1>6, <1>7 DEF ReadStep

(* A flush takes one key out of the cache of the request's replica, and    *)
(* that one key is no longer to be flushed.                                *)
LEMMA FlushSteps ==
  ASSUME Typed, Kinded, NEW q \in Requests, FlushList(q) \/ FlushHub(q)
  PROVE  /\ UNCHANGED <<api, calls, acked, settled>>
         /\ \E k \in Keys, i \in Request :
              /\ cache' = [cache EXCEPT ![req[q].at][k] = NoEntry]
              /\ req' = [req EXCEPT ![q] = i] /\ KindOK(i)
              /\ i.at = req[q].at /\ i.hub = req[q].hub /\ i.kind = req[q].kind
              /\ i.wrote = req[q].wrote /\ i.readAt = req[q].readAt /\ i.seen = req[q].seen
              /\ Flushing(i) /\ Flushing(req[q]) /\ Flushes(i) = Flushes(req[q])
              /\ ToFlush(i) = ToFlush(req[q]) \ {k}
<1> DEFINE j == req[q]
           k == IF j.pc = "flushList" THEN List ELSE j.hub
           pc == IF j.pc = "flushList" THEN IF j.kind = "remove" THEN "flushHub" ELSE "answer"
                                       ELSE IF j.kind = "refresh" THEN "flushList" ELSE "answer"
           i == [j EXCEPT !.pc = pc]
<1>1. j \in Request /\ KindOK(j) /\ j.hub \in Hubs /\ k \in Keys /\ pc \in PCs /\ j.hub # List
  BY RequestFields, ListIsNoHub DEF Typed, Kinded, Keys, PCs
<1>2. /\ cache' = [cache EXCEPT ![j.at][k] = NoEntry] /\ req' = [req EXCEPT ![q] = i]
      /\ j.pc \in {"flushList", "flushHub"} /\ UNCHANGED <<api, calls, acked, settled>>
  BY DEF FlushList, FlushHub, Goto
<1>3. i \in Request
  <2>1. \A p \in PCs : [j EXCEPT !.pc = p] \in Request
    BY <1>1 DEF Request
  <2> QED
    BY <1>1, <2>1
<1>4. /\ i.pc = pc /\ i.at = j.at /\ i.hub = j.hub /\ i.kind = j.kind /\ i.gone = j.gone
      /\ i.wrote = j.wrote /\ i.readAt = j.readAt /\ i.seen = j.seen
  BY <1>1 DEF Request
<1>5. KindOK(i) /\ Flushing(i) /\ Flushing(j) /\ Flushes(i) = Flushes(j)
  BY <1>1, <1>2, <1>4 DEF KindOK, Flushing, Flushes
<1>6. ToFlush(i) = ToFlush(j) \ {k}
  <2>1. \A l : l \in ToFlush(i) <=> l \in ToFlush(j) /\ l # k
    <3> SUFFICES ASSUME NEW l PROVE l \in ToFlush(i) <=> l \in ToFlush(j) /\ l # k
      OBVIOUS
    <3>1. CASE j.pc = "flushList"
      BY <1>1, <1>4, <1>5, <3>1 DEF ToFlush, Flushes, KindOK
    <3>2. CASE j.pc = "flushHub"
      BY <1>1, <1>4, <1>5, <3>2 DEF ToFlush, Flushes, KindOK
    <3> QED
      BY <1>2, <3>1, <3>2
  <2> QED
    BY <2>1
<1> QED
  BY <1>1, <1>2, <1>3, <1>4, <1>5, <1>6

(* A restart empties the replica's cache, and frees its requests but for   *)
(* those whose call of the API server is under way.                        *)
LEMMA RestartEffect ==
  ASSUME Typed, Kinded, NEW r \in Replicas, Restart(r)
  PROVE  /\ UNCHANGED <<api, calls, acked, settled>>
         /\ cache' \in [Replicas -> [Keys -> Entry \cup {NoEntry}]]
         /\ \A k \in Keys : cache'[r][k] = NoEntry
         /\ \A s \in Replicas \ {r}, k \in Keys : cache'[s][k] = cache[s][k]
         /\ req' \in [Requests -> Request]
         /\ \A p \in Requests :
              \/ req'[p] = req[p] /\ req[p].at # r
              \/ req'[p] = Free
              \/ /\ req'[p] = [req[p] EXCEPT !.gone = TRUE]
                 /\ req[p].pc \in {"create", "update", "delete"}
<1>1. \A p \in Requests : req[p] \in Request /\ [req[p] EXCEPT !.gone = TRUE] \in Request
  BY DEF Typed, Request
<1>2. req' \in [Requests -> Request]
  BY <1>1, FreeRequest DEF Restart
<1> QED
  BY <1>1, <1>2 DEF Restart, Typed

(* What a step can be.                                                     *)
LEMMA Cases ==
  ASSUME [Next]_vars
  PROVE  \/ \E q \in Requests, r \in Replicas, h \in Hubs : Begins(q, r, h)
         \/ \E q \in Requests : \/ ReadStep(q) \/ FetchFails(q) \/ Store(q) \/ WriteStep(q)
                                \/ WriteFails(q) \/ (FlushList(q) \/ FlushHub(q)) \/ Answer(q)
         \/ \E r \in Replicas : Restart(r) \/ \E k \in Keys : Expire(r, k)
         \/ UNCHANGED vars
BY SomeHub DEF Next, Step, Begins, ReadStep, WriteStep

(* Every step keeps the state well typed, and the requests on their ways.  *)
LEMMA TypedStep == Typed /\ Kinded /\ [Next]_vars => Typed' /\ Kinded'
<1> SUFFICES ASSUME Typed, Kinded, [Next]_vars PROVE Typed' /\ Kinded'
  OBVIOUS
<1>0. ASSUME NEW q \in Requests, NEW i \in Request, KindOK(i), req' = [req EXCEPT ![q] = i]
      PROVE  req' \in [Requests -> Request] /\ Kinded'
  <2>1. req' \in [Requests -> Request] /\ \A p \in Requests : req'[p] = IF p = q THEN i ELSE req[p]
    BY <1>0 DEF Typed
  <2>2. \A p \in Requests : KindOK(req'[p])
    BY <1>0, <2>1 DEF Kinded
  <2> QED
    BY <2>1, <2>2 DEF Kinded, KindOK
<1>e. ASSUME NEW q \in Requests, End(q) PROVE req' \in [Requests -> Request] /\ Kinded'
  BY <1>0, <1>e, FreeRequest DEF End
<1>1. ASSUME NEW q \in Requests, NEW r \in Replicas, NEW h \in Hubs, Begins(q, r, h)
      PROVE  Typed' /\ Kinded'
  <2>1. PICK i : Begin(q, i) /\ Fresh(i)
    BY <1>1, BeginSteps
  <2>2. req' \in [Requests -> Request] /\ Kinded'
    BY <1>0, <2>1 DEF Begin, Fresh
  <2>3. calls' \in 0 .. MaxCalls
    BY <2>1, MaxCallsAssumption DEF Begin, Typed
  <2> QED
    BY <2>1, <2>2, <2>3 DEF Begin, Typed, api
<1>2. ASSUME NEW q \in Requests, ReadStep(q) PROVE Typed' /\ Kinded'
  <2>1. req' \in [Requests -> Request] /\ Kinded' /\ UNCHANGED <<api, cache, calls, acked, settled>>
    BY <1>0, <1>2, ReadSteps
  <2> QED
    BY <2>1 DEF Typed, api
<1>3. ASSUME NEW q \in Requests, FetchFails(q) PROVE Typed' /\ Kinded'
  BY <1>3, <1>e DEF FetchFails, Typed, api
<1>4. ASSUME NEW q \in Requests, Store(q) PROVE Typed' /\ Kinded'
  <2> DEFINE e == [data |-> req[q].seen, readAt |-> req[q].readAt,
                   storedAt |-> writes, degraded |-> req[q].degraded]
  <2>1. e \in Entry
    BY RequestFields, StoredEntry DEF Typed
  <2>2. cache' = [cache EXCEPT ![req[q].at][KeyOf(req[q])] = e]
    BY <1>4 DEF Store
  <2> HIDE DEF e
  <2>3. cache' \in [Replicas -> [Keys -> Entry \cup {NoEntry}]]
    BY <2>1, <2>2 DEF Typed
  <2> QED
    BY <1>4, <1>e, <2>3 DEF Store, Typed, api
<1>5. ASSUME NEW q \in Requests, WriteStep(q) PROVE Typed' /\ Kinded'
  <2>1. /\ UNCHANGED <<cache, calls, acked>>
        /\ \/ \E n \in {0, writes + 1} : Write(q, n)
           \/ UNCHANGED <<api, settled>>
    BY <1>5, WriteSteps
  <2>2. /\ secret' \in Snapshot /\ writes' \in Nat /\ touched' \in [Hubs -> Nat]
        /\ unheeded' \in [Replicas -> [Keys -> Nat]]
        /\ settled' \in [Hubs -> {"open", "present", "absent"}]
    BY <2>1, WriteEffect DEF Typed, api
  <2>3. req' \in [Requests -> Request] /\ Kinded'
    BY <1>0, <1>5, WriteMoves
  <2> QED
    BY <2>1, <2>2, <2>3 DEF Typed
<1>6. ASSUME NEW q \in Requests, WriteFails(q) PROVE Typed' /\ Kinded'
  <2> DEFINE i == [req[q] EXCEPT !.gone = TRUE]
  <2>1. i \in Request /\ i.pc = req[q].pc /\ i.kind = req[q].kind
    BY DEF Typed, Request
  <2>2. req' = [req EXCEPT ![q] = i] /\ req[q].pc \in {"create", "update", "delete"}
    BY <1>6 DEF WriteFails, At
  <2>3. KindOK(i)
    BY <2>1, <2>2 DEF Kinded, KindOK
  <2> QED
    BY <1>0, <1>6, <2>1, <2>2, <2>3 DEF WriteFails, Typed, api
<1>7. ASSUME NEW q \in Requests, FlushList(q) \/ FlushHub(q) PROVE Typed' /\ Kinded'
  <2>1. PICK k \in Keys, i \in Request :
          /\ cache' = [cache EXCEPT ![req[q].at][k] = NoEntry]
          /\ req' = [req EXCEPT ![q] = i] /\ KindOK(i)
    BY <1>7, FlushSteps
  <2>2. UNCHANGED <<api, calls, acked, settled>>
    BY <1>7, FlushSteps
  <2>3. cache' \in [Replicas -> [Keys -> Entry \cup {NoEntry}]]
    BY <2>1 DEF Typed
  <2> QED
    BY <1>0, <2>1, <2>2, <2>3 DEF Typed, api
<1>8. ASSUME NEW q \in Requests, Answer(q) PROVE Typed' /\ Kinded'
  <2>1. req[q].wrote \in Nat /\ req[q].at \in Replicas
    BY RequestFields DEF Typed
  <2>2. acked' \in [Replicas -> [Keys -> Nat]]
    BY <1>8, <2>1 DEF Answer, Typed
  <2>3. settled' \in [Hubs -> {"open", "present", "absent"}]
    BY <1>8 DEF Answer, Typed
  <2> QED
    BY <1>8, <1>e, <2>2, <2>3 DEF Answer, Typed, api
<1>9. ASSUME NEW r \in Replicas, NEW k \in Keys, Expire(r, k) PROVE Typed' /\ Kinded'
  BY <1>9 DEF Expire, Typed, Kinded, KindOK, api
<1>10. ASSUME NEW r \in Replicas, Restart(r) PROVE Typed' /\ Kinded'
  <2>1. \A p \in Requests : \/ req'[p] = req[p] \/ req'[p] = Free
                            \/ /\ req'[p] = [req[p] EXCEPT !.gone = TRUE]
                               /\ req[p].pc \in {"create", "update", "delete"}
    BY <1>10, RestartEffect
  <2>2. \A p \in Requests : KindOK(req'[p])
    <3> SUFFICES ASSUME NEW p \in Requests, req'[p] = [req[p] EXCEPT !.gone = TRUE],
                        req[p].pc \in {"create", "update", "delete"}
                 PROVE  KindOK(req'[p])
      BY <2>1, FreeRequest DEF Kinded
    <3>1. req'[p].pc = req[p].pc /\ req'[p].kind = req[p].kind /\ KindOK(req[p])
      BY DEF Typed, Request, Kinded
    <3> QED
      BY <3>1 DEF KindOK
  <2>3. Kinded'
    BY <2>2 DEF Kinded, KindOK
  <2> QED
    BY <1>10, <2>3, RestartEffect DEF Typed, api
<1>11. CASE UNCHANGED vars
  BY <1>11 DEF vars, api, Typed, Kinded, KindOK
<1> QED
  BY <1>1, <1>2, <1>3, <1>4, <1>5, <1>6, <1>7, <1>8, <1>9, <1>10, <1>11, Cases

(* A step that neither writes nor stores, after which a request shows      *)
(* nothing that it did not, or what there is now, takes nothing from the   *)
(* future.                                                                 *)
LEMMA PastQuiet ==
  ASSUME Typed, Typed', NothingFromTheFuture, UNCHANGED api,
         \A p \in Requests :
           /\ req'[p].readAt \in {0, req[p].readAt, writes}
           /\ req'[p].wrote \in {0, req[p].wrote, writes}
           /\ \A h \in Hubs : req'[p].seen[h] \in {0, req[p].seen[h], secret[h]},
         \A r \in Replicas, k \in Keys :
           /\ cache'[r][k] \in {cache[r][k], NoEntry}
           /\ acked'[r][k] \in {acked[r][k]} \cup {req[p].wrote : p \in Requests}
  PROVE  NothingFromTheFuture'
<1>1. writes \in Nat
  BY DEF Typed
<1>2. \A p \in Requests : /\ req'[p].readAt <= writes /\ req'[p].wrote <= writes
                          /\ \A h \in Hubs : req'[p].seen[h] <= writes
  BY <1>1 DEF NothingFromTheFuture
<1>3. \A r \in Replicas, k \in Keys : acked'[r][k] <= writes
  BY <1>1 DEF NothingFromTheFuture
<1> QED
  BY <1>2, <1>3 DEF NothingFromTheFuture, api

(* No step brings anything from the future.                                *)
LEMMA PastStep ==
  Typed /\ Typed' /\ Kinded /\ NothingFromTheFuture /\ [Next]_vars => NothingFromTheFuture'
<1> SUFFICES ASSUME Typed, Typed', Kinded, NothingFromTheFuture, [Next]_vars
             PROVE  NothingFromTheFuture'
  OBVIOUS
<1>f. /\ writes \in Nat
      /\ \A p \in Requests : /\ req[p] \in Request /\ req[p].hub \in Hubs
                             /\ \A h \in Hubs : req[p].seen[h] \in Nat
  BY RequestFields DEF Typed, Snapshot
<1>g. Free.readAt = 0 /\ Free.wrote = 0 /\ \A h \in Hubs : Free.seen[h] = 0
  BY FreeRequest DEF Nothing
<1>1. ASSUME NEW q \in Requests, NEW r \in Replicas, NEW h \in Hubs, Begins(q, r, h)
      PROVE  NothingFromTheFuture'
  <2>1. PICK i : Begin(q, i) /\ Fresh(i)
    BY <1>1, BeginSteps
  <2>2. /\ i.readAt = 0 /\ i.wrote \in {0, writes} /\ \A g \in Hubs : i.seen[g] = 0
        /\ \A p \in Requests : req'[p] = IF p = q THEN i ELSE req[p]
        /\ UNCHANGED <<api, cache, acked>>
    BY <2>1 DEF Fresh, Nothing, Begin, Typed
  <2> QED
    BY <2>2, PastQuiet
<1>2. ASSUME NEW q \in Requests, ReadStep(q) PROVE NothingFromTheFuture'
  <2>1. PICK i \in Request : /\ req' = [req EXCEPT ![q] = i]
                             /\ i.wrote = req[q].wrote /\ Reads(i, req[q])
    BY <1>2, ReadSteps
  <2>2. UNCHANGED <<api, cache, acked>>
    BY <1>2, ReadSteps
  <2>3. \A k \in Keys, h \in Hubs : Truth(k)[h] \in {0, secret[h]}
    BY ListIsNoHub DEF Truth, Only, Nothing, Keys
  <2>4. KeyOf(i) \in Keys
    BY RequestFields
  <2>5. i.readAt \in {req[q].readAt, writes} /\ \A h \in Hubs : i.seen[h] \in {0, req[q].seen[h], secret[h]}
    BY <2>1, <2>3, <2>4 DEF Reads
  <2>6. \A p \in Requests : req'[p] = IF p = q THEN i ELSE req[p]
    BY <2>1 DEF Typed
  <2> QED
    BY <2>1, <2>2, <2>5, <2>6, PastQuiet
<1>3. ASSUME NEW q \in Requests, End(q), UNCHANGED <<api, cache>>,
             \A r \in Replicas, k \in Keys : acked'[r][k] \in {acked[r][k], req[q].wrote}
      PROVE  NothingFromTheFuture'
  <2>1. \A p \in Requests : req'[p] = IF p = q THEN Free ELSE req[p]
    BY <1>3 DEF End, Typed
  <2> QED
    BY <1>3, <1>g, <2>1, PastQuiet
<1>4. ASSUME NEW q \in Requests, Store(q) PROVE NothingFromTheFuture'
  <2> DEFINE at == req[q].at
             key == KeyOf(req[q])
             e == [data |-> req[q].seen, readAt |-> req[q].readAt,
                   storedAt |-> writes, degraded |-> req[q].degraded]
  <2>1. /\ e.readAt <= e.storedAt /\ e.storedAt <= writes
        /\ \A h \in Hubs : e.data[h] <= e.storedAt
    BY <1>f DEF NothingFromTheFuture
  <2>2. cache' = [cache EXCEPT ![at][key] = e] /\ UNCHANGED <<api, acked>>
    BY <1>4 DEF Store
  <2>3. \A p \in Requests : req'[p] = IF p = q THEN Free ELSE req[p]
    BY <1>4 DEF Store, End, Typed
  <2> HIDE DEF e, at, key
  <2>4. \A r \in Replicas, k \in Keys : cache'[r][k] \in {cache[r][k], e}
    BY <2>2 DEF Typed
  <2>5. \A r \in Replicas, k \in Keys : cache'[r][k] # NoEntry =>
          /\ cache'[r][k].readAt <= cache'[r][k].storedAt /\ cache'[r][k].storedAt <= writes
          /\ \A h \in Hubs : cache'[r][k].data[h] <= cache'[r][k].storedAt
    BY <2>1, <2>4 DEF NothingFromTheFuture
  <2>6. \A p \in Requests : /\ req'[p].readAt <= writes /\ req'[p].wrote <= writes
                            /\ \A h \in Hubs : req'[p].seen[h] <= writes
    BY <1>f, <1>g, <2>3 DEF NothingFromTheFuture
  <2> QED
    BY <2>2, <2>5, <2>6 DEF NothingFromTheFuture, api
<1>5. ASSUME NEW q \in Requests, WriteStep(q) PROVE NothingFromTheFuture'
  <2>1. /\ UNCHANGED <<cache, acked>>
        /\ \/ \E n \in {0, writes + 1} : Write(q, n)
           \/ UNCHANGED <<api, settled>>
    BY <1>5, WriteSteps
  <2>2. /\ writes' \in {writes, writes + 1}
        /\ \A h \in Hubs : /\ secret'[h] = secret[h] \/ secret'[h] \in {0, writes'}
                           /\ touched'[h] \in {touched[h], writes'}
        /\ \A r \in Replicas, k \in Keys : unheeded'[r][k] \in {unheeded[r][k], writes'}
    <3>1. CASE UNCHANGED <<api, settled>>
      BY <3>1 DEF api
    <3>2. ASSUME NEW n \in {0, writes + 1}, Write(q, n)
          PROVE  /\ writes' = writes + 1
                 /\ \A h \in Hubs : /\ secret'[h] = secret[h] \/ secret'[h] \in {0, writes'}
                                    /\ touched'[h] \in {touched[h], writes'}
                 /\ \A r \in Replicas, k \in Keys : unheeded'[r][k] \in {unheeded[r][k], writes'}
      BY <3>2, WriteEffect
    <3> QED
      BY <2>1, <3>1, <3>2
  <2>3. PICK i \in Request :
          /\ req' = [req EXCEPT ![q] = i]
          /\ i = Free \/ Same(i, req[q])
          /\ i.wrote \in {0, req[q].wrote, writes'}
    BY <1>5, FreeRequest, WriteMoves
  <2>4. /\ writes' \in Nat /\ writes <= writes'
        /\ \A p \in Requests :
             /\ req[p].wrote \in Nat /\ req[p].readAt \in Nat
             /\ req'[p].readAt \in {0, req[p].readAt}
             /\ req'[p].wrote \in {0, req[p].wrote, writes'}
             /\ \A h \in Hubs : req'[p].seen[h] \in {0, req[p].seen[h]}
    <3>1. writes' \in Nat /\ writes <= writes'
      BY <1>f, <2>2
    <3>2. \A p \in Requests : req'[p] = IF p = q THEN i ELSE req[p]
      BY <2>3 DEF Typed
    <3>3. /\ i.readAt \in {0, req[q].readAt} /\ i.wrote \in {0, req[q].wrote, writes'}
          /\ \A h \in Hubs : i.seen[h] \in {0, req[q].seen[h]}
      BY <2>3, <1>g DEF Same
    <3> QED
      BY <1>f, <3>1, <3>2, <3>3, RequestFields
  <2>5. \A p \in Requests : /\ req'[p].readAt <= writes' /\ req'[p].wrote <= writes'
                            /\ \A h \in Hubs : req'[p].seen[h] <= writes'
    <3> SUFFICES ASSUME NEW p \in Requests
                 PROVE  /\ req'[p].readAt <= writes' /\ req'[p].wrote <= writes'
                        /\ \A h \in Hubs : req'[p].seen[h] <= writes'
      OBVIOUS
    <3> QED
      BY <1>f, <2>4 DEF NothingFromTheFuture
  <2>6. \A h \in Hubs : secret'[h] <= writes' /\ touched'[h] <= writes'
    <3> SUFFICES ASSUME NEW h \in Hubs PROVE secret'[h] <= writes' /\ touched'[h] <= writes'
      OBVIOUS
    <3>1. secret[h] \in Nat /\ touched[h] \in Nat /\ secret[h] <= writes /\ touched[h] <= writes
      BY DEF NothingFromTheFuture, Typed, Snapshot
    <3> QED
      BY <1>f, <2>2, <2>4, <3>1
  <2>7. \A r \in Replicas, k \in Keys : acked'[r][k] <= writes' /\ unheeded'[r][k] <= writes'
    <3> SUFFICES ASSUME NEW r \in Replicas, NEW k \in Keys
                 PROVE  acked'[r][k] <= writes' /\ unheeded'[r][k] <= writes'
      OBVIOUS
    <3>1. /\ acked[r][k] \in Nat /\ unheeded[r][k] \in Nat
          /\ acked[r][k] <= writes /\ unheeded[r][k] <= writes
      BY DEF NothingFromTheFuture, Typed
    <3> QED
      BY <1>f, <2>1, <2>2, <2>4, <3>1
  <2>8. \A r \in Replicas, k \in Keys : cache'[r][k] # NoEntry =>
          /\ cache'[r][k].readAt <= cache'[r][k].storedAt /\ cache'[r][k].storedAt <= writes'
          /\ \A h \in Hubs : cache'[r][k].data[h] <= cache'[r][k].storedAt
    <3> SUFFICES ASSUME NEW r \in Replicas, NEW k \in Keys, cache[r][k] # NoEntry
                 PROVE  cache[r][k].storedAt <= writes'
      BY <2>1 DEF NothingFromTheFuture
    <3>1. cache[r][k].storedAt \in Nat
      BY DEF Typed, Entry
    <3> QED
      BY <1>f, <2>4, <3>1 DEF NothingFromTheFuture
  <2> QED
    BY <2>5, <2>6, <2>7, <2>8 DEF NothingFromTheFuture
<1>6. ASSUME NEW q \in Requests, WriteFails(q) PROVE NothingFromTheFuture'
  <2>1. \A p \in Requests : /\ req'[p].readAt = req[p].readAt /\ req'[p].wrote = req[p].wrote
                            /\ req'[p].seen = req[p].seen
    BY <1>6, <1>f DEF WriteFails, Typed, Request
  <2> QED
    BY <1>6, <2>1, PastQuiet DEF WriteFails
<1>7. ASSUME NEW q \in Requests, FlushList(q) \/ FlushHub(q) PROVE NothingFromTheFuture'
  <2>1. PICK k \in Keys, i \in Request :
          /\ cache' = [cache EXCEPT ![req[q].at][k] = NoEntry]
          /\ req' = [req EXCEPT ![q] = i]
          /\ i.wrote = req[q].wrote /\ i.readAt = req[q].readAt /\ i.seen = req[q].seen
    BY <1>7, FlushSteps
  <2>2. UNCHANGED <<api, acked>>
    BY <1>7, FlushSteps
  <2>3. \A p \in Requests : req'[p] = IF p = q THEN i ELSE req[p]
    BY <2>1 DEF Typed
  <2>4. \A r \in Replicas, l \in Keys : cache'[r][l] \in {cache[r][l], NoEntry}
    BY <2>1 DEF Typed
  <2> QED
    BY <2>1, <2>2, <2>3, <2>4, PastQuiet
<1>8. ASSUME NEW q \in Requests, Answer(q) PROVE NothingFromTheFuture'
  <2>1. \A r \in Replicas, k \in Keys : acked'[r][k] \in {acked[r][k], req[q].wrote}
    BY <1>8 DEF Answer, Typed
  <2> QED
    BY <1>3, <1>8, <2>1 DEF Answer
<1>9. ASSUME NEW r \in Replicas, NEW k \in Keys, Expire(r, k) PROVE NothingFromTheFuture'
  <2>1. \A s \in Replicas, l \in Keys : cache'[s][l] \in {cache[s][l], NoEntry}
    BY <1>9 DEF Expire, Typed
  <2> QED
    BY <1>9, <2>1, PastQuiet DEF Expire
<1>10. ASSUME NEW r \in Replicas, Restart(r) PROVE NothingFromTheFuture'
  <2>1. \A p \in Requests : \/ req'[p] = req[p] \/ req'[p] = Free
                            \/ req'[p] = [req[p] EXCEPT !.gone = TRUE]
    BY <1>10, RestartEffect
  <2>2. \A p \in Requests : /\ req'[p].readAt \in {0, req[p].readAt}
                            /\ req'[p].wrote \in {0, req[p].wrote}
                            /\ \A h \in Hubs : req'[p].seen[h] \in {0, req[p].seen[h]}
    BY <1>f, <1>g, <2>1 DEF Request
  <2>3. /\ \A s \in Replicas, k \in Keys : cache'[s][k] \in {cache[s][k], NoEntry}
        /\ UNCHANGED <<api, acked>>
    BY <1>10, RestartEffect
  <2> QED
    BY <2>2, <2>3, PastQuiet
<1>11. CASE UNCHANGED vars
  BY <1>11, PastQuiet DEF vars
<1>12. ASSUME NEW q \in Requests, FetchFails(q) PROVE NothingFromTheFuture'
  BY <1>3, <1>12 DEF FetchFails
<1> QED
  BY <1>1, <1>2, <1>4, <1>5, <1>6, <1>7, <1>8, <1>9, <1>10, <1>11, <1>12, Cases

(* The requests stay on their ways.                                        *)
LEMMA TypedAlways == Spec => [](Typed /\ Kinded /\ NothingFromTheFuture)
<1>1. Init => Typed
  BY FreeRequest, MaxCallsAssumption DEF Init, Typed, Snapshot
<1>2. Init => Kinded
  BY FreeRequest DEF Init, Kinded, KindOK
<1>3. Init => NothingFromTheFuture
  BY FreeRequest DEF Init, NothingFromTheFuture, Nothing
<1> QED
  BY <1>1, <1>2, <1>3, TypedStep, PastStep, PTL DEF Spec

(* The state is well typed, and nothing in it is from the future.          *)
THEOREM TypeCorrect == Spec => []TypeOK
<1>1. Typed /\ NothingFromTheFuture => TypeOK
  BY DEF TypeOK
<1> QED
  BY <1>1, TypedAlways, PTL

-------------------------------------------------------------------------------
(* What a request has yet to flush, by where it stands.                    *)
LEMMA WhatIsLeft ==
  ASSUME NEW i \in Request, KindOK(i)
  PROVE  /\ ~Flushing(i) => ToFlush(i) = {}
         /\ i.pc = "answer" => ToFlush(i) = {}
         /\ i.pc = "flushList" /\ i.kind \in {"add", "remove"} => ToFlush(i) = Flushes(i)
         /\ i.pc = "flushHub" /\ i.kind = "refresh" => ToFlush(i) = Flushes(i)
BY ListIsNoHub, RequestFields DEF Flushing, ToFlush, Flushes, KindOK

(* A step that stores and answers nothing, and after which no request has  *)
(* flushed a key that is still there, but for those it had flushed before. *)
LEMMA FlushQuiet ==
  ASSUME FlushInv, acked' = acked,
         \A r \in Replicas, k \in Keys : cache'[r][k] \in {cache[r][k], NoEntry},
         req \in [Requests -> Request],
         \A p \in Requests, k \in Keys : HasFlushed(req'[p], k) =>
           \/ /\ HasFlushed(req[p], k)
              /\ req'[p].at = req[p].at /\ req'[p].wrote = req[p].wrote
           \/ cache'[req'[p].at][k] = NoEntry
  PROVE  FlushInv'
<1>1. ASSUME NEW p \in Requests, NEW k \in Keys, HasFlushed(req'[p], k),
             cache'[req'[p].at][k] # NoEntry
      PROVE  cache'[req'[p].at][k].storedAt >= req'[p].wrote
  <2>1. /\ HasFlushed(req[p], k) /\ req[p].at \in Replicas
        /\ req'[p].at = req[p].at /\ req'[p].wrote = req[p].wrote
    BY <1>1, RequestFields
  <2>2. cache'[req[p].at][k] = cache[req[p].at][k]
    BY <1>1, <2>1
  <2> QED
    BY <1>1, <2>1, <2>2 DEF FlushInv
<1>2. FlushedBeforeAck'
  BY DEF FlushInv, FlushedBeforeAck
<1> QED
  BY <1>1, <1>2 DEF FlushInv, HasFlushed, Flushing, Flushes, ToFlush

(* Every step keeps FlushInv.                                              *)
LEMMA FlushStep ==
  Typed /\ Kinded /\ NothingFromTheFuture /\ FlushInv /\ [Next]_vars => FlushInv'
<1> SUFFICES ASSUME Typed, Kinded, NothingFromTheFuture, FlushInv, [Next]_vars
             PROVE  FlushInv'
  OBVIOUS
<1>f. /\ writes \in Nat /\ req \in [Requests -> Request]
      /\ \A p \in Requests : req[p] \in Request /\ KindOK(req[p])
  BY DEF Typed, Kinded
<1>0. ASSUME NEW q \in Requests, NEW i \in Request, req' = [req EXCEPT ![q] = i],
             UNCHANGED <<cache, acked>>, \A k \in Keys : ~HasFlushed(i, k)
      PROVE  FlushInv'
  <2>1. \A p \in Requests : req'[p] = IF p = q THEN i ELSE req[p]
    BY <1>0, <1>f
  <2> QED
    BY <1>0, <1>f, <2>1, FlushQuiet
<1>e. \A k \in Keys : ~HasFlushed(Free, k)
  BY FreeRequest DEF HasFlushed, Flushing
<1>1. ASSUME NEW q \in Requests, NEW r \in Replicas, NEW h \in Hubs, Begins(q, r, h)
      PROVE  FlushInv'
  <2>1. PICK i : Begin(q, i) /\ Fresh(i)
    BY <1>1, BeginSteps
  <2>2. \A k \in Keys : ~HasFlushed(i, k)
    BY <2>1, WhatIsLeft DEF Fresh, HasFlushed, Flushing
  <2> QED
    BY <1>0, <2>1, <2>2 DEF Begin, Fresh
<1>2. ASSUME NEW q \in Requests, ReadStep(q) PROVE FlushInv'
  <2>1. PICK i \in Request : req' = [req EXCEPT ![q] = i] /\ i.pc \in {"connect", "spokes", "store"}
    BY <1>2, ReadSteps
  <2>2. UNCHANGED <<cache, acked>>
    BY <1>2, ReadSteps
  <2> QED
    BY <1>0, <2>1, <2>2 DEF HasFlushed, Flushing
<1>3. ASSUME NEW q \in Requests, FetchFails(q) PROVE FlushInv'
  BY <1>0, <1>3, <1>e, FreeRequest DEF FetchFails, End
<1>4. ASSUME NEW q \in Requests, Store(q) PROVE FlushInv'
  <2> DEFINE e == [data |-> req[q].seen, readAt |-> req[q].readAt,
                   storedAt |-> writes, degraded |-> req[q].degraded]
  <2>1. /\ e.storedAt = writes /\ acked' = acked
        /\ \A p \in Requests : req'[p] = IF p = q THEN Free ELSE req[p]
        /\ \A r \in Replicas, k \in Keys : cache'[r][k] \in {cache[r][k], e}
    BY <1>4, <1>f DEF Store, End, Typed
  <2> HIDE DEF e
  <2>2. \A p \in Requests, k \in Keys :
          HasFlushed(req'[p], k) /\ cache'[req'[p].at][k] # NoEntry
            => cache'[req'[p].at][k].storedAt >= req'[p].wrote
    <3> SUFFICES ASSUME NEW p \in Requests, NEW k \in Keys, HasFlushed(req'[p], k),
                        cache'[req'[p].at][k] # NoEntry
                 PROVE  cache'[req'[p].at][k].storedAt >= req'[p].wrote
      OBVIOUS
    <3>1. req'[p] = req[p] /\ req[p].at \in Replicas /\ req[p].wrote \in Nat
      BY <1>e, <1>f, <2>1, RequestFields
    <3>2. CASE cache'[req[p].at][k] = e
      BY <1>f, <2>1, <3>1, <3>2 DEF NothingFromTheFuture
    <3>3. CASE cache'[req[p].at][k] = cache[req[p].at][k]
      BY <3>1, <3>3 DEF FlushInv
    <3> QED
      BY <2>1, <3>1, <3>2, <3>3
  <2>3. FlushedBeforeAck'
    <3> SUFFICES ASSUME NEW r \in Replicas, NEW k \in Keys, cache'[r][k] # NoEntry
                 PROVE  cache'[r][k].storedAt >= acked[r][k]
      BY <2>1 DEF FlushedBeforeAck
    <3>1. acked[r][k] \in Nat /\ acked[r][k] <= writes
      BY DEF Typed, NothingFromTheFuture
    <3> QED
      BY <1>f, <2>1, <3>1 DEF FlushInv, FlushedBeforeAck
  <2> QED
    BY <2>2, <2>3 DEF FlushInv, HasFlushed, Flushing, Flushes, ToFlush
<1>5. ASSUME NEW q \in Requests, WriteStep(q) PROVE FlushInv'
  <2>1. PICK i \in Request :
          /\ req' = [req EXCEPT ![q] = i] /\ KindOK(i)
          /\ \/ i = Free
             \/ Same(i, req[q]) /\ i.pc \in {"update", "flushList"}
    BY <1>5, WriteMoves
  <2>2. UNCHANGED <<cache, acked>> /\ req[q].pc \in {"create", "update", "delete"}
    BY <1>5, WriteSteps
  <2>3. i.pc = "flushList" => i.kind \in {"add", "remove"}
    BY <1>f, <2>1, <2>2, FreeRequest DEF KindOK, Same
  <2>4. \A k \in Keys : ~HasFlushed(i, k)
    BY <1>e, <2>1, <2>3, WhatIsLeft DEF HasFlushed, Flushing
  <2> QED
    BY <1>0, <2>1, <2>2, <2>4
<1>6. ASSUME NEW q \in Requests, WriteFails(q) PROVE FlushInv'
  <2> DEFINE i == [req[q] EXCEPT !.gone = TRUE]
  <2>1. i \in Request /\ i.pc = req[q].pc
    BY <1>f DEF Request
  <2> QED
    BY <1>0, <1>6, <2>1 DEF WriteFails, At, HasFlushed, Flushing
<1>7. ASSUME NEW q \in Requests, FlushList(q) \/ FlushHub(q) PROVE FlushInv'
  <2>1. PICK k \in Keys, i \in Request :
          /\ cache' = [cache EXCEPT ![req[q].at][k] = NoEntry]
          /\ req' = [req EXCEPT ![q] = i]
          /\ i.at = req[q].at /\ i.wrote = req[q].wrote
          /\ Flushing(i) /\ Flushing(req[q]) /\ Flushes(i) = Flushes(req[q])
          /\ ToFlush(i) = ToFlush(req[q]) \ {k}
    BY <1>7, FlushSteps
  <2>2. acked' = acked
    BY <1>7, FlushSteps
  <2>3. \A p \in Requests : req'[p] = IF p = q THEN i ELSE req[p]
    BY <2>1, <1>f
  <2>4. /\ \A r \in Replicas, l \in Keys : cache'[r][l] \in {cache[r][l], NoEntry}
        /\ cache'[req[q].at][k] = NoEntry
    BY <2>1, <1>f, RequestFields DEF Typed
  <2>5. \A l \in Keys : HasFlushed(i, l) => HasFlushed(req[q], l) \/ l = k
    BY <2>1 DEF HasFlushed
  <2> QED
    BY <1>f, <2>1, <2>2, <2>3, <2>4, <2>5, FlushQuiet
<1>8. ASSUME NEW q \in Requests, Answer(q) PROVE FlushInv'
  <2>1. /\ cache' = cache /\ req[q].pc = "answer" /\ req[q].at \in Replicas
        /\ \A p \in Requests : req'[p] = IF p = q THEN Free ELSE req[p]
    BY <1>8, <1>f, RequestFields DEF Answer, End
  <2>2. \A k \in Flushes(req[q]) : HasFlushed(req[q], k)
    BY <1>f, <2>1, WhatIsLeft DEF HasFlushed, Flushing
  <2>3. FlushedBeforeAck'
    <3> SUFFICES ASSUME NEW r \in Replicas, NEW k \in Keys, cache[r][k] # NoEntry
                 PROVE  cache[r][k].storedAt >= acked'[r][k]
      BY <2>1 DEF FlushedBeforeAck
    <3>1. \/ acked'[r][k] = acked[r][k]
          \/ acked'[r][k] = req[q].wrote /\ r = req[q].at /\ k \in Flushes(req[q])
      BY <1>8 DEF Answer, Typed
    <3> QED
      BY <2>2, <3>1 DEF FlushInv, FlushedBeforeAck
  <2>4. \A p \in Requests, k \in Keys :
          HasFlushed(req'[p], k) /\ cache'[req'[p].at][k] # NoEntry
            => cache'[req'[p].at][k].storedAt >= req'[p].wrote
    BY <1>e, <2>1 DEF FlushInv
  <2> QED
    BY <2>3, <2>4 DEF FlushInv, HasFlushed, Flushing, Flushes, ToFlush
<1>9. ASSUME NEW r \in Replicas, NEW k \in Keys, Expire(r, k) PROVE FlushInv'
  <2>1. \A s \in Replicas, l \in Keys : cache'[s][l] \in {cache[s][l], NoEntry}
    BY <1>9 DEF Expire, Typed
  <2> QED
    BY <1>9, <1>f, <2>1, FlushQuiet DEF Expire
<1>10. ASSUME NEW r \in Replicas, Restart(r) PROVE FlushInv'
  <2>1. \A p \in Requests : req'[p] = req[p] \/ req'[p] = Free \/ ~Flushing(req'[p])
    <3> SUFFICES ASSUME NEW p \in Requests, req'[p] = [req[p] EXCEPT !.gone = TRUE],
                        req[p].pc \in {"create", "update", "delete"}
                 PROVE  ~Flushing(req'[p])
      BY <1>10, RestartEffect
    <3> QED
      BY <1>f DEF Request, Flushing
  <2>2. /\ \A s \in Replicas, k \in Keys : cache'[s][k] \in {cache[s][k], NoEntry}
        /\ acked' = acked
    BY <1>10, RestartEffect
  <2> QED
    BY <1>e, <1>f, <2>1, <2>2, FlushQuiet DEF HasFlushed
<1>11. CASE UNCHANGED vars
  BY <1>11, <1>f, FlushQuiet DEF vars
<1> QED
  BY <1>1, <1>2, <1>3, <1>4, <1>5, <1>6, <1>7, <1>8, <1>9, <1>10, <1>11, Cases

(* Once a replica has answered a success, nothing that it cached before    *)
(* the write is served any more under the keys that the request flushes.   *)
THEOREM FlushedBeforeAckHolds == Spec => []FlushedBeforeAck
<1>1. Init => FlushInv
  BY FreeRequest DEF Init, FlushInv, FlushedBeforeAck, HasFlushed, Flushing
<1>2. FlushInv => FlushedBeforeAck
  BY DEF FlushInv
<1> QED
  BY <1>1, <1>2, FlushStep, TypedAlways, PTL DEF Spec

-------------------------------------------------------------------------------
(* A step that writes and settles nothing, and whose requests past the     *)
(* write were so before.                                                   *)
LEMMA WriterQuiet ==
  ASSUME WriterInv, UNCHANGED <<api, settled>>,
         \A p \in Requests : Flushing(req'[p]) /\ Writer(req'[p]) =>
           /\ Flushing(req[p]) /\ req'[p].kind = req[p].kind
           /\ req'[p].hub = req[p].hub /\ req'[p].wrote = req[p].wrote
  PROVE  WriterInv'
<1>1. ASSUME NEW p \in Requests, Writer(req'[p]), Flushing(req'[p]),
             touched[req'[p].hub] <= req'[p].wrote
      PROVE  secret[req'[p].hub] # 0 <=> req'[p].kind = "add"
  BY <1>1 DEF WriterInv, Writer
<1> QED
  BY <1>1 DEF WriterInv, Writer, Flushing, SettledIsTrue, api

(* Every step keeps WriterInv.                                             *)
LEMMA WriterStep ==
  Typed /\ Kinded /\ NothingFromTheFuture /\ WriterInv /\ [Next]_vars => WriterInv'
<1> SUFFICES ASSUME Typed, Kinded, NothingFromTheFuture, WriterInv, [Next]_vars
             PROVE  WriterInv'
  OBVIOUS
<1>f. /\ writes \in Nat /\ req \in [Requests -> Request]
      /\ \A p \in Requests : req[p] \in Request /\ KindOK(req[p])
  BY DEF Typed, Kinded
<1>0. ASSUME NEW q \in Requests, NEW i \in Request, req' = [req EXCEPT ![q] = i],
             UNCHANGED <<api, settled>>, ~(Flushing(i) /\ Writer(i))
      PROVE  WriterInv'
  <2>1. \A p \in Requests : req'[p] = IF p = q THEN i ELSE req[p]
    BY <1>0, <1>f
  <2> QED
    BY <1>0, <2>1, WriterQuiet
<1>e. ~Flushing(Free)
  BY FreeRequest DEF Flushing
<1>1. ASSUME NEW q \in Requests, NEW r \in Replicas, NEW h \in Hubs, Begins(q, r, h)
      PROVE  WriterInv'
  <2>1. PICK i : Begin(q, i) /\ Fresh(i)
    BY <1>1, BeginSteps
  <2>2. ~(Flushing(i) /\ Writer(i))
    BY <2>1 DEF Fresh, Flushing, Writer
  <2> QED
    BY <1>0, <2>1, <2>2 DEF Begin, Fresh, api
<1>2. ASSUME NEW q \in Requests, ReadStep(q) PROVE WriterInv'
  <2>1. PICK i \in Request : req' = [req EXCEPT ![q] = i] /\ ~Writer(i)
    BY <1>2, ReadSteps
  <2>2. UNCHANGED <<api, settled>>
    BY <1>2, ReadSteps
  <2> QED
    BY <1>0, <2>1, <2>2
<1>3. ASSUME NEW q \in Requests, FetchFails(q) \/ Store(q) PROVE WriterInv'
  BY <1>0, <1>3, <1>e, FreeRequest DEF FetchFails, Store, End
<1>5. ASSUME NEW q \in Requests, WriteStep(q) PROVE WriterInv'
  <2> DEFINE h == req[q].hub
  <2>1. PICK i \in Request :
          /\ req' = [req EXCEPT ![q] = i]
          /\ \/ i = Free
             \/ Same(i, req[q]) /\ i.pc = "update" /\ UNCHANGED <<api, settled>>
             \/ Same(i, req[q]) /\ i.pc = "flushList" /\ i.wrote = writes'
          /\ \/ /\ UNCHANGED <<api, settled>>
                /\ i.pc = "flushList" => req[q].kind = "remove" /\ secret[h] = 0
             \/ \E n \in {0, writes + 1} : Write(q, n) /\ (n # 0 <=> req[q].kind = "add")
    BY <1>5, WriteMoves
  <2>2. \A p \in Requests : req'[p] = IF p = q THEN i ELSE req[p]
    BY <2>1, <1>f
  <2>3. ~Flushing(i) \/ (i.hub = h /\ i.kind = req[q].kind /\ i.pc = "flushList" /\ i.wrote = writes')
    BY <1>e, <2>1 DEF Flushing, Same
  <2>4. CASE /\ UNCHANGED <<api, settled>>
             /\ i.pc = "flushList" => req[q].kind = "remove" /\ secret[h] = 0
    <3>1. Flushing(i) => (secret[i.hub] # 0 <=> i.kind = "add")
      BY <2>3, <2>4 DEF Flushing
    <3>2. \A p \in Requests :
            /\ Writer(req'[p]) /\ Flushing(req'[p]) /\ touched[req'[p].hub] <= req'[p].wrote
            => (secret[req'[p].hub] # 0 <=> req'[p].kind = "add")
      BY <2>2, <3>1 DEF WriterInv
    <3> QED
      BY <2>4, <3>2 DEF WriterInv, Writer, Flushing, SettledIsTrue, api
  <2>5. ASSUME NEW n \in {0, writes + 1}, Write(q, n), n # 0 <=> req[q].kind = "add"
        PROVE  WriterInv'
    <3>1. /\ secret'[h] = n /\ touched'[h] = writes + 1 /\ settled'[h] = "open"
          /\ \A g \in Hubs \ {h} : /\ secret'[g] = secret[g] /\ touched'[g] = touched[g]
                                   /\ settled'[g] = settled[g]
      BY <2>5, WriteEffect
    <3>2. SettledIsTrue'
      <4>1. \A g \in Hubs : /\ settled'[g] = "present" => secret'[g] # 0
                            /\ settled'[g] = "absent"  => secret'[g] = 0
        BY <3>1 DEF WriterInv, SettledIsTrue
      <4> QED
        BY <4>1 DEF SettledIsTrue
    <3>3. ASSUME NEW p \in Requests, Writer(req'[p]), Flushing(req'[p]),
                 touched'[req'[p].hub] <= req'[p].wrote
          PROVE  secret'[req'[p].hub] # 0 <=> req'[p].kind = "add"
      <4>1. CASE p = q
        BY <2>2, <2>3, <2>5, <3>1, <3>3, <4>1
      <4>2. CASE p # q
        <5>1. req'[p] = req[p] /\ req[p].wrote <= writes /\ req[p].wrote \in Nat /\ req[p].hub \in Hubs
          BY <1>f, <2>2, <4>2, RequestFields DEF NothingFromTheFuture
        <5>2. req[p].hub # h
          BY <1>f, <3>1, <3>3, <5>1
        <5> QED
          BY <3>1, <3>3, <5>1, <5>2 DEF WriterInv
      <4> QED
        BY <4>1, <4>2
    <3> QED
      BY <3>2, <3>3 DEF WriterInv, Writer, Flushing
  <2> QED
    BY <2>1, <2>4, <2>5
<1>6. ASSUME NEW q \in Requests, WriteFails(q) PROVE WriterInv'
  <2> DEFINE i == [req[q] EXCEPT !.gone = TRUE]
  <2>1. i \in Request /\ i.pc = req[q].pc
    BY <1>f DEF Request
  <2> QED
    BY <1>0, <1>6, <2>1 DEF WriteFails, At, Flushing
<1>7. ASSUME NEW q \in Requests, FlushList(q) \/ FlushHub(q) PROVE WriterInv'
  <2>1. PICK i \in Request :
          /\ req' = [req EXCEPT ![q] = i] /\ Flushing(req[q])
          /\ i.hub = req[q].hub /\ i.kind = req[q].kind /\ i.wrote = req[q].wrote
    BY <1>7, FlushSteps
  <2>2. UNCHANGED <<api, settled>>
    BY <1>7, FlushSteps
  <2>3. \A p \in Requests : req'[p] = IF p = q THEN i ELSE req[p]
    BY <2>1, <1>f
  <2> QED
    BY <2>1, <2>2, <2>3, WriterQuiet
<1>8. ASSUME NEW q \in Requests, Answer(q) PROVE WriterInv'
  <2>1. /\ UNCHANGED api /\ Flushing(req[q])
        /\ \A p \in Requests : req'[p] = IF p = q THEN Free ELSE req[p]
    BY <1>8, <1>f DEF Answer, End, Flushing
  <2>2. SettledIsTrue'
    <3> SUFFICES ASSUME NEW h \in Hubs
                 PROVE  /\ settled'[h] = "present" => secret[h] # 0
                        /\ settled'[h] = "absent"  => secret[h] = 0
      BY <2>1 DEF SettledIsTrue, api
    <3>1. \/ settled'[h] = settled[h]
          \/ /\ h = req[q].hub /\ Writer(req[q]) /\ touched[h] <= req[q].wrote
             /\ settled'[h] = IF req[q].kind = "add" THEN "present" ELSE "absent"
      BY <1>8 DEF Answer, Writer, Typed
    <3> QED
      BY <2>1, <3>1 DEF WriterInv, SettledIsTrue
  <2>3. \A p \in Requests :
          /\ Writer(req'[p]) /\ Flushing(req'[p]) /\ touched[req'[p].hub] <= req'[p].wrote
          => (secret[req'[p].hub] # 0 <=> req'[p].kind = "add")
    BY <1>e, <2>1 DEF WriterInv
  <2> QED
    BY <2>1, <2>2, <2>3 DEF WriterInv, Writer, Flushing, api
<1>9. ASSUME NEW r \in Replicas, NEW k \in Keys, Expire(r, k) PROVE WriterInv'
  BY <1>9, WriterQuiet DEF Expire
<1>10. ASSUME NEW r \in Replicas, Restart(r) PROVE WriterInv'
  <2>1. \A p \in Requests : req'[p] = req[p] \/ ~Flushing(req'[p])
    <3> SUFFICES ASSUME NEW p \in Requests, req'[p] = [req[p] EXCEPT !.gone = TRUE],
                        req[p].pc \in {"create", "update", "delete"}
                 PROVE  ~Flushing(req'[p])
      BY <1>10, <1>e, RestartEffect
    <3> QED
      BY <1>f DEF Request, Flushing
  <2>2. UNCHANGED <<api, settled>>
    BY <1>10, RestartEffect
  <2> QED
    BY <2>1, <2>2, WriterQuiet
<1>11. CASE UNCHANGED vars
  BY <1>11, WriterQuiet DEF vars
<1> QED
  BY <1>1, <1>2, <1>3, <1>5, <1>6, <1>7, <1>8, <1>9, <1>10, <1>11, Cases

(* A success is true: after an AddHub or RemoveHub was answered, and until *)
(* another write of the hub's Secret takes effect, the hub is there, or is *)
(* gone, whoever wrote, failed or was cut off before.                      *)
THEOREM SettledIsTrueHolds == Spec => []SettledIsTrue
<1>1. Init => WriterInv
  BY FreeRequest DEF Init, WriterInv, SettledIsTrue, Flushing
<1>2. WriterInv => SettledIsTrue
  BY DEF WriterInv
<1> QED
  BY <1>1, <1>2, WriterStep, TypedAlways, PTL DEF Spec

-------------------------------------------------------------------------------
\* A request shows the truth, unless it passed an error over, or has read nothing
\* since the last write.
Truthful(i) == \/ i.pc \notin {"connect", "spokes", "store"}
               \/ i.degraded
               \/ i.readAt # writes
               \/ i.seen = Truth(KeyOf(i))

\* The writer i has yet to flush the key k at the replica r, for its n-th write.
WillFlush(i, r, k, n) == i.at = r /\ Writer(i) /\ k \in ToFlush(i) /\ i.wrote = n

(* The two halves of the invariant, in these words.                        *)
LEMMA CauseInWords ==
  /\ CauseInv <=> (\A q \in Requests : Truthful(req[q])) /\ StaleHasACause
  /\ StaleHasACause <=> \A r \in Replicas, k \in Keys : Outdated(r, k) =>
       \/ cache[r][k].degraded
       \/ cache[r][k].readAt < cache[r][k].storedAt
       \/ cache[r][k].storedAt < unheeded[r][k]
       \/ \E q \in Requests : \E n : WillFlush(req[q], r, k, n) /\ cache[r][k].storedAt < n
BY DEF CauseInv, Truthful, StaleHasACause, WillFlush, Writer

(* A step that writes nothing, stores at most an entry that has a cause or *)
(* is true, and takes from no writer what it has to flush.                 *)
LEMMA CauseQuiet ==
  ASSUME CauseInv, UNCHANGED api,
         \A p \in Requests : Truthful(req'[p]),
         \A r \in Replicas, k \in Keys :
           \/ cache'[r][k] \in {cache[r][k], NoEntry}
           \/ cache'[r][k].degraded
           \/ cache'[r][k].readAt < cache'[r][k].storedAt
           \/ cache'[r][k].data = Truth(k),
         \A p \in Requests, r \in Replicas, k \in Keys, n \in Nat :
           WillFlush(req[p], r, k, n) =>
             WillFlush(req'[p], r, k, n) \/ cache'[r][k] = NoEntry,
         \A p \in Requests : req[p].wrote \in Nat
  PROVE  CauseInv'
<1>1. Truth(List)' = Truth(List) /\ \A k \in Keys : Truth(k)' = Truth(k)
  BY DEF Truth, api
<1>2. ASSUME NEW r \in Replicas, NEW k \in Keys, cache'[r][k] # NoEntry, cache'[r][k].data # Truth(k)
      PROVE  \/ cache'[r][k].degraded
             \/ cache'[r][k].readAt < cache'[r][k].storedAt
             \/ cache'[r][k].storedAt < unheeded[r][k]
             \/ \E q \in Requests : \E n : WillFlush(req'[q], r, k, n) /\ cache'[r][k].storedAt < n
  <2>1. CASE cache'[r][k] # cache[r][k]
    BY <1>2, <2>1
  <2>2. CASE cache'[r][k] = cache[r][k]
    <3>1. \/ cache[r][k].degraded
          \/ cache[r][k].readAt < cache[r][k].storedAt
          \/ cache[r][k].storedAt < unheeded[r][k]
          \/ \E q \in Requests : \E n : WillFlush(req[q], r, k, n) /\ cache[r][k].storedAt < n
      BY <1>2, <2>2, CauseInWords DEF Outdated
    <3>2. ASSUME NEW q \in Requests, NEW n, WillFlush(req[q], r, k, n), cache[r][k].storedAt < n
          PROVE  \E m : WillFlush(req'[q], r, k, m) /\ cache'[r][k].storedAt < m
      BY <1>2, <2>2, <3>2 DEF WillFlush
    <3> QED
      BY <2>2, <3>1, <3>2
  <2> QED
    BY <2>1, <2>2
<1>3. StaleHasACause'
  BY <1>1, <1>2 DEF StaleHasACause, Outdated, WillFlush, Writer, api, ToFlush, Flushes
<1>4. \A q \in Requests : Truthful(req[q])'
  BY <1>1 DEF Truthful, api, KeyOf, Truth
<1> QED
  BY <1>3, <1>4 DEF CauseInv, Truthful

(* Every step keeps CauseInv.                                              *)
LEMMA CauseStep ==
  Typed /\ Kinded /\ NothingFromTheFuture /\ CauseInv /\ [Next]_vars => CauseInv'
<1> SUFFICES ASSUME Typed, Kinded, NothingFromTheFuture, CauseInv, [Next]_vars
             PROVE  CauseInv'
  OBVIOUS
<1>f. /\ writes \in Nat /\ req \in [Requests -> Request]
      /\ \A p \in Requests : req[p] \in Request /\ KindOK(req[p]) /\ req[p].wrote \in Nat
  BY RequestFields DEF Typed, Kinded
<1>t. \A p \in Requests : Truthful(req[p])
  BY CauseInWords
<1>e. Truthful(Free)
  BY FreeRequest DEF Truthful
<1>0. ASSUME NEW q \in Requests, NEW i \in Request, req' = [req EXCEPT ![q] = i],
             UNCHANGED <<api, cache>>, Truthful(i), ToFlush(req[q]) = {}
      PROVE  CauseInv'
  <2>1. \A p \in Requests : req'[p] = IF p = q THEN i ELSE req[p]
    BY <1>0, <1>f
  <2>2. \A p \in Requests, r \in Replicas, k \in Keys, n \in Nat :
          WillFlush(req[p], r, k, n) => WillFlush(req'[p], r, k, n)
    BY <1>0, <2>1 DEF WillFlush
  <2> QED
    BY <1>0, <1>f, <1>t, <2>1, <2>2, CauseQuiet
<1>1. ASSUME NEW q \in Requests, NEW r \in Replicas, NEW h \in Hubs, Begins(q, r, h)
      PROVE  CauseInv'
  <2>1. PICK i : Begin(q, i) /\ Fresh(i)
    BY <1>1, BeginSteps
  <2>2. Truthful(i) /\ ToFlush(req[q]) = {}
    BY <1>f, <2>1, WhatIsLeft DEF Fresh, Truthful, Begin, Flushing
  <2> QED
    BY <1>0, <2>1, <2>2 DEF Begin, Fresh
<1>2. ASSUME NEW q \in Requests, ReadStep(q) PROVE CauseInv'
  <2>1. PICK i \in Request : req' = [req EXCEPT ![q] = i] /\ Reads(i, req[q])
    BY <1>2, ReadSteps
  <2>2. UNCHANGED <<api, cache>>
    BY <1>2, ReadSteps
  <2>3. ToFlush(req[q]) = {}
    <3>1. req[q].pc \in {"fetch", "connect", "spokes"}
      BY <1>2 DEF ReadStep, GetManagedHubs, GetManagedHubsDegraded, GetManagedHub, ConnectHub, GetSpokes
    <3> QED
      BY <1>f, <3>1, WhatIsLeft DEF Flushing
  <2>4. Truthful(i)
    BY <1>t, <2>1 DEF Truthful, Reads
  <2> QED
    BY <1>0, <2>1, <2>2, <2>3, <2>4
<1>3. ASSUME NEW q \in Requests, FetchFails(q) PROVE CauseInv'
  <2>1. ToFlush(req[q]) = {}
    BY <1>3, <1>f, WhatIsLeft DEF FetchFails, Flushing
  <2> QED
    BY <1>0, <1>3, <1>e, <2>1, FreeRequest DEF FetchFails, End
<1>4. ASSUME NEW q \in Requests, Store(q) PROVE CauseInv'
  <2> DEFINE at == req[q].at
             key == KeyOf(req[q])
             e == [data |-> req[q].seen, readAt |-> req[q].readAt,
                   storedAt |-> writes, degraded |-> req[q].degraded]
  <2>1. e.degraded \/ e.readAt < e.storedAt \/ e.data = Truth(key)
    <3>1. req[q].readAt \in Nat /\ req[q].readAt <= writes /\ req[q].pc = "store" /\ Truthful(req[q])
      BY <1>4, <1>f, <1>t, RequestFields DEF Store, NothingFromTheFuture
    <3> QED
      BY <1>f, <3>1 DEF Truthful
  <2>2. /\ cache' = [cache EXCEPT ![at][key] = e] /\ UNCHANGED api
        /\ \A p \in Requests : req'[p] = IF p = q THEN Free ELSE req[p]
        /\ ToFlush(req[q]) = {}
    BY <1>4, <1>f, WhatIsLeft DEF Store, End, Flushing
  <2> HIDE DEF e, at, key
  <2>3. \A r \in Replicas, k \in Keys : cache'[r][k] = cache[r][k] \/ (k = key /\ cache'[r][k] = e)
    BY <2>2 DEF Typed
  <2>4. \A p \in Requests, r \in Replicas, k \in Keys, n \in Nat :
          WillFlush(req[p], r, k, n) => WillFlush(req'[p], r, k, n)
    BY <2>2 DEF WillFlush
  <2>5. \A p \in Requests : Truthful(req'[p])
    BY <1>e, <1>t, <2>2
  <2>6. \A r \in Replicas, k \in Keys :
           \/ cache'[r][k] \in {cache[r][k], NoEntry}
           \/ cache'[r][k].degraded
           \/ cache'[r][k].readAt < cache'[r][k].storedAt
           \/ cache'[r][k].data = Truth(k)
    BY <2>1, <2>3
  <2> QED
    BY <1>f, <2>2, <2>4, <2>5, <2>6, CauseQuiet
<1>5. ASSUME NEW q \in Requests, WriteStep(q) PROVE CauseInv'
  <2> DEFINE h == req[q].hub
  <2>1. PICK i \in Request :
          /\ req' = [req EXCEPT ![q] = i] /\ KindOK(i)
          /\ \/ i = Free
             \/ Same(i, req[q]) /\ i.pc = "update"
             \/ Same(i, req[q]) /\ i.pc = "flushList" /\ ~i.gone /\ i.wrote = writes'
          /\ \/ UNCHANGED <<api, settled>>
             \/ /\ (i = Free /\ req[q].gone) \/ i.pc = "flushList"
                /\ \E n \in {0, writes + 1} : Write(q, n)
    BY <1>5, WriteMoves
  <2>2. /\ UNCHANGED cache /\ req[q].pc \in {"create", "update", "delete"} /\ ToFlush(req[q]) = {}
        /\ h \in Hubs
    BY <1>5, <1>f, WriteSteps, WhatIsLeft, RequestFields DEF Flushing
  <2>3. i.pc \notin {"connect", "spokes", "store"}
    BY <2>1, FreeRequest
  <2>4. CASE UNCHANGED <<api, settled>>
    BY <1>0, <2>1, <2>2, <2>3, <2>4 DEF Truthful
  <2>5. ASSUME NEW n \in {0, writes + 1}, Write(q, n), (i = Free /\ req[q].gone) \/ i.pc = "flushList"
        PROVE  CauseInv'
    <3>1. \A p \in Requests : req'[p] = IF p = q THEN i ELSE req[p]
      BY <2>1, <1>f
    <3>2. /\ writes' = writes + 1
          /\ \A g \in Hubs \ {h} : secret'[g] = secret[g]
          /\ \A r \in Replicas, k \in Keys :
               unheeded'[r][k] = IF k \in {List, h} /\ ~Heeds(req[q], r, k)
                                   THEN writes + 1 ELSE unheeded[r][k]
      BY <2>5, WriteEffect
    <3>3. \A p \in Requests : req'[p].readAt # writes' \/ req'[p].pc \notin {"connect", "spokes", "store"}
      <4> SUFFICES ASSUME NEW p \in Requests, p # q PROVE req[p].readAt # writes'
        BY <2>3, <3>1
      <4>1. req[p].readAt \in Nat /\ req[p].readAt <= writes
        BY <1>f, RequestFields DEF NothingFromTheFuture
      <4> QED
        BY <1>f, <3>2, <4>1
    <3>4. ASSUME NEW r \in Replicas, NEW k \in Keys, cache[r][k] # NoEntry,
                 cache[r][k].data # Truth(k)'
          PROVE  \/ cache[r][k].degraded
                 \/ cache[r][k].readAt < cache[r][k].storedAt
                 \/ cache[r][k].storedAt < unheeded'[r][k]
                 \/ \E p \in Requests : \E m : WillFlush(req'[p], r, k, m) /\ cache[r][k].storedAt < m
      <4>1. cache[r][k].storedAt \in Nat /\ cache[r][k].storedAt < writes + 1
        <5>1. cache[r][k].storedAt \in Nat /\ cache[r][k].storedAt <= writes
          BY <3>4 DEF Typed, Entry, NothingFromTheFuture
        <5> QED
          BY <1>f, <5>1
      <4>2. CASE k \in {List, h} /\ ~Heeds(req[q], r, k)
        BY <3>2, <4>1, <4>2
      <4>3. CASE k \in {List, h} /\ Heeds(req[q], r, k)
        <5>1. i.pc = "flushList" /\ Same(i, req[q]) /\ i.wrote = writes'
          BY <2>1, <2>5, <4>3, FreeRequest DEF Heeds
        <5>2. i.at = r /\ Writer(i) /\ k \in Flushes(i)
          BY <1>f, <2>2, <4>3, <5>1 DEF Heeds, Same, KindOK, Writer, Flushes
        <5>3. k \in ToFlush(i)
          BY <2>1, <5>1, <5>2, WhatIsLeft DEF Writer
        <5>4. WillFlush(req'[q], r, k, writes + 1)
          BY <3>1, <3>2, <5>1, <5>2, <5>3 DEF WillFlush
        <5> QED
          BY <4>1, <5>4
      <4>4. CASE k \notin {List, h}
        <5>1. k \in Hubs /\ Truth(k)' = Truth(k)
          BY <3>2, <4>4 DEF Keys, Truth
        <5>2. Outdated(r, k) /\ unheeded'[r][k] = unheeded[r][k]
          BY <3>2, <3>4, <4>4, <5>1 DEF Outdated
        <5>3. \A p \in Requests : \A m : WillFlush(req[p], r, k, m) => WillFlush(req'[p], r, k, m)
          BY <2>2, <3>1 DEF WillFlush
        <5> QED
          BY <5>2, <5>3, CauseInWords
      <4> QED
        BY <4>2, <4>3, <4>4
    <3>5. StaleHasACause'
      BY <2>2, <3>4 DEF StaleHasACause, Outdated, WillFlush, Writer, ToFlush, Flushes
    <3> QED
      BY <3>3, <3>5 DEF CauseInv
  <2> QED
    BY <2>1, <2>4, <2>5
<1>6. ASSUME NEW q \in Requests, WriteFails(q) PROVE CauseInv'
  <2> DEFINE i == [req[q] EXCEPT !.gone = TRUE]
  <2>1. i \in Request /\ i.pc = req[q].pc
    BY <1>f DEF Request
  <2>2. Truthful(i) /\ ToFlush(req[q]) = {}
    BY <1>6, <1>f, <2>1, WhatIsLeft DEF WriteFails, At, Truthful, Flushing
  <2> QED
    BY <1>0, <1>6, <2>1, <2>2 DEF WriteFails
<1>7. ASSUME NEW q \in Requests, FlushList(q) \/ FlushHub(q) PROVE CauseInv'
  <2>1. PICK k \in Keys, i \in Request :
          /\ cache' = [cache EXCEPT ![req[q].at][k] = NoEntry]
          /\ req' = [req EXCEPT ![q] = i] /\ KindOK(i)
          /\ i.at = req[q].at /\ i.kind = req[q].kind
          /\ i.wrote = req[q].wrote /\ Flushing(i)
          /\ ToFlush(i) = ToFlush(req[q]) \ {k}
    BY <1>7, FlushSteps
  <2>2. UNCHANGED api
    BY <1>7, FlushSteps
  <2>3. \A p \in Requests : req'[p] = IF p = q THEN i ELSE req[p]
    BY <2>1, <1>f
  <2>4. /\ \A r \in Replicas, l \in Keys : cache'[r][l] \in {cache[r][l], NoEntry}
        /\ cache'[req[q].at][k] = NoEntry
    BY <2>1, <1>f, RequestFields DEF Typed
  <2>5. \A p \in Requests, r \in Replicas, l \in Keys, n \in Nat :
          WillFlush(req[p], r, l, n) => WillFlush(req'[p], r, l, n) \/ cache'[r][l] = NoEntry
    BY <2>1, <2>3, <2>4 DEF WillFlush, Writer
  <2>6. Truthful(i)
    BY <2>1 DEF Truthful, Flushing
  <2>7. \A p \in Requests : Truthful(req'[p])
    BY <1>t, <2>3, <2>6
  <2> QED
    BY <1>f, <2>2, <2>4, <2>5, <2>7, CauseQuiet
<1>8. ASSUME NEW q \in Requests, Answer(q) PROVE CauseInv'
  <2>1. ToFlush(req[q]) = {}
    BY <1>8, <1>f, WhatIsLeft DEF Answer
  <2> QED
    BY <1>0, <1>8, <1>e, <2>1, FreeRequest DEF Answer, End
<1>9. ASSUME NEW r \in Replicas, NEW k \in Keys, Expire(r, k) PROVE CauseInv'
  <2>1. \A s \in Replicas, l \in Keys : cache'[s][l] \in {cache[s][l], NoEntry}
    BY <1>9 DEF Expire, Typed
  <2> QED
    BY <1>9, <1>f, <1>t, <2>1, CauseQuiet DEF Expire
<1>10. ASSUME NEW r \in Replicas, Restart(r) PROVE CauseInv'
  <2>1. \A p \in Requests :
          /\ Truthful(req'[p])
          /\ req'[p] = req[p] \/ req[p].at = r \/ ToFlush(req[p]) = {}
    <3> SUFFICES ASSUME NEW p \in Requests
                 PROVE  /\ Truthful(req'[p])
                        /\ req'[p] = req[p] \/ req[p].at = r \/ ToFlush(req[p]) = {}
      OBVIOUS
    <3>1. CASE req'[p] = req[p]
      BY <1>t, <3>1
    <3>2. CASE req'[p] = Free /\ req[p].at = r
      BY <1>e, <3>2
    <3>3. CASE req'[p] = [req[p] EXCEPT !.gone = TRUE] /\ req[p].pc \in {"create", "update", "delete"}
      <4>1. req'[p].pc = req[p].pc
        BY <1>f, <3>3 DEF Request
      <4> QED
        BY <1>f, <3>3, <4>1, WhatIsLeft DEF Truthful, Flushing
    <3>4. req'[p] = Free => req[p].at = r \/ req[p] = Free
      BY <1>10, <1>f DEF Restart, Request
    <3> QED
      BY <1>10, <3>1, <3>2, <3>3, <3>4, RestartEffect
  <2>2. /\ \A s \in Replicas, k \in Keys : cache'[s][k] \in {cache[s][k], NoEntry}
        /\ \A k \in Keys : cache'[r][k] = NoEntry
        /\ UNCHANGED api
    BY <1>10, RestartEffect
  <2>3. \A p \in Requests, s \in Replicas, k \in Keys, n \in Nat :
          WillFlush(req[p], s, k, n) => WillFlush(req'[p], s, k, n) \/ cache'[s][k] = NoEntry
    BY <2>1, <2>2 DEF WillFlush
  <2> QED
    BY <1>f, <2>1, <2>2, <2>3, CauseQuiet
<1>11. CASE UNCHANGED vars
  BY <1>11, <1>f, <1>t, CauseQuiet DEF vars
<1> QED
  BY <1>1, <1>2, <1>3, <1>4, <1>5, <1>6, <1>7, <1>8, <1>9, <1>10, <1>11, Cases

(* What a replica shows that is not the truth has one of the four causes:  *)
(* an error passed over, a write during the fetch, a write that the        *)
(* replica was not told the outcome of or does not flush the key for, or a *)
(* writer that is about to flush it.                                       *)
THEOREM StaleHasACauseHolds == Spec => []StaleHasACause
<1>1. Init => CauseInv
  BY FreeRequest DEF Init, CauseInv, StaleHasACause, Outdated
<1>2. CauseInv => StaleHasACause
  BY DEF CauseInv
<1> QED
  BY <1>1, <1>2, CauseStep, TypedAlways, PTL DEF Spec

===============================================================================

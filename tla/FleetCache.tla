------------------------------ MODULE FleetCache ------------------------------
(***************************************************************************)
(* The hub handlers (pkg/handlers/hubs.go, hub_management.go) over the     *)
(* replicas' caches and the API server.  Hubs added by hand are Secrets in *)
(* the acm-fleet namespace; AddHub and RemoveHub write them, ListHubs and  *)
(* GetHub read them and cache what they read.  Each replica of the backend *)
(* has its own cache (deployment/k8s/all-in-one.yaml runs two), and gin    *)
(* serves every request on a goroutine of its own, so the steps of a       *)
(* request interleave with those of all others: a step is what one lock of *)
(* the cache or one call of the API server makes atomic.                   *)
(*                                                                         *)
(* A hub's Secret is represented by the number of the write that made it.  *)
(* RHACM's own hubs appear in every answer and no handler changes them:    *)
(* they are left out, and so are Secrets in a hub's own namespace, where a *)
(* hub added by hand has none.  The lifetime of an entry (TTLCache) is     *)
(* abstracted by Expire.  A cache hit answers with the entry and changes   *)
(* nothing: it is no step of the model, and the properties speak of        *)
(* entries as of the answers they give.                                    *)
(***************************************************************************)
EXTENDS Integers

CONSTANTS
  Hubs,       \* names of hubs added by hand
  Before,     \* those of them that were added before the backend started
  Replicas,   \* backend pods
  Requests,   \* requests that may be in flight at once
  List,       \* the cache key "hubs:list"; "hub:<name>" is the hub itself
  NoEntry,    \* an absent cache key
  MaxCalls    \* bound: requests that the cache cannot answer

Keys == Hubs \cup {List}

\* What an answer shows of each hub: the write its Secret came from, 0 if absent.
Snapshot == [Hubs -> Nat]
Nothing == [h \in Hubs |-> 0]

\* A cached answer.  How many writes there had been when it was first read
\* for, and when it was stored, and whether an error was passed over, is history.
Entry == [data : Snapshot, readAt : Nat, storedAt : Nat, degraded : BOOLEAN]

ASSUME ListIsNoHub == List \notin Hubs
ASSUME NoEntryIsNoEntry == NoEntry \notin Entry
ASSUME MaxCallsAssumption == MaxCalls \in Nat
ASSUME SomeHub == Hubs # {}
ASSUME SomeReplica == Replicas # {}

Kinds == {"list", "get", "add", "remove", "refresh"}
PCs == {"idle", "fetch", "connect", "spokes", "store",
        "create", "update", "delete", "flushList", "flushHub", "answer"}

\* A request; seen is what it will show, readAt and degraded as in its entry, and
\* wrote the write that its success speaks of.  One that is gone was answered 500
\* or died with its replica while it waited for the API server, which may still
\* do what it was asked.
Request == [pc : PCs, kind : Kinds, at : Replicas, hub : Hubs, gone : BOOLEAN,
            seen : Snapshot, readAt : Nat, degraded : BOOLEAN, wrote : Nat]

\* A goroutine that serves no request.
Free == [pc |-> "idle", kind |-> "list", gone |-> FALSE,
         at |-> CHOOSE r \in Replicas : TRUE, hub |-> CHOOSE h \in Hubs : TRUE,
         seen |-> Nothing, readAt |-> 0, degraded |-> FALSE, wrote |-> 0]

VARIABLES
  secret,     \* API server: the Secret of each hub, as the write that made it, or 0
  writes,     \* how many times a Secret was created, updated or deleted
  cache,      \* each replica's cache
  req,        \* what each request is doing
  calls,      \* requests so far (for MaxCalls)
  touched,    \* history: the newest write of each hub's Secret
  unheeded,   \* history: per replica and key, the newest write that changes what
              \* the key stands for and that the replica will not flush it for
  acked,      \* history: per replica and key, the newest write whose success
              \* was answered after flushing the key
  settled     \* history: what the last success says of each hub, until the next
              \* write of its Secret

api == <<secret, writes, touched, unheeded>>
vars == <<api, cache, req, calls, acked, settled>>

\* The backend starts; what was written before counts as one write.
Init ==
  /\ secret = [h \in Hubs |-> IF h \in Before THEN 1 ELSE 0]
  /\ writes = 1
  /\ cache = [r \in Replicas |-> [k \in Keys |-> NoEntry]]
  /\ req = [q \in Requests |-> Free]
  /\ calls = 0
  /\ touched = secret
  /\ unheeded = [r \in Replicas |-> [k \in Keys |-> 0]]
  /\ acked = [r \in Replicas |-> [k \in Keys |-> 0]]
  /\ settled = [h \in Hubs |-> "open"]

Only(h, n) == [Nothing EXCEPT ![h] = n]

-------------------------------------------------------------------------------
\* Reads.

Goto(q, pc) == req' = [req EXCEPT ![q].pc = pc]

End(q) == req' = [req EXCEPT ![q] = Free]

New(pc, kind, r, h) == [Free EXCEPT !.pc = pc, !.kind = kind, !.at = r, !.hub = h]

Begin(q, i) ==
  /\ req[q].pc = "idle"
  /\ calls < MaxCalls
  /\ calls' = calls + 1
  /\ req' = [req EXCEPT ![q] = i]
  /\ UNCHANGED <<api, cache, acked, settled>>

\* ListHubs on a miss of "hubs:list".
ListHubs(q, r) ==
  /\ cache[r][List] = NoEntry
  /\ Begin(q, New("fetch", "list", r, Free.hub))

\* GetManagedHubs: the Secrets are listed in one call.
GetManagedHubs(q) ==
  /\ req[q].pc = "fetch" /\ req[q].kind = "list"
  /\ req' = [req EXCEPT ![q].pc = "store", ![q].seen = secret, ![q].readAt = writes]
  /\ UNCHANGED <<api, cache, calls, acked, settled>>

GetManagedHubsNil(q) ==
  /\ req[q].pc = "fetch" /\ req[q].kind = "list"
  /\ req' = [req EXCEPT ![q].pc = "store", ![q].seen = NoEntry]
  /\ UNCHANGED <<api, cache, calls, acked, settled>>

\* The call that lists the Secrets fails, and the hubs added by hand are
\* left out of an answer that still counts as a success.
GetManagedHubsDegraded(q) ==
  /\ req[q].pc = "fetch" /\ req[q].kind = "list"
  /\ req' = [req EXCEPT ![q].pc = "store", ![q].degraded = TRUE]
  /\ UNCHANGED <<api, cache, calls, acked, settled>>

\* GetHub on a miss of "hub:<name>".
GetHub(q, r, h) ==
  /\ cache[r][h] = NoEntry
  /\ Begin(q, New("fetch", "get", r, h))

\* GetManagedHub finds the Secret.
GetManagedHub(q) ==
  /\ req[q].pc = "fetch" /\ req[q].kind = "get"
  /\ secret[req[q].hub] # 0
  /\ req' = [req EXCEPT ![q].pc = "connect", ![q].readAt = writes,
                        ![q].seen = Only(req[q].hub, secret[req[q].hub])]
  /\ UNCHANGED <<api, cache, calls, acked, settled>>

\* The Secret is read again, with whatever it holds by now.
ReadAgain(q, pc) ==
  /\ secret[req[q].hub] # 0
  /\ req' = [req EXCEPT ![q].pc = pc, ![q].seen = Only(req[q].hub, secret[req[q].hub])]

\* NewHubClientFromSecret reads the Secret once more; if that fails, or the
\* Secret is gone by now, the bare hub of the first read is the answer.
ConnectHub(q) ==
  /\ req[q].pc = "connect"
  /\ ReadAgain(q, "spokes") \/ Goto(q, "store")
  /\ UNCHANGED <<api, cache, calls, acked, settled>>

\* And so does getSpokesClustersFromHub, for the spokes; a failure leaves the
\* hub of the second read without them.
GetSpokes(q) ==
  /\ req[q].pc = "spokes"
  /\ ReadAgain(q, "store") \/ Goto(q, "store")
  /\ UNCHANGED <<api, cache, calls, acked, settled>>

\* An error: 500 from ListHubs, 404 from GetHub; nothing is cached.
FetchFails(q) ==
  /\ req[q].pc = "fetch"
  /\ End(q)
  /\ UNCHANGED <<api, cache, calls, acked, settled>>

KeyOf(i) == IF i.kind = "list" THEN List ELSE i.hub

\* cache.Set, and the answer.
Store(q) ==
  /\ req[q].pc = "store"
  /\ cache' = [cache EXCEPT ![req[q].at][KeyOf(req[q])] =
                 [data |-> req[q].seen, readAt |-> req[q].readAt,
                  storedAt |-> writes, degraded |-> req[q].degraded]]
  /\ End(q)
  /\ UNCHANGED <<api, calls, acked, settled>>

-------------------------------------------------------------------------------
\* Writes.

AddHub(q, r, h) == Begin(q, New("create", "add", r, h))

RemoveHub(q, r, h) == Begin(q, New("delete", "remove", r, h))

\* A request waits for the API server, and lives.
At(q, pc) == req[q].pc = pc /\ ~req[q].gone

\* The keys a kind of request flushes.
Flushes(i) == IF i.kind = "add" THEN {List} ELSE {List, i.hub}

\* One write of the API server.
Write(q, n) ==
  LET h == req[q].hub
      heeds(r, k) == r = req[q].at /\ k \in Flushes(req[q]) /\ ~req[q].gone
  IN /\ secret' = [secret EXCEPT ![h] = n]
     /\ writes' = writes + 1
     /\ touched' = [touched EXCEPT ![h] = writes + 1]
     /\ unheeded' = [r \in Replicas |-> [k \in Keys |->
                       IF k \in {List, h} /\ ~heeds(r, k) THEN writes + 1 ELSE unheeded[r][k]]]
     /\ settled' = [settled EXCEPT ![h] = "open"]

\* The write was answered with success.
Wrote(q, n) == req' = [req EXCEPT ![q].pc = "flushList", ![q].wrote = n]

CreateSecret(q) ==
  /\ At(q, "create")
  /\ IF secret[req[q].hub] # 0
       THEN Goto(q, "update") /\ UNCHANGED <<api, settled>>
       ELSE Write(q, writes + 1) /\ Wrote(q, writes + 1)
  /\ UNCHANGED <<cache, calls, acked>>

UpdateIgnoresNotFound(q) ==
  /\ At(q, "update")
  /\ IF secret[req[q].hub] = 0
       THEN Wrote(q, writes) /\ UNCHANGED <<api, settled>>
       ELSE Write(q, writes + 1) /\ Wrote(q, writes + 1)
  /\ UNCHANGED <<cache, calls, acked>>

UpdateSecretUnflushed(q) ==
  /\ At(q, "update")
  /\ IF secret[req[q].hub] = 0
       THEN End(q) /\ UNCHANGED <<api, settled>>
       ELSE /\ Write(q, writes + 1)
            /\ req' = [req EXCEPT ![q].pc = "answer", ![q].wrote = writes + 1]
  /\ UNCHANGED <<cache, calls, acked>>

\* Update without a resource version overwrites whatever is there; the
\* Secret may have been deleted since Create found it: 500.
UpdateSecret(q) ==
  /\ At(q, "update")
  /\ IF secret[req[q].hub] = 0
       THEN End(q) /\ UNCHANGED <<api, settled>>
       ELSE Write(q, writes + 1) /\ Wrote(q, writes + 1)
  /\ UNCHANGED <<cache, calls, acked>>

\* Deleting what does not exist counts as success.
DeleteSecret(q) ==
  /\ At(q, "delete")
  /\ IF secret[req[q].hub] = 0
       THEN Wrote(q, writes) /\ UNCHANGED <<api, settled>>
       ELSE Write(q, 0) /\ Wrote(q, writes + 1)
  /\ UNCHANGED <<cache, calls, acked>>

\* A call of the API server ends in an error (a timeout, a lost connection):
\* 500, and no cache is flushed.
WriteFails(q) ==
  /\ \/ At(q, "create") \/ At(q, "update") \/ At(q, "delete")
  /\ req' = [req EXCEPT ![q].gone = TRUE]
  /\ UNCHANGED <<api, cache, calls, acked, settled>>

\* What became of the call of a request that is gone: nothing, or it takes
\* effect after all, as late as it likes.
LateWrite(q) ==
  /\ req[q].gone
  /\ End(q)
  /\ \/ UNCHANGED <<api, settled>>
     \/ req[q].pc = "create" /\ secret[req[q].hub] = 0 /\ Write(q, writes + 1)
     \/ req[q].pc = "update" /\ secret[req[q].hub] # 0 /\ Write(q, writes + 1)
     \/ req[q].pc = "delete" /\ secret[req[q].hub] # 0 /\ Write(q, 0)
  /\ UNCHANGED <<cache, calls, acked>>

\* RefreshHubCache.  It writes nothing; what it promises is about the
\* writes there were when it was called.
RefreshHubCache(q, r, h) ==
  Begin(q, [New("flushHub", "refresh", r, h) EXCEPT !.wrote = writes])

FlushHubForList(q) ==
  /\ req[q].pc = "flushList"
  /\ cache' = [cache EXCEPT ![req[q].at][req[q].hub] = NoEntry]
  /\ Goto(q, IF req[q].kind = "remove" THEN "flushHub" ELSE "answer")
  /\ UNCHANGED <<api, calls, acked, settled>>

\* cache.Delete("hubs:list"), after which RemoveHub has one more key to flush.
FlushList(q) ==
  /\ req[q].pc = "flushList"
  /\ cache' = [cache EXCEPT ![req[q].at][List] = NoEntry]
  /\ Goto(q, IF req[q].kind = "remove" THEN "flushHub" ELSE "answer")
  /\ UNCHANGED <<api, calls, acked, settled>>

\* cache.Delete("hub:" + name), after which RefreshHubCache flushes the list.
FlushHub(q) ==
  /\ req[q].pc = "flushHub"
  /\ cache' = [cache EXCEPT ![req[q].at][req[q].hub] = NoEntry]
  /\ Goto(q, IF req[q].kind = "refresh" THEN "flushList" ELSE "answer")
  /\ UNCHANGED <<api, calls, acked, settled>>

\* The success is answered.  It settles the hub unless another write of its
\* Secret came after the request's own.
Answer(q) ==
  /\ req[q].pc = "answer"
  /\ End(q)
  /\ acked' = [acked EXCEPT ![req[q].at] = [k \in Keys |->
                 IF k \in Flushes(req[q]) /\ req[q].wrote > @[k] THEN req[q].wrote ELSE @[k]]]
  /\ settled' = IF req[q].kind \in {"add", "remove"} /\ touched[req[q].hub] <= req[q].wrote
                  THEN [settled EXCEPT ![req[q].hub] =
                         IF req[q].kind = "add" THEN "present" ELSE "absent"]
                  ELSE settled
  /\ UNCHANGED <<api, cache, calls>>

\* The lifetime of an entry is over (30 minutes after its Set).
Expire(r, k) ==
  /\ cache[r][k] # NoEntry
  /\ cache' = [cache EXCEPT ![r][k] = NoEntry]
  /\ UNCHANGED <<api, req, calls, acked, settled>>

\* A pod is stopped and started again: the process exits, at the latest 30
\* seconds after the signal, with requests that may still be under way between
\* any two of their steps; the cache starts empty.
Restart(r) ==
  /\ \/ \E k \in Keys : cache[r][k] # NoEntry
     \/ \E q \in Requests : req[q].pc # "idle" /\ ~req[q].gone /\ req[q].at = r
  /\ cache' = [cache EXCEPT ![r] = [k \in Keys |-> NoEntry]]
  /\ req' = [q \in Requests |->
                IF req[q].at # r THEN req[q]
                ELSE IF req[q].pc \in {"create", "update", "delete"}
                       THEN [req[q] EXCEPT !.gone = TRUE]
                       ELSE Free]
  /\ UNCHANGED <<api, calls, acked, settled>>

-------------------------------------------------------------------------------
Step(q) == \/ GetManagedHubs(q) \/ GetManagedHubsDegraded(q)
           \/ GetManagedHub(q) \/ ConnectHub(q) \/ GetSpokes(q) \/ FetchFails(q) \/ Store(q)
           \/ CreateSecret(q) \/ UpdateSecret(q) \/ DeleteSecret(q) \/ WriteFails(q) \/ LateWrite(q)
           \/ FlushList(q) \/ FlushHub(q) \/ Answer(q)

Next == \/ \E q \in Requests, r \in Replicas : ListHubs(q, r)
        \/ \E q \in Requests, r \in Replicas, h \in Hubs :
              \/ GetHub(q, r, h) \/ AddHub(q, r, h)
              \/ RemoveHub(q, r, h) \/ RefreshHubCache(q, r, h)
        \/ \E q \in Requests : Step(q)
        \/ \E r \in Replicas : Restart(r) \/ \E k \in Keys : Expire(r, k)

Spec == Init /\ [][Next]_vars

-------------------------------------------------------------------------------
Typed == /\ secret \in Snapshot
         /\ writes \in Nat
         /\ cache \in [Replicas -> [Keys -> Entry \cup {NoEntry}]]
         /\ req \in [Requests -> Request]
         /\ calls \in 0 .. MaxCalls
         /\ touched \in [Hubs -> Nat]
         /\ unheeded \in [Replicas -> [Keys -> Nat]]
         /\ acked \in [Replicas -> [Keys -> Nat]]
         /\ settled \in [Hubs -> {"open", "present", "absent"}]

\* Nothing speaks of a write that has not been, and an entry is no older than
\* what it shows.
NothingFromTheFuture ==
  /\ \A h \in Hubs : secret[h] <= writes /\ touched[h] <= writes
  /\ \A q \in Requests : /\ req[q].readAt <= writes /\ req[q].wrote <= writes
                         /\ \A h \in Hubs : req[q].seen[h] <= writes
  /\ \A r \in Replicas, k \in Keys :
       /\ acked[r][k] <= writes /\ unheeded[r][k] <= writes
       /\ LET e == cache[r][k] IN e # NoEntry =>
            /\ e.readAt <= e.storedAt /\ e.storedAt <= writes
            /\ \A h \in Hubs : e.data[h] <= e.storedAt

(* Type correctness; what is read, stored, written or acknowledged is from *)
(* no later write than there has been, and an entry shows nothing that is  *)
(* newer than itself.                                                      *)
TypeOK == Typed /\ NothingFromTheFuture

(* AddHub, RemoveHub and RefreshHubCache flush after they write and before *)
(* they answer: once a success is answered by a replica, nothing that was  *)
(* cached there before the write is served any more under the keys it      *)
(* flushes, whatever requests overlap.  Only an answer that was fetched    *)
(* before and stored after the write can still be old.                     *)
FlushedBeforeAck ==
  \A r \in Replicas, k \in Keys :
    cache[r][k] # NoEntry => cache[r][k].storedAt >= acked[r][k]

(* A success is true: after an AddHub or RemoveHub answered 200, and until *)
(* another write of the hub's Secret takes effect, the hub is there, or is *)
(* gone: whether it was there before or not, whoever came between the      *)
(* Create and the Update, and whatever calls of earlier requests failed,   *)
(* took effect late or were cut off by a restart.                          *)
SettledIsTrue ==
  \A h \in Hubs : /\ settled[h] = "present" => secret[h] # 0
                  /\ settled[h] = "absent"  => secret[h] = 0

Truth(k) == IF k = List THEN secret ELSE Only(k, secret[k])

Outdated(r, k) == cache[r][k] # NoEntry /\ cache[r][k].data # Truth(k)

\* The keys a request has yet to flush.
ToFlush(i) ==
  {k \in Flushes(i) : \/ i.pc = "flushList" /\ (k = List \/ i.kind = "remove")
                      \/ i.pc = "flushHub" /\ (k # List \/ i.kind = "refresh")}

(* What is outdated is so for one of four reasons: an error was passed     *)
(* over; a write came between the fetch and the Set (hubs.go:59); the      *)
(* write was another replica's, or its outcome was lost, or it was an      *)
(* AddHub, which leaves "hub:<name>" alone (hub_management.go:180); or the *)
(* writer is about to flush the entry and has not answered.  So a replica  *)
(* that alone wrote, with success and with no fetch under way, shows the   *)
(* truth in its list; and what is outdated ends with its lifetime.         *)
StaleHasACause ==
  \A r \in Replicas, k \in Keys : Outdated(r, k) =>
    LET e == cache[r][k] IN
    \/ e.degraded
    \/ e.readAt < e.storedAt
    \/ e.storedAt < unheeded[r][k]
    \/ \E q \in Requests : /\ req[q].at = r /\ req[q].kind \in {"add", "remove"}
                           /\ k \in ToFlush(req[q]) /\ e.storedAt < req[q].wrote

(* hub_management.go:217, "Clear cache so removed hub disappears           *)
(* immediately": after the RemoveHub of a hub was answered, and until      *)
(* another write of it takes effect, the cached list does not show it.     *)
RemovedDisappearsImmediately ==
  \A r \in Replicas, h \in Hubs :
    settled[h] = "absent" /\ cache[r][List] # NoEntry => cache[r][List].data[h] = 0

(* hub_management.go:179, "Clear hub list cache so new hub appears         *)
(* immediately": after the AddHub of a hub was answered, and until another *)
(* write of it takes effect, a list that does not show it is not one that  *)
(* was cached before the hub was there.                                    *)
AddedAppearsImmediately ==
  \A r \in Replicas, h \in Hubs :
    /\ settled[h] = "present"
    /\ cache[r][List] # NoEntry
    /\ cache[r][List].data[h] = 0
    => cache[r][List].storedAt >= secret[h]
===============================================================================

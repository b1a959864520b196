# Verification of acm-fleet-dashboard

TLA+ models of the ACM Fleet Dashboard, the TLC runs that check them on small
instances, and the theorems that TLAPS proves about them for every value of
their constants. Every definition is translated from the source; `PROJECT.json`
("map") names the lines each one stands for.

To check: `tlc -config <cfg> <module>` for a run, `tlapm <module>` for a module
whose name ends in `Proofs`. Constants and properties of a run are in its cfg.

## 1. The system

A Go backend (`src/backend`, gin) with two replicas behind a Service with client
affinity, and a page of plain JavaScript (`src/frontend-static/app.js`) behind
nginx. The backend keeps nothing on disk: hubs are ManagedClusters of RHACM (the
global hub), and hubs added by hand are Secrets `<hub>-admin-kubeconfig` in the
namespace `acm-fleet`. To show a hub, the backend connects to it with the
kubeconfig in its Secret.

| part | code | state | operations | interacts with |
|---|---|---|---|---|
| response cache | `pkg/cache/cache.go` | map key -> (data, deadline) under one RWMutex | Get, Set, Delete, Clear; a sweeper once a minute | the handlers |
| hubs | `pkg/handlers/hubs.go`, `pkg/handlers/hub_management.go` | `hubs:list` and `hub:<name>` in the replica's cache; the Secrets | ListHubs, GetHub, ListHubClusters, RefreshHubCache, AddHub, RemoveHub | cache, API server, discovery |
| discovery | `pkg/client/rhacm.go` | local to a call: slice of hubs, WaitGroup, semaphore | GetManagedHubs, discoverUnmanagedHubs, GetManagedHub, spokes of a hub | API servers, hub connections |
| hub connections | `pkg/client/hubclient.go`, `pkg/client/oauth.go` | token and credentials in the Secret | NewHubClientFromSecret with refresh of the token | API server, OAuth server of the hub, AddHub |
| authentication | `pkg/auth/jwt.go`, `internal/middleware/auth.go` | sync.Map token -> (user, deadline) | ValidateToken before every guarded handler | user API of OpenShift |
| spokes, policies, nodes | `pkg/handlers/spokes.go`, `policies.go`; `pkg/client/policies.go`, `nodes.go`, `operators.go` | local to a call | ListHubClusters, GetSpokeDetail, GetSpokeOperators, GetPolicyYAML | hub connections |
| upgrades | `pkg/handlers/cgu.go` | none; the ClusterGroupUpgrades of a hub | CreateCGU | hub connections, the page's Enforce button, TALM |
| server | `cmd/server/main.go`, `pkg/api/router.go`, `internal/config` | none | start, routes, shutdown | all |
| dashboard | `app.js` | `cachedHubsData`, `cachedSpokes`, the DOM, `authToken` | fetchHubs, showHubDetails, toggleSpokeDetails, add, remove, refresh, login | backend |

What is hard about it, and hardly reached by a test:

* handlers run on goroutines of their own, and a fetch takes seconds to minutes:
  writes and flushes fall between a fetch and the Set of its result;
* the caches of the two replicas know nothing of each other;
* any number of connections refresh the token of one hub and write its Secret
  while an administrator replaces or removes it;
* one list call is spread over goroutines that are bounded by a semaphore and
  joined by a WaitGroup, and some of their calls have no timeout;
* requests with one bearer token race for its cache entry;
* in the page, answers arrive in any order, after the user has gone elsewhere;
* a hub changes between the many reads that make one answer, and any of the reads
  may fail and is passed over;
* a button on an outdated page makes an object whose name comes from a clock that
  comes round, and the answer may get lost;
* a pod stops with requests under way, and its cache with it.

`PROJECT.json` ("hazards") lists each of these at its line, with the properties
that watch it.

What makes each part correct:

* response cache: an entry is served until its deadline and never after; the
  sweeper takes nothing else away, and leaves nothing dead behind;
* hubs: an answered write is true, and nothing cached before it is served after;
  what is outdated has one of few known causes, and ends with its lifetime;
* hub connections: the administrator has the last word; token and credentials
  belong together; a refused token heals;
* authentication: a revoked token is locked out after a bounded time; every
  request gets its answer;
* discovery: the list and the page of a hub are true while the fleet changes, every
  hub and every spoke once; bounded work; one bad hub
  does not take the others with it;
* spokes: what is told of a spoke is its own and complete; the goroutines that
  gather it end;
* upgrades: what is said to be created was created, as asked, once, and will be
  enforced;
* dashboard: what is shown belongs where it is shown; no page waits for ever.

## 2. Modules

| module | models | composed of |
|---|---|---|
| `TTLMap` | what the cache promises: a map whose entries vanish at their deadline | |
| `TTLCache` | `cache.go` | refines `TTLMap` |
| `FleetCache`, `MCFleetCache` | the handlers of hubs, the Secrets, one cache per replica | uses the cache as `TTLCache` justifies: one method, one step; expiry is `Expire` |
| `CredentialStore` | what the dashboard promises of a hub's credentials: entered, removed and renewed in single steps | |
| `HubCredentials` | the Secret of one hub: AddHub, RemoveHub, NewHubClientFromSecret | refines `CredentialStore` |
| `AuthGate` | AuthMiddleware and ValidateToken of one replica | |
| `HubGather` | what GetManagedHubs promises: every hub described, then one answer that holds them all | |
| `HubFanout` | GetManagedHubs and discoverUnmanagedHubs | refines `HubGather` |
| `Discovery`, `MCDiscovery` | which hubs and spokes GetManagedHubs and GetManagedHub find | |
| `Conversions` | what the backend makes of a policy and of a BareMetalHost | |
| `Spokes`, `MCSpokes` | one call about the spokes of a hub: their list, the details or the operators of one | extends `Conversions` |
| `Enforcement`, `MCEnforcement` | from the Enforce button over CreateCGU to TALM | the page and the backend |
| `Dashboard`, `MCDashboard` | the page in one browser tab | |
| `CacheProofs` | theorems about both caches | extends `TTLCache` and `FleetCache` |
| `HubCredentialsProofs`, `AuthGateProofs`, `HubFanoutProofs`, `SpokesProofs`, `DiscoveryProofs`, `EnforcementProofs`, `DashboardProofs` | theorems | each extends its module |

Definitions whose names say how a mistake would look (`SetTwiceTheTTL`,
`FlushHubForList`, ...) stand next to the action they are a variant of and are
used by no specification. Each shows that a property is sharp: with the variant
in the action's place, TLC finds the property violated.

### TTLCache

A method holds the mutex from its first to its last line, so it is one action.
`items[k]` is the map (`Absent`: no such key), `now` the clock, `got` what the
last Get returned. An entry past its deadline stays in `items` until the sweeper
(`Cleanup`), a Set or a Delete removes it; `Expired` is the code's
`now.After(ExpiresAt)`, false at the deadline itself.

* `IsTTLMap`: with `Live`, the entries Get would serve, for the abstract map, the
  cache implements `TTLMap`, in which entries vanish by themselves. So no Get
  serves a dead entry, the sweeper's steps are invisible, and the boundary of the
  deadline is the same for both.
* `DeadAreSwept` (liveness): dead entries leave the memory. Fairness: the sweeper
  is a ticker that runs as long as the process.

Run `cache`: two keys, two values, TTL 2, clock up to 6. Three lifetimes fit, so
an entry can expire, be swept or not, be set again and expire again. `MaxTime`
bounds the clock.

### FleetCache

A step is one critical section of the cache or one call of the API server. A
Secret is represented by the number of the write that made it, so an answer
(`seen`, `data`) tells exactly how old each part of it is. A cache hit changes
nothing and is no step: the properties speak of entries as of the answers they
give. RHACM's hubs are left out, as no handler changes them. `GetManagedHubs`
reads all Secrets at once; `GetManagedHubsDegraded` is the code's ignored error of
that call. A hub's page reads its Secret three times: `GetManagedHub` finds it,
`ConnectHub` and `GetSpokes` are the clients made for the hub and for its spokes
(`ReadAgain`); what the last successful one found is in the answer.

A call of the API server that fails (`WriteFails`), or that its replica does not live
to see the end of (`Restart`), may have done nothing, or may still take effect, at any
later time: the request is `gone`, and `LateWrite` is what becomes of its call.
`Restart` is a pod that stops, at the latest 30 seconds after the signal
(`main.go:95`) while a request may take 120, and starts again with an empty cache.

`readAt`, `storedAt`, `degraded`, `wrote`, `touched`, `unheeded`, `acked` and `settled`
are history: they are written and never read by the actions' guards.

* `TypeOK` says, besides types, that nothing speaks of a write that has not been
  (`NothingFromTheFuture`).
* `FlushedBeforeAck`: once a replica has answered the success of a write, no entry
  stored before that write is left there under the keys it flushes. This is what
  "write, flush, answer" buys, under any overlap. It speaks of when an entry was
  stored, not of when its data was fetched: that gap is the first finding.
* `SettledIsTrue`: after an AddHub or RemoveHub answered 200 the hub is there, or gone,
  until another write of its Secret takes effect. "Another" is decided by what the API
  server did, not by who was in flight: AddHub is Create, then Update if the Secret
  exists, and a RemoveHub that comes between must make it fail.
* `StaleHasACause`: an entry that differs from the Secrets was made with an error passed
  over (`degraded`), or was fetched before and stored after a write, or is older than a
  write that its replica does not flush it for (`unheeded`: the other replica's, one
  whose outcome was lost, or an AddHub, which leaves `hub:<name>` alone), or is about to
  be flushed by a writer that has not answered (`ToFlush`). There is no fifth cause: a
  replica that alone wrote, with success and with no fetch under way, shows the truth.
  That what is outdated goes away is not restated here: it is the lifetime of an entry,
  which `IsTTLMap` is about.

Run `fleet`: one hub, which was there before, two replicas, two requests at a time and
four (`MaxCalls`) in all, so that a writer meets a second writer, a refresh or a fetch on
its own replica or on the other, with calls that fail and take effect late before, between
and after. The goroutines that serve requests are alike, hence the symmetry
(`MCFleetCache`). The model may stop, since nobody need ask for anything; deadlock is
not checked. More requests, hubs and replicas are the business of the theorems, which
hold for any number.

Findings: `fleet_removed` (one replica): a list whose Secrets were read before
RemoveHub and stored after its flush shows the hub again, for 30 minutes.
`fleet_added` (two replicas): the replica that did not serve AddHub keeps a list
without the hub. Both contradict comments that say "immediately", and both are causes
that `StaleHasACause` names.

### HubCredentials

One hub, with its two possible Secrets (its own namespace, and `acm-fleet`). That the
one in `acm-fleet` may belong to another cluster of the same name is not modelled.
Connections (`pc`, `ns`, `held`, `fresh`) go through Get, Get, the version
request, the exchange and the Update; administrators (`admin`) through Create and
Update, or Delete. The API server (external) refuses an Update with an old
resource version and overwrites on one without. Tokens carry whose they are and are
numbered as they are issued;
`expired` is what the hub refuses, and `account` the credentials it accepts.
`Unusable` is a kubeconfig that is missing or cannot be parsed: a connection that reads it
ends with an error, and never comes to the exchange, even if credentials are stored with
it. `intended` is history: the last AddHub or RemoveHub, and how many there were. Errors
that nothing explains, and changes of the password, are counted (`mishaps`).

* `LastAdminCallStands`: `acm-fleet` holds the credentials of the last AddHub, or
  nothing after RemoveHub, whatever refreshes were on their way. It holds because
  the refresh writes back the object it read, resource version included.
* `RenewedAtomically`: refinement of `CredentialStore`, with the Secrets without their
  versions (`Stored`) for its map. All that happens to a Secret, apart from what
  administrators do, is that its token is renewed in one step: the credentials stay, the
  token is theirs and newer than the one it replaces. Two connections that refresh at
  once and write in the other order would break it, and so would one that brings back a
  Secret that was removed, stores its token next to credentials that were entered
  meanwhile, or replaces a kubeconfig it could not use. Hence no token is ever stored next to the credentials of another account
  (`TokenMatchesCredentials`, in the proofs).
* `TokenHeals` (liveness): a refused token whose stored credentials are good does
  not stay, also if the first new token could not be stored. Fairness: connections go
  on, which is what polling users do; without anybody asking nothing is refreshed. It
  includes that the exchange ends, which the code does not see to (`oauth.go:16` has no
  timeout): with a silent OAuth server nothing heals, and what that does to the list is
  HubFanout's subject. `MaxMishaps` makes errors end.

Run `credentials`: two accounts, two connections (so that refreshes race), one
administrator with two calls (`MaxCalls`), one token that expires (`MaxExpired`) and one
mishap (`MaxMishaps`): a password that changes or a call that fails. So a token can be
refused and the Update that stores the new one fail. `PublicVersion` says whether the hub tells its version to
anybody. It is false in the run; the theorems hold for both. If it is true, a hub that
was stored by user name and password whose exchange had failed passes the version
request anonymously and is never given a token: `Refused` says what the check can see,
and `TokenHeals` speaks of no more.

`GetFromHub` follows the code where it differs from its comment (`hubclient.go:38`,
"If not found"): any error of the first Get leads on to `acm-fleet`, also for a
hub that has a Secret of its own.

### AuthGate

One replica. Deadlines are kept as ticks that are left, which makes the state
space finite without a bound on the clock: of a cached yes (`cache`), and of a call
to the user API (`left`). `age[t]` is how long ago the API server stopped accepting
a token. `Judge` is when it decides, `Store` when its answer is remembered, so a yes
can be overtaken by the revocation; `Load`, `DeleteExpired` and `Store` are one
operation of the sync.Map each.

* `RevocationTakesEffect`: a token is let through less than `CacheTTL +
  HttpTimeout` ticks after its revocation, and a token never issued is never let
  through.
* `ValidationEnds` (liveness): under a silent user API too. Fairness: goroutines
  run, timers fire, time passes; nothing is assumed of the API server.

Run `auth`: three requests with one token, CacheTTL 3, HttpTimeout 2. Two requests
may race for the entry, and a third use what they leave; tokens do not influence
each other, as every step touches the entry of one.

The Delete of an expired entry can hit a fresh one that another request has stored
since. It costs one call of the user API and no correctness.

### HubFanout

One call. `main` is the caller, `pc[c]` the goroutine of a cluster, `hubWg` and
`hubSem` the counters, `hubs` the slice; then the loop over the Secrets. `rhacm` is what
the list of managed clusters has shown: the hubs, that RHACM is not there (then the
hubs added by hand are all there is), or another error (then the call fails); `unread`
is the ignored error of the list of Secrets. Calls of a hub's API server end after 30
seconds (`rest.Config.Timeout`). Two kinds of calls may never end. A hub is *silent* if
it refuses the stored token and its OAuth server never replies, since the client that
exchanges credentials has no timeout (`oauth.go:16`); and the global hub is silent
(`Global`) if its API server never replies, since its client has none either
(`kubernetes.go:67-90`). With a silent hub, GetSpokes and Enrich, and for a hub added
by hand VisitSecret, never get on; with a silent global hub nothing that reads from it
does.

* `SemaphoreWorks`: at most three hubs are worked on at a time (`AtMostLimit`; `Limit` is
  2 in the run), and `NobodyWaitsInVain`: with a global hub that replies and fewer silent
  hubs than that, whoever is at the semaphore finds room or a holder that goes on, and
  Wait waits for goroutines that are there. It is what the two liveness properties rest
  on, without fairness: a token that is not given back, or a Done too few, breaks it at
  once.
* `GathersAll`: refinement of `HubGather`. Where RHACM is installed, the answer is made
  after every managed hub was described, no description comes after it, and it holds every
  managed hub and every hub added by hand that is not managed, once. Only where RHACM is
  missing does it hold the hubs added by hand alone, and only if their Secrets could not
  be listed are these left out.
* `ReturnsUnlessSilent`, `SilentHubsSpareOthers` (liveness): nothing but a silent hub
  or global hub stops the call, and fewer silent hubs than the semaphore admits leave the
  others described (though not returned). Fairness: goroutines run, and calls that have a
  timeout, or whose hub replies, end.

Run `fanout`: four clusters, limit 2, two Secrets of which one names a cluster, and any
subset of hubs and the global hub silent. Deadlock is not checked: the call ends.

### Discovery

One call at a time of the list (`GetManagedClusters`, `DescribeHub`,
`DiscoverUnmanagedHubs`) or of a hub's page (`GetManagedCluster`, `GetSecret`), each
step one read of the global hub's API server, with changes of labels and Secrets
between the steps (`Change`). `asked` is the hub of a page, `None` for the list;
`hubs` is what was found; a page that is not found leaves it empty. An error that the
code passes over sets `degraded`; one that it returns makes no answer and is left
out. `worlds` is history: labels and Secrets at each moment of the call.

* `ListIsTruthful`, `PageIsTruthful`: what was a hub for the whole call is found, once
  and with the right origin, unless an error was passed over; what never was one is
  not found. The page takes another path than the list: a managed cluster that is no
  hub, a Secret without the label, and a transient error all meet in `GetManagedCluster`
  and `GetSecret`.
* `SpokesCountOnce`: the two passes put every cluster that names a hub under exactly
  one, as of one moment of the call, and no hub under another.

Run `discovery`: two clusters that are hubs in each of the ways `isHub` knows, or
nearly (a vendor without the label, a label without the vendor), one of them naming
the other as its manager; a third that names one of them or both; Secrets with and
without the label; two changes (`MaxChanges`), one between each pair of reads.

### Spokes

One call of ListHubClusters, GetSpokeDetail or GetSpokeOperators (`call`), while
clusters, policies, hosts and operators change (`Change`). `main` is the handler, `pc[c]`
the goroutine of a spoke in the list, `sem` and `wg` its counters; `info` is what was
read, `answer` what was answered. Every read is one step and may fail, which is passed
over as in the code (`Read`). A goroutine takes a token of the semaphore, reads the
policies, gives it back, and does the same for the hosts. What is told of a cluster is
`Told`, made by the operators of `Conversions` from one policy and one host per spoke:
the code treats the members of a namespace one by one. `failed` and `past` are history:
what could not be read, and what each cluster was during the call.

* `RowsAreTheirs`: what is told of a spoke is what that spoke was at some moment of the
  call, and only what could not be read is empty. A goroutine that filled in another
  spoke, or was still at work when the answer was made, would break it.
* `ListIsComplete`: every spoke that was there all the time is in the list, none that
  never was, and no hub (`Skipped`).
* `SemaphoreWorks`: at most `Limit` requests of a list are under way (`AtMostLimit`), and
  whoever waits for the semaphore finds room, or a holder that waits for the API server
  and not for a second token (`NobodyWaitsInVain`).
* `NewestMessageShown`: the message told of a policy is its newest with its own time, in
  whatever order the history is. It excepts histories whose newest entry has no
  message; then the code keeps the message of an older entry beside the newer time.
* `AnswersOnceConnected` (liveness): the call is answered. Fairness: goroutines run, and
  the requests to a hub's API server end (30 seconds, `rest.Config.Timeout`). Connecting
  itself may take for ever (see HubFanout) and is excepted.

Run `spokes`: two spokes and the hub itself, each with one of four contents; a
semaphore of one, so that both goroutines want it twice; one change. Policies have
histories with the newest entry first, in the middle and last, with an unreadable time
and without a message. Deadlock is not checked: the call ends.

### Enforcement

Users (`view`, `call`, `told`: the page, the request, the last toast) open pages of a
hub or a spoke; policies that are not compliant then have the button. The request
becomes a name (`MakeName`), from the backend's clock `now`, and later an upgrade on the
hub (`Create`, `CreateExists`, `CreateFails`); the answer may be lost, and pages are
not drawn again by themselves. A name is what the cut at 50 characters leaves: the
cluster's stem and the leading digits (`CguName`); with 50 characters or more the stem
alone, which may be letter for letter the name of an upgrade of a shorter-named cluster.
Upgrades that others made on the hub are left out. TALM and the policies that are
violated again are external (`Remediate`, `Drift`).

* `CreatedIsTrue`: behind a toast that says created there is an upgrade that this very
  request made, for its cluster and policy, on its hub; never another's of the same
  name.
* `UpgradesWereAskedFor`: and no upgrade that was not asked for, on no other hub, none
  twice for one request.
* `RefusedInItsSecondOnly`: where all digits fit, a request is refused for its name only
  if another one for the cluster was named at the same second of the clock's period, or
  if a cluster of 50 characters or more has that name.
* `WillBeEnforced` (liveness): "will be enforced via TALM", which the page says, for the
  policies whose prefix the code takes off. Fairness: TALM works on what there is; the
  backend and the users need not do anything.

Run `enforce`: two users, two requests (`MaxClicks`), one policy violated again
(`MaxDrifts`), a clock of two binary digits, so that it comes round; a spoke whose name
leaves room for all digits, and a hub whose name leaves none and reads like the name of an
upgrade of the spoke: there the second upgrade is refused for ever, an upgrade of the spoke
may be refused for the hub's, and nothing false is told of either.

### Dashboard

The event loop runs a handler from a click, or an answer, to its next await: that
is one step. `page`, `shown` and `rows` are the DOM; `drawn` counts drawings of a
hub's page and so gives elements their identity. `calls` are in flight, and end in any
order with any answer or an error. What the backend answers is arbitrary, as the
fleet changes meanwhile. A click needs its button to be on the page. Before the first
list comes the login (`ConfigArrives`, `UserArrives`, `LoginFails`): every path of
`initAuth` ends at the list or at OpenShift's login page (`away`).

* `DetailsOfTheirSpoke`: details, and the labels taken from `cachedSpokes` by index,
  are those of the row they are shown under. It holds because the element is held
  over the await, and is detached when another page is drawn.
* `LoadedOnce`: a row's details are asked for once, and from then on they are on their
  way, or there, or their error is. `OpenedRowsFill` (liveness): they arrive,
  also if the row was closed meanwhile.
* `LoadingIsAnswered`: while "Loading" is shown, which has no button, a call is in flight
  that takes it away. `PageSettles` (liveness): it goes away. Fairness: every call ends
  (nginx: `proxy_read_timeout` 120s).

Run `dashboard`: five clicks (`MaxClicks`): hub, row, back, hub, row. One of the two
hubs lists its spokes in two ways, so an index means another spoke on the same
hub too. The user may stop clicking, so deadlock is not checked.

Finding: `dashboard_count`: the policy count is written by index and lands in
another spoke's row.

## 3. Proofs

All theorems hold for every value of the constants under the assumptions named in
the modules (`ASSUME`), which TLC evaluates in the runs.

| theorem | argument |
|---|---|
| `CacheProofs!CacheTypeCorrect` | CacheTypeOK is inductive |
| `CacheProofs!ImplementsTTLMap` | each step is one of the map's, Cleanup a stutter: pointwise, what Live shows after it |
| `CacheProofs!TypeCorrect` | types, and that a request's kind fits where it is (`Kinded`), are inductive; on top of them so is `NothingFromTheFuture`, since every number that is kept was `writes` once, and `writes` only grows |
| `CacheProofs!FlushedBeforeAckHolds` | `FlushInv`: besides the property, a request that has flushed a key and not yet answered has left nothing older than its own write under it. The property alone is not inductive: the answer raises `acked` without looking at the cache |
| `CacheProofs!SettledIsTrueHolds` | `WriterInv`: a request that is between its write and its answer, and whose write is the newest of its hub's (`touched`), finds the Secret as it left it |
| `CacheProofs!StaleHasACauseHolds` | `CauseInv`: a request that has read what nobody has written since, with no error passed over, holds the truth; so what it stores is outdated only if a write came between. A write either makes an entry unheeded, or its request has the key yet to flush, and loses it from `ToFlush` only by flushing it |
| `HubCredentialsProofs!TypeCorrect`, `LastAdminCallStandsHolds`, `TokenMatchesCredentialsHolds` | `Inv`: a Secret that is held with the resource version of the stored one is that Secret, so an accepted Update writes back the same credentials, with a token got for them |
| `HubCredentialsProofs!RenewedAtomicallyHolds` | `SerialInv` on top of `Inv`: no token that is stored, held or about to be stored has a number above `issued`, so a token got in exchange is newer than the one that came with the Secret that is held; and that is the stored one if its version still is. AddHub's writes are Enter, RemoveHub is Remove, an accepted Update is Renew (`RefreshRenews`), all else stutters |
| `AuthGateProofs!TypeCorrect`, `RevocationTakesEffectHolds` | `BudgetInv`: for each revoked token, its age plus what is left of a cached yes is at most `CacheTTL + HttpTimeout`, and its age plus what is left of a call that was answered yes at most `HttpTimeout` |
| `HubFanoutProofs!TypeCorrect`, `SemaphoreWorksHolds` | `hubWg` and `hubSem` are the cardinalities of the sets of goroutines that are in flight, and that hold the semaphore. If all holders were silent and it were full, the silent hubs would be as many as its capacity |
| `HubFanoutProofs!ImplementsHubGather` | `JoinInv`: past Wait every goroutine of an installed RHACM is gone, so every slot is filled (`SlotInv`) and nothing is left that could describe; what was found so far and what is still to be visited are the hubs that only have a Secret. GetManagedClusters is Learn, Enrich is Describe, ListSecrets that fails is LoseSecrets, Return is Return, all else stutters |
| `SpokesProofs!TypeCorrect`, `SemaphoreWorksHolds` | `CountInv`: `sem` and `wg` are the cardinalities of the sets of goroutines that ask, and that run |
| `SpokesProofs!RowsAreTheirsHolds`, `ListIsCompleteHolds` | `InfoInv`: a part of a spoke that its goroutine or the handler has passed (`Seen`) was read from that spoke or failed, every other is empty; `GoInv`: at the answer every goroutine is gone; `WorkInv`: what was listed was there when the hub was asked. The property alone says nothing before the answer |
| `SpokesProofs!NewestMessageShownHolds` | what a policy's row shows was made by `PolicyInfo` from what its spoke was (`RowsAreTheirsHolds`), and `LatestIsNewest` says what the loop over the history finds. Its recursive function is unfolded without induction over data: if the entry found among the first n were not the newest of them, there would be a smallest such n (`Smallest`), and the step to it cannot break what held before |
| `DiscoveryProofs!TypeCorrect`, `ListIsTruthfulHolds`, `PageIsTruthfulHolds` | `NowInv`: the present fleet is one of the call's; `DescribeInv`: the map of the list is one moment's labels, and the hubs found so far are in it; `SecretInv`: a page that looks for a Secret did so because the hub was none at some moment, or an error was passed over |
| `DiscoveryProofs!SpokesCountOnceHolds` | the first hub in the order of the list that a cluster names exists, and is one (`OneHubEach`, by the well-foundedness of the naturals) |
| `EnforcementProofs!TypeCorrect` | TypeOK is inductive |
| `EnforcementProofs!CreatedIsTrueHolds`, `UpgradesWereAskedForHolds`, `RefusedInItsSecondOnlyHolds` | `EnforceInv`: a request under way has a number of its own and has made no upgrade; an upgrade's name is the one of its cluster and second, so (`StemAssumption`) an equal name with all digits means the same cluster and second, or a name without digits; a toast speaks of a request that was named. None of the three is inductive alone: Create must not find the number in use |
| `DashboardProofs!TypeCorrect` | each click adds at most two calls that can ask for the list again (`CountInv`) |
| `DashboardProofs!DetailsOfTheirSpokeHolds`, `LoadedOnceHolds` | `CallInv`: a call whose table is still shown knows the spoke of its row; `RowInv`: the table is of `cachedSpokes`, and a row was never asked for, or has one call in flight, or its details or their error |
| `DashboardProofs!LoadingIsAnsweredHolds` | inductive as it stands: every path that shows Loading makes a call, and every answer or error of such a call shows another page or makes the next |

Every safety invariant, action property and refinement that a passing run checks is
proved. Model-checked only are the liveness properties (`DeadAreSwept`,
`TokenHeals`, `ValidationEnds`, `ReturnsUnlessSilent`,
`SilentHubsSpareOthers`, `AnswersOnceConnected`, `WillBeEnforced`, `PageSettles`,
`OpenedRowsFill`): fairness and ENABLED are out of the prover's reach. For four of them
the safety they rest on is proved (`SemaphoreWorks` of both fan-outs,
`LoadingIsAnswered`, `LoadedOnce`). The three findings are violations that TLC finds.

## 4. What is not modelled

* Versions, routes, nodes and policies of a hub itself (`enrichHubWithRemoteData`), what
  is copied field by field from an object, and the YAML of a policy (GetPolicyYAML): one
  read, one answer, nothing kept.
* Contents of kubeconfigs; only whose token and credentials they hold.
* CORS, health endpoints, routing, configuration, styles: nothing to go wrong over
  several steps. `global_hub.go` and `environment.go` are dead code.
* Filters, tabs and the merging of nodes in the page; `currentView` and
  `selectedHub` are never read.
* Go's memory model: the shared data of the modelled parts is behind a mutex, a
  sync.Map, or written to disjoint slots of a slice before the WaitGroup joins.

## 5. Plan

Done: all parts that keep state or run concurrently, with proofs of all their safety
properties and of three refinements.

Next, in this order:

1. More abstract specifications, and proofs that the modules implement them: one call
   about spokes as a single answer made of reads of each spoke (`Spokes`, with
   `RowsAreTheirs` and `ListIsComplete` as its consequences); a request to enforce a policy
   as one atomic outcome in a registry of names (`Enforcement`); the validator's cache
   as a map from tokens to what is left of a yes (`AuthGate`).
2. The safety that the remaining liveness properties rest on, as `SemaphoreWorks` does
   for the fan-outs: a request that validates has a timer, a refused token has a
   connection that can renew it.
3. Composition: `HubFanout` as the fetch of `FleetCache`, so that a silent hub and a
   waiting ListHubs are seen together.
4. The dashboard's merging of nodes by short host name (`app.js:948`), where hosts of one
   name in two domains become one, as operators checked against a reference definition.
5. The policies of a hub's page, which a read from the hub that failed may empty
   (`rhacm.go:117`).

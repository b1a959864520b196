---------------------------- MODULE HubCredentials ----------------------------
(***************************************************************************)
(* The kubeconfig Secret of one hub: how AddHub and RemoveHub              *)
(* (pkg/handlers/hub_management.go) write it, and how NewHubClientFromSecret*)
(* (pkg/client/hubclient.go) finds it, tries its token and, when the hub   *)
(* refuses it, exchanges the stored user name and password for a new token *)
(* that it writes back.  Any number of requests connect at once, on any    *)
(* replica, while an administrator adds the hub again or removes it.  The  *)
(* API server refuses an Update that carries an old resource version; one  *)
(* that carries none, as AddHub's, overwrites.                             *)
(*                                                                         *)
(* Resource versions and tokens are numbered in the order they are made.   *)
(* An account is a user name with its password.                            *)
(***************************************************************************)
EXTENDS Integers, FiniteSets

CONSTANTS
  Accounts,     \* credentials that administrators enter
  Connectors,   \* calls of NewHubClientFromSecret in flight
  Admins,       \* calls of AddHub and RemoveHub in flight
  None,         \* no credentials, or no token
  Unusable,     \* what a kubeconfig holds that no client can be made of
  Absent,       \* no such Secret
  PublicVersion,  \* the hub tells its version to anybody
  MaxCalls,     \* bound: calls of AddHub and RemoveHub
  MaxExpired,   \* bound: tokens that expire
  MaxMishaps    \* bound: changed passwords and failed calls

Namespaces == {"hub", "fleet"}     \* the hub's own namespace, and acm-fleet

\* A token knows whose it is; one that came with an upload is nobody's.
Token == [serial : Nat, of : Accounts \cup {None}]

\* How a kubeconfig authenticates (None: by Basic auth, which makes it
\* anonymous), if it is there and can be parsed.
Kubeconfig == Token \cup {None, Unusable}

\* creds: the keys api-endpoint, username and password.
Secret == [rv : Nat, token : Kubeconfig, creds : Accounts \cup {None}]

\* A Secret without its version.
Entry == [token : Kubeconfig, creds : Accounts \cup {None}]

ASSUME NoneIsNothing == None \notin Accounts \cup Token
ASSUME UnusableIsNoToken == Unusable \notin Token \cup {None}
ASSUME AbsentIsNothing == Absent \notin Secret \cup Entry \cup Accounts \cup {None}
ASSUME PublicVersionAssumption == PublicVersion \in BOOLEAN
ASSUME BoundsAssumption == MaxCalls \in Nat /\ MaxExpired \in Nat /\ MaxMishaps \in Nat

VARIABLES
  store,     \* API server: the Secret in each namespace
  written,   \* API server: the newest resource version
  issued,    \* hub: the newest token's number
  expired,   \* hub: the tokens it accepts no more
  account,   \* hub: the credentials it accepts
  pc,        \* connectors: where NewHubClientFromSecret is
  ns,        \* connectors: secretNamespace
  held,      \* connectors: the Secret that was read
  fresh,     \* connectors: the token got in exchange
  admin,     \* AddHub and RemoveHub: where they are, and what they store
  calls,     \* administrators' calls so far
  mishaps,   \* mishaps so far
  intended   \* history: how often AddHub and RemoveHub changed the Secret, and the
             \* credentials of the last AddHub, Absent after RemoveHub

connector == <<pc, ns, held, fresh>>
vars == <<store, written, issued, expired, account, connector, admin, calls, mishaps, intended>>

Idle == [pc |-> "idle", token |-> None, creds |-> None]

\* The hub's own namespace may hold a Secret that came with RHACM; its
\* keys may have been added by hand.
Init ==
  /\ account \in Accounts
  /\ \E c \in {None, account} :
       \E s \in {Absent} \cup {[rv |-> 0, token |-> t, creds |-> c] :
                               t \in {Unusable, [serial |-> 0, of |-> c]}} :
         store = [n \in Namespaces |-> IF n = "hub" THEN s ELSE Absent]
  /\ written = 0
  /\ issued = 0
  /\ expired = {}
  /\ pc = [c \in Connectors |-> "idle"]
  /\ ns = [c \in Connectors |-> "hub"]
  /\ held = [c \in Connectors |-> Absent]
  /\ fresh = [c \in Connectors |-> None]
  /\ admin = [a \in Admins |-> Idle]
  /\ calls = 0
  /\ mishaps = 0
  /\ intended = [edits |-> 0, creds |-> Absent]

Mishap == mishaps < MaxMishaps /\ mishaps' = mishaps + 1

\* The hub gives out a token of an account, or had given one to an administrator.
NextToken(of) == [serial |-> issued + 1, of |-> of]

\* The API server stores a Secret.
Store(n, token, creds) ==
  /\ store' = [store EXCEPT ![n] = [rv |-> written + 1, token |-> token, creds |-> creds]]
  /\ written' = written + 1

-------------------------------------------------------------------------------
\* AddHub and RemoveHub.

\* The body carries a kubeconfig or a token, and perhaps credentials too.  A
\* kubeconfig is searched for two words, which does not make it usable.
AddHubGiven(a, creds) ==
  /\ admin[a].pc = "idle" /\ calls < MaxCalls
  /\ \E token \in {NextToken(None), Unusable} :
       /\ admin' = [admin EXCEPT ![a] = [pc |-> "create", token |-> token, creds |-> creds]]
       /\ issued' = IF token = Unusable THEN issued ELSE issued + 1
  /\ calls' = calls + 1
  /\ UNCHANGED <<store, written, expired, account, connector, mishaps, intended>>

AddHubPasswordAsToken(a, creds) ==
  /\ admin[a].pc = "idle" /\ calls < MaxCalls
  /\ admin' = [admin EXCEPT ![a] = [pc |-> "create", token |-> creds, creds |-> creds]]
  /\ calls' = calls + 1
  /\ UNCHANGED <<store, written, issued, expired, account, connector, mishaps, intended>>

\* getOpenShiftOAuthToken, RefreshOAuthToken: the OAuth server gives a token
\* for these credentials.
Exchangeable(creds) == creds = account

\* The body carries credentials only: they are exchanged for a token, and
\* stored as they are if that fails.
AddHubByPassword(a, creds) ==
  /\ admin[a].pc = "idle" /\ calls < MaxCalls
  /\ \/ /\ Exchangeable(creds)
        /\ admin' = [admin EXCEPT ![a] =
                       [pc |-> "create", token |-> NextToken(creds), creds |-> creds]]
        /\ issued' = issued + 1
        /\ UNCHANGED mishaps
     \/ /\ IF Exchangeable(creds) THEN Mishap ELSE UNCHANGED mishaps
        /\ admin' = [admin EXCEPT ![a] = [pc |-> "create", token |-> None, creds |-> creds]]
        /\ UNCHANGED issued
  /\ calls' = calls + 1
  /\ UNCHANGED <<store, written, expired, account, connector, intended>>

Intend(creds) == intended' = [edits |-> intended.edits + 1, creds |-> creds]

\* The whole Secret is replaced.
Put(a) ==
  /\ Store("fleet", admin[a].token, admin[a].creds)
  /\ Intend(admin[a].creds)

CreateSecret(a) ==
  /\ admin[a].pc = "create"
  /\ IF store["fleet"] # Absent
       THEN /\ admin' = [admin EXCEPT ![a].pc = "update"]
            /\ UNCHANGED <<store, written, intended>>
       ELSE /\ Put(a)
            /\ admin' = [admin EXCEPT ![a] = Idle]
  /\ UNCHANGED <<issued, expired, account, connector, calls, mishaps>>

UpdateSecret(a) ==
  /\ admin[a].pc = "update"
  /\ IF store["fleet"] = Absent THEN UNCHANGED <<store, written, intended>> ELSE Put(a)
  /\ admin' = [admin EXCEPT ![a] = Idle]
  /\ UNCHANGED <<issued, expired, account, connector, calls, mishaps>>

\* Create or Update ends in an error and had no effect.
AddHubFails(a) ==
  /\ admin[a].pc \in {"create", "update"}
  /\ Mishap
  /\ admin' = [admin EXCEPT ![a] = Idle]
  /\ UNCHANGED <<store, written, issued, expired, account, connector, calls, intended>>

RemoveHub(a) ==
  /\ admin[a].pc = "idle" /\ calls < MaxCalls
  /\ calls' = calls + 1
  /\ store' = [store EXCEPT !["fleet"] = Absent]
  /\ Intend(Absent)
  /\ UNCHANGED <<written, issued, expired, account, connector, admin, mishaps>>

-------------------------------------------------------------------------------
\* NewHubClientFromSecret.

Return(c) ==
  /\ pc' = [pc EXCEPT ![c] = "idle"]
  /\ ns' = [ns EXCEPT ![c] = "hub"]
  /\ held' = [held EXCEPT ![c] = Absent]
  /\ fresh' = [fresh EXCEPT ![c] = None]

\* Get from a namespace: the Secret is there and its token is tried next.
Found(c, n) ==
  /\ store[n] # Absent
  /\ pc' = [pc EXCEPT ![c] = "check"]
  /\ ns' = [ns EXCEPT ![c] = n]
  /\ held' = [held EXCEPT ![c] = store[n]]
  /\ UNCHANGED <<fresh, mishaps>>

\* Any error sends the call on to acm-fleet, NotFound or not.
GetFromHub(c) ==
  /\ pc[c] = "idle"
  /\ \/ Found(c, "hub")
     \/ /\ IF store["hub"] = Absent THEN UNCHANGED mishaps ELSE Mishap
        /\ pc' = [pc EXCEPT ![c] = "getFleet"]
        /\ UNCHANGED <<ns, held, fresh>>
  /\ UNCHANGED <<store, written, issued, expired, account, admin, calls, intended>>

GetFromFleet(c) ==
  /\ pc[c] = "getFleet"
  /\ \/ Found(c, "fleet")
     \/ /\ IF store["fleet"] = Absent THEN UNCHANGED mishaps ELSE Mishap
        /\ Return(c)
  /\ UNCHANGED <<store, written, issued, expired, account, admin, calls, intended>>

\* Clients that the hub refuses to tell its version.  NewHubClientFromKubeconfigData
\* authenticates by what the kubeconfig holds, in the last resort by Basic auth.
Refused == expired \cup (IF PublicVersion THEN {} ELSE {None})

CheckAuthOfTokensOnly(c) ==
  /\ pc[c] = "check"
  /\ LET accepted == held[c].token \notin expired IN
       \/ /\ accepted \/ held[c].creds = None
          /\ Return(c)
          /\ UNCHANGED mishaps
       \/ /\ held[c].creds # None /\ held[c].token # Unusable
          /\ IF accepted THEN Mishap ELSE UNCHANGED mishaps
          /\ pc' = [pc EXCEPT ![c] = "refresh"]
          /\ UNCHANGED <<ns, held, fresh>>
  /\ UNCHANGED <<store, written, issued, expired, account, admin, calls, intended>>

\* The quick auth check: the hub's version is asked for with the token.  Any
\* error counts as an expired token.  An unusable kubeconfig, which nothing
\* refuses, ends the call here with an error, whatever is stored with it.
CheckAuth(c) ==
  /\ pc[c] = "check"
  /\ LET accepted == held[c].token \notin Refused IN
       \/ /\ accepted \/ held[c].creds = None
          /\ Return(c)
          /\ UNCHANGED mishaps
       \/ /\ held[c].creds # None /\ held[c].token # Unusable
          /\ IF accepted THEN Mishap ELSE UNCHANGED mishaps
          /\ pc' = [pc EXCEPT ![c] = "refresh"]
          /\ UNCHANGED <<ns, held, fresh>>
  /\ UNCHANGED <<store, written, issued, expired, account, admin, calls, intended>>

\* When the exchange fails, the client with the old token is returned.
RefreshOAuthToken(c) ==
  /\ pc[c] = "refresh"
  /\ \/ /\ Exchangeable(held[c].creds)
        /\ pc' = [pc EXCEPT ![c] = "update"]
        /\ fresh' = [fresh EXCEPT ![c] = NextToken(account)]
        /\ issued' = issued + 1
        /\ UNCHANGED <<ns, held, mishaps>>
     \/ /\ IF Exchangeable(held[c].creds) THEN Mishap ELSE UNCHANGED mishaps
        /\ Return(c)
        /\ UNCHANGED issued
  /\ UNCHANGED <<store, written, expired, account, admin, calls, intended>>

UpdateOrCreate(c) ==
  /\ pc[c] = "update"
  /\ IF store[ns[c]] = Absent \/ store[ns[c]].rv = held[c].rv
       THEN Store(ns[c], fresh[c], held[c].creds)
       ELSE UNCHANGED <<store, written>>
  /\ Return(c)
  /\ UNCHANGED <<issued, expired, account, admin, calls, mishaps, intended>>

UpdateSameCredentials(c) ==
  /\ pc[c] = "update"
  /\ IF store[ns[c]] # Absent /\ store[ns[c]].creds = held[c].creds
       THEN Store(ns[c], fresh[c], held[c].creds)
       ELSE UNCHANGED <<store, written>>
  /\ Return(c)
  /\ UNCHANGED <<issued, expired, account, admin, calls, mishaps, intended>>

\* The Secret that was read, with a kubeconfig for the new token, replaces
\* the stored one if that has not changed since; a failure is only logged,
\* and the client with the new token is returned all the same.
UpdateRefreshed(c) ==
  /\ pc[c] = "update"
  /\ LET accepted == store[ns[c]] # Absent /\ store[ns[c]].rv = held[c].rv IN
       \/ /\ accepted
          /\ Store(ns[c], fresh[c], held[c].creds)
          /\ UNCHANGED mishaps
       \/ /\ IF accepted THEN Mishap ELSE UNCHANGED mishaps
          /\ UNCHANGED <<store, written>>
  /\ Return(c)
  /\ UNCHANGED <<issued, expired, account, admin, calls, intended>>

-------------------------------------------------------------------------------
\* The hub.

\* The tokens that somebody may still use.
Known == {store[n].token : n \in {m \in Namespaces : store[m] # Absent}}
         \cup {held[c].token : c \in {d \in Connectors : held[d] # Absent}}
         \cup {fresh[c] : c \in Connectors}
         \cup {admin[a].token : a \in Admins}

Expire ==
  /\ Cardinality(expired) < MaxExpired
  /\ \E t \in Known \ (expired \cup {None, Unusable}) : expired' = expired \cup {t}
  /\ UNCHANGED <<store, written, issued, account, connector, admin, calls, mishaps, intended>>

ChangePassword ==
  /\ Mishap
  /\ account' \in Accounts \ {account}
  /\ UNCHANGED <<store, written, issued, expired, connector, admin, calls, intended>>

Connect(c) == \/ GetFromHub(c) \/ GetFromFleet(c) \/ CheckAuth(c)
              \/ RefreshOAuthToken(c) \/ UpdateRefreshed(c)

Next == \/ \E a \in Admins, creds \in Accounts \cup {None} : AddHubGiven(a, creds)
        \/ \E a \in Admins, creds \in Accounts : AddHubByPassword(a, creds)
        \/ \E a \in Admins : \/ CreateSecret(a) \/ UpdateSecret(a)
                             \/ AddHubFails(a) \/ RemoveHub(a)
        \/ \E c \in Connectors : Connect(c)
        \/ Expire
        \/ ChangePassword

Spec == Init /\ [][Next]_vars

\* The dashboard goes on asking for the hub.
FairSpec == Spec /\ \A c \in Connectors : WF_vars(Connect(c))

-------------------------------------------------------------------------------
(* Type correctness.                                                       *)
TypeOK ==
  /\ store \in [Namespaces -> Secret \cup {Absent}]
  /\ written \in Nat /\ issued \in Nat
  /\ expired \subseteq Token
  /\ account \in Accounts
  /\ pc \in [Connectors -> {"idle", "getFleet", "check", "refresh", "update"}]
  /\ ns \in [Connectors -> Namespaces]
  /\ held \in [Connectors -> Secret \cup {Absent}]
  /\ fresh \in [Connectors -> Token \cup {None}]
  /\ admin \in [Admins -> [pc : {"idle", "create", "update"},
                           token : Kubeconfig, creds : Accounts \cup {None}]]
  /\ calls \in 0 .. MaxCalls
  /\ mishaps \in 0 .. MaxMishaps
  /\ intended \in [edits : Nat, creds : Accounts \cup {None, Absent}]

(* The administrator has the last word: however many connections refresh   *)
(* the token meanwhile, the Secret in acm-fleet holds the credentials of   *)
(* the last AddHub, and stays away after a RemoveHub.                      *)
LastAdminCallStands ==
  intended.creds = IF store["fleet"] = Absent THEN Absent ELSE store["fleet"].creds

\* The Secrets without their versions.
Stored == [n \in Namespaces |->
             IF store[n] = Absent THEN Absent
             ELSE [token |-> store[n].token, creds |-> store[n].creds]]

Credentials == INSTANCE CredentialStore WITH secrets <- Stored, edits <- intended.edits

(* Whatever happens at once, the stored credentials change as if in single *)
(* steps: they are entered, removed, or renewed by a token of the same     *)
(* account that is newer than the one it replaces.  A slow connection does *)
(* not put back an older token, nor a Secret that was removed, does not    *)
(* store a token next to credentials it was not got for, and leaves a      *)
(* kubeconfig alone that it could not use.                                 *)
RenewedAtomically == Credentials!Spec

\* The hub is known by the Secret in acm-fleet only, whose token it refuses
\* although the credentials are good.
Healable == /\ store["hub"] = Absent
            /\ store["fleet"] # Absent
            /\ store["fleet"].creds = account
            /\ store["fleet"].token \in Refused

(* A refused token heals: as long as somebody asks for the hub, the        *)
(* credentials that are stored with it get a new one stored.               *)
TokenHeals == Healable ~> ~Healable
===============================================================================

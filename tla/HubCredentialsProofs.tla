------------------------- MODULE HubCredentialsProofs -------------------------
(***************************************************************************)
(* For any number of connections, administrators, accounts, calls and      *)
(* mishaps: the administrator has the last word on a hub's credentials,    *)
(* and all else that ever happens to a Secret is that its token is renewed *)
(* by a newer one of the same account (CredentialStore).                   *)
(***************************************************************************)
EXTENDS HubCredentials, TLAPS

Matches(s) == s.token \in Token => s.token.of \in {s.creds, None}

\* Resource versions only grow, so a Secret whose version is that of the one
\* a connection holds is the one it holds.
Inv ==
  /\ \A n \in Namespaces : store[n] # Absent => store[n].rv <= written /\ Matches(store[n])
  /\ \A c \in Connectors : pc[c] \in {"check", "refresh", "update"} =>
       /\ held[c] # Absent /\ held[c].rv <= written
       /\ store[ns[c]] # Absent /\ store[ns[c]].rv = held[c].rv => store[ns[c]] = held[c]
  /\ \A c \in Connectors : pc[c] \in {"refresh", "update"} => held[c].token # Unusable
  /\ \A c \in Connectors : pc[c] = "update" =>
       /\ fresh[c] # None /\ fresh[c].of = held[c].creds
  /\ \A a \in Admins : Matches(admin[a])
  /\ LastAdminCallStands

-------------------------------------------------------------------------------
(* What a kubeconfig holds is a token, None or Unusable.                   *)
LEMMA Kubeconfigs ==
  /\ None \in Kubeconfig /\ Unusable \in Kubeconfig
  /\ Token \subseteq Kubeconfig /\ None \notin Token /\ Unusable \notin Token /\ None # Unusable
  /\ \A t \in Kubeconfig : t \in Token \/ t = None \/ t = Unusable
  /\ \A t \in Token : t.serial \in Nat
  /\ \A i \in Nat, c \in Accounts \cup {None} : [serial |-> i, of |-> c] \in Token
BY NoneIsNothing, UnusableIsNoToken DEF Kubeconfig, Token

(* A new token and a stored Secret are of the types they should be.        *)
LEMMA NewValues ==
  ASSUME NEW i \in Nat, NEW t \in Kubeconfig, NEW c \in Accounts \cup {None}
  PROVE  /\ [serial |-> i, of |-> c] \in Token
         /\ [serial |-> i, of |-> c] # None
         /\ [serial |-> i, of |-> c] # Unusable
         /\ [rv |-> i, token |-> t, creds |-> c] \in Secret
         /\ [rv |-> i, token |-> t, creds |-> c] # Absent
BY Kubeconfigs, AbsentIsNothing DEF Secret

(* The fields of a Secret.                                                 *)
LEMMA SecretFields ==
  ASSUME NEW s \in Secret
  PROVE  s.rv \in Nat /\ s.token \in Kubeconfig /\ s.creds \in Accounts \cup {None}
BY DEF Secret

(* Every step keeps the state well typed.                                  *)
LEMMA TypeStep == TypeOK /\ Inv /\ [Next]_vars => TypeOK'
<1> SUFFICES ASSUME TypeOK, Inv, [Next]_vars PROVE TypeOK'
  OBVIOUS
<1> USE DEF TypeOK, Namespaces
<1>n. issued + 1 \in Nat /\ written + 1 \in Nat
  OBVIOUS
<1>t. \A c \in Accounts \cup {None} : NextToken(c) \in Token
  BY <1>n, Kubeconfigs DEF NextToken
<1>a. ASSUME NEW a \in Admins, NEW t \in Kubeconfig, NEW creds \in Accounts \cup {None},
             admin' = [admin EXCEPT ![a] = [pc |-> "create", token |-> t, creds |-> creds]]
      PROVE  admin' \in [Admins -> [pc : {"idle", "create", "update"},
                                   token : Kubeconfig, creds : Accounts \cup {None}]]
  BY <1>a
<1>1. ASSUME NEW a \in Admins, NEW creds \in Accounts \cup {None}, AddHubGiven(a, creds)
      PROVE TypeOK'
  <2>1. PICK t \in {NextToken(None), Unusable} :
          admin' = [admin EXCEPT ![a] = [pc |-> "create", token |-> t, creds |-> creds]]
    BY <1>1 DEF AddHubGiven
  <2>2. /\ issued' \in Nat /\ calls' \in 0 .. MaxCalls
        /\ UNCHANGED <<store, written, expired, account, connector, mishaps, intended>>
    BY <1>1, <1>n, BoundsAssumption DEF AddHubGiven
  <2> QED
    BY <1>a, <1>t, <2>1, <2>2, Kubeconfigs DEF connector
<1>2. ASSUME NEW a \in Admins, NEW creds \in Accounts, AddHubByPassword(a, creds)
      PROVE TypeOK'
  <2>2. PICK t \in {NextToken(creds), None} :
          admin' = [admin EXCEPT ![a] = [pc |-> "create", token |-> t, creds |-> creds]]
    BY <1>2 DEF AddHubByPassword
  <2>3. admin' \in [Admins -> [pc : {"idle", "create", "update"},
                              token : Kubeconfig, creds : Accounts \cup {None}]]
    BY <1>a, <1>t, <2>2, Kubeconfigs
  <2>4. /\ issued' \in Nat /\ calls' \in 0 .. MaxCalls /\ mishaps' \in 0 .. MaxMishaps
        /\ UNCHANGED <<store, written, expired, account, connector, intended>>
    BY <1>2, <1>n, BoundsAssumption DEF AddHubByPassword, Mishap
  <2> QED
    BY <2>3, <2>4 DEF connector
<1>3. ASSUME NEW n \in Namespaces, NEW t \in Kubeconfig, NEW c \in Accounts \cup {None},
             Store(n, t, c)
      PROVE  store' \in [Namespaces -> Secret \cup {Absent}] /\ written' \in Nat
  <2>1. [rv |-> written + 1, token |-> t, creds |-> c] \in Secret
    BY <1>n, NewValues
  <2> QED
    BY <1>3, <1>n, <2>1 DEF Store
<1>p. ASSUME NEW a \in Admins, Put(a)
      PROVE  /\ store' \in [Namespaces -> Secret \cup {Absent}] /\ written' \in Nat
             /\ intended' \in [edits : Nat, creds : Accounts \cup {None, Absent}]
  <2>1. admin[a].token \in Kubeconfig /\ admin[a].creds \in Accounts \cup {None}
    OBVIOUS
  <2>2. Store("fleet", admin[a].token, admin[a].creds) /\ Intend(admin[a].creds)
    BY <1>p DEF Put
  <2>3. store' \in [Namespaces -> Secret \cup {Absent}] /\ written' \in Nat
    BY <1>3, <2>1, <2>2
  <2>4. intended' \in [edits : Nat, creds : Accounts \cup {None, Absent}]
    BY <2>1, <2>2 DEF Intend
  <2> QED
    BY <2>3, <2>4
<1>4. ASSUME NEW a \in Admins, CreateSecret(a) PROVE TypeOK'
  <2>1. /\ Put(a) \/ UNCHANGED <<store, written, intended>>
        /\ \/ admin' = [admin EXCEPT ![a].pc = "update"]
           \/ admin' = [admin EXCEPT ![a] = Idle]
        /\ UNCHANGED <<issued, expired, account, connector, calls, mishaps>>
    BY <1>4 DEF CreateSecret
  <2>2. /\ store' \in [Namespaces -> Secret \cup {Absent}] /\ written' \in Nat
        /\ intended' \in [edits : Nat, creds : Accounts \cup {None, Absent}]
    BY <1>p, <2>1
  <2> QED
    BY <2>1, <2>2, Kubeconfigs DEF Idle, connector
<1>5. ASSUME NEW a \in Admins, UpdateSecret(a) PROVE TypeOK'
  <2>1. /\ Put(a) \/ UNCHANGED <<store, written, intended>>
        /\ admin' = [admin EXCEPT ![a] = Idle]
        /\ UNCHANGED <<issued, expired, account, connector, calls, mishaps>>
    BY <1>5 DEF UpdateSecret
  <2>2. /\ store' \in [Namespaces -> Secret \cup {Absent}] /\ written' \in Nat
        /\ intended' \in [edits : Nat, creds : Accounts \cup {None, Absent}]
    BY <1>p, <2>1
  <2> QED
    BY <2>1, <2>2, Kubeconfigs DEF Idle, connector
<1>6. ASSUME NEW a \in Admins, AddHubFails(a) PROVE TypeOK'
  BY <1>6, BoundsAssumption, Kubeconfigs DEF AddHubFails, Mishap, Idle, connector
<1>7. ASSUME NEW a \in Admins, RemoveHub(a) PROVE TypeOK'
  BY <1>7, BoundsAssumption DEF RemoveHub, Intend, connector
<1>8. ASSUME NEW c \in Connectors, GetFromHub(c) PROVE TypeOK'
  BY <1>8, BoundsAssumption DEF GetFromHub, Found, Mishap, connector
<1>9. ASSUME NEW c \in Connectors, GetFromFleet(c) PROVE TypeOK'
  BY <1>9, BoundsAssumption DEF GetFromFleet, Found, Return, Mishap
<1>10. ASSUME NEW c \in Connectors, CheckAuth(c) PROVE TypeOK'
  BY <1>10, BoundsAssumption DEF CheckAuth, Return, Mishap
<1>11. ASSUME NEW c \in Connectors, RefreshOAuthToken(c) PROVE TypeOK'
  BY <1>11, <1>n, <1>t, BoundsAssumption DEF RefreshOAuthToken, Return, Mishap
<1>12. ASSUME NEW c \in Connectors, UpdateRefreshed(c) PROVE TypeOK'
  BY <1>12, <1>3, SecretFields, Kubeconfigs, BoundsAssumption DEF UpdateRefreshed, Return, Mishap, Inv
<1>13. CASE Expire
  <2>1. Known \subseteq Kubeconfig
    BY SecretFields, Kubeconfigs DEF Known
  <2> QED
    BY <1>13, <2>1, Kubeconfigs DEF Expire, connector
<1>14. CASE ChangePassword
  BY <1>14, BoundsAssumption DEF ChangePassword, Mishap, connector
<1>15. CASE UNCHANGED vars
  BY <1>15 DEF vars, connector
<1> QED
  BY <1>1, <1>2, <1>4, <1>5, <1>6, <1>7, <1>8, <1>9, <1>10, <1>11, <1>12, <1>13, <1>14, <1>15
     DEF Next, Connect

-------------------------------------------------------------------------------
\* What Inv says of one connector.
Holds(c) ==
  /\ pc[c] \in {"check", "refresh", "update"} =>
       /\ held[c] # Absent /\ held[c].rv <= written
       /\ store[ns[c]] # Absent /\ store[ns[c]].rv = held[c].rv => store[ns[c]] = held[c]
  /\ pc[c] \in {"refresh", "update"} => held[c].token # Unusable
  /\ pc[c] = "update" => fresh[c] # None /\ fresh[c].of = held[c].creds

(* A step of one connector that leaves the Secrets and the administrators  *)
(* alone preserves Inv if the connector knows what it holds afterwards.    *)
LEMMA ConnectorStep ==
  ASSUME TypeOK, Inv, NEW c \in Connectors,
         \A d \in Connectors \ {c} :
           pc'[d] = pc[d] /\ ns'[d] = ns[d] /\ held'[d] = held[d] /\ fresh'[d] = fresh[d],
         Holds(c)', UNCHANGED <<store, written, admin, intended>>
  PROVE  Inv'
<1>1. \A d \in Connectors : Holds(d)'
  BY DEF Inv, Holds
<1>2. LastAdminCallStands'
  BY DEF Inv, LastAdminCallStands
<1> QED
  BY <1>1, <1>2 DEF Inv, Holds, Matches

(* A Secret that is stored keeps what every connector knows of what it     *)
(* holds, for its version is new.                                          *)
LEMMA StoreStep ==
  ASSUME TypeOK, Inv, NEW n \in Namespaces,
         NEW t \in Kubeconfig, NEW a \in Accounts \cup {None},
         t \in Token => t.of \in {a, None},
         Store(n, t, a),
         \A d \in Connectors :
           \/ pc'[d] = "idle"
           \/ pc'[d] = pc[d] /\ ns'[d] = ns[d] /\ held'[d] = held[d] /\ fresh'[d] = fresh[d]
  PROVE  /\ \A d \in Connectors : Holds(d)'
         /\ \A m \in Namespaces : store'[m] # Absent => store'[m].rv <= written' /\ Matches(store'[m])
         /\ store'[n].creds = a /\ store'[n] # Absent
         /\ \A m \in Namespaces \ {n} : store'[m] = store[m]
<1>1. /\ store'[n] = [rv |-> written + 1, token |-> t, creds |-> a]
      /\ \A m \in Namespaces \ {n} : store'[m] = store[m]
      /\ written' = written + 1 /\ written \in Nat
  BY DEF Store, TypeOK
<1>2. store'[n] \in Secret /\ store'[n] # Absent
  <2> DEFINE v == written + 1
  <2>1. v \in Nat
    BY DEF TypeOK
  <2>2. store'[n] = [rv |-> v, token |-> t, creds |-> a]
    BY <1>1
  <2> HIDE DEF v
  <2> QED
    BY <2>1, <2>2, NewValues
<1>3. \A m \in Namespaces : store'[m] # Absent => store'[m].rv <= written' /\ Matches(store'[m])
  <2> SUFFICES ASSUME NEW m \in Namespaces, store'[m] # Absent
               PROVE  store'[m].rv <= written' /\ Matches(store'[m])
    OBVIOUS
  <2>1. CASE m = n
    BY <1>1, <2>1 DEF Matches
  <2>2. CASE m # n
    <3>1. store'[m] \in Secret /\ store'[m] = store[m]
      BY <1>1, <2>2 DEF TypeOK
    <3> QED
      BY <1>1, <3>1, SecretFields DEF Inv, Matches
  <2> QED
    BY <2>1, <2>2
<1>4. ASSUME NEW d \in Connectors, pc'[d] # "idle" PROVE Holds(d)'
  <2>1. pc'[d] = pc[d] /\ ns'[d] = ns[d] /\ held'[d] = held[d] /\ fresh'[d] = fresh[d]
    BY <1>4
  <2>2. held[d] # Absent => held[d].rv \in Nat
    BY SecretFields DEF TypeOK
  <2>3. ns[d] \in Namespaces
    BY DEF TypeOK
  <2>4. CASE ns[d] = n
    BY <1>1, <2>1, <2>2, <2>4 DEF Inv, Holds
  <2>5. CASE ns[d] # n
    BY <1>1, <2>1, <2>2, <2>3, <2>5 DEF Inv, Holds
  <2> QED
    BY <2>4, <2>5
<1>5. \A d \in Connectors : Holds(d)'
  BY <1>4 DEF Holds
<1> QED
  BY <1>1, <1>2, <1>3, <1>5

(* Every step preserves Inv.                                               *)
LEMMA InvStep == TypeOK /\ TypeOK' /\ Inv /\ [Next]_vars => Inv'
<1> SUFFICES ASSUME TypeOK, TypeOK', Inv, [Next]_vars PROVE Inv'
  OBVIOUS
<1>ns. "fleet" \in Namespaces /\ "hub" \in Namespaces
  BY DEF Namespaces
<1>1. ASSUME UNCHANGED <<store, written, connector, intended>>,
             \A a \in Admins : Matches(admin'[a])
      PROVE Inv'
  BY <1>1 DEF Inv, Matches, LastAdminCallStands, connector
<1>2. ASSUME NEW a \in Admins, NEW creds \in Accounts \cup {None}, AddHubGiven(a, creds)
      PROVE Inv'
  <2>1. \A b \in Admins : Matches(admin'[b])
    BY <1>2, Kubeconfigs DEF AddHubGiven, NextToken, Inv, Matches, TypeOK
  <2> QED
    BY <1>1, <1>2, <2>1 DEF AddHubGiven
<1>3. ASSUME NEW a \in Admins, NEW creds \in Accounts, AddHubByPassword(a, creds)
      PROVE Inv'
  <2>1. \A b \in Admins : Matches(admin'[b])
    BY <1>3, Kubeconfigs DEF AddHubByPassword, NextToken, Inv, Matches, TypeOK
  <2> QED
    BY <1>1, <1>3, <2>1 DEF AddHubByPassword
<1>4. ASSUME NEW a \in Admins, Put(a), UNCHANGED connector,
             \A b \in Admins : Matches(admin'[b])
      PROVE Inv'
  <2>1. /\ admin[a].token \in Kubeconfig /\ admin[a].creds \in Accounts \cup {None}
        /\ admin[a].token \in Token => admin[a].token.of \in {admin[a].creds, None}
    BY DEF Inv, Matches, TypeOK
  <2>2. /\ \A d \in Connectors : Holds(d)'
        /\ \A m \in Namespaces : store'[m] # Absent => store'[m].rv <= written' /\ Matches(store'[m])
        /\ store'["fleet"].creds = admin[a].creds /\ store'["fleet"] # Absent
    BY <1>4, <1>ns, <2>1, StoreStep DEF Put, connector
  <2>3. LastAdminCallStands'
    BY <1>4, <2>2 DEF Put, Intend, LastAdminCallStands
  <2> QED
    BY <1>4, <2>2, <2>3 DEF Inv, Holds, Matches
<1>5. ASSUME NEW a \in Admins, CreateSecret(a) \/ UpdateSecret(a) \/ AddHubFails(a)
      PROVE Inv'
  <2>1. \A b \in Admins : Matches(admin'[b])
    BY <1>5, Kubeconfigs DEF CreateSecret, UpdateSecret, AddHubFails, Idle, Inv, Matches, TypeOK
  <2>2. CASE Put(a) /\ UNCHANGED connector
    BY <1>4, <2>1, <2>2
  <2>3. CASE UNCHANGED <<store, written, connector, intended>>
    BY <1>1, <2>1, <2>3
  <2> QED
    BY <1>5, <2>2, <2>3 DEF CreateSecret, UpdateSecret, AddHubFails
<1>6. ASSUME NEW a \in Admins, RemoveHub(a) PROVE Inv'
  <2>1. /\ store'["fleet"] = Absent /\ store'["hub"] = store["hub"]
        /\ intended'.creds = Absent /\ UNCHANGED <<written, connector, admin>>
    BY <1>6, <1>ns DEF RemoveHub, Intend, TypeOK
  <2>2. \A n \in Namespaces : store'[n] # Absent => store'[n] = store[n]
    BY <2>1 DEF Namespaces
  <2>3. \A c \in Connectors : ns[c] \in Namespaces
    BY DEF TypeOK
  <2> QED
    BY <2>1, <2>2, <2>3 DEF Inv, Matches, LastAdminCallStands, connector
<1>7. ASSUME NEW c \in Connectors, GetFromHub(c) PROVE Inv'
  <2>1. /\ \A d \in Connectors \ {c} :
             pc'[d] = pc[d] /\ ns'[d] = ns[d] /\ held'[d] = held[d] /\ fresh'[d] = fresh[d]
        /\ UNCHANGED <<store, written, admin, intended>>
    BY <1>7 DEF GetFromHub, Found, TypeOK
  <2>2. Holds(c)'
    <3>1. CASE pc'[c] = "getFleet"
      BY <3>1 DEF Holds
    <3>2. CASE Found(c, "hub")
      BY <1>ns, <2>1, <3>2 DEF Found, Holds, Inv, TypeOK
    <3> QED
      BY <1>7, <3>1, <3>2 DEF GetFromHub, TypeOK
  <2> QED
    BY <2>1, <2>2, ConnectorStep
<1>8. ASSUME NEW c \in Connectors, GetFromFleet(c) PROVE Inv'
  <2>1. /\ \A d \in Connectors \ {c} :
             pc'[d] = pc[d] /\ ns'[d] = ns[d] /\ held'[d] = held[d] /\ fresh'[d] = fresh[d]
        /\ UNCHANGED <<store, written, admin, intended>>
    BY <1>8 DEF GetFromFleet, Found, Return, TypeOK
  <2>2. Holds(c)'
    <3>1. CASE pc'[c] = "idle"
      BY <3>1 DEF Holds
    <3>2. CASE Found(c, "fleet")
      BY <1>ns, <2>1, <3>2 DEF Found, Holds, Inv, TypeOK
    <3> QED
      BY <1>8, <3>1, <3>2 DEF GetFromFleet, Return, TypeOK
  <2> QED
    BY <2>1, <2>2, ConnectorStep
<1>9. ASSUME NEW c \in Connectors, CheckAuth(c) PROVE Inv'
  <2>1. /\ \A d \in Connectors \ {c} :
             pc'[d] = pc[d] /\ ns'[d] = ns[d] /\ held'[d] = held[d] /\ fresh'[d] = fresh[d]
        /\ UNCHANGED <<store, written, admin, intended>>
        /\ \/ pc'[c] = "idle"
           \/ pc'[c] = "refresh" /\ UNCHANGED <<ns, held, fresh>> /\ held[c].token # Unusable
    BY <1>9 DEF CheckAuth, Return, TypeOK
  <2>2. pc[c] = "check"
    BY <1>9 DEF CheckAuth
  <2>3. Holds(c)'
    BY <2>1, <2>2 DEF Holds, Inv
  <2> QED
    BY <2>1, <2>3, ConnectorStep
<1>10. ASSUME NEW c \in Connectors, RefreshOAuthToken(c) PROVE Inv'
  <2>1. /\ \A d \in Connectors \ {c} :
             pc'[d] = pc[d] /\ ns'[d] = ns[d] /\ held'[d] = held[d] /\ fresh'[d] = fresh[d]
        /\ UNCHANGED <<store, written, admin, intended>>
        /\ \/ pc'[c] = "idle"
           \/ /\ fresh'[c] = [serial |-> issued + 1, of |-> held[c].creds]
              /\ UNCHANGED <<ns, held>>
        /\ pc[c] = "refresh"
    BY <1>10 DEF RefreshOAuthToken, Exchangeable, NextToken, Return, TypeOK
  <2>2. CASE pc'[c] = "idle"
    <3>1. Holds(c)'
      BY <2>2 DEF Holds
    <3> QED
      BY <2>1, <3>1, ConnectorStep
  <2>3. CASE fresh'[c] = [serial |-> issued + 1, of |-> held[c].creds] /\ UNCHANGED <<ns, held>>
    <3> DEFINE i == issued + 1
    <3>1. i \in Nat /\ held[c] \in Secret
      BY <2>1 DEF TypeOK, Inv
    <3>2. fresh'[c] = [serial |-> i, of |-> held[c].creds] /\ held[c].creds \in Accounts \cup {None}
      BY <2>3, <3>1, SecretFields
    <3> HIDE DEF i
    <3>3. fresh'[c] # None /\ fresh'[c].of = held'[c].creds
      BY <2>3, <3>1, <3>2, NoneIsNothing DEF Token
    <3>4. Holds(c)'
      BY <2>1, <2>3, <3>3 DEF Holds, Inv
    <3> QED
      BY <2>1, <3>4, ConnectorStep
  <2> QED
    BY <2>1, <2>2, <2>3
<1>11. ASSUME NEW c \in Connectors, UpdateRefreshed(c) PROVE Inv'
  <2>1. /\ pc[c] = "update" /\ pc'[c] = "idle"
        /\ \A d \in Connectors \ {c} :
             pc'[d] = pc[d] /\ ns'[d] = ns[d] /\ held'[d] = held[d] /\ fresh'[d] = fresh[d]
        /\ UNCHANGED <<admin, intended>>
    BY <1>11 DEF UpdateRefreshed, Return, TypeOK
  <2>2. CASE UNCHANGED <<store, written>>
    <3>1. Holds(c)'
      BY <2>1 DEF Holds
    <3> QED
      BY <2>1, <2>2, <3>1, ConnectorStep
  <2>3. CASE /\ Store(ns[c], fresh[c], held[c].creds)
             /\ store[ns[c]] # Absent /\ store[ns[c]].rv = held[c].rv
    <3>1. /\ ns[c] \in Namespaces /\ fresh[c] \in Token \cup {None} /\ held[c] \in Secret
          /\ store[ns[c]] = held[c] /\ fresh[c].of = held[c].creds
      BY <2>1, <2>3 DEF TypeOK, Inv
    <3>2. held[c].creds \in Accounts \cup {None}
      BY <3>1, SecretFields
    <3>3. \A d \in Connectors :
            \/ pc'[d] = "idle"
            \/ pc'[d] = pc[d] /\ ns'[d] = ns[d] /\ held'[d] = held[d] /\ fresh'[d] = fresh[d]
      BY <2>1
    <3>4. /\ \A d \in Connectors : Holds(d)'
          /\ \A m \in Namespaces : store'[m] # Absent => store'[m].rv <= written' /\ Matches(store'[m])
          /\ store'[ns[c]].creds = held[c].creds /\ store'[ns[c]] # Absent
          /\ \A m \in Namespaces \ {ns[c]} : store'[m] = store[m]
      BY <2>3, <3>1, <3>2, <3>3, Kubeconfigs, StoreStep
    <3>5. LastAdminCallStands'
      BY <1>ns, <2>1, <2>3, <3>1, <3>4 DEF LastAdminCallStands, Inv
    <3> QED
      BY <2>1, <3>4, <3>5 DEF Inv, Holds, Matches
  <2> QED
    BY <1>11, <2>2, <2>3 DEF UpdateRefreshed
<1>12. CASE Expire \/ ChangePassword \/ UNCHANGED vars
  <2>1. UNCHANGED <<store, written, connector, intended, admin>>
    BY <1>12 DEF Expire, ChangePassword, vars
  <2> QED
    BY <1>1, <2>1 DEF Inv, Matches
<1> QED
  BY <1>2, <1>3, <1>5, <1>6, <1>7, <1>8, <1>9, <1>10, <1>11, <1>12 DEF Next, Connect

-------------------------------------------------------------------------------
\* Tokens are numbered as they are issued, so the one a connector got in
\* exchange is newer than the one that came with what it holds.
Issued(s) == s.token \in Token => s.token.serial <= issued

SerialInv ==
  /\ \A n \in Namespaces : store[n] # Absent => Issued(store[n])
  /\ \A a \in Admins : Issued(admin[a])
  /\ \A c \in Connectors : held[c] # Absent => Issued(held[c])
  /\ \A c \in Connectors : pc[c] = "update" =>
       /\ fresh[c].serial <= issued
       /\ held[c].token \in Token => held[c].token.serial < fresh[c].serial

(* Every step preserves the order of the tokens.                           *)
LEMMA SerialStep == TypeOK /\ Inv /\ SerialInv /\ [Next]_vars => SerialInv'
<1> SUFFICES ASSUME TypeOK, Inv, SerialInv, [Next]_vars PROVE SerialInv'
  OBVIOUS
<1>n. issued \in Nat /\ "fleet" \in Namespaces /\ "hub" \in Namespaces
  BY DEF TypeOK, Namespaces
<1>t. ASSUME NEW s, s.token \in Kubeconfig, Issued(s), issued' \in {issued, issued + 1}
      PROVE  Issued(s)'
  BY <1>n, <1>t DEF Issued, Token
<1>s. \A s \in Secret : Issued(s) /\ issued' \in {issued, issued + 1} => Issued(s)'
  BY <1>t, SecretFields
\* What was known of connectors that do nothing.
<1>c. ASSUME NEW c \in Connectors, issued' \in {issued, issued + 1},
             pc'[c] = pc[c], held'[c] = held[c], fresh'[c] = fresh[c]
      PROVE  /\ held'[c] # Absent => Issued(held[c])'
             /\ pc'[c] = "update" =>
                  /\ fresh'[c].serial <= issued'
                  /\ held'[c].token \in Token => held'[c].token.serial < fresh'[c].serial
  <2>1. held[c] \in Secret \cup {Absent} /\ fresh[c] \in Token \cup {None}
    BY DEF TypeOK
  <2>2. pc[c] = "update" => fresh[c].serial \in Nat
    BY <2>1 DEF Inv, Token
  <2>3. held'[c] # Absent => Issued(held[c])'
    BY <1>c, <1>s, <2>1 DEF SerialInv
  <2> QED
    BY <1>c, <1>n, <2>2, <2>3 DEF SerialInv
\* What was known of Secrets and administrators that stay as they are.
<1>m. ASSUME NEW n \in Namespaces, issued' \in {issued, issued + 1},
             store'[n] \in {store[n], Absent}, store'[n] # Absent
      PROVE  Issued(store[n])'
  <2>1. store[n] \in Secret
    BY <1>m DEF TypeOK
  <2> QED
    BY <1>m, <1>s, <2>1 DEF SerialInv
<1>a. ASSUME NEW a \in Admins, issued' \in {issued, issued + 1},
             admin'[a].token = admin[a].token
      PROVE  Issued(admin[a])'
  BY <1>a, <1>t DEF SerialInv, TypeOK, Issued
\* One administrator takes a step.
<1>1. ASSUME NEW a \in Admins, UNCHANGED connector, issued' \in {issued, issued + 1},
             \A b \in Admins \ {a} : admin'[b] = admin[b], Issued(admin[a])',
             \A n \in Namespaces : store'[n] \in {store[n], Absent} \/ Issued(store[n])'
      PROVE  SerialInv'
  <2>1. \A b \in Admins : Issued(admin[b])'
    BY <1>1, <1>a
  <2>2. \A n \in Namespaces : store'[n] # Absent => Issued(store[n])'
    BY <1>1, <1>m
  <2> QED
    BY <1>1, <1>c, <2>1, <2>2 DEF SerialInv, connector
\* One connector takes a step.
<1>2. ASSUME NEW c \in Connectors, UNCHANGED admin, issued' \in {issued, issued + 1},
             \A d \in Connectors \ {c} :
               pc'[d] = pc[d] /\ held'[d] = held[d] /\ fresh'[d] = fresh[d],
             held'[c] # Absent => Issued(held[c])',
             pc'[c] = "update" =>
               /\ fresh'[c].serial <= issued'
               /\ held'[c].token \in Token => held'[c].token.serial < fresh'[c].serial,
             \A n \in Namespaces : store'[n] \in {store[n], Absent} \/ Issued(store[n])'
      PROVE  SerialInv'
  <2>1. \A a \in Admins : Issued(admin[a])'
    BY <1>2, <1>a
  <2>2. \A n \in Namespaces : store'[n] # Absent => Issued(store[n])'
    BY <1>2, <1>m
  <2> QED
    BY <1>2, <1>c, <2>1, <2>2 DEF SerialInv
<1>3. ASSUME NEW a \in Admins, NEW creds \in Accounts \cup {None},
             AddHubGiven(a, creds) \/ (creds \in Accounts /\ AddHubByPassword(a, creds))
      PROVE  SerialInv'
  <2>1. PICK t : /\ admin' = [admin EXCEPT ![a] = [pc |-> "create", token |-> t, creds |-> creds]]
                 /\ t \in Token => t.serial <= issued'
                 /\ issued' \in {issued, issued + 1}
    BY <1>n, <1>3, Kubeconfigs DEF AddHubGiven, AddHubByPassword, NextToken
  <2>2. admin'[a].token = t /\ \A b \in Admins \ {a} : admin'[b] = admin[b]
    BY <2>1 DEF TypeOK
  <2>3. Issued(admin[a])'
    BY <2>1, <2>2 DEF Issued
  <2>4. UNCHANGED <<store, connector>>
    BY <1>3 DEF AddHubGiven, AddHubByPassword
  <2> QED
    BY <1>1, <2>1, <2>2, <2>3, <2>4
<1>4. ASSUME NEW a \in Admins, CreateSecret(a) \/ UpdateSecret(a) \/ AddHubFails(a)
      PROVE  SerialInv'
  <2>1. /\ UNCHANGED <<issued, connector>> /\ \A b \in Admins \ {a} : admin'[b] = admin[b]
        /\ admin'[a].token \in {admin[a].token, None}
    BY <1>4 DEF CreateSecret, UpdateSecret, AddHubFails, Idle, TypeOK
  <2>2. \A n \in Namespaces : store'[n] = store[n] \/ store'[n].token = admin[a].token
    <3>1. Put(a) \/ UNCHANGED store
      BY <1>4 DEF CreateSecret, UpdateSecret, AddHubFails
    <3> QED
      BY <3>1 DEF Put, Store, TypeOK
  <2> QED
    BY <1>1, <2>1, <2>2, Kubeconfigs DEF Issued, SerialInv
<1>5. ASSUME NEW a \in Admins, RemoveHub(a) PROVE SerialInv'
  <2>1. UNCHANGED <<issued, connector, admin>> /\ Issued(admin[a])'
    BY <1>5 DEF RemoveHub, SerialInv, Issued
  <2>2. \A n \in Namespaces : store'[n] \in {store[n], Absent}
    BY <1>5 DEF RemoveHub, TypeOK
  <2> QED
    BY <1>1, <2>1, <2>2
<1>6. ASSUME NEW c \in Connectors, GetFromHub(c) \/ GetFromFleet(c) \/ CheckAuth(c)
      PROVE  SerialInv'
  <2>1. /\ UNCHANGED <<store, issued, admin>> /\ pc'[c] # "update"
        /\ \A d \in Connectors \ {c} :
             pc'[d] = pc[d] /\ held'[d] = held[d] /\ fresh'[d] = fresh[d]
        /\ held'[c] \in {held[c], Absent, store["hub"], store["fleet"]}
    BY <1>6 DEF GetFromHub, GetFromFleet, CheckAuth, Found, Return, TypeOK
  <2>2. held'[c] # Absent => Issued(held[c])'
    BY <1>n, <2>1 DEF SerialInv, Issued
  <2> QED
    BY <1>2, <2>1, <2>2
<1>7. ASSUME NEW c \in Connectors, RefreshOAuthToken(c) PROVE SerialInv'
  <2>1. /\ UNCHANGED <<store, admin>> /\ pc[c] = "refresh"
        /\ issued' \in {issued, issued + 1}
        /\ \A d \in Connectors \ {c} :
             pc'[d] = pc[d] /\ held'[d] = held[d] /\ fresh'[d] = fresh[d]
        /\ \/ pc'[c] = "idle" /\ held'[c] = Absent
           \/ /\ held'[c] = held[c] /\ issued' = issued + 1
              /\ fresh'[c].serial = issued + 1
    BY <1>7 DEF RefreshOAuthToken, NextToken, Return, TypeOK
  <2>2. held[c] \in Secret /\ held[c] # Absent
    BY <2>1 DEF TypeOK, Inv
  <2>3. held[c].token \in Token => held[c].token.serial \in Nat /\ held[c].token.serial <= issued
    BY <2>2, SecretFields DEF SerialInv, Issued, Token
  <2>4. held'[c] # Absent => Issued(held[c])'
    BY <1>n, <2>1, <2>3 DEF Issued
  <2>5. pc'[c] = "update" =>
          /\ fresh'[c].serial <= issued'
          /\ held'[c].token \in Token => held'[c].token.serial < fresh'[c].serial
    BY <1>n, <2>1, <2>3
  <2> QED
    BY <1>2, <2>1, <2>4, <2>5
<1>8. ASSUME NEW c \in Connectors, UpdateRefreshed(c) PROVE SerialInv'
  <2>1. /\ UNCHANGED <<issued, admin>> /\ pc[c] = "update"
        /\ pc'[c] = "idle" /\ held'[c] = Absent
        /\ \A d \in Connectors \ {c} :
             pc'[d] = pc[d] /\ held'[d] = held[d] /\ fresh'[d] = fresh[d]
    BY <1>8 DEF UpdateRefreshed, Return, TypeOK
  <2>2. \A n \in Namespaces : store'[n] = store[n] \/ store'[n].token = fresh[c]
    BY <1>8 DEF UpdateRefreshed, Store, TypeOK
  <2>3. \A n \in Namespaces : store'[n] = store[n] \/ Issued(store[n])'
    BY <2>1, <2>2 DEF Issued, SerialInv
  <2> QED
    BY <1>2, <2>1, <2>3
<1>9. CASE Expire \/ ChangePassword \/ UNCHANGED vars
  <2>1. UNCHANGED <<store, issued, connector, admin>>
    BY <1>9 DEF Expire, ChangePassword, vars
  <2> QED
    BY <2>1 DEF SerialInv, Issued, connector
<1> QED
  BY <1>3, <1>4, <1>5, <1>6, <1>7, <1>8, <1>9 DEF Next, Connect

-------------------------------------------------------------------------------
(* Both hold initially, and so always: TypeOK's step needs Inv, by which   *)
(* what a connector is about to write back came with a Secret.             *)
LEMMA Invariant == Spec => [](TypeOK /\ Inv /\ SerialInv)
<1>1. Init => TypeOK /\ Inv /\ SerialInv
  <2> SUFFICES ASSUME Init PROVE TypeOK /\ Inv /\ SerialInv
    OBVIOUS
  <2>1. PICK c \in {None, account} : \E t \in {Unusable, [serial |-> 0, of |-> c]} :
          /\ store["hub"] \in {Absent, [rv |-> 0, token |-> t, creds |-> c]}
          /\ store = [n \in Namespaces |-> IF n = "hub" THEN store["hub"] ELSE Absent]
    BY DEF Init, Namespaces
  <2>0. PICK t \in {Unusable, [serial |-> 0, of |-> c]} :
          /\ store["hub"] \in {Absent, [rv |-> 0, token |-> t, creds |-> c]}
          /\ store = [n \in Namespaces |-> IF n = "hub" THEN store["hub"] ELSE Absent]
    BY <2>1
  <2> DEFINE s0 == [rv |-> 0, token |-> t, creds |-> c]
  <2>2. s0 \in Secret /\ s0.rv <= 0 /\ Matches(s0) /\ (s0.token \in Token => s0.token.serial = 0)
    <3>1. c \in Accounts \cup {None}
      BY <2>1 DEF Init
    <3>2. t \in Kubeconfig /\ (t \in Token => t = [serial |-> 0, of |-> c])
      BY <3>1, Kubeconfigs
    <3>3. s0 \in Secret
      BY <3>1, <3>2, NewValues
    <3>4. s0.rv = 0 /\ s0.token = t /\ s0.creds = c
      OBVIOUS
    <3> HIDE DEF s0
    <3> QED
      BY <3>2, <3>3, <3>4 DEF Matches
  <2>3. /\ store \in [Namespaces -> Secret \cup {Absent}]
        /\ store["fleet"] = Absent /\ store["hub"] \in {Absent, s0}
    BY <2>0, <2>2 DEF Namespaces
  <2>4. TypeOK
    BY <2>3, BoundsAssumption, Kubeconfigs DEF Init, TypeOK, Idle, Namespaces
  <2>5. Inv
    BY <2>2, <2>3, Kubeconfigs DEF Init, Inv, LastAdminCallStands, Idle, Matches, Namespaces
  <2>6. SerialInv
    BY <2>2, <2>3, Kubeconfigs DEF Init, SerialInv, Issued, Idle, Namespaces
  <2> QED
    BY <2>4, <2>5, <2>6
<1>2. (TypeOK /\ Inv /\ SerialInv) /\ [Next]_vars => (TypeOK /\ Inv /\ SerialInv)'
  BY TypeStep, InvStep, SerialStep
<1> QED
  BY <1>1, <1>2, PTL DEF Spec

(* The state is always well typed: an update is never made without a       *)
(* Secret that was read and a token that was got in exchange.              *)
THEOREM TypeCorrect == Spec => []TypeOK
BY Invariant, PTL

(* However connections and administrators interleave, the Secret in        *)
(* acm-fleet holds the credentials of the last AddHub, or is gone after    *)
(* RemoveHub.                                                              *)
THEOREM LastAdminCallStandsHolds == Spec => []LastAdminCallStands
<1>1. Inv => LastAdminCallStands
  BY DEF Inv
<1> QED
  BY <1>1, Invariant, PTL

-------------------------------------------------------------------------------
(* A Secret that is stored shows as its token and its credentials.         *)
LEMMA StoredBy ==
  ASSUME TypeOK, NEW n \in Namespaces,
         NEW t \in Kubeconfig, NEW a \in Accounts \cup {None}, Store(n, t, a)
  PROVE  LET e == [token |-> t, creds |-> a] IN
         /\ e \in Entry /\ e # Absent
         /\ Stored'[n] = e
         /\ Stored' = [Stored EXCEPT ![n] = e]
<1> DEFINE e == [token |-> t, creds |-> a]
           s == [rv |-> written + 1, token |-> t, creds |-> a]
<1>1. e \in Entry /\ e # Absent
  BY AbsentIsNothing DEF Entry
<1>2. s # Absent /\ s.token = t /\ s.creds = a
  <2>1. written + 1 \in Nat
    BY DEF TypeOK
  <2> QED
    BY <2>1, NewValues
<1>3. store' = [store EXCEPT ![n] = s] /\ store'[n] = s
  BY DEF Store, TypeOK
<1>4. \A m \in Namespaces : Stored'[m] = IF m = n THEN e ELSE Stored[m]
  <2>1. \A m \in Namespaces \ {n} : store'[m] = store[m]
    BY <1>3 DEF TypeOK
  <2> HIDE DEF s
  <2> QED
    BY <1>2, <1>3, <2>1 DEF Stored
<1>5. Stored' = [Stored EXCEPT ![n] = e]
  BY <1>4 DEF Stored
<1> QED
  BY <1>1, <1>4, <1>5

(* What AddHub stores is entered.                                          *)
LEMMA PutEnters ==
  ASSUME TypeOK, Inv, NEW a \in Admins, Put(a)
  PROVE  Credentials!Enter
<1> DEFINE e == [token |-> admin[a].token, creds |-> admin[a].creds]
<1>1. admin[a].token \in Kubeconfig /\ admin[a].creds \in Accounts \cup {None}
      /\ "fleet" \in Namespaces
  BY DEF TypeOK, Namespaces
<1>2. e \in Entry /\ Stored'["fleet"] = e /\ Stored' = [Stored EXCEPT !["fleet"] = e]
  BY <1>1, StoredBy DEF Put
<1>3. e \in Credentials!Entry
  BY <1>2 DEF Entry, Kubeconfig, Token, Credentials!Entry, Credentials!Token
<1>4. Credentials!Fits(e)
  BY DEF Inv, Matches, Token, Credentials!Token, Credentials!Fits
<1>5. intended'.edits = intended.edits + 1
  BY DEF Put, Intend
<1> HIDE DEF e
<1> QED
  BY <1>2, <1>3, <1>4, <1>5 DEF Credentials!Enter, Credentials!Edit

(* What a refresh stores renews.                                           *)
LEMMA RefreshRenews ==
  ASSUME TypeOK, Inv, SerialInv, NEW c \in Connectors, pc[c] = "update",
         store[ns[c]] # Absent, store[ns[c]].rv = held[c].rv,
         Store(ns[c], fresh[c], held[c].creds), UNCHANGED intended
  PROVE  Credentials!Renew(ns[c])
<1> DEFINE e == [token |-> fresh[c], creds |-> held[c].creds]
<1>1. /\ ns[c] \in Namespaces /\ held[c] \in Secret
      /\ store[ns[c]] = held[c] /\ held[c] # Absent
      /\ fresh[c] \in Token \cup {None} /\ fresh[c] # None /\ fresh[c].of = held[c].creds
      /\ held[c].token \in Token => held[c].token.serial < fresh[c].serial
      /\ held[c].token # Unusable /\ fresh[c] \in Token
  BY DEF TypeOK, Inv, SerialInv
<1>2. held[c].token \in Kubeconfig /\ held[c].creds \in Accounts \cup {None}
  BY <1>1, SecretFields
<1>3. e # Absent /\ Stored'[ns[c]] = e /\ Stored' = [Stored EXCEPT ![ns[c]] = e]
  BY <1>1, <1>2, Kubeconfigs, StoredBy
<1>4. /\ Stored[ns[c]] = [token |-> held[c].token, creds |-> held[c].creds]
      /\ Stored[ns[c]] # Absent
  BY <1>1, <1>2, AbsentIsNothing DEF Stored, Entry
<1>5. e.token = fresh[c] /\ e.creds = held[c].creds
  OBVIOUS
<1> HIDE DEF e
<1> QED
  BY <1>1, <1>3, <1>4, <1>5 DEF Token, Credentials!Token, Credentials!Renew

(* Every step enters, removes or renews credentials, or leaves them.       *)
LEMMA StepRefines ==
  TypeOK /\ Inv /\ SerialInv /\ [Next]_vars => [Credentials!Next]_(Credentials!vars)
<1> SUFFICES ASSUME TypeOK, Inv, SerialInv, [Next]_vars
             PROVE  [Credentials!Next]_(Credentials!vars)
  OBVIOUS
<1>1. ASSUME UNCHANGED <<store, intended>> PROVE UNCHANGED Credentials!vars
  BY <1>1 DEF Stored, Credentials!vars
<1>2. ASSUME NEW a \in Admins, CreateSecret(a) \/ UpdateSecret(a) \/ AddHubFails(a)
      PROVE  Credentials!Enter \/ UNCHANGED <<store, intended>>
  BY <1>2, PutEnters DEF CreateSecret, UpdateSecret, AddHubFails
<1>3. ASSUME NEW a \in Admins, RemoveHub(a) PROVE Credentials!Remove
  <2>1. /\ store'["fleet"] = Absent /\ store'["hub"] = store["hub"]
        /\ intended'.edits = intended.edits + 1
    BY <1>3 DEF RemoveHub, Intend, TypeOK, Namespaces
  <2>2. Stored' = [Stored EXCEPT !["fleet"] = Absent]
    BY <2>1 DEF Stored, Namespaces
  <2> QED
    BY <2>1, <2>2 DEF Credentials!Remove, Credentials!Edit
<1>4. ASSUME NEW c \in Connectors, UpdateRefreshed(c)
      PROVE  (\E n \in Namespaces : Credentials!Renew(n)) \/ UNCHANGED <<store, intended>>
  <2>1. ns[c] \in Namespaces /\ pc[c] = "update" /\ UNCHANGED intended
    BY <1>4 DEF UpdateRefreshed, TypeOK
  <2> QED
    BY <1>4, <2>1, RefreshRenews DEF UpdateRefreshed
<1>5. CASE \/ \E a \in Admins, creds \in Accounts \cup {None} : AddHubGiven(a, creds)
           \/ \E a \in Admins, creds \in Accounts : AddHubByPassword(a, creds)
           \/ \E c \in Connectors : \/ GetFromHub(c) \/ GetFromFleet(c) \/ CheckAuth(c)
                                    \/ RefreshOAuthToken(c)
           \/ Expire \/ ChangePassword \/ UNCHANGED vars
  <2>1. UNCHANGED <<store, intended>>
    BY <1>5 DEF AddHubGiven, AddHubByPassword, GetFromHub, GetFromFleet, CheckAuth,
                RefreshOAuthToken, Expire, ChangePassword, vars
  <2> QED
    BY <1>1, <2>1
<1>6. DOMAIN Stored = Namespaces
  BY DEF Stored
<1> QED
  BY <1>1, <1>2, <1>3, <1>4, <1>5, <1>6 DEF Next, Connect, Credentials!Next

(* The stored credentials change as if in single steps: connections renew  *)
(* them by newer tokens, and administrators enter and remove them.         *)
THEOREM RenewedAtomicallyHolds == Spec => RenewedAtomically
<1>1. Init /\ TypeOK /\ Inv => Credentials!Init
  <2> SUFFICES ASSUME Init, TypeOK, Inv PROVE Credentials!Init
    OBVIOUS
  <2>1. intended.edits = 0 /\ store["fleet"] = Absent /\ DOMAIN Stored = Namespaces
    BY DEF Init, Stored, Namespaces
  <2>2. Stored["fleet"] = Absent
    BY <2>1 DEF Stored, Namespaces
  <2>3. ASSUME NEW n \in Namespaces, Stored[n] # Absent
        PROVE  Stored[n] \in Credentials!Entry /\ Credentials!Fits(Stored[n])
    <3>1. store[n] \in Secret /\ Matches(store[n])
          /\ Stored[n] = [token |-> store[n].token, creds |-> store[n].creds]
      BY <2>3 DEF TypeOK, Inv, Stored
    <3>2. store[n].token \in Kubeconfig /\ store[n].creds \in Accounts \cup {None}
      BY <3>1, SecretFields
    <3> QED
      BY <3>1, <3>2 DEF Matches, Kubeconfig, Token, Credentials!Entry, Credentials!Token, Credentials!Fits
  <2> QED
    BY <2>1, <2>2, <2>3 DEF Credentials!Init
<1> QED
  BY <1>1, StepRefines, Invariant, PTL DEF Spec, RenewedAtomically, Credentials!Spec

\* What follows for the Secrets at any time.
TokenMatchesCredentials ==
  \A n \in Namespaces :
    store[n] # Absent /\ store[n].token \in Token
      => store[n].token.of \in {store[n].creds, None}

(* A token got in exchange for some credentials is never stored next to    *)
(* others, in either namespace.                                            *)
THEOREM TokenMatchesCredentialsHolds == Spec => []TokenMatchesCredentials
<1>1. Inv => TokenMatchesCredentials
  BY DEF Inv, Matches, TokenMatchesCredentials
<1> QED
  BY <1>1, Invariant, PTL
===============================================================================

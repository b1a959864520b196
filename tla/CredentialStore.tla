---------------------------- MODULE CredentialStore ----------------------------
(***************************************************************************)
(* What the dashboard promises of the credentials of one hub, whoever      *)
(* connects and whoever administers at the same time: they are entered and *)
(* removed by administrators, as a whole, and otherwise only renewed, in   *)
(* one step: a newer token of the same account takes the place of the old  *)
(* one.  There are no connectors here, no resource versions and no failed  *)
(* calls: those are how HubCredentials keeps the promise.                  *)
(***************************************************************************)
EXTENDS Integers

CONSTANTS
  Accounts,  \* credentials
  None,      \* no credentials, or no token
  Unusable,  \* what no client can be made of
  Absent     \* nothing stored

VARIABLES
  secrets,   \* for each namespace, the credentials and their token
  edits      \* how often administrators entered or removed some

vars == <<secrets, edits>>

Token == [serial : Nat, of : Accounts \cup {None}]
Entry == [token : Token \cup {None, Unusable}, creds : Accounts \cup {None}]

\* The token is of these credentials, or nobody knows whose it is.
Fits(e) == e.token \in Token => e.token.of \in {e.creds, None}

Init == /\ edits = 0
        /\ secrets["fleet"] = Absent
        /\ \A n \in DOMAIN secrets :
             secrets[n] # Absent => secrets[n] \in Entry /\ Fits(secrets[n])

\* The Secret in acm-fleet is what e is from now on.
Edit(e) == /\ secrets' = [secrets EXCEPT !["fleet"] = e]
           /\ edits' = edits + 1

Enter == LET e == secrets'["fleet"] IN e \in Entry /\ Fits(e) /\ Edit(e)

Remove == Edit(Absent)

\* The credentials stay, and a newer token that is theirs replaces the old one,
\* or none; but not what only an administrator can put right.
Renew(n) == LET old == secrets[n]
                new == secrets'[n]
            IN /\ old # Absent /\ new # Absent
               /\ secrets' = [secrets EXCEPT ![n] = new]
               /\ new.creds = old.creds
               /\ new.token \in Token /\ new.token.of = new.creds
               /\ old.token # Unusable
               /\ old.token \in Token => old.token.serial < new.token.serial
               /\ UNCHANGED edits

Next == Enter \/ Remove \/ \E n \in DOMAIN secrets : Renew(n)

Spec == Init /\ [][Next]_vars
===============================================================================

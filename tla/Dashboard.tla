------------------------------- MODULE Dashboard -------------------------------
(***************************************************************************)
(* The dashboard in one browser tab (frontend-static/app.js).  The event   *)
(* loop runs one piece of code at a time, from a click or an answer to the *)
(* next await; between them, anything the page offers may be clicked, and  *)
(* calls of the backend end in any order, each with an answer or an error. *)
(* No handler asks, after its await, whether its page is still the one on  *)
(* screen.                                                                 *)
(*                                                                         *)
(* What the backend answers is arbitrary: other users change the fleet.    *)
(* Whether the tab holds a token, and what OpenShift says of it, is        *)
(* arbitrary too; coming back from its login page loads the tab anew.      *)
(* Toasts, filters and tabs are left out, and so are currentView and       *)
(* selectedHub, which are written and never read.                          *)
(***************************************************************************)
EXTENDS Integers, Sequences, FiniteSets

CONSTANTS
  Hubs,        \* hubs
  Listings,    \* for each hub, the sequences of spokes its details may list
  None,        \* nothing there
  Failed,      \* the error text in place of a spoke's details
  MaxClicks    \* bound: clicks of the user

Spokes == UNION {{l[i] : i \in DOMAIN l} : l \in UNION {Listings[h] : h \in Hubs}}

ASSUME ListingsAssumption == Listings \in [Hubs -> SUBSET Seq(Spokes)]
ASSUME SpokesOfOneHub ==
  \A g, h \in Hubs : \A l \in Listings[g], m \in Listings[h] :
    \A i \in DOMAIN l, j \in DOMAIN m :
      l[i] = m[j] => g = h /\ (l = m => i = j)
ASSUME ModelValues == None \notin Spokes \cup {Failed} /\ Failed \notin Spokes
ASSUME MaxClicksAssumption == MaxClicks \in Nat

\* A row of the spokes table with its detail row.  badge, detail and brief
\* name the spoke that the policy count, the details, and the labels and
\* versions next to them are of.
Row == [spoke : Spokes, open : BOOLEAN, loaded : BOOLEAN,
        badge : Spokes \cup {None}, detail : Spokes \cup {None, Failed},
        brief : Spokes \cup {None}]

\* A call of the backend; a spoke's remembers the element its answer goes to.
Call == [id : Nat, kind : {"config", "user", "hubs", "hub", "change", "spoke"},
         hub : Hubs \cup {None}, drawn : Nat, row : Nat, spoke : Spokes \cup {None}]

VARIABLES
  page,          \* what #app shows
  shown,         \* the hubs in the table of the homepage
  rows,          \* the rows in the table of a hub's spokes
  drawn,         \* how many times a hub's page was drawn
  cachedHubs,    \* window.cachedHubsData
  cachedSpokes,  \* the spokes of the page drawn last
  calls,         \* calls of the backend in flight
  ids,           \* calls of the backend so far
  clicks         \* clicks so far

dom == <<page, shown, rows, drawn>>
caches == <<cachedHubs, cachedSpokes>>
vars == <<dom, caches, calls, ids, clicks>>

-------------------------------------------------------------------------------
NewCall(kind) == [id |-> ids + 1, kind |-> kind, hub |-> None,
                  drawn |-> 0, row |-> 0, spoke |-> None]

\* app.innerHTML is replaced by a page without hubs and spokes.
Show(kind) == /\ page' = kind
              /\ shown' = {}
              /\ rows' = <<>>
              /\ UNCHANGED drawn

\* fetchHubs, up to its await; others are the calls still in flight.
FetchHubs(others) == /\ Show("loading")
                     /\ calls' = others \cup {NewCall("hubs")}
                     /\ ids' = ids + 1

RenderHubsList(hubs) == /\ page' = "list"
                        /\ shown' = hubs
                        /\ rows' = <<>>
                        /\ UNCHANGED drawn

RenderHubDetails(listing) ==
  /\ page' = "hub"
  /\ shown' = {}
  /\ rows' = [i \in DOMAIN listing |->
                [spoke |-> listing[i], open |-> FALSE, loaded |-> FALSE,
                 badge |-> None, detail |-> None, brief |-> None]]
  /\ drawn' = drawn + 1
  /\ cachedSpokes' = listing

\* renderNoHubsState.
RenderNoHubsState == Show("empty")

\* The page as it is loaded; initAuth asks whether there is a login.
Init == /\ page = "loading"
        /\ shown = {}
        /\ rows = <<>>
        /\ drawn = 0
        /\ cachedHubs = None
        /\ cachedSpokes = <<>>
        /\ calls = {[id |-> 1, kind |-> "config", hub |-> None,
                     drawn |-> 0, row |-> 0, spoke |-> None]}
        /\ ids = 1
        /\ clicks = 0

-------------------------------------------------------------------------------
\* Clicks, each on a button of the page that is shown.

Click(pages) == /\ page \in pages
                /\ clicks < MaxClicks
                /\ clicks' = clicks + 1

\* Retry, and Cancel.
Reload == /\ Click({"error", "form"})
          /\ FetchHubs(calls)
          /\ UNCHANGED caches

ReturnToHomepage ==
  /\ Click({"hub", "form"})
  /\ IF cachedHubs # None
       THEN RenderHubsList(cachedHubs) /\ UNCHANGED <<calls, ids>>
       ELSE FetchHubs(calls)
  /\ UNCHANGED caches

ShowHubDetails(h) ==
  /\ Click({"list"}) /\ h \in shown
  /\ Show("loading")
  /\ calls' = calls \cup {[NewCall("hub") EXCEPT !.hub = h]}
  /\ ids' = ids + 1
  /\ UNCHANGED caches

ShowAddHubForm == /\ Click({"list", "empty"})
                  /\ Show("form")
                  /\ UNCHANGED <<caches, calls, ids>>

\* A change of the fleet is asked for; the page stays until the answer.
Change(pages) == /\ Click(pages)
                 /\ calls' = calls \cup {NewCall("change")}
                 /\ ids' = ids + 1
                 /\ UNCHANGED <<dom, caches>>

\* With valid input; and, confirmed by the user, for a hub of the table.
SubmitAddHub == Change({"form"})
RemoveHub == Change({"list"})

\* As a change; an answer of any status is taken for a success.
RefreshHub == Change({"list"})

\* The details of a spoke are hidden, shown, or shown and asked for.
Toggled(i, marked) ==
  /\ Click({"hub"}) /\ i \in DOMAIN rows
  /\ IF rows[i].open \/ rows[i].loaded
       THEN /\ rows' = [rows EXCEPT ![i].open = ~@]
            /\ UNCHANGED <<calls, ids>>
       ELSE /\ rows' = [rows EXCEPT ![i].open = TRUE, ![i].loaded = marked]
            /\ calls' = calls \cup {[NewCall("spoke") EXCEPT
                          !.drawn = drawn, !.row = i, !.spoke = rows[i].spoke]}
            /\ ids' = ids + 1
  /\ UNCHANGED <<page, shown, drawn, caches>>

ToggleMarksLate(i) == Toggled(i, FALSE)
ToggleSpokeDetails(i) == Toggled(i, TRUE)

-------------------------------------------------------------------------------
\* Answers.

Ends(c, kind) == /\ c.kind = kind
                 /\ calls' = calls \ {c}
                 /\ UNCHANGED <<ids, clicks>>

\* No login, or no address of it.
Proceed(c) == FetchHubs(calls \ {c})

\* The browser leaves for the login page of OpenShift.
Redirect(c) == /\ Show("away")
               /\ calls' = calls \ {c}
               /\ UNCHANGED ids

\* Is there a login?  A token the tab holds is tried first.
ConfigArrives(c) ==
  /\ c.kind = "config"
  /\ \/ Proceed(c) \/ Redirect(c)
     \/ calls' = (calls \ {c}) \cup {[c EXCEPT !.kind = "user"]} /\ UNCHANGED <<dom, ids>>
  /\ UNCHANGED <<caches, clicks>>

UserArrives(c) == /\ c.kind = "user"
                  /\ Proceed(c) \/ Redirect(c)
                  /\ UNCHANGED <<caches, clicks>>

\* An error of either call: go on without a login.
LoginFails(c) == /\ c.kind \in {"config", "user"}
                 /\ Proceed(c)
                 /\ UNCHANGED <<caches, clicks>>

HubsArriveUnchecked(c) ==
  /\ Ends(c, "hubs")
  /\ \E hubs \in SUBSET Hubs : cachedHubs' = hubs /\ RenderHubsList(hubs)
  /\ UNCHANGED cachedSpokes

\* renderNoHubsState, which leaves cachedHubsData as it is, or renderHubsList.
HubsArrive(c) ==
  /\ Ends(c, "hubs")
  /\ \/ RenderNoHubsState /\ UNCHANGED cachedHubs
     \/ \E hubs \in (SUBSET Hubs) \ {{}} : cachedHubs' = hubs /\ RenderHubsList(hubs)
  /\ UNCHANGED cachedSpokes

HubsFailQuietly(c) == /\ Ends(c, "hubs")
                      /\ UNCHANGED <<dom, caches>>

HubsFail(c) == /\ Ends(c, "hubs")
               /\ Show("error")
               /\ UNCHANGED caches

HubArrives(c) == /\ Ends(c, "hub")
                 /\ \E listing \in Listings[c.hub] : RenderHubDetails(listing)
                 /\ UNCHANGED cachedHubs

HubFails(c) == /\ Ends(c, "hub")
               /\ Show("error")
               /\ UNCHANGED caches

\* The change was made: the cached list is dropped and a new one asked for.
ChangeSucceeds(c) == /\ c.kind = "change"
                     /\ FetchHubs(calls \ {c})
                     /\ cachedHubs' = None
                     /\ UNCHANGED <<cachedSpokes, clicks>>

ChangeFails(c) == /\ Ends(c, "change")
                  /\ UNCHANGED <<dom, caches>>

Brief(i) == IF i \in DOMAIN cachedSpokes THEN cachedSpokes[i] ELSE None

SpokeArrivesByIndex(c) ==
  /\ Ends(c, "spoke")
  /\ rows' = [i \in DOMAIN rows |->
                IF i = c.row
                  THEN [rows[i] EXCEPT !.badge = c.spoke, !.detail = c.spoke, !.brief = Brief(i)]
                  ELSE rows[i]]
  /\ UNCHANGED <<page, shown, drawn, caches>>

SpokeArrivesIfOpen(c) ==
  /\ Ends(c, "spoke")
  /\ rows' = [i \in DOMAIN rows |->
                IF i = c.row /\ c.drawn = drawn /\ rows[i].open
                  THEN [rows[i] EXCEPT !.badge = c.spoke, !.detail = c.spoke, !.brief = Brief(i)]
                  ELSE rows[i]]
  /\ UNCHANGED <<page, shown, drawn, caches>>

\* The policy count goes to the row that has the index by now, the details
\* to the element that was clicked, even if the page shows it no more.
SpokeArrives(c) ==
  /\ Ends(c, "spoke")
  /\ LET counted == [i \in DOMAIN rows |->
                       IF i = c.row THEN [rows[i] EXCEPT !.badge = c.spoke] ELSE rows[i]]
     IN rows' = [i \in DOMAIN rows |->
                   IF i = c.row /\ c.drawn = drawn
                     THEN [counted[i] EXCEPT !.detail = c.spoke, !.brief = Brief(i)]
                     ELSE counted[i]]
  /\ UNCHANGED <<page, shown, drawn, caches>>

SpokeFails(c) ==
  /\ Ends(c, "spoke")
  /\ rows' = [i \in DOMAIN rows |->
                IF i = c.row /\ c.drawn = drawn
                  THEN [rows[i] EXCEPT !.detail = Failed] ELSE rows[i]]
  /\ UNCHANGED <<page, shown, drawn, caches>>

Settles(c) == \/ ConfigArrives(c) \/ UserArrives(c) \/ LoginFails(c)
              \/ HubsArrive(c) \/ HubsFail(c) \/ HubArrives(c) \/ HubFails(c)
              \/ ChangeSucceeds(c) \/ ChangeFails(c) \/ SpokeArrives(c) \/ SpokeFails(c)

Next == \/ Reload \/ ReturnToHomepage \/ ShowAddHubForm
        \/ SubmitAddHub \/ RemoveHub \/ RefreshHub
        \/ \E h \in Hubs : ShowHubDetails(h)
        \/ \E i \in DOMAIN rows : ToggleSpokeDetails(i)
        \/ \E c \in calls : Settles(c)

Spec == Init /\ [][Next]_vars

\* Every call ends: nginx gives up after two minutes.
FairSpec == /\ Spec
            /\ \A n \in 1 .. 2 * MaxClicks + 2 :
                 WF_vars(\E c \in calls : c.id = n /\ Settles(c))

-------------------------------------------------------------------------------
(* Type correctness; the homepage's table is never empty, and tables are   *)
(* on the page they belong to.                                             *)
TypeOK ==
  /\ page \in {"loading", "list", "hub", "empty", "error", "form", "away"}
  /\ shown \in SUBSET Hubs /\ (page = "list" <=> shown # {})
  /\ rows \in Seq(Row) /\ (page # "hub" => rows = <<>>)
  /\ drawn \in Nat
  /\ cachedHubs \in ((SUBSET Hubs) \ {{}}) \cup {None}
  /\ cachedSpokes \in Seq(Spokes)
  /\ calls \in SUBSET Call
  /\ ids \in 1 .. 2 * MaxClicks + 2
  /\ clicks \in 0 .. MaxClicks

(* The details under a row are of the row's spoke, and so are the labels   *)
(* and versions that are added to them from cachedSpokes, whichever hub's  *)
(* page was drawn while they were on their way.                            *)
DetailsOfTheirSpoke ==
  \A i \in DOMAIN rows :
    rows[i].detail \notin {None, Failed} =>
      rows[i].detail = rows[i].spoke /\ rows[i].brief = rows[i].spoke

InFlight(i) == {c \in calls : c.kind = "spoke" /\ c.drawn = drawn /\ c.row = i}

(* However often a row is opened and closed, its details are asked for     *)
(* once while its page is drawn, and are not lost: from the first opening  *)
(* on they are on their way, or there, or their error is.                  *)
LoadedOnce ==
  \A i \in DOMAIN rows :
    Cardinality(InFlight(i)) + (IF rows[i].detail = None THEN 0 ELSE 1)
      = IF rows[i].loaded THEN 1 ELSE 0

(* While "Loading" is shown, which has no button, there is a call in       *)
(* flight whose answer, and whose error, takes it away or asks on.         *)
LoadingIsAnswered ==
  page = "loading" => \E c \in calls : c.kind \in {"config", "user", "hubs", "hub"}

(* "Loading" goes away, although its page has no button and its calls, of  *)
(* the login and of the backend, may all fail.                             *)
PageSettles == page = "loading" ~> page # "loading"

Waiting(i) == i \in DOMAIN rows /\ rows[i].loaded /\ rows[i].detail = None

(* A row that was opened gets its details or an error, also if it was      *)
(* closed meanwhile, unless its page goes away: nothing asks for them a    *)
(* second time.                                                            *)
OpenedRowsFill == \A i \in 1 .. Cardinality(Spokes) : Waiting(i) ~> ~Waiting(i)

(* app.js:494, "Update the policy count in the table row": the count is    *)
(* written into the row of the spoke it was asked for.                     *)
PolicyCountInItsRow == \A i \in DOMAIN rows : rows[i].badge \in {None, rows[i].spoke}
===============================================================================

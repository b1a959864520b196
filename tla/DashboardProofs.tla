---------------------------- MODULE DashboardProofs ----------------------------
(***************************************************************************)
(* For every fleet and however often the user clicks: Dashboard is well    *)
(* typed, details are of the spoke they are shown under, are asked for     *)
(* once and are not lost, and "Loading" is never shown without a call.     *)
(***************************************************************************)
EXTENDS Dashboard, FiniteSetTheorems, SequenceTheorems, TLAPS

\* TypeOK, but for the bound of ids.
Types ==
  /\ page \in {"loading", "list", "hub", "empty", "error", "form", "away"}
  /\ shown \in SUBSET Hubs /\ (page = "list" <=> shown # {})
  /\ rows \in Seq(Row) /\ (page # "hub" => rows = <<>>)
  /\ drawn \in Nat
  /\ cachedHubs \in ((SUBSET Hubs) \ {{}}) \cup {None}
  /\ cachedSpokes \in Seq(Spokes)
  /\ calls \in SUBSET Call
  /\ ids \in Nat \ {0}
  /\ clicks \in 0 .. MaxClicks

\* The calls after which the list of hubs may be asked for.
Pending(cs) == {c \in cs : c.kind \in {"config", "user", "change"}}

\* Every click makes a call, and the change it asked for may make one more.
CountInv == IsFiniteSet(calls) /\ ids + Cardinality(Pending(calls)) <= 2 * clicks + 2

\* A call of a spoke knows the row it is for, as long as its table is shown.
CallInv ==
  \A c \in calls :
    /\ c.drawn <= drawn
    /\ c.kind = "hub" => c.hub \in Hubs
    /\ c.kind = "spoke" /\ c.drawn = drawn /\ c.row \in DOMAIN rows
         => rows[c.row].spoke = c.spoke

\* The table is of the cached spokes, and a row's details are there, or on
\* their way, or were never asked for.
RowInv ==
  \A i \in DOMAIN rows :
    /\ i \in DOMAIN cachedSpokes /\ cachedSpokes[i] = rows[i].spoke
    /\ \/ rows[i].detail \in {None, Failed}
       \/ rows[i].detail = rows[i].spoke /\ rows[i].brief = rows[i].spoke
    /\ ~rows[i].loaded => InFlight(i) = {} /\ rows[i].detail = None
    /\ rows[i].detail # None => InFlight(i) = {}
    /\ rows[i].loaded /\ rows[i].detail = None => InFlight(i) # {}
    /\ \A c, d \in InFlight(i) : c = d

Inv == Types /\ CountInv /\ CallInv /\ RowInv

-------------------------------------------------------------------------------
(* A set without two different elements has at most one.                   *)
LEMMA NotTwo ==
  ASSUME NEW S, \A d, e \in S : d = e
  PROVE  Cardinality(S) <= 1
<1>1. CASE S = {}
  BY <1>1, FS_EmptySet
<1>2. CASE S # {}
  <2>1. PICK d \in S : TRUE
    BY <1>2
  <2>2. S = {d}
    BY <2>1
  <2>3. Cardinality({d}) = 1
    BY FS_Singleton
  <2> QED
    BY <2>2, <2>3
<1> QED
  BY <1>1, <1>2

(* One call more.                                                          *)
LEMMA CallAdded ==
  ASSUME NEW cs, IsFiniteSet(cs), NEW c
  PROVE  /\ IsFiniteSet(cs \cup {c})
         /\ Cardinality(Pending(cs)) \in Nat /\ Cardinality(Pending(cs \cup {c})) \in Nat
         /\ Cardinality(Pending(cs \cup {c})) <= Cardinality(Pending(cs)) + 1
         /\ c.kind \notin {"config", "user", "change"} => Pending(cs \cup {c}) = Pending(cs)
<1>1. IsFiniteSet(cs \cup {c})
  BY FS_AddElement
<1>2. IsFiniteSet(Pending(cs)) /\ IsFiniteSet(Pending(cs \cup {c}))
  BY <1>1, FS_Subset DEF Pending
<1>3. Pending(cs \cup {c}) \subseteq Pending(cs) \cup {c}
  BY DEF Pending
<1>4. Cardinality(Pending(cs \cup {c})) <= Cardinality(Pending(cs) \cup {c})
  BY <1>2, <1>3, FS_AddElement, FS_Subset
<1>5. Cardinality(Pending(cs) \cup {c}) <= Cardinality(Pending(cs)) + 1
  <2>1. Cardinality(Pending(cs)) \in Nat
    BY <1>2, FS_CardinalityType
  <2>2. Cardinality(Pending(cs) \cup {c})
          = IF c \in Pending(cs) THEN Cardinality(Pending(cs)) ELSE Cardinality(Pending(cs)) + 1
    BY <1>2, FS_AddElement
  <2> QED
    BY <2>1, <2>2
<1>6. Cardinality(Pending(cs)) \in Nat /\ Cardinality(Pending(cs \cup {c})) \in Nat
      /\ Cardinality(Pending(cs) \cup {c}) \in Nat
  BY <1>2, FS_AddElement, FS_CardinalityType
<1> QED
  BY <1>1, <1>4, <1>5, <1>6 DEF Pending

(* One call less.                                                          *)
LEMMA CallEnded ==
  ASSUME NEW cs, IsFiniteSet(cs), NEW c \in cs
  PROVE  /\ IsFiniteSet(cs \ {c})
         /\ Cardinality(Pending(cs)) \in Nat /\ Cardinality(Pending(cs \ {c})) \in Nat
         /\ Cardinality(Pending(cs \ {c})) <= Cardinality(Pending(cs))
         /\ c.kind \in {"config", "user", "change"} =>
              Cardinality(Pending(cs \ {c})) = Cardinality(Pending(cs)) - 1
<1>1. IsFiniteSet(cs \ {c})
  BY FS_RemoveElement
<1>2. IsFiniteSet(Pending(cs)) /\ IsFiniteSet(Pending(cs \ {c}))
  BY <1>1, FS_Subset DEF Pending
<1>3. Pending(cs \ {c}) = Pending(cs) \ {c}
  BY DEF Pending
<1>4. c.kind \in {"config", "user", "change"} => c \in Pending(cs)
  BY DEF Pending
<1>5. /\ Cardinality(Pending(cs)) \in Nat /\ Cardinality(Pending(cs \ {c})) \in Nat
      /\ Cardinality(Pending(cs) \ {c}) =
           IF c \in Pending(cs) THEN Cardinality(Pending(cs)) - 1 ELSE Cardinality(Pending(cs))
  BY <1>2, FS_RemoveElement, FS_CardinalityType
<1>6. Cardinality(Pending(cs \ {c})) \in Nat
  BY <1>2, FS_CardinalityType
<1>7. Cardinality(Pending(cs \ {c})) =
        IF c \in Pending(cs) THEN Cardinality(Pending(cs)) - 1 ELSE Cardinality(Pending(cs))
  BY <1>3, <1>5
<1>8. Cardinality(Pending(cs \ {c})) <= Cardinality(Pending(cs))
  BY <1>5, <1>7
<1> QED
  BY <1>1, <1>4, <1>5, <1>6, <1>7, <1>8

(* Rows stay rows if each one does.                                        *)
LEMMA RowsMapped ==
  ASSUME NEW rs \in Seq(Row), NEW f, f = [i \in DOMAIN rs |-> f[i]],
         \A i \in DOMAIN rs : f[i] \in Row
  PROVE  f \in Seq(Row)
<1>1. DOMAIN rs = 1 .. Len(rs) /\ Len(rs) \in Nat
  OBVIOUS
<1> QED
  BY <1>1

-------------------------------------------------------------------------------
\* The bound of ids.

(* A click that makes no call, or one.                                     *)
LEMMA ClickCounts ==
  ASSUME Types, CountInv, clicks' = clicks + 1,
         \/ UNCHANGED <<calls, ids>>
         \/ ids' = ids + 1 /\ \E c : calls' = calls \cup {c}
  PROVE  CountInv'
<1>n. ids \in Nat /\ clicks \in Nat
  BY MaxClicksAssumption DEF Types
<1>1. CASE UNCHANGED <<calls, ids>>
  <2>1. Cardinality(Pending(calls)) \in Nat
    BY CallAdded DEF CountInv
  <2> QED
    BY <1>n, <1>1, <2>1 DEF CountInv, Pending
<1>2. ASSUME NEW c, calls' = calls \cup {c}, ids' = ids + 1 PROVE CountInv'
  <2>1. /\ IsFiniteSet(calls \cup {c})
        /\ Cardinality(Pending(calls)) \in Nat /\ Cardinality(Pending(calls \cup {c})) \in Nat
        /\ Cardinality(Pending(calls \cup {c})) <= Cardinality(Pending(calls)) + 1
    BY CallAdded DEF CountInv
  <2>2. ids + Cardinality(Pending(calls)) <= 2 * clicks + 2
    BY DEF CountInv
  <2>3. (ids + 1) + Cardinality(Pending(calls \cup {c})) <= 2 * (clicks + 1) + 2
    BY <1>n, <2>1, <2>2
  <2>4. Pending(calls)' = Pending(calls \cup {c})
    BY <1>2 DEF Pending
  <2> QED
    BY <1>2, <2>1, <2>3, <2>4 DEF CountInv
<1> QED
  BY <1>1, <1>2

(* A call that ends.                                                       *)
LEMMA EndCounts ==
  ASSUME Types, CountInv, NEW c \in calls, calls' = calls \ {c}, UNCHANGED <<ids, clicks>>
  PROVE  CountInv'
<1>n. ids \in Nat /\ clicks \in Nat
  BY MaxClicksAssumption DEF Types
<1>1. /\ IsFiniteSet(calls \ {c})
      /\ Cardinality(Pending(calls)) \in Nat /\ Cardinality(Pending(calls \ {c})) \in Nat
      /\ Cardinality(Pending(calls \ {c})) <= Cardinality(Pending(calls))
  BY CallEnded DEF CountInv
<1>2. ids + Cardinality(Pending(calls)) <= 2 * clicks + 2
  BY DEF CountInv
<1>3. ids + Cardinality(Pending(calls \ {c})) <= 2 * clicks + 2
  BY <1>n, <1>1, <1>2
<1>4. Pending(calls)' = Pending(calls \ {c})
  BY DEF Pending
<1> QED
  BY <1>1, <1>3, <1>4 DEF CountInv

(* A call that ends with another one in its place: the list of hubs, or    *)
(* the second call of the login.                                           *)
LEMMA NextCounts ==
  ASSUME Types, CountInv, NEW c \in calls, c.kind \in {"config", "user", "change"}, NEW d,
         calls' = (calls \ {c}) \cup {d}, clicks' = clicks,
         \/ ids' = ids + 1 /\ d.kind = "hubs"
         \/ ids' = ids
  PROVE  CountInv'
<1>n. ids \in Nat /\ clicks \in Nat
  BY MaxClicksAssumption DEF Types
<1> DEFINE fewer == calls \ {c}
<1>1. /\ IsFiniteSet(fewer)
      /\ Cardinality(Pending(calls)) \in Nat /\ Cardinality(Pending(fewer)) \in Nat
      /\ Cardinality(Pending(fewer)) = Cardinality(Pending(calls)) - 1
  BY CallEnded DEF CountInv
<1>2. /\ IsFiniteSet(fewer \cup {d})
      /\ Cardinality(Pending(fewer \cup {d})) \in Nat
      /\ Cardinality(Pending(fewer \cup {d})) <= Cardinality(Pending(fewer)) + 1
      /\ d.kind \notin {"config", "user", "change"} => Pending(fewer \cup {d}) = Pending(fewer)
  BY <1>1, CallAdded
<1>3. ids + Cardinality(Pending(calls)) <= 2 * clicks + 2
  BY DEF CountInv
<1> HIDE DEF fewer
<1>4. ids' + Cardinality(Pending(fewer \cup {d})) <= 2 * clicks + 2
  <2>1. CASE ids' = ids
    BY <1>n, <1>1, <1>2, <1>3, <2>1
  <2>2. CASE ids' = ids + 1 /\ d.kind = "hubs"
    <3>1. Cardinality(Pending(fewer \cup {d})) = Cardinality(Pending(fewer))
      BY <1>2, <2>2
    <3> QED
      BY <1>n, <1>1, <1>3, <2>2, <3>1
  <2> QED
    BY <2>1, <2>2
<1>5. Pending(calls)' = Pending(fewer \cup {d}) /\ calls' = fewer \cup {d}
  BY DEF Pending, fewer
<1> QED
  BY <1>2, <1>4, <1>5 DEF CountInv

-------------------------------------------------------------------------------
\* The rows.

(* Without a table, and with a call more or less.                          *)
LEMMA NoTable ==
  ASSUME Inv, rows' = <<>>, drawn' = drawn, NEW d,
         calls' \subseteq calls \cup {d}, d.drawn <= drawn, d.kind = "hub" => d.hub \in Hubs
  PROVE  CallInv' /\ RowInv'
<1>1. DOMAIN rows' = {}
  <2>1. DOMAIN <<>> = {}
    OBVIOUS
  <2> QED
    BY <2>1
<1> QED
  BY <1>1 DEF Inv, CallInv, RowInv

(* With the same table, and a call more or less that is not of a spoke.    *)
LEMMA SameTable ==
  ASSUME Inv, UNCHANGED <<rows, drawn, cachedSpokes>>, NEW d,
         calls' \subseteq calls \cup {d}, d.drawn <= drawn, d.kind \notin {"hub", "spoke"},
         \A c \in calls : c.kind = "spoke" => c \in calls'
  PROVE  CallInv' /\ RowInv'
<1>1. \A i : InFlight(i)' = InFlight(i)
  BY DEF InFlight
<1> QED
  BY <1>1 DEF Inv, CallInv, RowInv

-------------------------------------------------------------------------------
\* The pages.

(* A new call is one.                                                      *)
LEMMA NewCalls ==
  ASSUME Types, NEW kind \in {"config", "user", "hubs", "hub", "change", "spoke"}
  PROVE  /\ NewCall(kind) \in Call /\ NewCall(kind).kind = kind /\ NewCall(kind).drawn <= drawn
         /\ \A h \in Hubs : /\ [NewCall(kind) EXCEPT !.hub = h] \in Call
                            /\ [NewCall(kind) EXCEPT !.hub = h].kind = kind
                            /\ [NewCall(kind) EXCEPT !.hub = h].drawn <= drawn
                            /\ [NewCall(kind) EXCEPT !.hub = h].hub = h
         /\ ids + 1 \in Nat \ {0}
BY DEF Types, NewCall, Call

(* A page without tables.                                                  *)
LEMMA Shown ==
  ASSUME Inv, NEW kind \in {"loading", "empty", "error", "form", "away"}, Show(kind),
         NEW d \in Call, d.drawn <= drawn, d.kind = "hub" => d.hub \in Hubs,
         calls' \subseteq calls \cup {d}, ids' \in Nat \ {0}, clicks' \in 0 .. MaxClicks,
         cachedHubs' \in {cachedHubs, None}, cachedSpokes' = cachedSpokes
  PROVE  Types' /\ CallInv' /\ RowInv'
<1>1. CallInv' /\ RowInv'
  BY NoTable DEF Show
<1>2. <<>> \in Seq(Row)
  OBVIOUS
<1>3. page' = kind /\ shown' = {} /\ rows' = <<>> /\ drawn' = drawn
  BY DEF Show
<1>4. Types
  BY DEF Inv
<1>5. calls' \in SUBSET Call
  BY <1>4 DEF Types
<1>6. /\ page' \in {"loading", "list", "hub", "empty", "error", "form", "away"}
      /\ page' # "list" /\ drawn' \in Nat /\ cachedSpokes' \in Seq(Spokes)
      /\ cachedHubs' \in ((SUBSET Hubs) \ {{}}) \cup {None}
  BY <1>3, <1>4 DEF Types
<1>7. shown' \in SUBSET Hubs /\ (page' = "list" <=> shown' # {})
  BY <1>3, <1>6
<1>8. rows' \in Seq(Row) /\ (page' # "hub" => rows' = <<>>)
  BY <1>2, <1>3
<1>9. Types'
  BY <1>5, <1>6, <1>7, <1>8 DEF Types
<1> QED
  BY <1>1, <1>9

(* The table of hubs.                                                      *)
LEMMA Listed ==
  ASSUME Inv, NEW hubs \in (SUBSET Hubs) \ {{}}, RenderHubsList(hubs),
         calls' \subseteq calls, ids' = ids, clicks' \in 0 .. MaxClicks,
         cachedHubs' \in {cachedHubs, hubs}, cachedSpokes' = cachedSpokes
  PROVE  Types' /\ CallInv' /\ RowInv'
<1>1. NewCall("hubs").drawn <= drawn /\ NewCall("hubs").kind = "hubs"
  BY NewCalls DEF Inv
<1>2. CallInv' /\ RowInv'
  BY <1>1, NoTable DEF RenderHubsList
<1>3. <<>> \in Seq(Row)
  OBVIOUS
<1>4. Types'
  BY <1>3 DEF Inv, Types, RenderHubsList
<1> QED
  BY <1>2, <1>4

(* The page, on the way to a new list of hubs.                             *)
LEMMA Fetched ==
  ASSUME Inv, NEW others \in SUBSET calls, FetchHubs(others), clicks' \in 0 .. MaxClicks,
         cachedHubs' \in {cachedHubs, None}, cachedSpokes' = cachedSpokes
  PROVE  Types' /\ CallInv' /\ RowInv'
<1>1. NewCall("hubs") \in Call /\ NewCall("hubs").kind = "hubs" /\ NewCall("hubs").drawn <= drawn
      /\ ids + 1 \in Nat \ {0}
  BY NewCalls DEF Inv
<1>2. Show("loading") /\ calls' \subseteq calls \cup {NewCall("hubs")} /\ ids' = ids + 1
  BY DEF FetchHubs
<1> QED
  BY <1>1, <1>2, Shown

(* The page stays, with a call more or less that is not of a spoke.        *)
LEMMA Kept ==
  ASSUME Inv, UNCHANGED <<dom, caches>>, NEW d \in Call, d.drawn <= drawn,
         d.kind \notin {"hub", "spoke"}, calls' \subseteq calls \cup {d},
         \A c \in calls : c.kind = "spoke" => c \in calls',
         ids' \in Nat \ {0}, clicks' \in 0 .. MaxClicks
  PROVE  Types' /\ CallInv' /\ RowInv'
<1>1. UNCHANGED <<page, shown, rows, drawn, cachedHubs, cachedSpokes>>
  BY DEF dom, caches
<1>2. CallInv' /\ RowInv'
  BY <1>1, SameTable
<1>3. Types'
  BY <1>1 DEF Inv, Types
<1> QED
  BY <1>2, <1>3

(* A click counts.                                                         *)
LEMMA Clicked ==
  ASSUME Inv, NEW pages, Click(pages)
  PROVE  page \in pages /\ clicks' = clicks + 1 /\ clicks' \in 0 .. MaxClicks
BY MaxClicksAssumption DEF Click, Inv, Types

(* Clicks that leave the page, or leave it as it is.                       *)
LEMMA ClickStep ==
  Inv /\ (\/ Reload \/ ReturnToHomepage \/ ShowAddHubForm
          \/ SubmitAddHub \/ RemoveHub \/ RefreshHub
          \/ \E h \in Hubs : ShowHubDetails(h)) => Inv'
<1> SUFFICES ASSUME Inv PROVE (\/ Reload \/ ReturnToHomepage \/ ShowAddHubForm
                               \/ SubmitAddHub \/ RemoveHub \/ RefreshHub
                               \/ \E h \in Hubs : ShowHubDetails(h)) => Inv'
  OBVIOUS
<1>0. Types /\ CountInv
  BY DEF Inv
<1>1. CASE Reload
  <2>1. clicks' = clicks + 1 /\ clicks' \in 0 .. MaxClicks
    BY <1>1, Clicked DEF Reload
  <2>2. Types' /\ CallInv' /\ RowInv'
    BY <1>1, <2>1, Fetched DEF Reload, caches
  <2>3. CountInv'
    BY <1>0, <1>1, <2>1, ClickCounts DEF Reload, FetchHubs
  <2> QED
    BY <2>2, <2>3 DEF Inv
<1>2. CASE ReturnToHomepage
  <2>1. clicks' = clicks + 1 /\ clicks' \in 0 .. MaxClicks
    BY <1>2, Clicked DEF ReturnToHomepage
  <2>2. CASE cachedHubs # None
    <3>1. cachedHubs \in (SUBSET Hubs) \ {{}}
      BY <1>0, <2>2 DEF Types
    <3>2. RenderHubsList(cachedHubs) /\ UNCHANGED <<calls, ids, cachedHubs, cachedSpokes>>
      BY <1>2, <2>2 DEF ReturnToHomepage, caches
    <3>3. Types' /\ CallInv' /\ RowInv'
      BY <2>1, <3>1, <3>2, Listed
    <3>4. CountInv'
      BY <1>0, <2>1, <3>2, ClickCounts
    <3> QED
      BY <3>3, <3>4 DEF Inv
  <2>3. CASE cachedHubs = None
    <3>1. FetchHubs(calls) /\ UNCHANGED <<cachedHubs, cachedSpokes>>
      BY <1>2, <2>3 DEF ReturnToHomepage, caches
    <3>2. Types' /\ CallInv' /\ RowInv'
      BY <2>1, <3>1, Fetched
    <3>3. CountInv'
      BY <1>0, <2>1, <3>1, ClickCounts DEF FetchHubs
    <3> QED
      BY <3>2, <3>3 DEF Inv
  <2> QED
    BY <2>2, <2>3
<1>3. CASE ShowAddHubForm
  <2>1. clicks' = clicks + 1 /\ clicks' \in 0 .. MaxClicks
    BY <1>3, Clicked DEF ShowAddHubForm
  <2>2. Show("form") /\ UNCHANGED <<calls, ids, cachedHubs, cachedSpokes>>
    BY <1>3 DEF ShowAddHubForm, caches
  <2>3. NewCall("hubs") \in Call /\ NewCall("hubs").kind = "hubs" /\ NewCall("hubs").drawn <= drawn
    BY <1>0, NewCalls
  <2>4. ids' \in Nat \ {0}
    BY <1>0, <2>2 DEF Types
  <2>5. Types' /\ CallInv' /\ RowInv'
    BY <2>1, <2>2, <2>3, <2>4, Shown
  <2>6. CountInv'
    BY <1>0, <2>1, <2>2, ClickCounts
  <2> QED
    BY <2>5, <2>6 DEF Inv
<1>4. ASSUME NEW pages, Change(pages) PROVE Inv'
  <2>1. clicks' = clicks + 1 /\ clicks' \in 0 .. MaxClicks
    BY <1>4, Clicked DEF Change
  <2>2. NewCall("change") \in Call /\ NewCall("change").kind = "change"
        /\ NewCall("change").drawn <= drawn /\ ids + 1 \in Nat \ {0}
    BY <1>0, NewCalls
  <2>3. Types' /\ CallInv' /\ RowInv'
    BY <1>4, <2>1, <2>2, Kept DEF Change
  <2>4. CountInv'
    BY <1>0, <1>4, <2>1, ClickCounts DEF Change
  <2> QED
    BY <2>3, <2>4 DEF Inv
<1>5. ASSUME NEW h \in Hubs, ShowHubDetails(h) PROVE Inv'
  <2> DEFINE d == [NewCall("hub") EXCEPT !.hub = h]
  <2>1. clicks' = clicks + 1 /\ clicks' \in 0 .. MaxClicks
    BY <1>5, Clicked DEF ShowHubDetails
  <2>2. d \in Call /\ d.drawn <= drawn /\ d.hub = h /\ ids + 1 \in Nat \ {0}
    BY <1>0, NewCalls
  <2>3. /\ Show("loading") /\ calls' = calls \cup {d} /\ ids' = ids + 1
        /\ UNCHANGED <<cachedHubs, cachedSpokes>>
    BY <1>5 DEF ShowHubDetails, caches
  <2> HIDE DEF d
  <2>4. Types' /\ CallInv' /\ RowInv'
    BY <2>1, <2>2, <2>3, Shown
  <2>5. CountInv'
    BY <1>0, <2>1, <2>3, ClickCounts
  <2> QED
    BY <2>4, <2>5 DEF Inv
<1> QED
  BY <1>1, <1>2, <1>3, <1>4, <1>5 DEF SubmitAddHub, RemoveHub, RefreshHub

(* A row is opened or closed.                                              *)
LEMMA ToggleStep == Inv /\ (\E i \in DOMAIN rows : ToggleSpokeDetails(i)) => Inv'
<1> SUFFICES ASSUME Inv, NEW i \in DOMAIN rows, ToggleSpokeDetails(i) PROVE Inv'
  OBVIOUS
<1>0. Types /\ CountInv /\ CallInv /\ RowInv
  BY DEF Inv
<1>1. clicks' = clicks + 1 /\ clicks' \in 0 .. MaxClicks /\ page = "hub"
  BY Clicked DEF ToggleSpokeDetails, Toggled
<1>2. UNCHANGED <<page, shown, drawn, cachedHubs, cachedSpokes>>
  BY DEF ToggleSpokeDetails, Toggled, caches
<1>3. i \in Nat /\ rows[i] \in Row /\ \A j \in DOMAIN rows : rows[j] \in Row
  BY <1>0 DEF Types
<1>4. CASE rows[i].open \/ rows[i].loaded
  <2>1. rows' = [rows EXCEPT ![i].open = ~@] /\ UNCHANGED <<calls, ids>>
    BY <1>4 DEF ToggleSpokeDetails, Toggled
  <2>2. /\ DOMAIN rows' = DOMAIN rows
        /\ \A j \in DOMAIN rows : /\ rows'[j] \in Row
                                  /\ rows'[j].spoke = rows[j].spoke
                                  /\ rows'[j].loaded = rows[j].loaded
                                  /\ rows'[j].detail = rows[j].detail
                                  /\ rows'[j].brief = rows[j].brief
    BY <1>3, <2>1 DEF Row
  <2>3. rows' \in Seq(Row)
    BY <1>0, <2>1, <2>2, RowsMapped DEF Types
  <2>4. Types'
    BY <1>0, <1>1, <1>2, <2>1, <2>3 DEF Types
  <2>5. CallInv'
    BY <1>0, <1>2, <2>1, <2>2 DEF CallInv
  <2>6. RowInv'
    BY <1>0, <1>2, <2>1, <2>2 DEF RowInv, InFlight
  <2>7. CountInv'
    BY <1>0, <1>1, <2>1, ClickCounts
  <2> QED
    BY <2>4, <2>5, <2>6, <2>7 DEF Inv
<1>5. CASE ~(rows[i].open \/ rows[i].loaded)
  <2> DEFINE d == [NewCall("spoke") EXCEPT !.drawn = drawn, !.row = i, !.spoke = rows[i].spoke]
  <2>1. /\ rows' = [rows EXCEPT ![i].open = TRUE, ![i].loaded = TRUE]
        /\ calls' = calls \cup {d} /\ ids' = ids + 1
    BY <1>5 DEF ToggleSpokeDetails, Toggled
  <2>2. /\ DOMAIN rows' = DOMAIN rows
        /\ \A j \in DOMAIN rows : /\ rows'[j] \in Row
                                  /\ rows'[j].spoke = rows[j].spoke
                                  /\ j = i => rows'[j].loaded = TRUE
                                  /\ j # i => rows'[j].loaded = rows[j].loaded
                                  /\ rows'[j].detail = rows[j].detail
                                  /\ rows'[j].brief = rows[j].brief
    BY <1>3, <2>1 DEF Row
  <2>3. rows' \in Seq(Row)
    BY <1>0, <2>1, <2>2, RowsMapped DEF Types
  <2>4. /\ d \in Call /\ d.kind = "spoke" /\ d.drawn = drawn /\ d.row = i
        /\ d.spoke = rows[i].spoke
    <3>1. rows[i].spoke \in Spokes /\ drawn \in Nat
      BY <1>0, <1>3 DEF Types, Row
    <3>2. /\ NewCall("spoke") \in Call /\ NewCall("spoke").kind = "spoke"
          /\ DOMAIN NewCall("spoke") = {"id", "kind", "hub", "drawn", "row", "spoke"}
      BY <1>0, NewCalls DEF NewCall
    <3> HIDE DEF NewCall
    <3> QED
      BY <1>3, <3>1, <3>2 DEF Call
  <2> HIDE DEF d
  <2>5. Types'
    BY <1>0, <1>1, <1>2, <2>1, <2>3, <2>4 DEF Types
  <2>6. CallInv'
    <3> SUFFICES ASSUME NEW c \in calls'
                 PROVE  /\ c.drawn <= drawn'
                        /\ c.kind = "hub" => c.hub \in Hubs
                        /\ c.kind = "spoke" /\ c.drawn = drawn' /\ c.row \in DOMAIN rows'
                             => rows'[c.row].spoke = c.spoke
      BY DEF CallInv
    <3>1. CASE c \in calls
      BY <1>0, <1>2, <2>2, <3>1 DEF CallInv
    <3>2. CASE c = d
      <4>1. drawn <= drawn
        BY <1>0 DEF Types
      <4> QED
        BY <1>2, <2>2, <2>4, <3>2, <4>1
    <3> QED
      BY <2>1, <3>1, <3>2
  <2>7. InFlight(i) = {} /\ rows[i].detail = None
    BY <1>0, <1>5 DEF RowInv
  <2>8. /\ InFlight(i)' = {d}
        /\ \A j \in DOMAIN rows \ {i} : InFlight(j)' = InFlight(j)
    BY <1>2, <2>1, <2>4, <2>7 DEF InFlight
  <2>9. RowInv'
    <3> SUFFICES ASSUME NEW j \in DOMAIN rows'
                 PROVE
          /\ j \in DOMAIN cachedSpokes' /\ cachedSpokes'[j] = rows'[j].spoke
          /\ \/ rows'[j].detail \in {None, Failed}
             \/ rows'[j].detail = rows'[j].spoke /\ rows'[j].brief = rows'[j].spoke
          /\ ~rows'[j].loaded => InFlight(j)' = {} /\ rows'[j].detail = None
          /\ rows'[j].detail # None => InFlight(j)' = {}
          /\ rows'[j].loaded /\ rows'[j].detail = None => InFlight(j)' # {}
          /\ \A c, e \in InFlight(j)' : c = e
      BY DEF RowInv
    <3>0. j \in DOMAIN rows
      BY <2>2
    <3>1. /\ j \in DOMAIN cachedSpokes' /\ cachedSpokes'[j] = rows'[j].spoke
          /\ \/ rows'[j].detail \in {None, Failed}
             \/ rows'[j].detail = rows'[j].spoke /\ rows'[j].brief = rows'[j].spoke
      BY <1>0, <1>2, <2>2, <3>0 DEF RowInv
    <3>2. CASE j = i
      BY <2>2, <2>7, <2>8, <3>0, <3>1, <3>2
    <3>3. CASE j # i
      <4>1. InFlight(j)' = InFlight(j) /\ rows'[j].loaded = rows[j].loaded
        BY <2>2, <2>8, <3>0, <3>3
      <4>2. rows'[j].detail = rows[j].detail
        BY <2>2, <3>0
      <4> QED
        BY <1>0, <3>0, <3>1, <4>1, <4>2 DEF RowInv
    <3> QED
      BY <3>2, <3>3
  <2>10. CountInv'
    BY <1>0, <1>1, <2>1, ClickCounts
  <2> QED
    BY <2>5, <2>6, <2>9, <2>10 DEF Inv
<1> QED
  BY <1>4, <1>5

(* Answers about the login, the list of hubs and changes.                  *)
LEMMA AnswerStep ==
  Inv /\ (\E c \in calls : \/ ConfigArrives(c) \/ UserArrives(c) \/ LoginFails(c)
                           \/ HubsArrive(c) \/ HubsFail(c) \/ HubFails(c)
                           \/ ChangeSucceeds(c) \/ ChangeFails(c)) => Inv'
<1> SUFFICES ASSUME Inv, NEW c \in calls
             PROVE  (\/ ConfigArrives(c) \/ UserArrives(c) \/ LoginFails(c)
                     \/ HubsArrive(c) \/ HubsFail(c) \/ HubFails(c)
                     \/ ChangeSucceeds(c) \/ ChangeFails(c)) => Inv'
  OBVIOUS
<1>0. Types /\ CountInv /\ clicks \in 0 .. MaxClicks /\ ids \in Nat \ {0}
      /\ c \in Call /\ c.drawn <= drawn
  BY DEF Inv, Types, CallInv
<1>n. NewCall("hubs").kind = "hubs"
  BY <1>0, NewCalls
<1>1. ASSUME c.kind \in {"config", "user", "change"}, FetchHubs(calls \ {c}),
             cachedHubs' \in {cachedHubs, None}, UNCHANGED <<cachedSpokes, clicks>>
      PROVE  Inv'
  <2>1. calls \ {c} \in SUBSET calls
    OBVIOUS
  <2>2. Types' /\ CallInv' /\ RowInv'
    BY <1>0, <1>1, <2>1, Fetched
  <2>3. CountInv'
    BY <1>0, <1>n, <1>1, NextCounts DEF FetchHubs
  <2> QED
    BY <2>2, <2>3 DEF Inv
<1>2. ASSUME NEW kind \in {"loading", "empty", "error", "form", "away"}, Show(kind),
             calls' = calls \ {c}, UNCHANGED <<ids, clicks, cachedHubs, cachedSpokes>>
      PROVE  Inv'
  <2>1. c.kind = "hub" => c.hub \in Hubs
    BY DEF Inv, CallInv
  <2>2. calls' \subseteq calls \cup {c} /\ ids' \in Nat \ {0} /\ clicks' \in 0 .. MaxClicks
    BY <1>0, <1>2
  <2>3. Types' /\ CallInv' /\ RowInv'
    BY <1>0, <1>2, <2>1, <2>2, Shown
  <2>4. CountInv'
    BY <1>0, <1>2, EndCounts
  <2> QED
    BY <2>3, <2>4 DEF Inv
<1>3. CASE ConfigArrives(c) \/ UserArrives(c) \/ LoginFails(c)
  <2>1. c.kind \in {"config", "user"} /\ UNCHANGED <<cachedHubs, cachedSpokes, clicks>>
    BY <1>3 DEF ConfigArrives, UserArrives, LoginFails, caches
  <2>2. CASE Proceed(c)
    BY <1>1, <2>1, <2>2 DEF Proceed
  <2>3. CASE Redirect(c)
    BY <1>2, <2>1, <2>3 DEF Redirect
  <2>4. CASE /\ calls' = (calls \ {c}) \cup {[c EXCEPT !.kind = "user"]}
             /\ UNCHANGED <<dom, ids>>
    <3> DEFINE d == [c EXCEPT !.kind = "user"]
    <3>1. d \in Call /\ d.kind = "user" /\ d.drawn = c.drawn
      BY <1>0 DEF Call
    <3>2. calls' = (calls \ {c}) \cup {d}
      BY <2>4
    <3> HIDE DEF d
    <3>3. UNCHANGED <<dom, caches>> /\ ids' \in Nat \ {0} /\ clicks' \in 0 .. MaxClicks
      BY <1>0, <2>1, <2>4 DEF caches
    <3>4. /\ calls' \subseteq calls \cup {d}
          /\ \A e \in calls : e.kind = "spoke" => e \in calls'
      BY <2>1, <3>2
    <3>5. Types' /\ CallInv' /\ RowInv'
      BY <3>1, <3>3, <3>4, <1>0, Kept
    <3>6. CountInv'
      BY <1>0, <2>1, <2>4, <3>2, NextCounts
    <3> QED
      BY <3>5, <3>6 DEF Inv
  <2> QED
    BY <1>3, <2>2, <2>3, <2>4 DEF ConfigArrives, UserArrives, LoginFails
<1>4. CASE HubsArrive(c)
  <2>1. calls' = calls \ {c} /\ UNCHANGED <<ids, clicks, cachedSpokes>>
    BY <1>4 DEF HubsArrive, Ends
  <2>2. CASE RenderNoHubsState /\ UNCHANGED cachedHubs
    BY <1>2, <2>1, <2>2 DEF RenderNoHubsState
  <2>3. ASSUME NEW hubs \in (SUBSET Hubs) \ {{}}, cachedHubs' = hubs, RenderHubsList(hubs)
        PROVE  Inv'
    <3>1. clicks' \in 0 .. MaxClicks /\ calls' \subseteq calls
      BY <1>0, <2>1
    <3>2. Types' /\ CallInv' /\ RowInv'
      BY <2>1, <2>3, <3>1, Listed
    <3>3. CountInv'
      BY <1>0, <2>1, EndCounts
    <3> QED
      BY <3>2, <3>3 DEF Inv
  <2> QED
    BY <1>4, <2>2, <2>3 DEF HubsArrive
<1>5. CASE HubsFail(c) \/ HubFails(c)
  BY <1>2, <1>5 DEF HubsFail, HubFails, Ends, caches
<1>6. CASE ChangeSucceeds(c)
  BY <1>1, <1>6 DEF ChangeSucceeds
<1>7. CASE ChangeFails(c)
  <2>1. c.kind = "change" /\ calls' = calls \ {c} /\ UNCHANGED <<dom, caches, ids, clicks>>
    BY <1>7 DEF ChangeFails, Ends
  <2>2. ids' \in Nat \ {0} /\ clicks' \in 0 .. MaxClicks /\ calls' \subseteq calls \cup {c}
    BY <1>0, <2>1
  <2>3. Types' /\ CallInv' /\ RowInv'
    BY <1>0, <2>1, <2>2, Kept
  <2>4. CountInv'
    BY <1>0, <2>1, EndCounts
  <2> QED
    BY <2>3, <2>4 DEF Inv
<1> QED
  BY <1>3, <1>4, <1>5, <1>6, <1>7

(* The page of a hub arrives.                                              *)
LEMMA HubStep == Inv /\ (\E c \in calls : HubArrives(c)) => Inv'
<1> SUFFICES ASSUME Inv, NEW c \in calls, HubArrives(c) PROVE Inv'
  OBVIOUS
<1>0. Types /\ CountInv /\ CallInv
  BY DEF Inv
<1>1. c.kind = "hub" /\ calls' = calls \ {c} /\ UNCHANGED <<ids, clicks, cachedHubs>>
  BY DEF HubArrives, Ends
<1>2. PICK listing \in Listings[c.hub] : RenderHubDetails(listing)
  BY DEF HubArrives
<1>3. listing \in Seq(Spokes)
  BY <1>0, <1>1, <1>2, ListingsAssumption DEF CallInv
<1>4. /\ page' = "hub" /\ shown' = {} /\ drawn' = drawn + 1 /\ cachedSpokes' = listing
      /\ rows' = [i \in DOMAIN listing |->
                    [spoke |-> listing[i], open |-> FALSE, loaded |-> FALSE,
                     badge |-> None, detail |-> None, brief |-> None]]
  BY <1>2 DEF RenderHubDetails
<1>5. \A i \in DOMAIN listing : listing[i] \in Spokes
  BY <1>3
<1>6. rows' \in Seq(Row)
  <2>1. DOMAIN listing = 1 .. Len(listing) /\ Len(listing) \in Nat
    BY <1>3
  <2>2. \A i \in DOMAIN listing : rows'[i] \in Row
    BY <1>4, <1>5 DEF Row
  <2> QED
    BY <1>4, <2>1, <2>2
<1>7. Types'
  BY <1>0, <1>1, <1>3, <1>4, <1>6 DEF Types
<1>8. \A d \in calls' : d.drawn < drawn' /\ d.drawn <= drawn'
  <2>1. \A d \in calls : d.drawn <= drawn /\ d.drawn \in Nat
    BY <1>0 DEF Types, Call, CallInv
  <2> QED
    BY <1>0, <1>1, <1>4, <2>1 DEF Types
<1>9. \A d \in calls' : d.drawn # drawn' /\ (d.kind = "hub" => d.hub \in Hubs)
  <2>1. \A d \in calls : d.drawn \in Nat
    BY <1>0 DEF Types, Call
  <2> QED
    BY <1>0, <1>1, <1>4, <1>8, <2>1 DEF CallInv, Types
<1>10. CallInv'
  BY <1>8, <1>9 DEF CallInv
<1>11. \A i : InFlight(i)' = {}
  BY <1>9 DEF InFlight
<1>12. RowInv'
  BY <1>4, <1>11 DEF RowInv
<1>13. CountInv'
  BY <1>0, <1>1, EndCounts
<1> QED
  BY <1>7, <1>10, <1>12, <1>13 DEF Inv

(* The details of a spoke arrive, or an error does.                        *)
LEMMA SpokeStep == Inv /\ (\E c \in calls : SpokeArrives(c) \/ SpokeFails(c)) => Inv'
<1> SUFFICES ASSUME Inv, NEW c \in calls, SpokeArrives(c) \/ SpokeFails(c) PROVE Inv'
  OBVIOUS
<1>0. Types /\ CountInv /\ CallInv /\ RowInv
  BY DEF Inv
<1>1. /\ c.kind = "spoke" /\ calls' = calls \ {c}
      /\ UNCHANGED <<ids, clicks, page, shown, drawn, cachedHubs, cachedSpokes>>
  BY DEF SpokeArrives, SpokeFails, Ends, caches
<1>2. c.spoke \in Spokes \cup {None} /\ c \in Call
  BY <1>0 DEF Types, Call
<1> DEFINE mine(i) == i = c.row /\ c.drawn = drawn
<1>3. /\ DOMAIN rows' = DOMAIN rows /\ rows' = [i \in DOMAIN rows |-> rows'[i]]
      /\ \A i \in DOMAIN rows :
           /\ rows'[i] \in Row
           /\ rows'[i].spoke = rows[i].spoke /\ rows'[i].loaded = rows[i].loaded
           /\ ~mine(i) => rows'[i].detail = rows[i].detail /\ rows'[i].brief = rows[i].brief
           /\ mine(i) => \/ rows'[i].detail = Failed
                         \/ rows'[i].detail = c.spoke /\ rows'[i].brief = Brief(i)
  <2>1. \A i \in DOMAIN rows : rows[i] \in Row /\ Brief(i) \in Spokes \cup {None}
    BY <1>0 DEF Types, Brief
  <2> HIDE DEF mine
  <2>2. CASE SpokeFails(c)
    <3>1. rows' = [i \in DOMAIN rows |->
                    IF mine(i) THEN [rows[i] EXCEPT !.detail = Failed] ELSE rows[i]]
      BY <2>2 DEF SpokeFails, mine
    <3> QED
      BY <2>1, <3>1 DEF Row
  <2>3. CASE SpokeArrives(c)
    <3> DEFINE counted(i) == IF i = c.row THEN [rows[i] EXCEPT !.badge = c.spoke] ELSE rows[i]
    <3>1. \A i \in DOMAIN rows :
            /\ counted(i) \in Row
            /\ counted(i).spoke = rows[i].spoke /\ counted(i).loaded = rows[i].loaded
            /\ counted(i).detail = rows[i].detail /\ counted(i).brief = rows[i].brief
      BY <1>2, <2>1 DEF Row
    <3>2. rows' = [i \in DOMAIN rows |->
                    IF mine(i) THEN [counted(i) EXCEPT !.detail = c.spoke, !.brief = Brief(i)]
                               ELSE counted(i)]
      BY <2>3 DEF SpokeArrives, mine
    <3> HIDE DEF counted
    <3> QED
      BY <1>2, <2>1, <3>1, <3>2 DEF Row
  <2> QED
    BY <2>2, <2>3
<1>4. Types'
  <2>1. rows' \in Seq(Row)
    BY <1>0, <1>3, RowsMapped DEF Types
  <2>2. rows = <<>> => rows' = <<>>
    BY <1>3
  <2> QED
    BY <1>0, <1>1, <2>1, <2>2 DEF Types
<1>5. CallInv'
  BY <1>0, <1>1, <1>3 DEF CallInv
<1>6. RowInv'
  <2> SUFFICES ASSUME NEW i \in DOMAIN rows'
               PROVE
        /\ i \in DOMAIN cachedSpokes' /\ cachedSpokes'[i] = rows'[i].spoke
        /\ \/ rows'[i].detail \in {None, Failed}
           \/ rows'[i].detail = rows'[i].spoke /\ rows'[i].brief = rows'[i].spoke
        /\ ~rows'[i].loaded => InFlight(i)' = {} /\ rows'[i].detail = None
        /\ rows'[i].detail # None => InFlight(i)' = {}
        /\ rows'[i].loaded /\ rows'[i].detail = None => InFlight(i)' # {}
        /\ \A d, e \in InFlight(i)' : d = e
    BY DEF RowInv
  <2>1. i \in DOMAIN rows
    BY <1>3
  <2>2. InFlight(i)' = InFlight(i) \ {c}
    BY <1>1 DEF InFlight
  <2>3. CASE ~mine(i)
    <3>1. rows'[i].detail = rows[i].detail /\ rows'[i].brief = rows[i].brief
            /\ rows'[i].spoke = rows[i].spoke /\ rows'[i].loaded = rows[i].loaded
      BY <1>3, <2>1, <2>3
    <3>2. InFlight(i)' = InFlight(i)
      BY <1>1, <2>2, <2>3 DEF InFlight
    <3> QED
      BY <1>0, <1>1, <2>1, <3>1, <3>2 DEF RowInv
  <2>4. CASE mine(i)
    <3>1. c \in InFlight(i)
      BY <1>1, <2>4 DEF InFlight
    <3>2. InFlight(i)' = {} /\ rows[i].loaded
      BY <1>0, <2>1, <2>2, <3>1 DEF RowInv
    <3>3. c.spoke = rows[i].spoke /\ Brief(i) = rows[i].spoke
      BY <1>0, <1>1, <2>1, <2>4 DEF CallInv, RowInv, Brief
    <3>4. c.spoke # None
      <4>1. rows[i] \in Row
        BY <1>0, <2>1 DEF Types
      <4> QED
        BY <3>3, <4>1, ModelValues DEF Row
    <3>5. rows'[i].detail # None
      BY <1>3, <2>1, <2>4, <3>4, ModelValues
    <3>6. i \in DOMAIN cachedSpokes' /\ cachedSpokes'[i] = rows'[i].spoke
      BY <1>0, <1>1, <1>3, <2>1 DEF RowInv
    <3> QED
      BY <1>3, <2>1, <2>4, <3>2, <3>3, <3>5, <3>6
  <2> QED
    BY <2>3, <2>4
<1>7. CountInv'
  BY <1>0, <1>1, EndCounts
<1> QED
  BY <1>4, <1>5, <1>6, <1>7 DEF Inv

(* The page as it is loaded.                                               *)
LEMMA InitInv == Init => Inv
<1> SUFFICES ASSUME Init PROVE Inv
  OBVIOUS
<1>1. DOMAIN rows = {} /\ rows \in Seq(Row) /\ cachedSpokes \in Seq(Spokes)
  <2>1. DOMAIN <<>> = {}
    OBVIOUS
  <2> QED
    BY <2>1 DEF Init
<1>2. PICK c \in Call : calls = {c} /\ c.kind = "config" /\ c.drawn = 0
  <2> DEFINE c == [id |-> 1, kind |-> "config", hub |-> None, drawn |-> 0, row |-> 0, spoke |-> None]
  <2>1. c \in Call /\ c.kind = "config" /\ c.drawn = 0
    BY DEF Call
  <2>2. calls = {c}
    BY DEF Init
  <2> QED
    BY <2>1, <2>2
<1>3. Types
  BY <1>1, <1>2, MaxClicksAssumption DEF Init, Types
<1>4. CountInv
  <2>1. Pending(calls) = {c} /\ IsFiniteSet({c}) /\ Cardinality({c}) = 1
    BY <1>2, FS_Singleton DEF Pending
  <2>2. ids = 1 /\ clicks = 0
    BY DEF Init
  <2>3. ids + Cardinality(Pending(calls)) <= 2 * clicks + 2
    BY <2>1, <2>2
  <2> QED
    BY <1>2, <2>1, <2>3 DEF CountInv
<1>5. CallInv /\ RowInv
  BY <1>1, <1>2 DEF CallInv, RowInv, Init
<1> QED
  BY <1>3, <1>4, <1>5 DEF Inv

(* Every step keeps the invariant.                                         *)
LEMMA InvStep == Inv /\ [Next]_vars => Inv'
<1>1. Inv /\ UNCHANGED vars => Inv'
  BY DEF vars, dom, caches, Inv, Types, CountInv, Pending, CallInv, RowInv, InFlight
<1> QED
  BY <1>1, ClickStep, ToggleStep, AnswerStep, HubStep, SpokeStep DEF Next, Settles

(* The state is well typed; a click makes two calls at most.               *)
THEOREM TypeCorrect == Spec => []TypeOK
<1>1. Inv => TypeOK
  <2> SUFFICES ASSUME Inv PROVE TypeOK
    OBVIOUS
  <2>1. Cardinality(Pending(calls)) \in Nat
    BY CallAdded DEF Inv, CountInv
  <2>2. clicks \in 0 .. MaxClicks /\ ids \in Nat \ {0}
          /\ ids + Cardinality(Pending(calls)) <= 2 * clicks + 2
    BY DEF Inv, Types, CountInv
  <2>3. ids \in 1 .. 2 * MaxClicks + 2
    BY <2>1, <2>2, MaxClicksAssumption
  <2> QED
    BY <2>3 DEF Inv, Types, TypeOK
<1> QED
  BY <1>1, InitInv, InvStep, PTL DEF Spec

(* Whatever page is drawn while they are on their way, the details and the *)
(* labels under a row are of the row's spoke.                              *)
THEOREM DetailsOfTheirSpokeHolds == Spec => []DetailsOfTheirSpoke
<1>1. Inv => DetailsOfTheirSpoke
  BY DEF Inv, RowInv, DetailsOfTheirSpoke
<1> QED
  BY <1>1, InitInv, InvStep, PTL DEF Spec

(* However often a row is opened and closed, its details are asked for     *)
(* once, and from then on they are on their way, or there, or their error  *)
(* is.                                                                     *)
THEOREM LoadedOnceHolds == Spec => []LoadedOnce
<1>1. Inv => LoadedOnce
  <2> SUFFICES ASSUME Inv, NEW i \in DOMAIN rows
               PROVE  Cardinality(InFlight(i)) + (IF rows[i].detail = None THEN 0 ELSE 1)
                        = IF rows[i].loaded THEN 1 ELSE 0
    BY DEF LoadedOnce
  <2>1. RowInv
    BY DEF Inv
  <2>2. Cardinality({}) = 0
    BY FS_EmptySet
  <2>3. CASE rows[i].detail # None
    BY <2>1, <2>2, <2>3 DEF RowInv
  <2>4. CASE rows[i].detail = None /\ ~rows[i].loaded
    BY <2>1, <2>2, <2>4 DEF RowInv
  <2>5. CASE rows[i].detail = None /\ rows[i].loaded
    <3>0. InFlight(i) # {} /\ \A c, d \in InFlight(i) : c = d
      BY <2>1, <2>5 DEF RowInv
    <3>1. PICK c : InFlight(i) = {c}
      <4>1. PICK c \in InFlight(i) : TRUE
        BY <3>0
      <4>2. InFlight(i) = {c}
        BY <3>0
      <4> QED
        BY <4>2
    <3>2. Cardinality({c}) = 1
      BY FS_Singleton
    <3> QED
      BY <2>5, <3>1, <3>2
  <2> QED
    BY <2>3, <2>4, <2>5
<1> QED
  BY <1>1, InitInv, InvStep, PTL DEF Spec

(* "Loading" is never shown without a call in flight whose answer, or      *)
(* error, takes it away.                                                   *)
THEOREM LoadingIsAnsweredHolds == Spec => []LoadingIsAnswered
<1>1. Init => LoadingIsAnswered
  <2> SUFFICES ASSUME Init PROVE LoadingIsAnswered
    OBVIOUS
  <2> DEFINE c == [id |-> 1, kind |-> "config", hub |-> None, drawn |-> 0, row |-> 0, spoke |-> None]
  <2>1. c.kind = "config"
    OBVIOUS
  <2>2. calls = {c}
    BY DEF Init
  <2> HIDE DEF c
  <2> QED
    BY <2>1, <2>2 DEF LoadingIsAnswered
<1>2. LoadingIsAnswered /\ [Next]_vars => LoadingIsAnswered'
  <2> SUFFICES ASSUME LoadingIsAnswered, [Next]_vars PROVE LoadingIsAnswered'
    OBVIOUS
  <2>1. ASSUME page' # "loading" PROVE LoadingIsAnswered'
    BY <2>1 DEF LoadingIsAnswered
  <2>2. ASSUME NEW others, FetchHubs(others) PROVE LoadingIsAnswered'
    <3>1. NewCall("hubs") \in calls' /\ NewCall("hubs").kind = "hubs"
      BY <2>2 DEF FetchHubs, NewCall
    <3> HIDE DEF NewCall
    <3> QED
      BY <3>1 DEF LoadingIsAnswered
  <2>3. ASSUME page' = page,
               \A c \in calls : c.kind \in {"config", "user", "hubs", "hub"} => c \in calls'
        PROVE  LoadingIsAnswered'
    BY <2>3 DEF LoadingIsAnswered
  <2>4. CASE Reload \/ ReturnToHomepage \/ ShowAddHubForm
    <3>1. ASSUME NEW hubs, RenderHubsList(hubs) PROVE LoadingIsAnswered'
      BY <2>1, <3>1 DEF RenderHubsList
    <3> QED
      BY <2>1, <2>2, <2>4, <3>1 DEF Reload, ReturnToHomepage, ShowAddHubForm, Show
  <2>5. ASSUME NEW pages, Change(pages) PROVE LoadingIsAnswered'
    BY <2>3, <2>5 DEF Change, dom
  <2>6. ASSUME NEW h \in Hubs, ShowHubDetails(h) PROVE LoadingIsAnswered'
    <3> DEFINE d == [NewCall("hub") EXCEPT !.hub = h]
    <3>1. d \in calls'
      BY <2>6 DEF ShowHubDetails
    <3>2. d.kind = "hub"
      BY DEF NewCall
    <3> HIDE DEF d
    <3> QED
      BY <3>1, <3>2 DEF LoadingIsAnswered
  <2>7. ASSUME NEW i \in DOMAIN rows, ToggleSpokeDetails(i) PROVE LoadingIsAnswered'
    BY <2>3, <2>7 DEF ToggleSpokeDetails, Toggled
  <2>8. ASSUME NEW c \in calls, ConfigArrives(c) \/ UserArrives(c) \/ LoginFails(c)
        PROVE  LoadingIsAnswered'
    <3>1. CASE Proceed(c)
      BY <2>2, <3>1 DEF Proceed
    <3>2. CASE Redirect(c)
      BY <2>1, <3>2 DEF Redirect, Show
    <3>3. CASE /\ c.kind = "config"
               /\ calls' = (calls \ {c}) \cup {[c EXCEPT !.kind = "user"]}
               /\ UNCHANGED <<dom, ids>>
      <4>1. [c EXCEPT !.kind = "user"] \in calls'
        BY <3>3
      <4>2. [c EXCEPT !.kind = "user"].kind = "user"
        OBVIOUS
      <4> QED
        BY <4>1, <4>2 DEF LoadingIsAnswered
    <3> QED
      BY <2>8, <3>1, <3>2, <3>3 DEF ConfigArrives, UserArrives, LoginFails
  <2>9. ASSUME NEW c \in calls, HubsArrive(c) \/ HubsFail(c) \/ HubArrives(c) \/ HubFails(c)
        PROVE  LoadingIsAnswered'
    BY <2>1, <2>9 DEF HubsArrive, HubsFail, HubArrives, HubFails, RenderNoHubsState,
                      RenderHubsList, RenderHubDetails, Show
  <2>10. ASSUME NEW c \in calls, ChangeSucceeds(c) PROVE LoadingIsAnswered'
    BY <2>2, <2>10 DEF ChangeSucceeds
  <2>11. ASSUME NEW c \in calls, ChangeFails(c) \/ SpokeArrives(c) \/ SpokeFails(c)
         PROVE  LoadingIsAnswered'
    BY <2>3, <2>11 DEF ChangeFails, SpokeArrives, SpokeFails, Ends, dom
  <2>12. CASE UNCHANGED vars
    BY <2>3, <2>12 DEF vars, dom
  <2> QED
    BY <2>4, <2>5, <2>6, <2>7, <2>8, <2>9, <2>10, <2>11, <2>12
       DEF Next, Settles, SubmitAddHub, RemoveHub, RefreshHub
<1> QED
  BY <1>1, <1>2, PTL DEF Spec
===============================================================================
